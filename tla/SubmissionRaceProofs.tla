------------------------- MODULE SubmissionRaceProofs -------------------------
(***************************************************************************)
(* Theorems about SubmissionRace, for every set of questions with any      *)
(* gates, any submitters and writers, and every bound on the submissions.  *)
(***************************************************************************)
EXTENDS SubmissionRace, SequenceTheorems, FiniteSetTheorems, TLAPS

USE QuestionsAssumption, SubmittersAssumption, BoundAssumption

Copies == [answers : [Questions -> Values], ready : BOOLEAN]
-----------------------------------------------------------------------------
(* Types                                                                   *)

LEMMA InitTyped == Init => TypeOK
<1>1. <<>> \in Seq(Copies)
  BY EmptySeq
<1>2. NoDraft \in Copies
  BY DEF NoDraft, Copies, Values
<1>3. NoEdit \in [question : Questions \union {Always}, value : Values]
  BY DEF NoEdit, Values
<1>4. "none" \in Values
  BY DEF Values
<1>5. ASSUME Init PROVE TypeOK
  <2>1. answers \in [Questions -> Values] /\ snapshots \in Seq(Copies)
    BY <1>1, <1>4, <1>5 DEF Init
  <2>2. draft \in [Submitters -> Copies]
    BY <1>2, <1>5 DEF Init
  <2>3. edit \in [Writers -> [question : Questions \union {Always}, value : Values]]
    BY <1>3, <1>5 DEF Init
  <2>4. QED
    BY <1>5, <2>1, <2>2, <2>3 DEF Init, TypeOK, Copies
<1>6. QED
  BY <1>5

\* A commit adds the inserted row at the end.
LEMMA SnapshotCommitted ==
    ASSUME TypeOK, NEW s \in Submitters, Commit(s)
    PROVE  /\ snapshots' \in Seq(Copies)
           /\ Len(snapshots') = Len(snapshots) + 1
           /\ Last' = draft[s]
<1>1. snapshots \in Seq(Copies) /\ draft[s] \in Copies
  BY DEF TypeOK, Copies
<1>2. snapshots' = Append(snapshots, draft[s])
  BY DEF Commit
<1>3. /\ Append(snapshots, draft[s]) \in Seq(Copies)
      /\ Len(Append(snapshots, draft[s])) = Len(snapshots) + 1
      /\ Append(snapshots, draft[s])[Len(snapshots) + 1] = draft[s]
  BY <1>1, AppendProperties
<1>4. QED
  BY <1>2, <1>3 DEF Last

LEMMA TypesInductive == ASSUME TypeOK, [Next]_vars PROVE TypeOK'
<1> USE DEF TypeOK
<1>1. ASSUME NEW s \in Submitters, Lock(s) PROVE TypeOK'
  BY <1>1 DEF Lock
<1>2. ASSUME NEW s \in Submitters, CountRequired(s) PROVE TypeOK'
  <2>1. Cardinality(Visible(answers)) \in Nat
    <3>1. IsFiniteSet(Visible(answers))
      BY FS_Subset DEF Visible
    <3>2. QED
      BY <3>1, FS_CardinalityType
  <2>2. QED
    BY <1>2, <2>1 DEF CountRequired
<1>3. ASSUME NEW s \in Submitters, CountAnswered(s) PROVE TypeOK'
  BY <1>3 DEF CountAnswered
<1>4. ASSUME NEW s \in Submitters, CountDocuments(s) PROVE TypeOK'
  BY <1>4 DEF CountDocuments
<1>5. ASSUME NEW s \in Submitters, InsertSnapshot(s) PROVE TypeOK'
  BY <1>5 DEF InsertSnapshot
<1>6. ASSUME NEW s \in Submitters, EndTransaction(s)
      PROVE  /\ lock' \in Submitters \union {Nobody}
             /\ pc' \in [Submitters -> {"idle", "locked", "required_counted", "answers_counted",
                                        "complete", "snapshot"}]
             /\ required' \in [Submitters -> Nat]
             /\ draft' \in [Submitters -> Copies]
  <2>1. NoDraft \in Copies
    BY DEF NoDraft, Copies, Values
  <2>2. QED
    BY <1>6, <2>1 DEF EndTransaction, Copies
<1>7. ASSUME NEW s \in Submitters, Commit(s) PROVE TypeOK'
  <2>1. snapshots' \in Seq(Copies)
    BY <1>7, SnapshotCommitted
  <2>2. QED
    BY <1>6, <1>7, <2>1 DEF Commit, Copies
<1>8. ASSUME NEW s \in Submitters, Rollback(s) PROVE TypeOK'
  BY <1>6, <1>8 DEF Rollback, Copies
<1>9. ASSUME NEW w \in Writers, NEW q \in Questions, NEW value \in Values, BeginWrite(w, q, value)
      PROVE  TypeOK'
  BY <1>9 DEF BeginWrite
<1>10. ASSUME NEW w \in Writers, ShareLock(w) PROVE TypeOK'
  BY <1>10 DEF ShareLock
<1>11. ASSUME NEW w \in Writers, CommitWrite(w) PROVE TypeOK'
  <2>1. NoEdit \in [question : Questions \union {Always}, value : Values]
    BY DEF NoEdit, Values
  <2>2. QED
    BY <1>11, <2>1 DEF CommitWrite
<1>12. CASE EvidenceChanges
  BY <1>12 DEF EvidenceChanges
<1>13. CASE ReturnForChanges
  BY <1>13 DEF ReturnForChanges
<1>14. CASE UNCHANGED vars
  BY <1>14 DEF vars
<1>15. QED
  BY <1>1, <1>2, <1>3, <1>4, <1>5, <1>7, <1>8, <1>9, <1>10, <1>11, <1>12, <1>13, <1>14 DEF Next

\* Every reachable state is well typed.
THEOREM TypeCorrect == Spec => []TypeOK
BY InitTyped, TypesInductive, PTL DEF Spec

-----------------------------------------------------------------------------
(* One snapshot per turn                                                   *)

\* The row lock is held exactly while a submission is in progress.
LockHeld == \A s \in Submitters : lock = s <=> pc[s] # "idle"

LEMMA TurnsInductive ==
    ASSUME TypeOK, OneSnapshotPerTurn, LockHeld, [Next]_vars
    PROVE  OneSnapshotPerTurn' /\ LockHeld'
<1> USE DEF TypeOK, OneSnapshotPerTurn, LockHeld
<1>1. ASSUME NEW s \in Submitters, Lock(s) PROVE (OneSnapshotPerTurn /\ LockHeld)'
  BY <1>1 DEF Lock
<1>2. ASSUME NEW s \in Submitters,
             \/ CountRequired(s) \/ CountAnswered(s) \/ CountDocuments(s) \/ InsertSnapshot(s)
      PROVE  (OneSnapshotPerTurn /\ LockHeld)'
  BY <1>2 DEF CountRequired, CountAnswered, CountDocuments, InsertSnapshot
<1>3. ASSUME NEW s \in Submitters, Commit(s) PROVE (OneSnapshotPerTurn /\ LockHeld)'
  <2>1. Len(snapshots') = Len(snapshots) + 1
    BY <1>3, SnapshotCommitted
  <2>2. status = "editable"
    BY <1>3 DEF Commit
  <2>3. Len(snapshots) = returned
    BY <2>2
  <2>4. status' = "submitted" /\ returned' = returned
    BY <1>3 DEF Commit
  <2>5. Len(snapshots') = returned' + (IF status' = "submitted" THEN 1 ELSE 0)
    BY <2>1, <2>3, <2>4
  <2>6. lock = s
    BY <1>3 DEF Commit
  <2>7. \A r \in Submitters : pc'[r] = "idle" /\ lock' # r
    BY <1>3, <2>6 DEF Commit, EndTransaction
  <2>8. QED
    BY <2>5, <2>7
<1>4. ASSUME NEW s \in Submitters, Rollback(s) PROVE (OneSnapshotPerTurn /\ LockHeld)'
  BY <1>4 DEF Rollback, EndTransaction
<1>5. CASE ReturnForChanges
  <2>1. Len(snapshots) = returned + 1 /\ snapshots' = snapshots
    BY <1>5 DEF ReturnForChanges
  <2>2. status' = "editable" /\ returned' = returned + 1 /\ UNCHANGED <<lock, pc>>
    BY <1>5 DEF ReturnForChanges
  <2>3. Len(snapshots') = returned' + (IF status' = "submitted" THEN 1 ELSE 0)
    BY <2>1, <2>2
  <2>4. QED
    BY <2>2, <2>3
<1>6. ASSUME UNCHANGED <<status, snapshots, returned, lock, pc>>
      PROVE  (OneSnapshotPerTurn /\ LockHeld)'
  BY <1>6
<1>7. QED
  BY <1>1, <1>2, <1>3, <1>4, <1>5, <1>6
     DEF Next, vars, BeginWrite, ShareLock, CommitWrite, EvidenceChanges

LEMMA TurnsAlways == Spec => [](TypeOK /\ OneSnapshotPerTurn /\ LockHeld)
<1>1. Init => OneSnapshotPerTurn /\ LockHeld
  <2>1. Len(<<>>) = 0
    BY EmptySeq
  <2>2. QED
    BY <2>1 DEF Init, OneSnapshotPerTurn, LockHeld
<1>2. QED
  BY <1>1, TypeCorrect, TurnsInductive, PTL DEF Spec

\* However many people press Submit at once, every turn of the assessment to the
\* buyer has one snapshot, and whoever is submitting holds the row lock of an
\* editable assessment.
THEOREM OneSnapshot == Spec => []OneSnapshotPerTurn
BY TurnsAlways, PTL

-----------------------------------------------------------------------------
(* An undisturbed submission is exact                                      *)

LEMMA VisibleFinite == IsFiniteSet(Visible(answers)) /\ AnsweredRequired(answers) \subseteq Visible(answers)
BY FS_Subset DEF Visible, AnsweredRequired

\* What the counted numbers say of the rows while nothing has been committed
\* beside the submission: each statement has seen the rows the next one sees.
CountsHold ==
    \A s \in Submitters : lock = s /\ ~ disturbed =>
        /\ pc[s] = "required_counted" => required[s] = Cardinality(Visible(answers))
        /\ pc[s] \in {"answers_counted", "complete", "snapshot"} => Complete(answers)
        /\ pc[s] \in {"complete", "snapshot"} => ready
        /\ pc[s] = "snapshot" => draft[s] = [answers |-> answers, ready |-> ready]

LEMMA ExactInductive ==
    ASSUME TypeOK, OneSnapshotPerTurn, LockHeld, CountsHold, UndisturbedSubmissionIsExact, [Next]_vars
    PROVE  CountsHold' /\ UndisturbedSubmissionIsExact'
<1> DEFINE Exact == (CountsHold /\ UndisturbedSubmissionIsExact)'
<1> USE DEF TypeOK, OneSnapshotPerTurn, LockHeld, CountsHold, UndisturbedSubmissionIsExact, Last
<1>1. ASSUME NEW s \in Submitters, Lock(s) PROVE Exact
  BY <1>1 DEF Lock
<1>2. ASSUME NEW s \in Submitters, CountRequired(s) PROVE Exact
  BY <1>2 DEF CountRequired
<1>3. ASSUME NEW s \in Submitters, CountAnswered(s) PROVE Exact
  <2>1. required[s] = Cardinality(Visible(answers)) => Complete(answers)
    BY <1>3, VisibleFinite, FS_Subset DEF CountAnswered, Complete
  <2>2. QED
    BY <1>3, <2>1 DEF CountAnswered
<1>4. ASSUME NEW s \in Submitters, CountDocuments(s) PROVE Exact
  BY <1>4 DEF CountDocuments
<1>5. ASSUME NEW s \in Submitters, InsertSnapshot(s) PROVE Exact
  BY <1>5 DEF InsertSnapshot
<1>6. ASSUME NEW s \in Submitters, Commit(s) PROVE Exact
  <2>1. lock = s /\ lock' = Nobody /\ pc[s] = "snapshot"
    BY <1>6 DEF Commit, EndTransaction
  <2>2. Last' = draft[s]
    BY <1>6, SnapshotCommitted
  <2>3. UndisturbedSubmissionIsExact'
    <3>1. ~ disturbed => /\ draft[s] = [answers |-> answers, ready |-> ready]
                         /\ Complete(answers) /\ ready
      BY <2>1
    <3>2. UNCHANGED <<answers, disturbed>>
      BY <1>6 DEF Commit
    <3>3. QED
      BY <2>2, <3>1, <3>2 DEF Complete, AnsweredRequired, Visible
  <2>4. QED
    BY <2>1, <2>3
<1>7. ASSUME NEW s \in Submitters, Rollback(s) PROVE Exact
  BY <1>7 DEF Rollback, EndTransaction
<1>8. ASSUME NEW w \in Writers, CommitWrite(w) PROVE Exact
  <2>1. CASE lock = Nobody /\ status = "editable"
    BY <1>8, <2>1 DEF CommitWrite
  <2>2. CASE lock # Nobody \/ status = "submitted"
    BY <1>8, <2>2 DEF CommitWrite
  <2>3. QED
    BY <2>1, <2>2
<1>9. CASE EvidenceChanges
  BY <1>9 DEF EvidenceChanges
<1>10. CASE ReturnForChanges
  BY <1>10 DEF ReturnForChanges
<1>11. ASSUME UNCHANGED <<status, answers, ready, snapshots, lock, pc, required, draft, disturbed>>
       PROVE  Exact
  BY <1>11
<1>12. QED
  BY <1>1, <1>2, <1>3, <1>4, <1>5, <1>6, <1>7, <1>8, <1>9, <1>10, <1>11
     DEF Next, vars, BeginWrite, ShareLock

LEMMA ExactAlways == Spec => [](CountsHold /\ UndisturbedSubmissionIsExact)
<1>1. Init => CountsHold /\ UndisturbedSubmissionIsExact
  BY DEF Init, CountsHold, UndisturbedSubmissionIsExact
<1>2. QED
  BY <1>1, TurnsAlways, ExactInductive, PTL DEF Spec

\* AssessmentWorkflow takes a submission for one step: with nothing committed
\* beside it or after it, the snapshot equals the rows, answers every visible
\* question and has the documents.
THEOREM UndisturbedIsExact == Spec => []UndisturbedSubmissionIsExact
BY ExactAlways, PTL

-----------------------------------------------------------------------------
(* Qualification                                                           *)

\* Only a commit, a return for changes and a row written are seen from outside.
LEMMA PromiseKept ==
    ASSUME TypeOK, OneSnapshotPerTurn, LockHeld, CountsHold, [Next]_vars
    PROVE  [disturbed' \/ Promise!Next]_<<TheTurn, TheSheet>>
<1> DEFINE Kept == [disturbed' \/ Promise!Next]_<<TheTurn, TheSheet>>
<1>1. ASSUME NEW s \in Submitters, Commit(s) PROVE Kept
  <2>1. lock = s /\ pc[s] = "snapshot" /\ status = "editable"
    BY <1>1 DEF Commit, LockHeld, OneSnapshotPerTurn
  <2>2. status' = "submitted" /\ UNCHANGED <<answers, disturbed>>
    BY <1>1 DEF Commit
  <2>3. CASE ~ disturbed
    <3>1. answers \in [Questions -> Values] /\ Complete(answers)
      BY <2>1, <2>3 DEF CountsHold, TypeOK
    <3>2. TheTurn = [a \in {"assessment"} |-> "supplier"] /\ TheSheet = [a \in {"assessment"} |-> {}]
      BY <2>1 DEF TheTurn, TheSheet
    <3>3. /\ TheTurn' = [a \in {"assessment"} |-> "buyer"]
          /\ TheSheet' = [a \in {"assessment"} |-> {answers}]
      BY <2>2 DEF TheTurn, TheSheet
    <3>4. Promise!Submit("assessment")
      BY <3>1, <3>2, <3>3 DEF Promise!Submit
    <3>5. QED
      BY <3>4 DEF Promise!Next
  <2>4. QED
    BY <2>2, <2>3
<1>2. CASE ReturnForChanges
  <2>1. status = "submitted" /\ status' = "editable"
    BY <1>2 DEF ReturnForChanges
  <2>2. TheTurn = [a \in {"assessment"} |-> "buyer"] /\ TheTurn' = [a \in {"assessment"} |-> "supplier"]
    BY <2>1 DEF TheTurn
  <2>3. TheSheet = [a \in {"assessment"} |-> {answers}] /\ TheSheet' = [a \in {"assessment"} |-> {}]
    BY <2>1 DEF TheSheet
  <2>4. Promise!SendBack("assessment")
    BY <2>2, <2>3 DEF Promise!SendBack
  <2>5. QED
    BY <2>4 DEF Promise!Next
<1>3. ASSUME NEW w \in Writers, CommitWrite(w) PROVE Kept
  <2>1. CASE status = "submitted"
    BY <1>3, <2>1 DEF CommitWrite
  <2>2. CASE status # "submitted"
    BY <1>3, <2>2 DEF CommitWrite, TheTurn, TheSheet
  <2>3. QED
    BY <2>1, <2>2
<1>4. ASSUME UNCHANGED <<status, answers>> PROVE Kept
  BY <1>4 DEF TheTurn, TheSheet
<1>5. QED
  BY <1>1, <1>2, <1>3, <1>4
     DEF Next, vars, Lock, CountRequired, CountAnswered, CountDocuments, InsertSnapshot,
         Rollback, BeginWrite, ShareLock, EvidenceChanges

\* The statements of any number of submitters and writers implement the turns of
\* Qualification, but for rows and evidence committed beside a submission or
\* after it.
THEOREM ImplementsPromise == Spec => KeepsThePromise
BY TurnsAlways, ExactAlways, PromiseKept, PTL DEF Spec, KeepsThePromise
=============================================================================
