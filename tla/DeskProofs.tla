------------------------------ MODULE DeskProofs -------------------------------
(***************************************************************************)
(* Theorems about the pages of the two sides: SupplierDesk, for any         *)
(* questions with any gates and types, and ReviewDesk, for any roles,       *)
(* severities and numbers of findings and requests.                        *)
(***************************************************************************)
EXTENDS SupplierDesk, SequenceTheorems, FiniteSetTheorems, TLAPS

USE DeskAssumption

FieldValues == {"blank", "yes", "no", "none", "picked"}

-----------------------------------------------------------------------------
(* Values of fields and rows                                               *)

\* What the triggers accept of a field's value is an answer, and is shown again
\* as it was.
LEMMA StoredAnswer ==
    ASSUME NEW q \in Questions, NEW value \in Answers(q), Storable(Draft(value))
    PROVE  /\ value \in RowAnswers(q) /\ value # "absent"
           /\ FieldOf(q, value) = value /\ Draft(value) = value
BY DEF Answers, Storable, Draft, RowAnswers, FieldOf

LEMMA ShownRow ==
    ASSUME NEW q \in Questions, NEW row \in RowAnswers(q)
    PROVE  FieldOf(q, row) \in Answers(q)
BY DEF Answers, RowAnswers, FieldOf

LEMMA AnswersAreValues == \A q \in Questions : Answers(q) \subseteq FieldValues
BY DEF Answers, FieldValues

LEMMA RowsChanged ==
    ASSUME NEW r \in Rows, NEW q \in Questions, NEW answer \in RowAnswers(q)
    PROVE  [r EXCEPT ![q] = answer] \in Rows
<1>1. answer \in {"absent", "yes", "no", "none"}
  BY DEF RowAnswers
<1>2. QED
  BY <1>1 DEF Rows

LEMMA MountedTyped ==
    ASSUME NEW r \in Rows, Mounted(r)
    PROVE  /\ field' \in [Questions -> FieldValues]
           /\ \A q \in Questions : field'[q] \in Answers(q)
           /\ label' \in [Questions -> {"idle", "saving", "saved", "error"}]
           /\ disturbed' \subseteq Questions
<1>1. \A q \in Questions : FieldOf(q, r[q]) \in Answers(q)
  BY ShownRow DEF Rows
<1>2. QED
  BY <1>1, AnswersAreValues DEF Mounted

\* A save that makes progress, or answers nobody any more, stays the same save.
LEMMA SaveKept ==
    ASSUME NEW s \in Saves,
           NEW phase \in {"sent", "checked", "stored", "refused", "refreshing"}
    PROVE  /\ [s EXCEPT !.phase = phase] \in Saves /\ [s EXCEPT !.orphan = TRUE] \in Saves
           /\ [s EXCEPT !.phase = phase].question = s.question
           /\ [s EXCEPT !.phase = phase].value = s.value
           /\ [s EXCEPT !.phase = phase].phase = phase
           /\ [s EXCEPT !.phase = phase].orphan = s.orphan
           /\ [s EXCEPT !.orphan = TRUE].question = s.question
           /\ [s EXCEPT !.orphan = TRUE].value = s.value
           /\ [s EXCEPT !.orphan = TRUE].phase = s.phase
           /\ [s EXCEPT !.orphan = TRUE].orphan
BY DEF Saves

LEMMA SentKept ==
    ASSUME NEW s \in Saves, Sendable(s),
           NEW phase \in {"sent", "checked", "stored", "refused", "refreshing"},
           phase = "checked" => Storable(Draft(s.value))
    PROVE  Sendable([s EXCEPT !.phase = phase]) /\ Sendable([s EXCEPT !.orphan = TRUE])
<1> DEFINE moved == [s EXCEPT !.phase = phase]
           gone  == [s EXCEPT !.orphan = TRUE]
<1>1. moved.question = s.question /\ moved.value = s.value /\ moved.phase = phase
  BY SaveKept
<1>2. gone.question = s.question /\ gone.value = s.value /\ gone.phase = s.phase
  BY SaveKept
<1> HIDE DEF moved, gone
<1>3. Sendable(moved) /\ Sendable(gone)
  BY <1>1, <1>2 DEF Sendable
<1>4. QED
  BY <1>3 DEF moved, gone

LEMMA UnmountedTyped ==
    ASSUME saves \subseteq Saves, \A s \in saves : Sendable(s), Unmounted
    PROVE  /\ saves' \subseteq Saves /\ \A s \in saves' : Sendable(s)
           /\ timers' = {} /\ dialog' = FALSE /\ disturbed' = {}
           /\ field' \in [Questions -> FieldValues]
           /\ \A q \in Questions : field'[q] \in Answers(q)
           /\ label' \in [Questions -> {"idle", "saving", "saved", "error"}]
<1>1. ASSUME NEW t \in saves' PROVE t \in Saves /\ Sendable(t)
  <2>1. PICK s \in saves : t = [s EXCEPT !.orphan = TRUE]
    BY DEF Unmounted
  <2>2. s \in Saves /\ Sendable(s) /\ (s.phase = "checked" => Storable(Draft(s.value)))
    BY DEF Sendable
  <2>3. s.phase \in {"sent", "checked", "stored", "refused", "refreshing"}
    BY <2>2 DEF Saves
  <2>4. QED
    BY <2>1, <2>2, <2>3, SaveKept, SentKept
<1>2. \A q \in Questions : FieldOf(q, "absent") \in Answers(q)
  BY ShownRow DEF RowAnswers
<1>3. QED
  BY <1>1, <1>2, AnswersAreValues DEF Unmounted

\* Counting the visible questions, and their answers.
LEMMA Counted ==
    ASSUME NEW r \in Rows
    PROVE  /\ Cardinality(Required(r)) \in Nat
           /\ Cardinality(Answered(r)) = Cardinality(Required(r)) => Answered(r) = Required(r)
<1>1. IsFiniteSet(Required(r)) /\ Cardinality(Required(r)) \in Nat
  BY FS_Subset, FS_CardinalityType DEF Required
<1>2. Answered(r) \subseteq Required(r)
  BY DEF Answered
<1>3. QED
  BY <1>1, <1>2, FS_Subset

-----------------------------------------------------------------------------
(* Types                                                                   *)

LEMMA InitTyped == Init => TypeOK
<1> SUFFICES ASSUME Init PROVE TypeOK
  OBVIOUS
<1>1. rows \in Rows /\ snapshots \in Seq(Rows) /\ Len(snapshots) = 0
  BY EmptySeq DEF Init
<1>2. view \in Views /\ fetch \in Fetches /\ tx \in Txs
  BY <1>1 DEF Init, Views, Fetches, Txs, Loaded, NoFetch, NoTx
<1>3. \A q \in Questions : FieldOf(q, rows[q]) \in Answers(q)
  BY <1>1, ShownRow DEF Rows
<1>4. field \in [Questions -> FieldValues] /\ \A q \in Questions : field[q] \in Answers(q)
  BY <1>3, AnswersAreValues DEF Init
<1>5. QED
  BY <1>1, <1>2, <1>4 DEF Init, TypeOK, FieldValues

LEMMA LoadedTyped == TypeOK => Loaded \in Views
BY LenProperties DEF TypeOK, Loaded, Views

LEMMA FetchTyped == NoFetch \in Fetches /\ Asked \in Fetches
BY DEF Asked, NoFetch, Fetches

\* A row that is committed.
LEMMA WriteTyped ==
    ASSUME rows \in Rows, overtaken \subseteq Questions,
           NEW q \in Questions, NEW value \in Answers(q), Storable(Draft(value)),
           Write(q, Draft(value))
    PROVE  rows' \in Rows /\ overtaken' \subseteq Questions
<1>1. Draft(value) \in RowAnswers(q)
  BY StoredAnswer
<1>2. QED
  BY <1>1, RowsChanged DEF Write

\* The user at the page.
LEMMA UserTyped ==
    ASSUME TypeOK,
           \/ \E q \in Questions : \E value \in Answers(q) : Edit(q, value)
           \/ Refresh \/ Declare \/ OpenDialog \/ Confirm \/ Cancel
           \/ Leave \/ Return
    PROVE  TypeOK'
<1> USE DEF TypeOK, Sendable, server, form
<1>1. ASSUME NEW q \in Questions, NEW value \in Answers(q), Edit(q, value) PROVE TypeOK'
  BY <1>1, AnswersAreValues DEF Edit, FieldValues
<1>2. CASE Refresh \/ Declare \/ OpenDialog \/ Confirm \/ Cancel
  BY <1>2, FetchTyped DEF Refresh, Declare, OpenDialog, Confirm, Cancel
<1>3. CASE Leave
  <2>1. fetch' = NoFetch /\ page' = "away" /\ declared' = FALSE /\ faults' \in Nat
    BY <1>3 DEF Leave
  <2>2. UNCHANGED <<server, role, view, submission, edits>> /\ Unmounted
    BY <1>3 DEF Leave
  <2>3. QED
    BY <2>1, <2>2, UnmountedTyped, FetchTyped DEF FieldValues
<1>4. CASE Return
  <2>1. view.rows \in Rows
    BY DEF Views
  <2>2. QED
    BY <1>4, <2>1, MountedTyped, FetchTyped DEF Return, FieldValues
<1>5. QED
  BY <1>1, <1>2, <1>3, <1>4

\* Timers and saves.
LEMMA SaveTyped ==
    ASSUME TypeOK,
           SomeTimer \/ SomeStore \/ SomeAnswer \/ \E s \in saves : LoseSave(s)
    PROVE  TypeOK'
<1> USE DEF TypeOK, server, form
<1>1. ASSUME NEW q \in Questions, TimerFires(q) PROVE TypeOK'
  <2> DEFINE new == [question |-> q, value |-> field[q], edit |-> edits, phase |-> "sent", orphan |-> FALSE]
  <2>1. new \in Saves /\ Sendable(new)
    BY DEF Saves, Sendable
  <2>2. saves' = saves \union {new}
    BY <1>1 DEF TimerFires
  <2> HIDE DEF new
  <2>3. saves' \subseteq Saves /\ \A t \in saves' : Sendable(t)
    BY <2>1, <2>2
  <2>4. /\ label' \in [Questions -> {"idle", "saving", "saved", "error"}]
        /\ timers' \subseteq Questions /\ disturbed' \subseteq Questions
    BY <1>1 DEF TimerFires
  <2>5. UNCHANGED <<server, field, role, page, view, fetch, declared, dialog, submission, edits, faults>>
    BY <1>1 DEF TimerFires
  <2>6. QED
    BY <2>3, <2>4, <2>5 DEF Sendable
<1>2. ASSUME NEW s \in saves, CheckSave(s) PROVE TypeOK'
  <2>1. s \in Saves /\ s.value \in Answers(s.question)
    BY DEF Sendable
  <2>2. PICK phase \in {"checked", "refused"} :
           /\ saves' = (saves \ {s}) \union {[s EXCEPT !.phase = phase]}
           /\ phase = "checked" => Storable(Draft(s.value))
    BY <1>2 DEF CheckSave, Accepts
  <2> DEFINE next == [s EXCEPT !.phase = phase]
  <2>3. next \in Saves /\ Sendable(next)
    BY <2>1, <2>2, SaveKept, SentKept
  <2>4. saves' \subseteq saves \union {next}
    BY <2>2
  <2> HIDE DEF next
  <2>5. saves' \subseteq Saves /\ \A t \in saves' : Sendable(t)
    BY <2>3, <2>4
  <2>6. UNCHANGED <<server, field, timers, label, role, page, view, fetch, declared, dialog,
                    submission, edits, faults, disturbed>>
    BY <1>2 DEF CheckSave
  <2>7. QED
    BY <2>5, <2>6 DEF Sendable
<1>3. ASSUME NEW s \in saves, CommitSave(s) PROVE TypeOK'
  <2>1. /\ s \in Saves /\ s.question \in Questions /\ s.value \in Answers(s.question)
        /\ Storable(Draft(s.value))
    BY <1>3 DEF CommitSave, Sendable, Saves
  <2> DEFINE next == [s EXCEPT !.phase = "stored"]
  <2>2. next \in Saves /\ Sendable(next)
    BY <2>1, SaveKept, SentKept
  <2>3. saves' \subseteq saves \union {next}
    BY <1>3 DEF CommitSave
  <2> HIDE DEF next
  <2>4. saves' \subseteq Saves /\ \A t \in saves' : Sendable(t)
    BY <2>2, <2>3
  <2>5. rows' \in Rows /\ overtaken' \subseteq Questions
    BY <1>3, <2>1, WriteTyped DEF CommitSave
  <2>6. disturbed' \subseteq Questions
    BY <1>3, <2>1 DEF CommitSave, Disturbed
  <2>7. UNCHANGED <<status, evidence, snapshots, tx, others, field, timers, label, role, page,
                    view, fetch, declared, dialog, submission, edits, faults>>
    BY <1>3 DEF CommitSave
  <2>8. QED
    BY <2>4, <2>5, <2>6, <2>7
<1>4. Saved \in [Questions -> {"idle", "saving", "saved", "error"}]
  BY DEF Saved
<1>5. ASSUME NEW s \in saves, AnswerSave(s) PROVE TypeOK'
  <2>1. s \in Saves /\ s.question \in Questions /\ s.value \in Answers(s.question)
    BY DEF Saves, Sendable
  <2> DEFINE next == [s EXCEPT !.phase = "refreshing"]
  <2>2. next \in Saves /\ Sendable(next)
    BY <2>1, SaveKept, SentKept
  <2>3. saves' \subseteq saves \union {next}
    BY <1>5 DEF AnswerSave
  <2> HIDE DEF next
  <2>4. saves' \subseteq Saves /\ \A t \in saves' : Sendable(t)
    BY <2>2, <2>3
  <2>5. label' \in [Questions -> {"idle", "saving", "saved", "error"}] /\ fetch' \in Fetches
    BY <1>4, <1>5, FetchTyped DEF AnswerSave
  <2>6. QED
    BY <1>5, <2>4, <2>5 DEF AnswerSave
<1>6. ASSUME NEW s \in saves, LoseSave(s) PROVE TypeOK'
  <2>1. saves' \subseteq Saves /\ \A t \in saves' : Sendable(t)
    BY <1>6 DEF LoseSave
  <2>2. label' \in [Questions -> {"idle", "saving", "saved", "error"}]
    BY <1>6 DEF LoseSave
  <2>3. others' \subseteq Writes /\ \A w \in others' : w.value \in Answers(w.question) /\ Storable(Draft(w.value))
    <3>1. s.question \in Questions /\ s.value \in FieldValues
      BY DEF Saves, FieldValues
    <3>2. s.value \in Answers(s.question) /\ (s.phase = "checked" => Storable(Draft(s.value)))
      BY DEF Sendable
    <3>3. QED
      BY <1>6, <3>1, <3>2 DEF LoseSave, Writes, FieldValues
  <2>4. faults' \in Nat /\ UNCHANGED <<status, rows, evidence, snapshots, tx, overtaken, field, timers,
                    role, page, view, fetch, declared, dialog, submission, edits, disturbed>>
    BY <1>6 DEF LoseSave
  <2>5. QED
    BY <2>1, <2>2, <2>3, <2>4
<1>7. QED
  BY <1>1, <1>2, <1>3, <1>5, <1>6 DEF SomeTimer, SomeStore, SomeAnswer

\* Reloads and the submission.
LEMMA PageTyped ==
    ASSUME TypeOK, Reads \/ ReloadFails \/ SubmitAnswered
    PROVE  TypeOK'
<1> USE DEF TypeOK, server, form
<1>1. Saved \in [Questions -> {"idle", "saving", "saved", "error"}]
  BY DEF Saved
<1>2. CASE ReadAssessment
  BY <1>2, LenProperties DEF ReadAssessment, Fetches
<1>3. CASE ReadRest
  <2>1. view' \in Views
    BY <1>3, LoadedTyped DEF ReadRest, Views, Fetches
  <2>2. /\ field' \in [Questions -> FieldValues] /\ \A q \in Questions : field'[q] \in Answers(q)
        /\ label' \in [Questions -> {"idle", "saving", "saved", "error"}]
        /\ disturbed' \subseteq Questions
    BY <1>1, <1>3, MountedTyped DEF ReadRest, FieldValues
  <2>3. QED
    BY <1>3, <2>1, <2>2, FetchTyped DEF ReadRest, FieldValues
<1>4. CASE ReloadFails
  <2>1. fetch' = NoFetch /\ page' = "error" /\ faults' \in Nat
    BY <1>4 DEF ReloadFails
  <2>2. UNCHANGED <<server, role, view, declared, submission, edits>> /\ Unmounted
    BY <1>4 DEF ReloadFails
  <2>3. QED
    BY <2>1, <2>2, UnmountedTyped, FetchTyped DEF FieldValues
<1>5. CASE SubmitAnswered
  BY <1>1, <1>5, FetchTyped DEF SubmitAnswered
<1>6. QED
  BY <1>2, <1>3, <1>4, <1>5 DEF Reads

LEMMA SubmitTyped ==
    ASSUME TypeOK, Submits \/ \E who \in {"page", "colleague"} : BeginSubmit(who)
    PROVE  TypeOK'
<1> USE DEF TypeOK, form
<1>1. NoTx \in Txs
  BY DEF NoTx, Txs
<1>2. ASSUME NEW who \in {"page", "colleague"}, BeginSubmit(who) PROVE TypeOK'
  <2>1. tx' \in Txs /\ overtaken' \subseteq Questions
    BY <1>2, Counted DEF BeginSubmit, Txs
  <2>2. QED
    BY <1>2, <2>1 DEF BeginSubmit
<1>3. CASE CheckSubmit
  <2>1. tx' \in Txs
    BY <1>3 DEF CheckSubmit, Txs
  <2>2. QED
    BY <1>3, <2>1 DEF CheckSubmit
<1>4. CASE RefuseSubmit
  BY <1>1, <1>4 DEF RefuseSubmit, Answer
<1>5. CASE CommitSubmit
  <2>1. snapshots' \in Seq(Rows)
    BY <1>5, AppendProperties DEF CommitSubmit
  <2>2. QED
    BY <1>1, <1>5, <2>1 DEF CommitSubmit, Answer
<1>6. QED
  BY <1>2, <1>3, <1>4, <1>5 DEF Submits

\* Colleagues, evidence and the buyer.
LEMMA OthersTyped ==
    ASSUME TypeOK,
           \/ \E q \in Questions : \E value \in Answers(q) : ColleagueSaves(q, value)
           \/ \E w \in others : CommitOther(w)
           \/ SomeEvidence \/ ReturnForChanges
    PROVE  TypeOK'
<1> USE DEF TypeOK, form
<1>1. ASSUME NEW q \in Questions, NEW value \in Answers(q), ColleagueSaves(q, value) PROVE TypeOK'
  <2>1. others' \subseteq Writes /\ \A w \in others' : w.value \in Answers(w.question) /\ Storable(Draft(w.value))
    BY <1>1, AnswersAreValues DEF ColleagueSaves, Accepts, Writes, FieldValues
  <2>2. QED
    BY <1>1, <2>1 DEF ColleagueSaves
<1>2. ASSUME NEW w \in others, CommitOther(w) PROVE TypeOK'
  <2>1. w.question \in Questions /\ w.value \in Answers(w.question) /\ Storable(Draft(w.value))
    BY DEF Writes
  <2>2. rows' \in Rows /\ overtaken' \subseteq Questions
    BY <1>2, <2>1, WriteTyped DEF CommitOther
  <2>3. disturbed' \subseteq Questions
    BY <1>2, <2>1 DEF CommitOther, Disturbed
  <2>4. others' \subseteq others
    BY <1>2 DEF CommitOther
  <2>5. QED
    BY <1>2, <2>2, <2>3, <2>4 DEF CommitOther
<1>3. CASE ReturnForChanges
  BY <1>3 DEF ReturnForChanges
<1>4. CASE SomeEvidence
  BY <1>4 DEF SomeEvidence, EvidenceMoves
<1>5. QED
  BY <1>1, <1>2, <1>3, <1>4

\* The page, its requests and the rows are of their types, and no answer the
\* triggers refuse is ever in a row.
THEOREM TypeCorrect == Spec => []TypeOK
<1>1. TypeOK /\ UNCHANGED vars => TypeOK'
  BY DEF TypeOK, vars, server, form
<1>2. TypeOK /\ [Next]_vars => TypeOK'
  BY <1>1, UserTyped, SaveTyped, PageTyped, SubmitTyped, OthersTyped DEF Next
<1>3. QED
  BY <1>2, InitTyped, PTL DEF Spec
-----------------------------------------------------------------------------
(* What was submitted                                                      *)

\* The steps of the server's rows: a row is committed ...
RowCommitted ==
    /\ UNCHANGED <<status, snapshots, tx>>
    /\ \E q \in Questions : \E answer \in RowAnswers(q) \ {"absent"} : Write(q, answer)

\* ... a submission takes the lock, is found complete, is refused, or is
\* committed; and changes are asked for.
Locked ==
    /\ tx = NoTx /\ status = "editable" /\ UNCHANGED <<status, rows, snapshots>>
    /\ tx'.step = "counting" /\ tx' # NoTx
    /\ tx'.required = Cardinality(Required(rows)) /\ overtaken' = {}

FoundComplete ==
    /\ tx.step = "counting" /\ CountsAgree /\ UNCHANGED <<status, rows, snapshots, overtaken>>
    /\ tx'.step = "copying" /\ tx' # NoTx

Refused ==
    /\ tx.step = "counting" /\ tx' = NoTx /\ overtaken' = {}
    /\ UNCHANGED <<status, rows, snapshots>>

Submitted ==
    /\ tx.step = "copying" /\ tx' = NoTx /\ status' = "submitted"
    /\ snapshots' = Append(snapshots, rows) /\ UNCHANGED <<rows, overtaken>>

Returned ==
    /\ status = "submitted" /\ status' = "editable" /\ overtaken' = {}
    /\ UNCHANGED <<rows, snapshots, tx>>

LEMMA ServerStep ==
    ASSUME TypeOK, [Next]_vars
    PROVE  \/ UNCHANGED <<status, rows, snapshots, tx, overtaken>>
           \/ RowCommitted \/ Locked \/ FoundComplete \/ Refused \/ Submitted \/ Returned
<1>1. ASSUME NEW s \in saves, CommitSave(s) PROVE RowCommitted
  <2>1. s.question \in Questions /\ s.value \in Answers(s.question) /\ Storable(Draft(s.value))
    BY <1>1 DEF TypeOK, Saves, Sendable, CommitSave
  <2>2. Draft(s.value) \in RowAnswers(s.question) \ {"absent"}
    BY <2>1, StoredAnswer
  <2>3. QED
    BY <1>1, <2>1, <2>2 DEF CommitSave, RowCommitted
<1>2. ASSUME NEW w \in others, CommitOther(w) PROVE RowCommitted
  <2>1. w.question \in Questions /\ w.value \in Answers(w.question) /\ Storable(Draft(w.value))
    BY DEF TypeOK, Writes
  <2>2. Draft(w.value) \in RowAnswers(w.question) \ {"absent"}
    BY <2>1, StoredAnswer
  <2>3. QED
    BY <1>2, <2>1, <2>2 DEF CommitOther, RowCommitted
<1>3. ASSUME NEW who \in {"page", "colleague"}, BeginSubmit(who) PROVE Locked
  BY <1>3 DEF BeginSubmit, Locked, NoTx
<1>4. CASE CheckSubmit
  BY <1>4 DEF CheckSubmit, FoundComplete, NoTx, TypeOK, Txs
<1>5. CASE RefuseSubmit
  BY <1>5 DEF RefuseSubmit, Refused
<1>6. CASE CommitSubmit
  BY <1>6 DEF CommitSubmit, Submitted
<1>7. CASE ReturnForChanges
  BY <1>7 DEF ReturnForChanges, Returned
<1>8. ASSUME \/ \E q \in Questions : \E value \in Answers(q) : Edit(q, value) \/ ColleagueSaves(q, value)
             \/ SomeTimer \/ \E s \in saves : CheckSave(s) \/ AnswerSave(s) \/ LoseSave(s)
             \/ Reads \/ Refresh \/ ReloadFails \/ Leave \/ Return
             \/ Declare \/ OpenDialog \/ Confirm \/ Cancel \/ SubmitAnswered
             \/ SomeEvidence \/ UNCHANGED vars
      PROVE  UNCHANGED <<status, rows, snapshots, tx, overtaken>>
  BY <1>8 DEF Edit, ColleagueSaves, SomeTimer, TimerFires, CheckSave, AnswerSave, LoseSave, Reads,
              ReadAssessment, ReadRest, Refresh, ReloadFails, Leave, Return, Declare, OpenDialog,
              Confirm, Cancel, SubmitAnswered, SomeEvidence, EvidenceMoves, vars, server
<1>9. QED
  BY <1>1, <1>2, <1>3, <1>4, <1>5, <1>6, <1>7, <1>8 DEF Next, SomeStore, SomeAnswer, Submits

\* What a step does to the loaded data and the reload under way.
LEMMA LoadStep ==
    ASSUME TypeOK, [Next]_vars
    PROVE  /\ \/ view' = view
              \/ /\ view' = [Loaded EXCEPT !.status = fetch.status, !.turn = fetch.turn]
                 /\ fetch' = NoFetch /\ UNCHANGED server
           /\ \/ fetch' \in {fetch, NoFetch, Asked}
              \/ fetch' = [phase |-> "read", status |-> status, turn |-> Len(snapshots)] /\ UNCHANGED server
<1>1. CASE ReadRest
  BY <1>1 DEF ReadRest
<1>2. CASE ReadAssessment
  BY <1>2 DEF ReadAssessment
<1>3. ASSUME NEW q \in Questions, NEW value \in Answers(q), Edit(q, value) \/ ColleagueSaves(q, value)
      PROVE  view' = view /\ fetch' = fetch
  BY <1>3 DEF Edit, ColleagueSaves
<1>4. CASE SomeTimer \/ SomeStore \/ SomeAnswer \/ \E s \in saves : LoseSave(s)
  BY <1>4 DEF SomeTimer, TimerFires, SomeStore, CheckSave, CommitSave, SomeAnswer, AnswerSave, LoseSave
<1>5. CASE \/ Refresh \/ ReloadFails \/ Leave \/ Return
           \/ Declare \/ OpenDialog \/ Confirm \/ Cancel \/ SubmitAnswered
           \/ \E who \in {"page", "colleague"} : BeginSubmit(who)
           \/ Submits \/ \E w \in others : CommitOther(w)
           \/ SomeEvidence \/ ReturnForChanges \/ UNCHANGED vars
  BY <1>5 DEF Refresh, ReloadFails, Leave, Return, Declare, OpenDialog, Confirm, Cancel, SubmitAnswered,
              BeginSubmit, Submits, CheckSubmit, RefuseSubmit, CommitSubmit, CommitOther, SomeEvidence,
              EvidenceMoves, ReturnForChanges, vars
<1>6. QED
  BY <1>1, <1>2, <1>3, <1>4, <1>5 DEF Next, Reads

\* A submission under way is about an editable assessment.
LockInv == tx # NoTx => status = "editable" /\ tx.step \in {"counting", "copying"}

\* As long as nothing is committed beside it, what it has counted is still right.
CountsInv ==
    overtaken = {} =>
        /\ tx.step = "counting" => tx.required = Cardinality(Required(rows))
        /\ tx.step = "copying" => Answered(rows) = Required(rows)

\* What was copied is in the rows, but for those committed beside or after it.
CopyInv ==
    status = "submitted" =>
        /\ Len(snapshots) > 0
        /\ \A q \in Questions \ overtaken : rows[q] = snapshots[Len(snapshots)][q]

\* Nothing that is loaded, or half loaded, is about a submission to come.
TurnInv == view.turn <= Len(snapshots) /\ fetch.turn <= Len(snapshots)

SubmissionInv == LockInv /\ CountsInv /\ CopyInv /\ TurnInv /\ ReadOnlyPageShowsSubmission

LEMMA StepsApart ==
    ASSUME TypeOK, LockInv
    PROVE  /\ NoTx.step = "none" /\ (tx = NoTx <=> tx.step = "none")
           /\ tx.step \in {"none", "counting", "copying"}
BY DEF TypeOK, LockInv, NoTx, Txs

LEMMA LockStep == TypeOK /\ LockInv /\ [Next]_vars => LockInv'
<1> SUFFICES ASSUME TypeOK, LockInv, [Next]_vars PROVE LockInv'
  OBVIOUS
<1>1. CASE UNCHANGED <<status, rows, snapshots, tx, overtaken>> \/ RowCommitted
  BY <1>1 DEF LockInv, RowCommitted
<1>2. CASE Locked
  BY <1>2 DEF LockInv, Locked
<1>3. CASE FoundComplete
  BY <1>3, StepsApart DEF LockInv, FoundComplete
<1>4. CASE Refused \/ Submitted
  BY <1>4 DEF LockInv, Refused, Submitted
<1>5. CASE Returned
  BY <1>5 DEF LockInv, Returned
<1>6. QED
  BY <1>1, <1>2, <1>3, <1>4, <1>5, ServerStep

LEMMA CountsStep == TypeOK /\ LockInv /\ CountsInv /\ [Next]_vars => CountsInv'
<1> SUFFICES ASSUME TypeOK, LockInv, CountsInv, [Next]_vars, overtaken' = {}
             PROVE  /\ tx'.step = "counting" => tx'.required = Cardinality(Required(rows'))
                    /\ tx'.step = "copying" => Answered(rows') = Required(rows')
  BY DEF CountsInv, Required, Answered, Visible
<1>1. CASE UNCHANGED <<status, rows, snapshots, tx, overtaken>>
  BY <1>1 DEF CountsInv
<1>2. CASE RowCommitted
  <2>1. tx = NoTx /\ tx' = tx
    BY <1>2 DEF RowCommitted, Write
  <2>2. QED
    BY <2>1, StepsApart
<1>3. CASE Locked
  BY <1>3 DEF Locked
<1>4. CASE FoundComplete
  <2>1. Answered(rows) = Required(rows)
    BY <1>4, Counted DEF FoundComplete, CountsAgree, CountsInv, TypeOK
  <2>2. QED
    BY <1>4, <2>1 DEF FoundComplete
<1>5. CASE Refused \/ Submitted
  BY <1>5, StepsApart DEF Refused, Submitted
<1>6. CASE Returned
  <2>1. tx = NoTx /\ tx' = tx
    BY <1>6 DEF Returned, LockInv
  <2>2. QED
    BY <2>1, StepsApart
<1>7. QED
  BY <1>1, <1>2, <1>3, <1>4, <1>5, <1>6, ServerStep

LEMMA CopyStep == TypeOK /\ LockInv /\ CopyInv /\ [Next]_vars => CopyInv'
<1> SUFFICES ASSUME TypeOK, LockInv, CopyInv, [Next]_vars, status' = "submitted"
             PROVE  /\ Len(snapshots') > 0
                    /\ \A q \in Questions \ overtaken' : rows'[q] = snapshots'[Len(snapshots')][q]
  BY DEF CopyInv
<1>1. CASE UNCHANGED <<status, rows, snapshots, tx, overtaken>>
  BY <1>1 DEF CopyInv
<1>2. CASE RowCommitted
  <2>1. PICK p \in Questions : \E answer \in RowAnswers(p) : Write(p, answer)
    BY <1>2 DEF RowCommitted
  <2>2. /\ overtaken' = overtaken \union {p}
        /\ \E answer \in RowAnswers(p) : rows' = [rows EXCEPT ![p] = answer]
    BY <1>2, <2>1 DEF RowCommitted, Write
  <2>3. QED
    BY <1>2, <2>2 DEF RowCommitted, CopyInv, TypeOK, Rows
<1>3. CASE Submitted
  <2>1. Len(snapshots') = Len(snapshots) + 1 /\ snapshots'[Len(snapshots')] = rows
    BY <1>3, AppendProperties DEF Submitted, TypeOK
  <2>2. Len(snapshots) \in Nat
    BY LenProperties DEF TypeOK
  <2>3. QED
    BY <1>3, <2>1, <2>2 DEF Submitted
<1>4. ~ Locked /\ ~ FoundComplete /\ ~ Refused /\ ~ Returned
  BY StepsApart DEF Locked, FoundComplete, Refused, Returned, LockInv
<1>5. QED
  BY <1>1, <1>2, <1>3, <1>4, ServerStep

LEMMA SubmissionStep ==
    ASSUME TypeOK, SubmissionInv, [Next]_vars
    PROVE  SubmissionInv'
<1>1. /\ Len(snapshots) \in Nat /\ view.turn \in Nat /\ fetch.turn \in Nat
  BY LenProperties DEF TypeOK, Views, Fetches
<1>2. \/ snapshots' = snapshots
      \/ Len(snapshots') = Len(snapshots) + 1
  BY ServerStep, AppendProperties DEF TypeOK, RowCommitted, Locked, FoundComplete, Refused, Submitted, Returned
<1>3. LockInv' /\ CountsInv' /\ CopyInv'
  BY LockStep, CountsStep, CopyStep DEF SubmissionInv
<1>4. \/ view' = view
      \/ view'.turn = fetch.turn /\ view'.rows = rows /\ rows' = rows /\ snapshots' = snapshots
  BY LoadStep DEF Loaded, server
<1>5. \/ fetch'.turn \in {fetch.turn, 0}
      \/ fetch'.turn = Len(snapshots) /\ snapshots' = snapshots
  BY LoadStep DEF NoFetch, Asked, server
<1>6. TurnInv'
  BY <1>1, <1>2, <1>4, <1>5 DEF SubmissionInv, TurnInv
<1>7. ReadOnlyPageShowsSubmission'
  <2>1. CASE view' = view /\ snapshots' = snapshots
    <3>1. CASE status' = "submitted" /\ status = "submitted"
      <4>1. overtaken \subseteq overtaken'
        BY <3>1, ServerStep, StepsApart DEF SubmissionInv, LockInv, RowCommitted, Write, Locked, FoundComplete,
                 Refused, Submitted, Returned
      <4>2. QED
        BY <2>1, <3>1, <4>1 DEF SubmissionInv, ReadOnlyPageShowsSubmission
    <3>2. CASE status' = "submitted" /\ status # "submitted"
      <4>1. Submitted
        BY <3>2, ServerStep DEF RowCommitted, Locked, FoundComplete, Refused, Returned
      <4>2. Len(snapshots') = Len(snapshots) + 1
        BY <4>1, AppendProperties DEF Submitted, TypeOK
      <4>3. QED
        BY <1>1, <2>1, <4>2
    <3>3. CASE status' # "submitted"
      BY <3>3 DEF ReadOnlyPageShowsSubmission
    <3>4. QED
      BY <3>1, <3>2, <3>3
  <2>2. CASE view' = view /\ Len(snapshots') = Len(snapshots) + 1
    BY <1>1, <2>2 DEF SubmissionInv, TurnInv, ReadOnlyPageShowsSubmission
  <2>3. CASE view'.rows = rows /\ rows' = rows
    BY <1>3, <2>3 DEF CopyInv, ReadOnlyPageShowsSubmission
  <2>4. QED
    BY <1>2, <1>4, <2>1, <2>2, <2>3
<1>8. QED
  BY <1>3, <1>6, <1>7 DEF SubmissionInv

LEMMA SubmissionHolds == Spec => []SubmissionInv
<1>1. Init => SubmissionInv
  BY DEF Init, SubmissionInv, LockInv, CountsInv, CopyInv, TurnInv, ReadOnlyPageShowsSubmission, Loaded,
         NoFetch, NoTx
<1>2. QED
  BY <1>1, SubmissionStep, TypeCorrect, PTL DEF Spec

\* A read-only page of the current submission shows what was submitted.
THEOREM ReadOnlyPageIsTrue == Spec => []ReadOnlyPageShowsSubmission
<1>1. SubmissionInv => ReadOnlyPageShowsSubmission
  BY DEF SubmissionInv
<1>2. QED
  BY <1>1, SubmissionHolds, PTL

-----------------------------------------------------------------------------
(* What is refused                                                         *)

\* An answer that was loaded is there, and whoever is asked to confirm, or has,
\* was shown an answer to every question.
CompleteInv ==
    /\ \A q \in Questions : view.rows[q] # "absent" => rows[q] # "absent"
    /\ dialog \/ submission = "sent" => \A q \in Questions : rows[q] # "absent"

\* What a step does to the dialog and the request it sends.
LEMMA AskStep ==
    ASSUME TypeOK, [Next]_vars
    PROVE  /\ dialog' => dialog \/ ClientComplete(view)
           /\ submission' = "sent" => submission = "sent" \/ dialog
           /\ submission = "sent" /\ submission' = "refused" =>
                  status # "editable" \/ (tx.step = "counting" /\ ~ CountsAgree)
<1>1. CASE OpenDialog \/ Confirm \/ Cancel
  BY <1>1 DEF OpenDialog, Confirm, Cancel
<1>2. CASE RefuseSubmit \/ CommitSubmit
  BY <1>2 DEF RefuseSubmit, CommitSubmit, Answer
<1>3. CASE SubmitAnswered
  <2>1. (dialog' => dialog) /\ submission' = "none"
    BY <1>3 DEF SubmitAnswered
  <2>2. QED
    BY <2>1
<1>4. CASE ReloadFails \/ Leave
  BY <1>4 DEF ReloadFails, Leave, Unmounted
<1>5. ASSUME \/ \E q \in Questions : \E value \in Answers(q) : Edit(q, value) \/ ColleagueSaves(q, value)
             \/ SomeTimer \/ SomeStore \/ SomeAnswer \/ Reads \/ \E s \in saves : LoseSave(s)
             \/ \E w \in others : CommitOther(w)
             \/ Refresh \/ Return \/ Declare \/ ReturnForChanges
             \/ \E who \in {"page", "colleague"} : BeginSubmit(who)
             \/ CheckSubmit \/ SomeEvidence \/ UNCHANGED vars
      PROVE  UNCHANGED <<dialog, submission>>
  BY <1>5 DEF Edit, ColleagueSaves, SomeTimer, TimerFires, SomeStore, CheckSave, CommitSave, SomeAnswer,
              AnswerSave, Reads, ReadAssessment, ReadRest, LoseSave, CommitOther, Refresh, Return, Declare,
              ReturnForChanges, BeginSubmit, CheckSubmit, SomeEvidence, EvidenceMoves, vars
<1>6. QED
  BY <1>1, <1>2, <1>3, <1>4, <1>5 DEF Next, Submits

LEMMA CompleteStep ==
    ASSUME TypeOK, CompleteInv, [Next]_vars
    PROVE  CompleteInv'
<1>1. \A q \in Questions : rows[q] # "absent" => rows'[q] # "absent"
  <2>1. CASE RowCommitted
    BY <2>1 DEF RowCommitted, Write, TypeOK, Rows
  <2>2. CASE rows' = rows
    BY <2>2
  <2>3. QED
    BY <2>1, <2>2, ServerStep DEF Locked, FoundComplete, Refused, Submitted, Returned
<1>2. view'.rows = view.rows \/ (view'.rows = rows /\ rows' = rows)
  BY LoadStep DEF Loaded, server
<1>3. dialog' \/ submission' = "sent" => \A q \in Questions : rows[q] # "absent"
  BY AskStep DEF CompleteInv, ClientComplete, HasResponse
<1>4. QED
  BY <1>1, <1>2, <1>3 DEF CompleteInv

LEMMA CompleteHolds == Spec => []CompleteInv
<1>1. Init => CompleteInv
  BY DEF Init, CompleteInv, Loaded
<1>2. QED
  BY <1>1, CompleteStep, TypeCorrect, PTL DEF Spec

\* What the page offers to submit is never refused for an unanswered question:
\* if all are answered, the counts agree unless a row was committed between them.
THEOREM RefusalsAreExplained == Spec => RefusedOnlyForEvidenceOrStatus
<1>1. ASSUME TypeOK, CompleteInv, SubmissionInv, [Next]_vars, submission = "sent", submission' = "refused"
      PROVE  evidence # "ready" \/ status # "editable" \/ overtaken # {}
  <2> SUFFICES ASSUME overtaken = {}, tx.step = "counting", ~ CountsAgree PROVE evidence # "ready"
    BY <1>1, AskStep
  <2>1. Answered(rows) = Required(rows)
    BY <1>1 DEF CompleteInv, Answered, Required
  <2>2. tx.required = Cardinality(Required(rows))
    BY <1>1 DEF SubmissionInv, CountsInv
  <2>3. QED
    BY <2>1, <2>2 DEF CountsAgree
<1>2. TypeOK /\ CompleteInv /\ SubmissionInv /\ [Next]_vars =>
          [submission = "sent" /\ submission' = "refused" =>
               evidence # "ready" \/ status # "editable" \/ overtaken # {}]_vars
  BY <1>1
<1>3. QED
  BY <1>2, TypeCorrect, CompleteHolds, SubmissionHolds, PTL DEF Spec, RefusedOnlyForEvidenceOrStatus
-----------------------------------------------------------------------------
(* Qualification                                                           *)

Passed == <<TheTurn, TheSheet>>

\* Every step of a page, of a colleague and of the buyer is a turn of
\* Qualification or is not seen from outside.
LEMMA PromiseKept ==
    ASSUME TypeOK, SubmissionInv, [Next]_vars
    PROVE  Promise!Next \/ UNCHANGED Passed
<1> USE StepsApart DEF SubmissionInv
<1>1. CASE UNCHANGED <<status, rows, snapshots, tx, overtaken>>
  BY <1>1 DEF Passed, TheTurn, TheSheet, Turn, Sheet
<1>2. CASE RowCommitted
  <2>1. PICK p \in Questions : \E answer \in RowAnswers(p) : Write(p, answer)
    BY <1>2 DEF RowCommitted
  <2>2. CASE status = "submitted" \/ tx = NoTx
    <3>1. status' = status /\ tx' = tx /\ snapshots' = snapshots
      BY <1>2 DEF RowCommitted
    <3>2. Turn \in {"supplier", "buyer"} /\ Turn' = Turn
      BY <2>2, <3>1 DEF Turn
    <3>3. Sheet' = Sheet
      BY <3>1, <3>2 DEF Sheet
    <3>4. QED
      BY <3>2, <3>3 DEF Passed, TheTurn, TheSheet
  <2>3. CASE status # "submitted" /\ tx # NoTx
    <3>1. PICK answer \in RowAnswers(p) : Write(p, answer)
      BY <2>1
    <3>2. overtaken' # {}
      BY <2>3, <3>1 DEF Write
    <3>3. rows' \in Rows
      BY <3>1, RowsChanged DEF Write, TypeOK
    <3>4. Turn \in {"presented", "disturbed"} /\ Turn' = "disturbed" /\ Sheet' = {rows'}
      BY <1>2, <2>3, <3>2 DEF RowCommitted, Turn, Sheet
    <3>5. Promise!Disturb("assessment")
      BY <3>3, <3>4 DEF Promise!Disturb, Promise!Passing, TheTurn, TheSheet
    <3>6. QED
      BY <3>5 DEF Promise!Next
  <2>4. QED
    BY <2>2, <2>3
<1>3. CASE Locked
  <2>1. Turn = "supplier" /\ Turn' = "presented" /\ Sheet' = {rows} /\ rows \in Rows
    BY <1>3 DEF Locked, Turn, Sheet, TypeOK
  <2>2. Promise!Present("assessment")
    BY <2>1 DEF Promise!Present, TheTurn, TheSheet
  <2>3. QED
    BY <2>2 DEF Promise!Next
<1>4. CASE FoundComplete
  BY <1>4 DEF FoundComplete, LockInv, Passed, TheTurn, TheSheet, Turn, Sheet
<1>5. CASE Refused
  <2>1. Turn \in {"presented", "disturbed"} /\ Turn' = "supplier" /\ Sheet' = {}
    BY <1>5 DEF Refused, LockInv, Turn, Sheet
  <2>2. Promise!TakeBack("assessment")
    BY <2>1 DEF Promise!TakeBack, Promise!Passing, TheTurn, TheSheet
  <2>3. QED
    BY <2>2 DEF Promise!Next
<1>6. CASE Submitted
  <2>1. snapshots'[Len(snapshots')] = rows
    BY <1>6, AppendProperties DEF Submitted, TypeOK
  <2>2. /\ Turn = IF overtaken = {} THEN "presented" ELSE "disturbed"
        /\ Turn' = "buyer" /\ Sheet = {rows} /\ Sheet' = {rows}
    BY <1>6, <2>1 DEF Submitted, LockInv, Turn, Sheet
  <2>3. Turn = "presented" => rows \in {r \in Rows : \A q \in Questions : Visible(q, r) => r[q] # "absent"}
    <3>1. overtaken = {} => Answered(rows) = Required(rows)
      BY <1>6 DEF CountsInv, Submitted
    <3>2. QED
      BY <2>2, <3>1 DEF Answered, Required, TypeOK
  <2>4. Promise!HandOver("assessment")
    BY <2>2, <2>3 DEF Promise!HandOver, Promise!Passing, TheTurn, TheSheet
  <2>5. QED
    BY <2>4 DEF Promise!Next
<1>7. CASE Returned
  <2>1. Turn = "buyer" /\ Turn' = "supplier" /\ Sheet' = {}
    BY <1>7 DEF Returned, LockInv, Turn, Sheet
  <2>2. Promise!SendBack("assessment")
    BY <2>1 DEF Promise!SendBack, TheTurn, TheSheet
  <2>3. QED
    BY <2>2 DEF Promise!Next
<1>8. QED
  BY <1>1, <1>2, <1>3, <1>4, <1>5, <1>6, <1>7, ServerStep

\* Whatever the pages of all colleagues do is the supplier's part of
\* Qualification.
THEOREM ImplementsPromise == Spec => KeepsThePromise
<1>1. Init => Promise!Init
  BY DEF Init, Promise!Init, TheTurn, TheSheet, Turn, Sheet
<1>2. TypeOK /\ SubmissionInv /\ [Next]_vars =>
          [Promise!Next]_<<TheTurn, TheSheet, [a \in {"assessment"} |-> FALSE],
                           [r \in {"relationship"} |-> "profile_pending"]>>
  BY PromiseKept DEF Passed
<1>3. QED
  BY <1>1, <1>2, TypeCorrect, SubmissionHolds, PTL DEF Spec, KeepsThePromise, Promise!Spec

-----------------------------------------------------------------------------
(* What a field says                                                       *)

\* Only a page that is shown has timers and requests that answer it, and a
\* page that was left does not load.
PageInv ==
    /\ page # "shown" => timers = {} /\ \A s \in saves : s.orphan
    /\ page = "away" => fetch = NoFetch
    /\ \A s \in Refreshing : ~ s.orphan

LEMMA PageStep ==
    ASSUME TypeOK, PageInv, [Next]_vars
    PROVE  PageInv'
<1> USE DEF PageInv, Refreshing
<1>1. ASSUME NEW q \in Questions, NEW value \in Answers(q), Edit(q, value) PROVE PageInv'
  BY <1>1 DEF Edit, Editable
<1>2. ASSUME NEW q \in Questions, TimerFires(q) PROVE PageInv'
  BY <1>2 DEF TimerFires
<1>3. ASSUME NEW s \in saves, CheckSave(s) \/ CommitSave(s) PROVE PageInv'
  <2> DEFINE next(phase) == [s EXCEPT !.phase = phase]
  <2>1. PICK phase \in {"checked", "stored", "refused"} : saves' = (saves \ {s}) \union {next(phase)}
    BY <1>3 DEF CheckSave, CommitSave
  <2>2. next(phase).orphan = s.orphan /\ next(phase).phase # "refreshing"
    BY DEF TypeOK, Saves
  <2>3. UNCHANGED <<page, timers, fetch>>
    BY <1>3 DEF CheckSave, CommitSave
  <2> HIDE DEF next
  <2>4. QED
    BY <2>1, <2>2, <2>3
<1>4. ASSUME NEW s \in saves, AnswerSave(s) PROVE PageInv'
  <2> DEFINE next == [s EXCEPT !.phase = "refreshing"]
  <2>1. next.orphan = s.orphan
    BY DEF TypeOK, Saves
  <2>2. \/ page = "shown" /\ saves' = (saves \ ({s} \union Refreshing)) \union (IF s.orphan THEN {} ELSE {next})
        \/ saves' = saves \ {s} /\ fetch' = fetch
    BY <1>4 DEF AnswerSave
  <2>3. UNCHANGED <<page, timers>>
    BY <1>4 DEF AnswerSave
  <2> HIDE DEF next
  <2>4. QED
    BY <2>1, <2>2, <2>3
<1>5. ASSUME NEW s \in saves, LoseSave(s) PROVE PageInv'
  BY <1>5 DEF LoseSave
<1>6. CASE ReadRest \/ Return
  BY <1>6 DEF ReadRest, Return
<1>7. CASE Leave \/ ReloadFails
  <2>1. page' \in {"away", "error"} /\ fetch' = NoFetch /\ Unmounted
    BY <1>7 DEF Leave, ReloadFails
  <2>2. ASSUME NEW t \in saves' PROVE t.orphan /\ t.phase # "refreshing"
    <3>1. PICK s \in saves \ Refreshing : t = [s EXCEPT !.orphan = TRUE]
      BY <2>1 DEF Unmounted
    <3>2. s \in Saves /\ s.phase # "refreshing"
      BY <3>1 DEF TypeOK
    <3>3. QED
      BY <3>1, <3>2 DEF Saves
  <2>3. timers' = {}
    BY <2>1 DEF Unmounted
  <2>4. QED
    BY <2>1, <2>2, <2>3
<1>8. CASE SubmitAnswered
  BY <1>8 DEF SubmitAnswered
<1>9. CASE Refresh \/ ReadAssessment
  BY <1>9 DEF Refresh, ReadAssessment, NoFetch, form
<1>10. ASSUME \/ \E q \in Questions : \E value \in Answers(q) : ColleagueSaves(q, value)
              \/ \E w \in others : CommitOther(w)
              \/ Declare \/ OpenDialog \/ Confirm \/ Cancel
              \/ \E who \in {"page", "colleague"} : BeginSubmit(who)
              \/ Submits \/ SomeEvidence \/ ReturnForChanges \/ UNCHANGED vars
       PROVE  UNCHANGED <<page, timers, saves, fetch>>
  BY <1>10 DEF ColleagueSaves, CommitOther, Declare, OpenDialog, Confirm, Cancel, BeginSubmit, Submits,
               CheckSubmit, RefuseSubmit, CommitSubmit, SomeEvidence, EvidenceMoves, ReturnForChanges,
               vars, form
<1>11. QED
  BY <1>1, <1>2, <1>3, <1>4, <1>5, <1>6, <1>7, <1>8, <1>9, <1>10
     DEF Next, SomeTimer, SomeStore, SomeAnswer, Reads

\* A request of the field that will answer it.
Own(s, q) == s.question = q /\ ~ s.orphan

\* What makes a field that nothing disturbed honest when it comes to rest: it
\* waits for one save at most, which carries its value unless the timer runs
\* again, and whose answer, once it is stored, is the row.
HonestField(q) ==
    /\ \A s, t \in saves : Own(s, q) /\ Own(t, q) => s = t
    /\ \A s \in saves : Own(s, q) /\ s.phase \in {"stored", "refreshing"} => rows[q] = s.value
    /\ q \notin timers =>
           /\ \A s \in saves : Own(s, q) => s.value = field[q]
           /\ \/ \E s \in saves : Own(s, q)
              \/ field[q] = FieldOf(q, rows[q]) \/ label[q] = "error"

HonestInv == page = "shown" => \A q \in Questions \ disturbed : HonestField(q)

\* A field that starts anew shows the row, unless it was mounted from stale data.
LEMMA MountedIsHonest ==
    ASSUME TypeOK, NEW r \in Rows, Mounted(r), rows' = rows, timers = {}, timers' = timers,
           saves' \subseteq saves, \A s \in saves : s.orphan,
           NEW q \in Questions \ disturbed'
    PROVE  HonestField(q)'
<1>1. r[q] = rows[q] /\ field'[q] = FieldOf(q, r[q])
  BY DEF Mounted
<1>2. \A s \in saves' : ~ Own(s, q)
  BY DEF Own
<1>3. field'[q] = FieldOf(q, rows'[q])
  BY <1>1
<1>4. QED
  BY <1>2, <1>3 DEF HonestField, Own, FieldOf

\* The reload that saves waited for is over.
LEMMA RefreshedIsHonest ==
    ASSUME TypeOK, PageInv, NEW q \in Questions, HonestField(q),
           saves' = saves \ Refreshing, label' = Saved, UNCHANGED <<rows, timers, field>>
    PROVE  HonestField(q)'
<1>1. CASE \E s \in Refreshing : s.question = q
  <2>1. PICK s \in Refreshing : s.question = q
    BY <1>1
  <2>2. s \in saves /\ Own(s, q) /\ s.phase = "refreshing" /\ s.value \in Answers(q)
    BY <2>1 DEF Refreshing, Own, PageInv, TypeOK, Sendable
  <2>3. rows[q] = s.value /\ FieldOf(q, s.value) = s.value
    BY <2>2 DEF HonestField, FieldOf, Answers
  <2>4. \A t \in saves' : ~ Own(t, q)
    BY <2>1, <2>2 DEF HonestField
  <2>5. q \notin timers => field[q] = FieldOf(q, rows[q])
    BY <2>2, <2>3 DEF HonestField
  <2>6. QED
    BY <2>4, <2>5 DEF HonestField, FieldOf, Own
<1>2. CASE ~ \E s \in Refreshing : s.question = q
  <2>1. label'[q] = label[q]
    BY <1>2 DEF Saved
  <2>2. \A t : Own(t, q) => (t \in saves' <=> t \in saves)
    BY <1>2 DEF Own
  <2>3. QED
    BY <2>1, <2>2 DEF HonestField, FieldOf, Own
<1>3. QED
  BY <1>1, <1>2

\* A field keeps its promise if nothing of its own changes.
LEMMA SameFieldIsHonest ==
    ASSUME NEW q \in Questions, HonestField(q),
           rows'[q] = rows[q], field'[q] = field[q], label'[q] = label[q], q \in timers' <=> q \in timers,
           \A s : Own(s, q) => (s \in saves' <=> s \in saves)
    PROVE  HonestField(q)'
BY DEF HonestField, FieldOf, Own

LEMMA EditIsHonest ==
    ASSUME TypeOK, NEW p \in Questions, NEW value \in Answers(p), Edit(p, value),
           NEW q \in Questions, HonestField(q)
    PROVE  HonestField(q)'
<1>1. /\ field' = [field EXCEPT ![p] = value] /\ timers' = timers \union {p}
      /\ UNCHANGED <<rows, label, saves>>
  BY DEF Edit, server
<1>2. CASE q = p
  BY <1>1, <1>2 DEF HonestField, FieldOf, Own
<1>3. CASE q # p
  <2>1. field'[q] = field[q]
    BY <1>1, <1>3 DEF TypeOK
  <2>2. QED
    BY <1>1, <1>3, <2>1, SameFieldIsHonest
<1>4. QED
  BY <1>2, <1>3

LEMMA TimerIsHonest ==
    ASSUME TypeOK, NEW p \in Questions, TimerFires(p),
           NEW q \in Questions \ disturbed', HonestField(q)
    PROVE  HonestField(q)'
<1> DEFINE new == [question |-> p, value |-> field[p], edit |-> edits, phase |-> "sent", orphan |-> FALSE]
<1>1. /\ timers' = timers \ {p} /\ saves' = saves \union {new}
      /\ label' = [label EXCEPT ![p] = "saving"] /\ UNCHANGED <<rows, field>>
      /\ disturbed' = IF InFlight(p) # {} THEN disturbed \union {p} ELSE disturbed
  BY DEF TimerFires, server
<1>2. new.question = p /\ new.value = field[p] /\ new.phase = "sent" /\ ~ new.orphan
  OBVIOUS
<1> HIDE DEF new
<1>3. CASE q = p
  <2>1. \A s \in saves : ~ Own(s, q)
    BY <1>1, <1>3 DEF InFlight, Own
  <2>2. \A s \in saves' : Own(s, q) <=> s = new
    BY <1>1, <1>2, <1>3, <2>1 DEF Own
  <2>3. new \in saves'
    BY <1>1
  <2>4. QED
    BY <1>1, <1>2, <1>3, <2>2, <2>3 DEF HonestField
<1>4. CASE q # p
  <2>1. \A s : Own(s, q) => (s \in saves' <=> s \in saves)
    BY <1>1, <1>2, <1>4 DEF Own
  <2>2. label'[q] = label[q]
    BY <1>1, <1>4 DEF TypeOK
  <2>3. QED
    BY <1>1, <1>4, <2>1, <2>2, SameFieldIsHonest
<1>5. QED
  BY <1>3, <1>4

\* A save that is let through or refused, and one that commits.
LEMMA StoreIsHonest ==
    ASSUME TypeOK, page = "shown", NEW s \in saves, CheckSave(s) \/ CommitSave(s),
           NEW q \in Questions \ disturbed', HonestField(q)
    PROVE  HonestField(q)'
<1> DEFINE next(phase) == [s EXCEPT !.phase = phase]
<1>1. PICK phase \in {"checked", "stored", "refused"} :
         /\ saves' = (saves \ {s}) \union {next(phase)}
         /\ phase = "stored" =>
                /\ rows' = [rows EXCEPT ![s.question] = Draft(s.value)] /\ s.phase = "checked"
                /\ disturbed' = IF s.orphan THEN disturbed \union {s.question} ELSE disturbed
         /\ phase # "stored" => UNCHANGED rows
         /\ UNCHANGED <<field, timers, label>>
  BY DEF CheckSave, CommitSave, Write, Disturbed, server
<1>2. /\ s.question \in Questions /\ next(phase).question = s.question /\ next(phase).value = s.value
      /\ next(phase).phase = phase /\ next(phase).orphan = s.orphan
  BY DEF TypeOK, Saves
<1>3. phase = "stored" => Draft(s.value) = s.value
  BY <1>1, <1>2, StoredAnswer DEF TypeOK, Sendable
<1> HIDE DEF next
<1>4. CASE Own(s, q)
  <2>1. \A t \in saves' : Own(t, q) <=> t = next(phase)
    BY <1>1, <1>2, <1>4 DEF HonestField, Own
  <2>2. phase = "stored" => rows'[q] = s.value
    BY <1>1, <1>2, <1>3, <1>4 DEF TypeOK, Rows, Own
  <2>3. next(phase) \in saves'
    BY <1>1
  <2>4. QED
    BY <1>1, <1>2, <1>4, <2>1, <2>2, <2>3 DEF HonestField
<1>5. CASE ~ Own(s, q)
  <2>1. \A t : Own(t, q) => (t \in saves' <=> t \in saves)
    BY <1>1, <1>2, <1>5 DEF Own
  <2>2. s.question = q => rows'[q] = rows[q]
    BY <1>1, <1>2, <1>5 DEF Own
  <2>3. s.question # q => rows'[q] = rows[q]
    BY <1>1, <1>2 DEF TypeOK, Rows
  <2>4. QED
    BY <1>1, <2>1, <2>2, <2>3, SameFieldIsHonest
<1>6. QED
  BY <1>4, <1>5

\* A save that is refused or lost takes itself away, and an answered orphan does
\* as well.
LEMMA EndedIsHonest ==
    ASSUME TypeOK, NEW s \in saves, NEW q \in Questions, HonestField(q),
           saves' = saves \ {s}, UNCHANGED <<rows, field, timers>>,
           label' = IF s.orphan THEN label ELSE [label EXCEPT ![s.question] = "error"]
    PROVE  HonestField(q)'
<1>1. s.question \in Questions
  BY DEF TypeOK, Saves
<1>2. CASE Own(s, q)
  <2>1. \A t \in saves' : ~ Own(t, q)
    BY <1>2 DEF HonestField
  <2>2. label'[q] = "error"
    BY <1>1, <1>2 DEF Own, TypeOK
  <2>3. QED
    BY <2>1, <2>2 DEF HonestField
<1>3. CASE ~ Own(s, q)
  <2>1. \A t : Own(t, q) => (t \in saves' <=> t \in saves)
    BY <1>3
  <2>2. label'[q] = label[q]
    BY <1>1, <1>3 DEF Own, TypeOK
  <2>3. QED
    BY <2>1, <2>2, SameFieldIsHonest
<1>4. QED
  BY <1>2, <1>3

\* A stored save starts a reload, which replaces the one others wait for.
LEMMA AnswerIsHonest ==
    ASSUME TypeOK, PageInv, NEW s \in saves, AnswerSave(s), page' = "shown",
           NEW q \in Questions, HonestField(q)
    PROVE  HonestField(q)'
<1>1. page = "shown" /\ UNCHANGED <<rows, field, timers>>
  BY DEF AnswerSave, server
<1>2. CASE s.phase = "refused"
  BY <1>1, <1>2, EndedIsHonest DEF AnswerSave
<1>3. CASE s.phase = "stored"
  <2> DEFINE next == [s EXCEPT !.phase = "refreshing"]
  <2>1. /\ saves' = (saves \ ({s} \union Refreshing)) \union (IF s.orphan THEN {} ELSE {next})
        /\ label' = Saved
    BY <1>1, <1>3 DEF AnswerSave
  <2>2. /\ next.question = s.question /\ next.value = s.value /\ next.phase = "refreshing"
        /\ next.orphan = s.orphan
    BY DEF TypeOK, Saves
  <2> HIDE DEF next
  <2>3. CASE Own(s, q)
    <3>1. \A t \in saves' : Own(t, q) <=> t = next
      BY <2>1, <2>2, <2>3 DEF HonestField, Own
    <3>2. next \in saves'
      BY <2>1, <2>3 DEF Own
    <3>3. QED
      BY <1>1, <1>3, <2>2, <2>3, <3>1, <3>2 DEF HonestField
  <2>4. CASE \E r \in Refreshing : Own(r, q)
    <3>1. PICK r \in Refreshing : Own(r, q)
      BY <2>4
    <3>2. r \in saves /\ r.phase = "refreshing" /\ r.value \in Answers(q)
      BY <3>1 DEF Refreshing, Own, TypeOK, Sendable
    <3>3. rows[q] = r.value /\ FieldOf(q, r.value) = r.value
      BY <3>1, <3>2 DEF HonestField, FieldOf, Answers
    <3>4. ~ Own(s, q) \/ s = r
      BY <3>1, <3>2 DEF HonestField
    <3>5. ~ Own(s, q)
      BY <1>3, <3>1, <3>2, <3>4
    <3>6. \A t \in saves' : ~ Own(t, q)
      BY <2>1, <2>2, <3>1, <3>2, <3>5 DEF HonestField, Own
    <3>7. q \notin timers => field[q] = FieldOf(q, rows[q])
      BY <3>1, <3>2, <3>3 DEF HonestField
    <3>8. QED
      BY <1>1, <3>6, <3>7 DEF HonestField, FieldOf
  <2>5. CASE ~ Own(s, q) /\ ~ \E r \in Refreshing : Own(r, q)
    <3>1. label'[q] = label[q]
      BY <2>1, <2>5 DEF Saved, Own, PageInv
    <3>2. \A t : Own(t, q) => (t \in saves' <=> t \in saves)
      BY <2>1, <2>2, <2>5 DEF Own
    <3>3. QED
      BY <1>1, <3>1, <3>2, SameFieldIsHonest
  <2>6. QED
    BY <2>3, <2>4, <2>5
<1>4. QED
  BY <1>2, <1>3 DEF AnswerSave

LEMMA HonestStep ==
    ASSUME TypeOK, PageInv, HonestInv, [Next]_vars
    PROVE  HonestInv'
<1> SUFFICES ASSUME page' = "shown", NEW q \in Questions \ disturbed'
             PROVE  HonestField(q)'
  BY DEF HonestInv
<1>1. CASE page # "shown"
  <2>1. timers = {} /\ \A s \in saves : s.orphan
    BY <1>1 DEF PageInv
  <2>2. ReadRest \/ Return
    BY <1>1 DEF Next, Edit, Editable, ColleagueSaves, SomeTimer, TimerFires, SomeStore, CheckSave, CommitSave,
            SomeAnswer, AnswerSave, Reads, ReadAssessment, LoseSave, CommitOther, Refresh, ReloadFails, Leave,
            Declare, OpenDialog, Confirm, Cancel, BeginSubmit, Submits, CheckSubmit, RefuseSubmit, CommitSubmit,
            SubmitAnswered, SomeEvidence, EvidenceMoves, ReturnForChanges, vars
  <2>3. CASE ReadRest
    <3>1. page = "error"
      BY <1>1, <2>3 DEF ReadRest, PageInv, NoFetch, TypeOK
    <3>2. Mounted(rows) /\ UNCHANGED <<rows, timers>> /\ saves' \subseteq saves
      BY <2>3, <3>1 DEF ReadRest, server
    <3>3. QED
      BY <2>1, <3>2, MountedIsHonest DEF TypeOK
  <2>4. CASE Return
    <3>1. Mounted(view.rows) /\ UNCHANGED <<rows, timers, saves>> /\ view.rows \in Rows
      BY <2>4 DEF Return, server, TypeOK, Views
    <3>2. QED
      BY <2>1, <3>1, MountedIsHonest
  <2>5. QED
    BY <2>2, <2>3, <2>4
<1>2. CASE page = "shown"
  <2>1. q \notin disturbed
    BY <1>2 DEF Next, Edit, ColleagueSaves, SomeTimer, TimerFires, SomeStore, CheckSave, CommitSave, Disturbed,
            SomeAnswer, AnswerSave, Reads, ReadAssessment, ReadRest, LoseSave, CommitOther, Refresh, ReloadFails,
            Leave, Return, Declare, OpenDialog, Confirm, Cancel, BeginSubmit, Submits, CheckSubmit, RefuseSubmit,
            CommitSubmit, SubmitAnswered, SomeEvidence, EvidenceMoves, ReturnForChanges, vars
  <2>2. HonestField(q)
    BY <1>2, <2>1 DEF HonestInv
  <2>3. ASSUME NEW p \in Questions, NEW value \in Answers(p), Edit(p, value) PROVE HonestField(q)'
    BY <2>2, <2>3, EditIsHonest
  <2>4. CASE SomeTimer
    BY <2>2, <2>4, TimerIsHonest DEF SomeTimer
  <2>5. CASE SomeStore
    BY <1>2, <2>2, <2>5, StoreIsHonest DEF SomeStore
  <2>6. CASE SomeAnswer
    BY <2>2, <2>6, AnswerIsHonest DEF SomeAnswer
  <2>7. ASSUME NEW s \in saves, LoseSave(s) PROVE HonestField(q)'
    BY <2>2, <2>7, EndedIsHonest DEF LoseSave
  <2>8. CASE ReadRest
    <3>1. saves' = saves \ Refreshing /\ label' = Saved /\ UNCHANGED <<rows, timers, field>>
      BY <1>2, <2>8 DEF ReadRest, server
    <3>2. QED
      BY <2>2, <3>1, RefreshedIsHonest
  <2>9. CASE SubmitAnswered
    <3>1. CASE submission = "accepted"
      <4>1. saves' = saves \ Refreshing /\ label' = Saved /\ UNCHANGED <<rows, timers, field>>
        BY <1>2, <2>9, <3>1 DEF SubmitAnswered, server
      <4>2. QED
        BY <2>2, <4>1, RefreshedIsHonest
    <3>2. CASE submission # "accepted"
      BY <2>2, <2>9, <3>2, SameFieldIsHonest DEF SubmitAnswered, server
    <3>3. QED
      BY <3>1, <3>2
  <2>10. ASSUME NEW w \in others, CommitOther(w) PROVE HonestField(q)'
    <3>1. rows' = [rows EXCEPT ![w.question] = Draft(w.value)] /\ q # w.question /\ UNCHANGED form
      BY <1>2, <2>10 DEF CommitOther, Write, Disturbed
    <3>2. rows'[q] = rows[q]
      BY <3>1 DEF TypeOK, Rows
    <3>3. QED
      BY <2>2, <3>1, <3>2, SameFieldIsHonest DEF form
  <2>11. CASE \/ \E p \in Questions : \E value \in Answers(p) : ColleagueSaves(p, value)
              \/ Refresh \/ ReadAssessment \/ Declare \/ OpenDialog \/ Confirm \/ Cancel
              \/ \E who \in {"page", "colleague"} : BeginSubmit(who)
              \/ Submits \/ SomeEvidence \/ ReturnForChanges \/ UNCHANGED vars
    <3>1. UNCHANGED <<rows, form>>
      BY <2>11 DEF ColleagueSaves, Refresh, ReadAssessment, Declare, OpenDialog, Confirm, Cancel, BeginSubmit,
                   Submits, CheckSubmit, RefuseSubmit, CommitSubmit, SomeEvidence, EvidenceMoves,
                   ReturnForChanges, vars, server
    <3>2. QED
      BY <2>2, <3>1, SameFieldIsHonest DEF form
  <2>12. ~ ReloadFails /\ ~ Leave /\ ~ Return
    BY <1>2 DEF ReloadFails, Leave, Return
  <2>13. QED
    BY <2>3, <2>4, <2>5, <2>6, <2>7, <2>8, <2>9, <2>10, <2>11, <2>12 DEF Next, Reads
<1>3. QED
  BY <1>1, <1>2

LEMMA HonestHolds == Spec => [](PageInv /\ HonestInv)
<1>1. Init => PageInv /\ HonestInv
  <2>1. ASSUME Init PROVE PageInv
    BY <2>1 DEF Init, PageInv, Refreshing
  <2>2. ASSUME Init PROVE HonestInv
    BY <2>2 DEF Init, HonestInv, HonestField
  <2>3. QED
    BY <2>1, <2>2
<1>2. QED
  BY <1>1, PageStep, HonestStep, TypeCorrect, PTL DEF Spec

LEMMA QuietIsHonest ==
    ASSUME HonestInv, NEW q \in Questions \ disturbed, page = "shown", Quiet(q)
    PROVE  field[q] = FieldOf(q, rows[q]) \/ label[q] = "error"
<1>1. q \notin timers /\ \A s \in saves : ~ Own(s, q)
  BY DEF Quiet, InFlight, Own
<1>2. QED
  BY <1>1 DEF HonestInv, HonestField

\* What a field that has come to rest tells its user is true.
THEOREM RestIsHonest == Spec => []RestingFieldIsHonest
<1>1. HonestInv => RestingFieldIsHonest
  BY QuietIsHonest DEF RestingFieldIsHonest
<1>2. QED
  BY <1>1, HonestHolds, PTL

\* What the page shows as saved is in the rows, of which a submission, whoever
\* makes it, copies what they are at that moment.
THEOREM SavedIsSubmitted == Spec => SavedAnswersAreSubmitted
<1>1. ASSUME TypeOK, HonestInv, [Next]_vars, NEW q \in Questions \ disturbed,
             snapshots' # snapshots, page = "shown", Quiet(q), label[q] = "saved"
      PROVE  FieldOf(q, snapshots'[Len(snapshots')][q]) = field[q]
  <2>1. snapshots' = Append(snapshots, rows)
    BY <1>1, ServerStep DEF RowCommitted, Locked, FoundComplete, Refused, Submitted, Returned
  <2>2. snapshots'[Len(snapshots')] = rows
    BY <1>1, <2>1, AppendProperties DEF TypeOK
  <2>3. QED
    BY <1>1, <2>2, QuietIsHonest
<1>2. TypeOK /\ HonestInv /\ [Next]_vars =>
          [\A q \in Questions :
              snapshots' # snapshots /\ page = "shown" /\ Quiet(q) /\ q \notin disturbed
                  /\ label[q] = "saved" =>
                  FieldOf(q, snapshots'[Len(snapshots')][q]) = field[q]]_vars
  BY <1>1
<1>3. QED
  BY <1>2, TypeCorrect, HonestHolds, PTL DEF Spec, SavedAnswersAreSubmitted
-----------------------------------------------------------------------------
(* The buyer's pages                                                       *)

CONSTANTS Api, BuyerRoles, Severities, MaxFindings, MaxRequests

VARIABLES assessment, findings, reviewer, place, failed, opened, load, requests, unseen

\* What a buyer's page has in common with a supplier's by name is renamed.
Review == INSTANCE ReviewDesk WITH
    Roles <- BuyerRoles, status <- assessment, role <- reviewer, view <- opened, fetch <- load

\* What a step does to the rows the server keeps.
ReviewRows ==
    \/ UNCHANGED <<assessment, findings>>
    \/ \E w \in Review!Works : Review!Perform(w)
    \/ \E i \in DOMAIN findings :
          /\ findings[i].state \notin Review!Resolved
          /\ \E state \in {"response_submitted", "verified", "rejected"} :
                findings' = [findings EXCEPT ![i].state = state]
          /\ assessment' = assessment
    \/ assessment = "changes_requested" /\ assessment' = "resubmitted" /\ findings' = findings
    \/ assessment = "under_review" /\ assessment' = "changes_requested" /\ findings' = findings

LEMMA WorksKnown ==
    /\ \A s \in {"submitted", "resubmitted"} : Review!Work("start", s) \in Review!Works
    /\ Review!Work("review", "none") \in Review!Works
    /\ \A s \in Severities : Review!Work("finding", s) \in Review!Works
    /\ \A d \in {"approved", "rejected", "deferred"} : Review!Work("decide", d) \in Review!Works
BY DEF Review!Work, Review!Works

LEMMA OffersAreWorks == Review!Offers \subseteq Review!Works
<1>1. Review!OffersOnReview \subseteq Review!Works
  BY WorksKnown DEF Review!OffersOnReview
<1>2. Review!OffersOnDecision \subseteq Review!Works
  BY WorksKnown DEF Review!OffersOnDecision
<1>3. QED
  BY <1>1, <1>2 DEF Review!Offers

LEMMA ReviewRowsMove == ASSUME Review!TypeOK, [Review!Next]_(Review!vars) PROVE ReviewRows
<1>1. ASSUME NEW w \in Review!Offers, Review!Click(w) PROVE ReviewRows
  BY <1>1 DEF Review!Click, Review!server, ReviewRows
<1>2. ASSUME NEW r \in requests, Review!Handle(r) PROVE ReviewRows
  <2>1. r.work \in Review!Works
    BY <1>2 DEF Review!Handle, Review!TypeOK
  <2>2. QED
    BY <1>2, <2>1 DEF Review!Handle, Review!server, ReviewRows
<1>3. ASSUME NEW r \in requests, Review!Answer(r) \/ Review!Lose(r) PROVE ReviewRows
  BY <1>3 DEF Review!Answer, Review!Lose, Review!server, ReviewRows
<1>4. CASE \/ Review!Refresh \/ Review!ReadAssessment \/ Review!ReadRest \/ Review!LoadFails
           \/ Review!Navigate
  BY <1>4 DEF Review!Refresh, Review!ReadAssessment, Review!ReadRest, Review!LoadFails,
              Review!Navigate, Review!server, ReviewRows
<1>5. CASE Review!ColleagueReviews
  <2>1. PICK w \in {Review!Work("start", assessment)}
                   \union {Review!Work("finding", s) : s \in Severities} : Review!Perform(w)
    BY <1>5 DEF Review!ColleagueReviews
  <2>2. w \in Review!Works
    <3>1. CASE w = Review!Work("start", assessment)
      <4>1. w.kind = "start"
        BY <3>1 DEF Review!Work
      <4>2. assessment \in {"submitted", "resubmitted"}
        BY <2>1, <4>1 DEF Review!Perform, Review!Accepted
      <4>3. QED
        BY <3>1, <4>2, WorksKnown
    <3>2. CASE w \in {Review!Work("finding", s) : s \in Severities}
      BY <3>2, WorksKnown
    <3>3. QED
      BY <2>1, <3>1, <3>2
  <2>3. QED
    BY <2>1, <2>2 DEF ReviewRows
<1>6. CASE Review!ColleagueDecides
  <2>1. PICK d \in {"approved", "rejected", "deferred"} : Review!Perform(Review!Work("decide", d))
    BY <1>6 DEF Review!ColleagueDecides
  <2>2. Review!Work("decide", d) \in Review!Works
    BY WorksKnown
  <2>3. QED
    BY <2>1, <2>2 DEF ReviewRows
<1>7. ASSUME NEW i \in DOMAIN findings, Review!Respond(i) PROVE ReviewRows
  <2>1. findings[i].state \notin Review!Resolved
    BY <1>7 DEF Review!Respond, Review!AwaitsResponse, Review!Resolved
  <2>2. QED
    BY <1>7, <2>1 DEF Review!Respond, ReviewRows
<1>8. ASSUME NEW i \in DOMAIN findings, NEW outcome \in {"verified", "rejected"}, Review!Verify(i, outcome)
      PROVE  ReviewRows
  <2>1. findings[i].state \notin Review!Resolved
    BY <1>8 DEF Review!Verify, Review!Resolved
  <2>2. QED
    BY <1>8, <2>1 DEF Review!Verify, ReviewRows
<1>9. CASE Review!Resubmit \/ Review!RequestChanges
  BY <1>9 DEF Review!Resubmit, Review!RequestChanges, ReviewRows
<1>10. CASE UNCHANGED Review!vars
  BY <1>10 DEF Review!vars, Review!server, ReviewRows
<1>11. QED
  BY <1>1, <1>2, <1>3, <1>4, <1>5, <1>6, <1>7, <1>8, <1>9, <1>10
     DEF Review!Next, Review!Handles, Review!Answers, Review!Responds, Review!Verifies

\* What a step does to the assessment and its findings is allowed by their tables.
RowsTyped == assessment \in Review!Statuses /\ findings \in Seq(Review!Findings)

LEMMA NewFinding ==
    ASSUME NEW severity \in Severities
    PROVE  [severity |-> severity, state |-> "response_required"] \in Review!Findings
BY DEF Review!Findings

LEMMA WorkArguments ==
    /\ \A w \in Review!Works : w.kind = "finding" => w.arg \in Severities
    /\ \A w \in Review!Works : w.kind = "decide" => w.arg \in {"approved", "rejected", "deferred"}
BY DEF Review!Works, Review!Work

LEMMA PerformTyped ==
    ASSUME RowsTyped, NEW w \in Review!Works, Review!Perform(w) PROVE RowsTyped'
<1>1. assessment' \in Review!Statuses
  BY WorkArguments DEF Review!Perform, Review!StatusAfter, Review!Statuses, RowsTyped
<1>2. CASE w.kind = "finding"
  <2>1. findings' = Append(findings, [severity |-> w.arg, state |-> "response_required"])
    BY <1>2 DEF Review!Perform
  <2>2. [severity |-> w.arg, state |-> "response_required"] \in Review!Findings
    BY <1>2, WorkArguments, NewFinding
  <2>3. findings' \in Seq(Review!Findings)
    BY <2>1, <2>2, AppendProperties DEF RowsTyped
  <2>4. QED
    BY <1>1, <2>3 DEF RowsTyped
<1>3. CASE w.kind # "finding"
  BY <1>1, <1>3 DEF Review!Perform, RowsTyped
<1>4. QED
  BY <1>2, <1>3

LEMMA FindingMoved ==
    ASSUME RowsTyped, NEW i \in DOMAIN findings,
           NEW state \in {"response_submitted", "verified", "rejected"},
           findings' = [findings EXCEPT ![i].state = state]
    PROVE  /\ findings' \in Seq(Review!Findings) /\ DOMAIN findings' = DOMAIN findings
           /\ \A k \in DOMAIN findings : findings'[k].severity = findings[k].severity
           /\ \A k \in DOMAIN findings : k # i => findings'[k] = findings[k]
<1>1. /\ Len(findings) \in Nat /\ DOMAIN findings = 1..Len(findings)
      /\ \A k \in DOMAIN findings : findings[k] \in Review!Findings
  BY LenProperties, ElementOfSeq DEF RowsTyped
<1>2. [findings[i] EXCEPT !.state = state] \in Review!Findings
      /\ [findings[i] EXCEPT !.state = state].severity = findings[i].severity
  BY <1>1 DEF Review!Findings
<1>3. findings' = [findings EXCEPT ![i] = [findings[i] EXCEPT !.state = state]]
  OBVIOUS
<1>4. findings' \in [1..Len(findings) -> Review!Findings]
  BY <1>1, <1>2, <1>3
<1>5. findings' \in Seq(Review!Findings)
  BY <1>1, <1>4, IsASeq
<1>6. QED
  BY <1>1, <1>2, <1>3, <1>5

LEMMA RowsStayTyped == ASSUME RowsTyped, ReviewRows PROVE RowsTyped'
<1>1. CASE UNCHANGED <<assessment, findings>>
  BY <1>1 DEF RowsTyped
<1>2. ASSUME NEW w \in Review!Works, Review!Perform(w) PROVE RowsTyped'
  BY <1>2, PerformTyped
<1>3. ASSUME NEW i \in DOMAIN findings, NEW state \in {"response_submitted", "verified", "rejected"},
             findings' = [findings EXCEPT ![i].state = state], assessment' = assessment
      PROVE  RowsTyped'
  BY <1>3, FindingMoved DEF RowsTyped
<1>4. CASE findings' = findings /\ assessment' \in {"resubmitted", "changes_requested"}
  BY <1>4 DEF RowsTyped, Review!Statuses
<1>5. QED
  BY <1>1, <1>2, <1>3, <1>4 DEF ReviewRows

\* The user's requests are ones the pages offer, and stay them while they move.
RequestsTyped ==
    /\ requests \subseteq Review!Requests
    /\ \A r \in requests : r.phase = "sent" => r.work \in Review!Works

LEMMA WorkTyped ==
    /\ Review!Works \subseteq [kind : Review!Kinds, arg : {w.arg : w \in Review!Works}]
    /\ "none" \in {w.arg : w \in Review!Works}
<1>1. \A w \in Review!Works : w = [kind |-> w.kind, arg |-> w.arg] /\ w.kind \in Review!Kinds
  BY DEF Review!Works, Review!Work, Review!Kinds
<1>2. Review!Work("review", "none") \in Review!Works /\ Review!Work("review", "none").arg = "none"
  BY WorksKnown DEF Review!Work
<1> HIDE DEF Review!Work
<1>3. QED
  BY <1>1, <1>2

LEMMA RequestMoved ==
    ASSUME NEW r \in Review!Requests
    PROVE  /\ [r EXCEPT !.phase = "done", !.work.arg = "none"] \in Review!Requests
           /\ [r EXCEPT !.phase = "done", !.work.arg = "none"].phase = "done"
           /\ [r EXCEPT !.phase = "refreshing"] \in Review!Requests
           /\ [r EXCEPT !.phase = "refreshing"].phase = "refreshing"
           /\ [r EXCEPT !.orphan = TRUE] \in Review!Requests
           /\ [r EXCEPT !.orphan = TRUE].phase = r.phase /\ [r EXCEPT !.orphan = TRUE].work = r.work
<1> DEFINE args == {w.arg : w \in Review!Works}
<1>1. "none" \in args
  BY WorkTyped
<1> HIDE DEF args
<1>2. r \in [slot : 1..MaxRequests, work : [kind : Review!Kinds, arg : args],
             phase : {"sent", "done", "refreshing"}, orphan : BOOLEAN]
  BY DEF Review!Requests, args
<1>3. [r.work EXCEPT !.arg = "none"] \in [kind : Review!Kinds, arg : args]
  BY <1>1, <1>2
<1>4. [r EXCEPT !.phase = "done", !.work.arg = "none"] =
         [r EXCEPT !.phase = "done", !.work = [r.work EXCEPT !.arg = "none"]]
  BY <1>2
<1>5. QED
  BY <1>2, <1>3, <1>4 DEF Review!Requests, args

LEMMA ClickTyped ==
    ASSUME Review!ReviewAssumption, RequestsTyped, NEW w \in Review!Works, Review!Click(w)
    PROVE  RequestsTyped'
<1> DEFINE new == [slot |-> CHOOSE s \in Review!FreeSlots : TRUE, work |-> w, phase |-> "sent", orphan |-> FALSE]
<1>1. requests' = requests \union {new}
  BY DEF Review!Click
<1>2. (CHOOSE s \in Review!FreeSlots : TRUE) \in 1..MaxRequests
  BY DEF Review!Click, Review!FreeSlots
<1>3. new \in Review!Requests /\ new.work = w
  BY <1>2, WorkTyped DEF Review!Requests
<1> HIDE DEF new
<1>4. QED
  BY <1>1, <1>3 DEF RequestsTyped

LEMMA RequestsStayTyped ==
    ASSUME Review!ReviewAssumption, RequestsTyped, [Review!Next]_(Review!vars)
    PROVE  RequestsTyped'
<1>1. ASSUME requests' \subseteq requests PROVE RequestsTyped'
  BY <1>1 DEF RequestsTyped
<1>2. ASSUME NEW w \in Review!Offers, Review!Click(w) PROVE RequestsTyped'
  BY <1>2, OffersAreWorks, ClickTyped
<1>3. ASSUME NEW r \in requests, NEW moved, moved \in Review!Requests, moved.phase # "sent",
             requests' \subseteq requests \union {moved}
      PROVE  RequestsTyped'
  BY <1>3 DEF RequestsTyped
<1>4. ASSUME NEW r \in requests, Review!Handle(r) \/ Review!Answer(r) \/ Review!Lose(r)
      PROVE  RequestsTyped'
  <2>1. r \in Review!Requests
    BY <1>4 DEF RequestsTyped
  <2>2. CASE Review!Handle(r)
    <3>1. \/ requests' \subseteq requests
          \/ requests' \subseteq requests \union {[r EXCEPT !.phase = "done", !.work.arg = "none"]}
      BY <2>2 DEF Review!Handle
    <3>2. QED
      BY <1>1, <1>3, <2>1, <3>1, RequestMoved
  <2>3. CASE Review!Answer(r)
    <3>1. \A q \in requests' : q \in requests \/ q = [r EXCEPT !.phase = "refreshing"]
      BY <2>3 DEF Review!Answer
    <3>2. QED
      BY <1>3, <2>1, <3>1, RequestMoved
  <2>4. CASE Review!Lose(r)
    BY <1>1, <2>4 DEF Review!Lose
  <2>5. QED
    BY <1>4, <2>2, <2>3, <2>4
<1>5. CASE Review!Navigate
  <2>1. \A q \in requests' : \E r \in requests : q = [r EXCEPT !.orphan = TRUE]
    BY <1>5 DEF Review!Navigate
  <2>2. ASSUME NEW q \in requests'
        PROVE  q \in Review!Requests /\ (q.phase = "sent" => q.work \in Review!Works)
    <3>1. PICK r \in requests : q = [r EXCEPT !.orphan = TRUE]
      BY <2>1
    <3>2. r \in Review!Requests /\ (r.phase = "sent" => r.work \in Review!Works)
      BY DEF RequestsTyped
    <3>3. QED
      BY <3>1, <3>2, RequestMoved
  <2>3. QED
    BY <2>2 DEF RequestsTyped
<1>6. CASE \/ Review!Refresh \/ Review!ReadAssessment \/ Review!ReadRest \/ Review!LoadFails
           \/ Review!ColleagueReviews \/ Review!ColleagueDecides \/ Review!Resubmit
           \/ Review!RequestChanges \/ UNCHANGED Review!vars
  BY <1>1, <1>6 DEF Review!Refresh, Review!ReadAssessment, Review!ReadRest, Review!LoadFails,
       Review!ColleagueReviews, Review!ColleagueDecides, Review!Resubmit, Review!RequestChanges,
       Review!vars
<1>7. ASSUME NEW i, NEW outcome, Review!Respond(i) \/ Review!Verify(i, outcome) PROVE RequestsTyped'
  BY <1>1, <1>7 DEF Review!Respond, Review!Verify
<1>8. QED
  BY <1>2, <1>4, <1>5, <1>6, <1>7
     DEF Review!Next, Review!Handles, Review!Answers, Review!Responds, Review!Verifies

\* What the pages show and load was stored some time.
ScreenTyped ==
    /\ reviewer \in BuyerRoles /\ place \in {"review", "decision"}
    /\ failed \in BOOLEAN /\ unseen \in BOOLEAN
    /\ opened \in [status : Review!Statuses, findings : Seq(Review!Findings)]
    /\ load \in [phase : {"none", "asked", "read"}, status : Review!Statuses, covers : BOOLEAN]

LEMMA LoadsTyped ==
    /\ Review!NoFetch \in [phase : {"none", "asked", "read"}, status : Review!Statuses, covers : BOOLEAN]
    /\ Review!Asked \in [phase : {"none", "asked", "read"}, status : Review!Statuses, covers : BOOLEAN]
    /\ Review!NoFetch.phase = "none" /\ Review!Asked.phase = "asked"
BY DEF Review!NoFetch, Review!Asked, Review!Statuses

LEMMA ScreenStaysTyped == ASSUME RowsTyped, ScreenTyped, [Review!Next]_(Review!vars) PROVE ScreenTyped'
<1>1. CASE UNCHANGED <<reviewer, place, failed, unseen, opened, load>>
  BY <1>1 DEF ScreenTyped
<1>2. ASSUME NEW r \in requests, Review!Answer(r) PROVE ScreenTyped'
  BY <1>2, LoadsTyped DEF ScreenTyped, Review!Answer, Review!Restarted
<1>3. CASE Review!Refresh \/ Review!Navigate
  BY <1>3, LoadsTyped DEF ScreenTyped, Review!Refresh, Review!Navigate
<1>4. CASE Review!ReadAssessment
  BY <1>4 DEF ScreenTyped, RowsTyped, Review!ReadAssessment
<1>5. CASE Review!ReadRest
  <2>1. opened' \in [status : Review!Statuses, findings : Seq(Review!Findings)]
    BY <1>5 DEF ScreenTyped, RowsTyped, Review!ReadRest, Review!Loaded
  <2>2. unseen' \in BOOLEAN
    BY <1>5 DEF ScreenTyped, Review!ReadRest
  <2>3. QED
    BY <1>5, <2>1, <2>2, LoadsTyped DEF ScreenTyped, Review!ReadRest
<1>6. CASE Review!LoadFails
  BY <1>6, LoadsTyped DEF ScreenTyped, Review!LoadFails
<1>7. ASSUME NEW w, Review!Click(w) PROVE ScreenTyped'
  BY <1>1, <1>7 DEF Review!Click, Review!cache
<1>8. ASSUME NEW r, Review!Handle(r) \/ Review!Lose(r) PROVE ScreenTyped'
  BY <1>1, <1>8 DEF Review!Handle, Review!Lose, Review!cache
<1>9. ASSUME NEW i, NEW outcome, Review!Respond(i) \/ Review!Verify(i, outcome) PROVE ScreenTyped'
  BY <1>1, <1>9 DEF Review!Respond, Review!Verify, Review!cache
<1>10. CASE \/ Review!ColleagueReviews \/ Review!ColleagueDecides \/ Review!Resubmit
            \/ Review!RequestChanges \/ UNCHANGED Review!vars
  BY <1>1, <1>10 DEF Review!ColleagueReviews, Review!ColleagueDecides, Review!Resubmit,
       Review!RequestChanges, Review!vars, Review!cache
<1>11. QED
  BY <1>2, <1>3, <1>4, <1>5, <1>6, <1>7, <1>8, <1>9, <1>10
     DEF Review!Next, Review!Handles, Review!Answers, Review!Responds, Review!Verifies

LEMMA ReviewTyped == Review!TypeOK <=> RowsTyped /\ ScreenTyped /\ RequestsTyped
BY DEF Review!TypeOK, RowsTyped, ScreenTyped, RequestsTyped

\* Statuses, findings, requests and loads of the buyer's pages are of their types:
\* no function writes a status or a finding its table does not allow.
THEOREM ReviewTypeCorrect ==
    ASSUME Review!ReviewAssumption PROVE Review!Spec => []Review!TypeOK
<1>1. ASSUME Review!Init PROVE Review!TypeOK
  <2>1. <<>> \in Seq(Review!Findings)
    BY EmptySeq
  <2>2. RowsTyped /\ RequestsTyped
    BY <1>1, <2>1 DEF Review!Init, RowsTyped, RequestsTyped, Review!Statuses
  <2>3. ScreenTyped
    BY <1>1, <2>1, LoadsTyped DEF Review!Init, ScreenTyped, Review!Loaded, Review!Statuses
  <2>4. QED
    BY <2>2, <2>3, ReviewTyped
<1>2. ASSUME Review!TypeOK, [Review!Next]_(Review!vars) PROVE Review!TypeOK'
  <2>1. RowsTyped /\ ScreenTyped /\ RequestsTyped
    BY <1>2, ReviewTyped
  <2>2. RowsTyped' /\ ScreenTyped' /\ RequestsTyped'
    BY <1>2, <2>1, ReviewRowsMove, RowsStayTyped, ScreenStaysTyped, RequestsStayTyped
  <2>3. (RowsTyped /\ ScreenTyped /\ RequestsTyped)' => Review!TypeOK'
    BY DEF Review!TypeOK, RowsTyped, ScreenTyped, RequestsTyped
  <2>4. QED
    BY <2>2, <2>3
<1>3. QED
  BY <1>1, <1>2, PTL DEF Review!Spec

\* The load under way has been started after the last announcement, or has read
\* the assessment after it.
LoadInv ==
    /\ Review!AnnouncedIsUnderWay
    /\ load.phase = "read" /\ unseen => load.covers

LEMMA LoadInvStep == ASSUME LoadInv, ScreenTyped, [Review!Next]_(Review!vars) PROVE LoadInv'
<1>1. CASE UNCHANGED <<failed, unseen, load>>
  BY <1>1 DEF LoadInv, Review!AnnouncedIsUnderWay
<1>2. ASSUME NEW r \in requests, Review!Answer(r) PROVE LoadInv'
  BY <1>2, LoadsTyped DEF LoadInv, Review!AnnouncedIsUnderWay, Review!Answer, Review!Restarted
<1>3. CASE Review!Refresh \/ Review!Navigate
  BY <1>3, LoadsTyped DEF LoadInv, Review!AnnouncedIsUnderWay, Review!Refresh, Review!Navigate
<1>4. CASE Review!ReadAssessment
  BY <1>4, LoadsTyped DEF LoadInv, Review!AnnouncedIsUnderWay, Review!ReadAssessment
<1>5. CASE Review!ReadRest
  BY <1>5, LoadsTyped DEF LoadInv, Review!AnnouncedIsUnderWay, Review!ReadRest, ScreenTyped
<1>6. CASE Review!LoadFails
  BY <1>6, LoadsTyped DEF LoadInv, Review!AnnouncedIsUnderWay, Review!LoadFails
<1>7. ASSUME NEW w, Review!Click(w) PROVE LoadInv'
  BY <1>1, <1>7 DEF Review!Click, Review!cache
<1>8. ASSUME NEW r, Review!Handle(r) \/ Review!Lose(r) PROVE LoadInv'
  BY <1>1, <1>8 DEF Review!Handle, Review!Lose, Review!cache
<1>9. ASSUME NEW i, NEW outcome, Review!Respond(i) \/ Review!Verify(i, outcome) PROVE LoadInv'
  BY <1>1, <1>9 DEF Review!Respond, Review!Verify, Review!cache
<1>10. CASE \/ Review!ColleagueReviews \/ Review!ColleagueDecides \/ Review!Resubmit
            \/ Review!RequestChanges \/ UNCHANGED Review!vars
  BY <1>1, <1>10 DEF Review!ColleagueReviews, Review!ColleagueDecides, Review!Resubmit,
       Review!RequestChanges, Review!vars, Review!cache
<1>11. QED
  BY <1>2, <1>3, <1>4, <1>5, <1>6, <1>7, <1>8, <1>9, <1>10
     DEF Review!Next, Review!Handles, Review!Answers, Review!Responds, Review!Verifies

\* What was announced as done and is not shown yet is on its way, however often
\* loads are cancelled, overtaken by announcements and started again.
THEOREM AnnouncementsAreUnderWay ==
    ASSUME Review!ReviewAssumption PROVE Review!Spec => []Review!AnnouncedIsUnderWay
<1>1. Review!Init => LoadInv
  BY LoadsTyped DEF Review!Init, LoadInv, Review!AnnouncedIsUnderWay
<1>2. Review!TypeOK /\ LoadInv /\ [Review!Next]_(Review!vars) => LoadInv'
  BY ReviewTyped, LoadInvStep
<1>3. LoadInv => Review!AnnouncedIsUnderWay
  BY DEF LoadInv
<1>4. QED
  BY <1>1, <1>2, <1>3, ReviewTypeCorrect, PTL DEF Review!Spec
-----------------------------------------------------------------------------
(* What both sides may rely on                                             *)

Seen == <<Review!TheTurn, Review!TheSheet, Review!TheBlock, Review!TheStanding>>

ReviewPromised == [Review!Promise!Next]_Seen

Blocked == Review!UnresolvedCritical(findings)

LEMMA SameAssessment ==
    ASSUME assessment' = assessment
    PROVE  /\ Review!TheTurn' = Review!TheTurn /\ Review!TheSheet' = Review!TheSheet
           /\ Review!TheStanding' = Review!TheStanding
BY DEF Review!TheTurn, Review!TheSheet, Review!TheStanding, Review!Turn

LEMMA SameFindings ==
    ASSUME findings' = findings PROVE Review!TheBlock' = Review!TheBlock /\ Blocked' = Blocked
BY DEF Review!TheBlock, Review!UnresolvedCritical, Blocked

\* A step that is about findings only may block in either side's turn and lift
\* the block at any time.
LEMMA FindingsPromised ==
    ASSUME assessment' = assessment, Blocked' /\ ~ Blocked => Review!Turn \in {"supplier", "buyer"}
    PROVE  ReviewPromised
<1>1. Blocked \in BOOLEAN /\ Blocked' \in BOOLEAN
  BY DEF Blocked, Review!UnresolvedCritical
<1>2. CASE Blocked' = Blocked
  BY <1>2, SameAssessment DEF ReviewPromised, Seen, Review!TheBlock, Blocked
<1>3. CASE Blocked' /\ ~ Blocked
  <2>1. Review!TheBlock' = [Review!TheBlock EXCEPT !["assessment"] = TRUE]
    <3>1. Blocked' = TRUE
      BY <1>3
    <3>2. QED
      BY <3>1 DEF Review!TheBlock, Blocked
  <2>2. Review!Promise!Block("assessment")
    BY <1>3, <2>1, SameAssessment DEF Review!Promise!Block, Review!TheTurn
  <2>3. QED
    BY <2>2 DEF ReviewPromised, Review!Promise!Next
<1>4. CASE ~ Blocked' /\ Blocked
  <2>1. Review!TheBlock' = [Review!TheBlock EXCEPT !["assessment"] = FALSE]
    <3>1. Blocked' = FALSE
      BY <1>4
    <3>2. QED
      BY <3>1 DEF Review!TheBlock, Blocked
  <2>2. Review!Promise!Unblock("assessment")
    BY <2>1, SameAssessment DEF Review!Promise!Unblock
  <2>3. QED
    BY <2>2 DEF ReviewPromised, Review!Promise!Next
<1>5. QED
  BY <1>1, <1>2, <1>3, <1>4

LEMMA VerdictPromised ==
    ASSUME assessment = "under_review", NEW verdict \in {"approved", "rejected"},
           assessment' = verdict, findings' = findings, verdict = "approved" => ~ Blocked
    PROVE  ReviewPromised
<1>1. Review!Turn = "buyer" /\ Review!Turn' = verdict
  BY DEF Review!Turn
<1>2. Review!TheBlock' = Review!TheBlock /\ Review!TheSheet' = Review!TheSheet
  BY <1>1, SameFindings DEF Review!TheSheet
<1>3. Review!TheStanding' = [Review!TheStanding EXCEPT !["relationship"] = Review!Promise!StandingAfter(verdict)]
  BY DEF Review!TheStanding, Review!Promise!StandingAfter
<1>4. Review!TheTurn["assessment"] = "buyer"
      /\ Review!TheTurn' = [Review!TheTurn EXCEPT !["assessment"] = verdict]
  BY <1>1 DEF Review!TheTurn
<1>5. Review!TheBlock["assessment"] => verdict = "rejected"
  BY DEF Review!TheBlock, Blocked
<1>6. Review!Promise!Decide("assessment", verdict)
  BY <1>2, <1>3, <1>4, <1>5 DEF Review!Promise!Decide
<1>7. verdict \in Review!Promise!Verdicts
  BY DEF Review!Promise!Verdicts
<1>8. QED
  BY <1>6, <1>7 DEF ReviewPromised, Review!Promise!Next

LEMMA SentBackPromised ==
    ASSUME assessment = "under_review", assessment' = "changes_requested", findings' = findings
    PROVE  ReviewPromised
<1>1. Review!Turn = "buyer" /\ Review!Turn' = "supplier"
  BY DEF Review!Turn
<1>2. Review!TheBlock' = Review!TheBlock /\ Review!TheStanding' = Review!TheStanding
  BY SameFindings DEF Review!TheStanding
<1>3. Review!Promise!SendBack("assessment")
  BY <1>1, <1>2 DEF Review!Promise!SendBack, Review!TheTurn, Review!TheSheet
<1>4. QED
  BY <1>3 DEF ReviewPromised, Review!Promise!Next

LEMMA ResubmittedPromised ==
    ASSUME assessment = "changes_requested", assessment' = "resubmitted", findings' = findings
    PROVE  ReviewPromised
<1>1. Review!Turn = "supplier" /\ Review!Turn' = "buyer"
  BY DEF Review!Turn
<1>2. Review!TheBlock' = Review!TheBlock /\ Review!TheStanding' = Review!TheStanding
  BY SameFindings DEF Review!TheStanding
<1>3. Review!Promise!Submit("assessment")
  BY <1>1, <1>2 DEF Review!Promise!Submit, Review!TheTurn, Review!TheSheet
<1>4. QED
  BY <1>3 DEF ReviewPromised, Review!Promise!Next

LEMMA WorkKinds == \A w \in Review!Works : w.kind \in Review!Kinds
BY WorkTyped

\* What a database function accepts.
LEMMA PerformPromised ==
    ASSUME RowsTyped, NEW w \in Review!Works, Review!Perform(w) PROVE ReviewPromised
<1>1. CASE w.kind = "start"
  <2>1. /\ assessment \in {"submitted", "resubmitted"} /\ assessment' = "under_review"
        /\ findings' = findings
    BY <1>1 DEF Review!Perform, Review!Accepted, Review!StatusAfter
  <2>2. Review!Turn = "buyer" /\ Review!Turn' = "buyer"
    BY <2>1 DEF Review!Turn
  <2>3. /\ Review!TheTurn' = Review!TheTurn /\ Review!TheSheet' = Review!TheSheet
        /\ Review!TheStanding' = Review!TheStanding
    BY <2>1, <2>2 DEF Review!TheTurn, Review!TheSheet, Review!TheStanding
  <2>4. QED
    BY <2>1, <2>3, SameFindings DEF ReviewPromised, Seen
<1>2. CASE w.kind = "review"
  <2>1. assessment' = assessment /\ findings' = findings
    BY <1>2 DEF Review!Perform, Review!StatusAfter
  <2>2. QED
    BY <2>1, SameAssessment, SameFindings DEF ReviewPromised, Seen
<1>3. CASE w.kind = "finding"
  <2>1. assessment \in {"under_review", "changes_requested"} /\ assessment' = assessment
    BY <1>3 DEF Review!Perform, Review!Accepted, Review!StatusAfter
  <2>2. Review!Turn \in {"supplier", "buyer"}
    BY <2>1 DEF Review!Turn
  <2>3. QED
    BY <2>1, <2>2, FindingsPromised
<1>4. CASE w.kind = "decide"
  <2>1. /\ assessment = "under_review" /\ findings' = findings
        /\ assessment' = IF w.arg = "deferred" THEN "changes_requested" ELSE w.arg
        /\ w.arg = "approved" => ~ Blocked
        /\ w.arg \in {"approved", "rejected", "deferred"}
    BY <1>4, WorkArguments DEF Review!Perform, Review!Accepted, Review!StatusAfter, Blocked
  <2>2. CASE w.arg = "deferred"
    BY <2>1, <2>2, SentBackPromised
  <2>3. CASE w.arg # "deferred"
    BY <2>1, <2>3, VerdictPromised
  <2>4. QED
    BY <2>2, <2>3
<1>5. QED
  BY <1>1, <1>2, <1>3, <1>4, WorkKinds DEF Review!Kinds

\* A finding that is answered or judged was unresolved: it blocks afterwards only
\* if it did before.
LEMMA MovedFindingPromised ==
    ASSUME RowsTyped, NEW i \in DOMAIN findings, findings[i].state \notin Review!Resolved,
           NEW state \in {"response_submitted", "verified", "rejected"},
           findings' = [findings EXCEPT ![i].state = state], assessment' = assessment
    PROVE  ReviewPromised
<1>1. Blocked' => Blocked
  BY FindingMoved DEF Blocked, Review!UnresolvedCritical
<1>2. QED
  BY <1>1, FindingsPromised

LEMMA ReviewStepPromised ==
    ASSUME Review!TypeOK, [Review!Next]_(Review!vars) PROVE ReviewPromised
<1>1. RowsTyped /\ ReviewRows
  BY ReviewRowsMove, ReviewTyped
<1>2. CASE UNCHANGED <<assessment, findings>>
  BY <1>2, SameAssessment, SameFindings DEF ReviewPromised, Seen
<1>3. QED
  BY <1>1, <1>2, PerformPromised, MovedFindingPromised, ResubmittedPromised, SentBackPromised
     DEF ReviewRows

\* However old the page is on which a button is pressed, and whatever is raised,
\* answered and verified while the request is on its way, the buyer's pages
\* implement the buyer's part of Qualification.
THEOREM ReviewImplementsPromise ==
    ASSUME Review!ReviewAssumption PROVE Review!Spec => Review!KeepsThePromise
<1>1. Review!TypeOK /\ [Review!Next]_(Review!vars) => [Review!Promise!Next]_Seen
  BY ReviewStepPromised DEF ReviewPromised
<1>2. QED
  BY <1>1, ReviewTypeCorrect, PTL DEF Review!Spec, Review!KeepsThePromise, Seen
=============================================================================
