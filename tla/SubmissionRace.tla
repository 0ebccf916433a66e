---------------------------- MODULE SubmissionRace ----------------------------
(***************************************************************************)
(* submit_assessment statement by statement, and what commits beside it.   *)
(*                                                                         *)
(* The function holds the row lock of the assessment (SELECT ... FOR       *)
(* UPDATE) from its first statement to its commit, but the response rows   *)
(* and the evidence it counts and copies are other rows.  The isolation    *)
(* level is PostgreSQL's default, READ COMMITTED: every statement sees     *)
(* what had been committed when that statement began.                      *)
(*                                                                         *)
(* A response row is written by one statement in a transaction of its own. *)
(* Row-level security and the trigger that locks responses read the status *)
(* before the row is written.  Inserting a row then waits, in the check of *)
(* its foreign key, for a key-share lock on the assessment, which conflicts*)
(* with FOR UPDATE; updating or deleting a row takes no such lock.         *)
(*                                                                         *)
(* The visible required questions depend on the answers: a question with a *)
(* gate is shown when its gate is answered "yes".  The way from submitted  *)
(* through review to changes_requested is one step.                        *)
(***************************************************************************)
EXTENDS Naturals, Sequences, FiniteSets

CONSTANTS
    Questions,      \* the required questions of the program version
    Gate,           \* the question that shows a question, or Always
    Always,
    Submitters,     \* transactions running submit_assessment
    Nobody,         \* the row lock is free
    Writers,        \* transactions writing one response row
    MaxSubmissions  \* bound on the submissions

ASSUME QuestionsAssumption ==
    /\ IsFiniteSet(Questions)
    /\ Gate \in [Questions -> Questions \union {Always}]
    /\ Always \notin Questions
ASSUME SubmittersAssumption == Nobody \notin Submitters
ASSUME BoundAssumption == MaxSubmissions \in Nat

Values == {"none", "yes", "no"}     \* "none": there is no response row

VARIABLES
    status,     \* assessments.status: editable or submitted
    answers,    \* committed response rows
    ready,      \* every required document has a ready current version
    snapshots,  \* committed submission snapshots
    returned,   \* times the assessment came back for changes
    lock,       \* the submitter that holds the row lock, or Nobody
    pc,         \* the next statement of a submitter
    required,   \* required_questions, as counted
    draft,      \* the snapshot row inserted and not yet committed
    wpc,        \* the next step of a writer
    edit,       \* the row a writer writes and its value
    disturbed   \* a row was committed beside the last submission, or after it

vars == <<status, answers, ready, snapshots, returned, lock, pc, required,
          draft, wpc, edit, disturbed>>

-----------------------------------------------------------------------------
Visible(ans) ==
    {q \in Questions : Gate[q] = Always \/ (Gate[q] \in Questions /\ ans[Gate[q]] = "yes")}

Slip_AnsweredRequired(ans) == {q \in Questions : ans[q] # "none"}

AnsweredRequired(ans) == {q \in Visible(ans) : ans[q] # "none"}

Complete(ans) == AnsweredRequired(ans) = Visible(ans)

NoDraft == [answers |-> [q \in Questions |-> "none"], ready |-> FALSE]
NoEdit  == [question |-> Always, value |-> "none"]

\* The rows a writer's transaction has already written and locked.
Rows(ws) == {edit[w].question : w \in ws}

Busy == {w \in Writers : wpc[w] # "idle"}

\* Writers that hold a key-share lock on the assessment.
Sharing == {w \in Writers : wpc[w] = "sharing"}

Init ==
    /\ status    = "editable"
    /\ answers   = [q \in Questions |-> "none"]
    /\ ready     = FALSE
    /\ snapshots = <<>>
    /\ returned  = 0
    /\ lock      = Nobody
    /\ pc        = [s \in Submitters |-> "idle"]
    /\ required  = [s \in Submitters |-> 0]
    /\ draft     = [s \in Submitters |-> NoDraft]
    /\ wpc       = [w \in Writers |-> "idle"]
    /\ edit      = [w \in Writers |-> NoEdit]
    /\ disturbed = FALSE

-----------------------------------------------------------------------------
(* The statements of submit_assessment                                     *)

Slip_Lock(s) ==
    /\ pc[s] = "idle"
    /\ lock = Nobody /\ Sharing = {}
    /\ lock' = s
    /\ pc' = [pc EXCEPT ![s] = "locked"]
    /\ disturbed' = FALSE
    /\ UNCHANGED <<status, answers, ready, snapshots, returned, required, draft, wpc, edit>>

\* The status is read under the lock: can_edit_assessment and the legality of
\* the transition.
Lock(s) ==
    /\ pc[s] = "idle"
    /\ lock = Nobody /\ Sharing = {}
    /\ status = "editable"
    /\ Len(snapshots) < MaxSubmissions
    /\ lock' = s
    /\ pc' = [pc EXCEPT ![s] = "locked"]
    /\ disturbed' = FALSE
    /\ UNCHANGED <<status, answers, ready, snapshots, returned, required, draft, wpc, edit>>

CountRequired(s) ==
    /\ pc[s] = "locked"
    /\ required' = [required EXCEPT ![s] = Cardinality(Visible(answers))]
    /\ pc' = [pc EXCEPT ![s] = "required_counted"]
    /\ UNCHANGED <<status, answers, ready, snapshots, returned, lock, draft, wpc, edit,
                   disturbed>>

\* Otherwise the function raises "assessment is incomplete": Rollback.
CountAnswered(s) ==
    /\ pc[s] = "required_counted"
    /\ Cardinality(AnsweredRequired(answers)) = required[s]
    /\ pc' = [pc EXCEPT ![s] = "answers_counted"]
    /\ UNCHANGED <<status, answers, ready, snapshots, returned, lock, required, draft, wpc,
                   edit, disturbed>>

CountDocuments(s) ==
    /\ pc[s] = "answers_counted"
    /\ ready
    /\ pc' = [pc EXCEPT ![s] = "complete"]
    /\ UNCHANGED <<status, answers, ready, snapshots, returned, lock, required, draft, wpc,
                   edit, disturbed>>

\* One statement copies the response rows and the ready current versions.
InsertSnapshot(s) ==
    /\ pc[s] = "complete"
    /\ draft' = [draft EXCEPT ![s] = [answers |-> answers, ready |-> ready]]
    /\ pc' = [pc EXCEPT ![s] = "snapshot"]
    /\ UNCHANGED <<status, answers, ready, snapshots, returned, lock, required, wpc, edit,
                   disturbed>>

\* The lock and the local variables go with the transaction.
EndTransaction(s) ==
    /\ lock'     = Nobody
    /\ pc'       = [pc EXCEPT ![s] = "idle"]
    /\ required' = [required EXCEPT ![s] = 0]
    /\ draft'    = [draft EXCEPT ![s] = NoDraft]

\* The status update and everything after it are seen at the commit.
Commit(s) ==
    /\ pc[s] = "snapshot"
    /\ snapshots' = Append(snapshots, draft[s])
    /\ status'    = "submitted"
    /\ EndTransaction(s)
    /\ UNCHANGED <<answers, ready, returned, wpc, edit, disturbed>>

\* A statement raises an exception, or the connection is lost.
Rollback(s) ==
    /\ lock = s
    /\ EndTransaction(s)
    /\ UNCHANGED <<status, answers, ready, snapshots, returned, wpc, edit, disturbed>>

-----------------------------------------------------------------------------
(* Response rows                                                           *)

\* The status check of the policy and the trigger, for one row no other writer
\* has written; the value "none" deletes the row.
BeginWrite(w, q, value) ==
    /\ wpc[w] = "idle"
    /\ status = "editable"
    /\ value # answers[q]
    /\ q \notin Rows(Busy)
    /\ edit' = [edit EXCEPT ![w] = [question |-> q, value |-> value]]
    /\ wpc' = [wpc EXCEPT ![w] = IF answers[q] = "none" THEN "inserted" ELSE "written"]
    /\ UNCHANGED <<status, answers, ready, snapshots, returned, lock, pc, required, draft,
                   disturbed>>

\* The foreign key of an inserted row.
ShareLock(w) ==
    /\ wpc[w] = "inserted"
    /\ lock = Nobody
    /\ wpc' = [wpc EXCEPT ![w] = "sharing"]
    /\ UNCHANGED <<status, answers, ready, snapshots, returned, lock, pc, required, draft,
                   edit, disturbed>>

CommitWrite(w) ==
    /\ wpc[w] \in {"written", "sharing"}
    /\ answers' = [answers EXCEPT ![edit[w].question] = edit[w].value]
    /\ wpc' = [wpc EXCEPT ![w] = "idle"]
    /\ disturbed' = (disturbed \/ lock # Nobody \/ status = "submitted")
    /\ edit' = [edit EXCEPT ![w] = NoEdit]
    /\ UNCHANGED <<status, ready, snapshots, returned, lock, pc, required, draft>>

-----------------------------------------------------------------------------
\* A finalized upload replaces a ready version, or processing makes one ready:
\* neither touches the assessment row.
EvidenceChanges ==
    /\ ready' = ~ ready
    /\ disturbed' = (disturbed \/ lock # Nobody)
    /\ UNCHANGED <<status, answers, snapshots, returned, lock, pc, required, draft, wpc, edit>>

\* request_assessment_changes takes the same row lock.
ReturnForChanges ==
    /\ status = "submitted"
    /\ lock = Nobody /\ Sharing = {}
    /\ status' = "editable"
    /\ returned' = returned + 1
    /\ UNCHANGED <<answers, ready, snapshots, lock, pc, required, draft, wpc, edit, disturbed>>

Next ==
    \/ \E s \in Submitters : Lock(s)
    \/ \E s \in Submitters : CountRequired(s)
    \/ \E s \in Submitters : CountAnswered(s)
    \/ \E s \in Submitters : CountDocuments(s)
    \/ \E s \in Submitters : InsertSnapshot(s)
    \/ \E s \in Submitters : Commit(s)
    \/ \E s \in Submitters : Rollback(s)
    \/ \E w \in Writers, q \in Questions, value \in Values : BeginWrite(w, q, value)
    \/ \E w \in Writers : ShareLock(w)
    \/ \E w \in Writers : CommitWrite(w)
    \/ EvidenceChanges
    \/ ReturnForChanges

Spec == Init /\ [][Next]_vars

-----------------------------------------------------------------------------
(* Invariants                                                              *)

TypeOK ==
    /\ status    \in {"editable", "submitted"}
    /\ answers   \in [Questions -> Values]
    /\ ready     \in BOOLEAN
    /\ snapshots \in Seq([answers : [Questions -> Values], ready : BOOLEAN])
    /\ returned  \in Nat
    /\ lock      \in Submitters \union {Nobody}
    /\ pc        \in [Submitters -> {"idle", "locked", "required_counted", "answers_counted",
                                     "complete", "snapshot"}]
    /\ required  \in [Submitters -> Nat]
    /\ draft     \in [Submitters -> [answers : [Questions -> Values], ready : BOOLEAN]]
    /\ wpc       \in [Writers -> {"idle", "inserted", "written", "sharing"}]
    /\ edit      \in [Writers -> [question : Questions \union {Always}, value : Values]]
    /\ disturbed \in BOOLEAN

\* Two people who press Submit at the same time make one submission: there is
\* one snapshot for every turn of the assessment to its buyer, and a submission
\* in progress is about an editable assessment.
OneSnapshotPerTurn ==
    /\ Len(snapshots) = returned + (IF status = "submitted" THEN 1 ELSE 0)
    /\ \A s \in Submitters : pc[s] # "idle" => lock = s /\ status = "editable"

Last == snapshots[Len(snapshots)]

\* A submission is as if it were one step when nothing is committed beside it or
\* after it: its snapshot is complete and equals the rows.  What may differ when
\* something is, AssessmentWorkflow and SupplierDesk go on from.
UndisturbedSubmissionIsExact ==
    status = "submitted" /\ ~ disturbed =>
        Last.answers = answers /\ Complete(Last.answers) /\ Last.ready

-----------------------------------------------------------------------------
(* What the workflow takes these statements for                            *)

TheTurn  == [a \in {"assessment"} |-> IF status = "submitted" THEN "buyer" ELSE "supplier"]
TheSheet == [a \in {"assessment"} |-> IF status = "submitted" THEN {answers} ELSE {}]

Promise == INSTANCE Qualification WITH
    Relationships    <- {"relationship"},
    Assessments      <- {"assessment"},
    RelationshipOf   <- [a \in {"assessment"} |-> "relationship"],
    Contents         <- [Questions -> Values],
    CompleteContents <- {ans \in [Questions -> Values] : Complete(ans)},
    turn     <- TheTurn,
    sheet    <- TheSheet,
    blocked  <- [a \in {"assessment"} |-> FALSE],
    standing <- [r \in {"relationship"} |-> "profile_pending"]

\* The statements of any number of submitters and writers are the turns of
\* Qualification: the buyer gets one complete set of answers at a commit and
\* holds that very set until changes are asked for.  Nothing breaks it but a row
\* or evidence committed beside a submission, or a row after it.
KeepsThePromise == [][disturbed' \/ Promise!Next]_<<TheTurn, TheSheet>>

-----------------------------------------------------------------------------
(* What tests and documentation say and the code does not keep             *)

\* README.md, "An incomplete assessment is blocked": every snapshot answers all
\* its visible required questions.
SubmissionsAnswerEverything ==
    \A i \in 1 .. Len(snapshots) : Complete(snapshots[i].answers)

=============================================================================
