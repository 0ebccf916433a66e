-------------------------- MODULE AssessmentWorkflow --------------------------
(***************************************************************************)
(* The qualification workflow of one buyer: supplier relationships, the    *)
(* assessments sent along them, the buyer's findings, the supplier's       *)
(* corrective actions and the approval decisions, as the SQL functions of  *)
(* supabase/migrations/20260724010300_workflows.sql run them.              *)
(*                                                                         *)
(* Every function locks the row it works on (SELECT ... FOR UPDATE) before *)
(* it reads a status and is one transaction, so it is one action here, but *)
(* for the two that meet in rows they have not locked.  A response is      *)
(* written by a statement whose policy and trigger read the status without *)
(* a lock: it is let through, and commits later.  submit_assessment counts *)
(* the required questions, counts the answered ones and copies the rows in *)
(* three statements, each of which sees what was committed before it; the  *)
(* lock it holds meanwhile is that of the assessment.  SubmissionRace has  *)
(* the remaining statements, and two submissions at the same time.         *)
(*                                                                         *)
(* Columns that no statement updates are constants: an assessment is the   *)
(* (relationship, program version) pair its unique constraint makes it and *)
(* is assigned one reviewer or none, a finding belongs to one assessment   *)
(* and has one severity, a corrective action answers one finding.  The     *)
(* answers of a questionnaire are one value of Contents, of which          *)
(* submit_assessment sees two counts.                                      *)
(***************************************************************************)
EXTENDS Naturals, Sequences

CONSTANTS
    Relationships,      \* rows of supplier_relationships
    Assessments,        \* (relationship, program version) pairs
    RelationshipOf,     \* the relationship an assessment runs on
    Findings,           \* potential rows of findings
    AssessmentOf,       \* the assessment a finding is raised on
    CriticalFindings,   \* the findings raised with severity critical
    CorrectiveActions,  \* potential rows of corrective_actions
    FindingOf,          \* the finding a corrective action answers
    Contents,           \* what the response rows of an assessment can say
    BlankContent,       \* no response rows
    RequiredIn,         \* visible required questions under some contents
    AnsweredIn,         \* those of them that the contents answer
    BuyerUsers,         \* buyer owners, administrators and reviewers
    Managers,           \* those is_buyer_manager accepts
    ReviewerOf,         \* assigned_buyer_reviewer_id of an assessment
    NoReviewer,         \* assigned_buyer_reviewer_id is null
    MaxSaves,           \* bound on the saves under way on one assessment
    MaxSubmissions      \* bound on the submissions, of each assessment

ASSUME RowsAssumption ==
    /\ RelationshipOf \in [Assessments -> Relationships]
    /\ AssessmentOf \in [Findings -> Assessments]
    /\ CriticalFindings \subseteq Findings
    /\ FindingOf \in [CorrectiveActions -> Findings]

ASSUME ContentsAssumption ==
    /\ BlankContent \in Contents
    /\ RequiredIn \in [Contents -> Nat]
    /\ AnsweredIn \in [Contents -> Nat]

ASSUME UsersAssumption ==
    /\ Managers \subseteq BuyerUsers
    /\ NoReviewer \notin BuyerUsers
    /\ ReviewerOf \in [Assessments -> BuyerUsers \union {NoReviewer}]

ASSUME BoundAssumption ==
    MaxSaves \in Nat /\ MaxSubmissions \in [Assessments -> Nat]

VARIABLES
    relStatus,      \* supplier_relationships.relationship_status
    onboarding,     \* supplier_relationships.onboarding_status
    status,         \* assessments.status, "absent" before the insert
    responses,      \* the assessment_responses rows of an assessment
    saves,          \* writes of response rows let through and not yet committed
    submitting,     \* how far submit_assessment is: none, counting, complete
    required,       \* its required_questions
    overtaken,      \* assessments with a row committed beside or after a submission
    snapshots,      \* assessment_submission_snapshots, by submission_number
    task,           \* the open initial_review row of review_tasks, if any
    findingStatus,  \* findings.status, "absent" before the insert
    actionStatus,   \* corrective_actions.status, "absent" before the insert
    decisions       \* approval_decisions of an assessment, in order

handover == <<saves, submitting, required, overtaken>>

vars == <<relStatus, onboarding, status, responses, handover,
          snapshots, task, findingStatus, actionStatus, decisions>>

-----------------------------------------------------------------------------
(* Statuses and the transition tables is_legal_*_transition.               *)

Editable  == {"draft", "in_progress", "changes_requested"}
InReview  == {"submitted", "resubmitted", "under_review"}
Terminal  == {"approved", "conditionally_approved", "rejected"}
Decisions == Terminal \union {"deferred"}

RelationshipStatuses == {"invited", "active", "suspended", "terminated"}

OnboardingStatuses ==
    {"profile_pending", "qualified", "conditionally_qualified", "rejected"}

LegalRelationshipTransition(from, to) ==
    \/ from = "invited"   /\ to \in {"active", "terminated"}
    \/ from = "active"    /\ to \in {"suspended", "terminated"}
    \/ from = "suspended" /\ to \in {"active", "terminated"}

LegalAssessmentTransition(from, to) ==
    \/ from = "draft"             /\ to \in {"in_progress", "submitted", "withdrawn"}
    \/ from = "in_progress"       /\ to \in {"submitted", "withdrawn"}
    \/ from = "submitted"         /\ to \in {"under_review", "withdrawn"}
    \/ from = "under_review"      /\ to \in Terminal \union {"changes_requested"}
    \/ from = "changes_requested" /\ to \in {"resubmitted", "withdrawn"}
    \/ from = "resubmitted"       /\ to \in {"under_review", "withdrawn"}

LegalFindingTransition(from, to) ==
    \/ from = "open"                  /\ to \in {"response_required", "closed"}
    \/ from = "response_required"     /\ to = "response_submitted"
    \/ from = "response_submitted"    /\ to \in {"verification_required", "verified", "rejected"}
    \/ from = "verification_required" /\ to \in {"verified", "rejected"}
    \/ from = "rejected"              /\ to = "response_submitted"
    \/ from = "verified"              /\ to = "closed"

LegalActionTransition(from, to) ==
    \/ from = "draft"             /\ to = "submitted"
    \/ from = "submitted"         /\ to \in {"accepted", "revision_required"}
    \/ from = "revision_required" /\ to = "submitted"
    \/ from = "accepted"          /\ to = "completed"

-----------------------------------------------------------------------------
(* Authorization helpers and the conditions the functions test.            *)

\* Operators named Slip_... are a definition below them with one mistake in it.
\* The specification does not use them: substituted for the definition they
\* show that the properties notice the mistake.
Slip_CanEditSuspended(a) == status[a] \in Editable

\* Some supplier user is authorized; which one changes nothing below.
CanEdit(a) ==
    /\ relStatus[RelationshipOf[a]] = "active"
    /\ status[a] \in Editable

\* Nobody holds the row lock of the assessment.
Unlocked(a) == submitting[a] = "none"

CompleteContents == {content \in Contents : AnsweredIn[content] = RequiredIn[content]}

CanReview(u, a) == u \in Managers \/ u = ReviewerOf[a]

FindingsOf(a) == {f \in Findings : AssessmentOf[f] = a}
ActionsOn(f)  == {c \in CorrectiveActions : FindingOf[c] = f}

Slip_AnsweredIsResolved(a) ==
    \E f \in FindingsOf(a) \intersect CriticalFindings :
        findingStatus[f] \notin {"absent", "response_submitted", "verified", "closed"}

UnresolvedCritical(a) ==
    \E f \in FindingsOf(a) \intersect CriticalFindings :
        findingStatus[f] \notin {"absent", "verified", "closed"}

\* The rows the index one_active_corrective_action_per_finding counts.
HasActiveAction(f) ==
    \E c \in ActionsOn(f) : actionStatus[c] \in {"draft", "submitted", "accepted"}

\* The rows the index one_terminal_decision_per_assessment counts.
HasTerminalDecision(a) ==
    \E i \in 1 .. Len(decisions[a]) : decisions[a][i] \in Terminal

\* onboarding_status after a decision; a deferral keeps what it was.
OnboardingAfter(d, old) ==
    IF d = "approved" THEN "qualified"
    ELSE IF d = "conditionally_approved" THEN "conditionally_qualified"
    ELSE IF d = "rejected" THEN "rejected" ELSE old

-----------------------------------------------------------------------------
\* An accepted invitation leaves an active relationship with a profile to fill.
Init ==
    /\ relStatus     = [r \in Relationships |-> "active"]
    /\ onboarding    = [r \in Relationships |-> "profile_pending"]
    /\ status        = [a \in Assessments |-> "absent"]
    /\ responses     = [a \in Assessments |-> BlankContent]
    /\ saves         = [a \in Assessments |-> 0]
    /\ submitting    = [a \in Assessments |-> "none"]
    /\ required      = [a \in Assessments |-> 0]
    /\ overtaken     = {}
    /\ snapshots     = [a \in Assessments |-> <<>>]
    /\ task          = [a \in Assessments |-> "none"]
    /\ findingStatus = [f \in Findings |-> "absent"]
    /\ actionStatus  = [c \in CorrectiveActions |-> "absent"]
    /\ decisions     = [a \in Assessments |-> <<>>]

TransitionRelationship(r, to) ==
    /\ LegalRelationshipTransition(relStatus[r], to)
    /\ relStatus' = [relStatus EXCEPT ![r] = to]
    /\ UNCHANGED <<onboarding, status, responses, handover, snapshots, task, findingStatus,
                   actionStatus, decisions>>

CreateAssessment(a) ==
    /\ status[a] = "absent"
    /\ relStatus[RelationshipOf[a]] = "active"
    /\ status' = [status EXCEPT ![a] = "draft"]
    /\ UNCHANGED <<relStatus, onboarding, responses, handover, snapshots, task, findingStatus,
                   actionStatus, decisions>>

\* transition_assessment('draft', 'in_progress').
StartAssessment(a) ==
    /\ Unlocked(a)
    /\ status[a] = "draft"
    /\ CanEdit(a)
    /\ status' = [status EXCEPT ![a] = "in_progress"]
    /\ UNCHANGED <<relStatus, onboarding, responses, handover, snapshots, task, findingStatus,
                   actionStatus, decisions>>

\* An insert, update or delete of a response row passes its policy and the
\* trigger prevent_locked_response_change ...
BeginSave(a) ==
    /\ CanEdit(a)
    /\ saves[a] < MaxSaves
    /\ saves' = [saves EXCEPT ![a] = @ + 1]
    /\ UNCHANGED <<relStatus, onboarding, status, responses, submitting, required, overtaken,
                   snapshots, task, findingStatus, actionStatus, decisions>>

\* ... and commits, whatever has become of the assessment.  Only a new row, as
\* the first one is, waits for the lock of the assessment, in its foreign key.
CommitSave(a, content) ==
    /\ saves[a] > 0
    /\ responses[a] = BlankContent => Unlocked(a)
    /\ content # responses[a]
    /\ saves' = [saves EXCEPT ![a] = @ - 1]
    /\ responses' = [responses EXCEPT ![a] = content]
    /\ overtaken' = IF Unlocked(a) /\ status[a] \in Editable THEN overtaken
                    ELSE overtaken \union {a}
    /\ UNCHANGED <<relStatus, onboarding, status, submitting, required, snapshots, task,
                   findingStatus, actionStatus, decisions>>

FailSave(a) ==
    /\ saves[a] > 0
    /\ saves' = [saves EXCEPT ![a] = @ - 1]
    /\ UNCHANGED <<relStatus, onboarding, status, responses, submitting, required, overtaken,
                   snapshots, task, findingStatus, actionStatus, decisions>>

StatusAfterSubmit(a) ==
    IF status[a] = "changes_requested" THEN "resubmitted" ELSE "submitted"

Slip_TaskOnFirstSubmission(a) ==
    IF ReviewerOf[a] # NoReviewer /\ snapshots[a] = <<>> THEN "pending" ELSE task[a]

\* The review task is inserted "on conflict do nothing": an open one stays.
TaskAfterSubmit(a) ==
    IF ReviewerOf[a] # NoReviewer /\ task[a] = "none" THEN "pending" ELSE task[a]

\* submit_assessment takes the lock, reads the status and counts the questions
\* the rows make visible.
BeginSubmission(a) ==
    /\ Unlocked(a)
    /\ CanEdit(a)
    /\ LegalAssessmentTransition(status[a], StatusAfterSubmit(a))
    /\ Len(snapshots[a]) < MaxSubmissions[a]
    /\ submitting' = [submitting EXCEPT ![a] = "counting"]
    /\ required' = [required EXCEPT ![a] = RequiredIn[responses[a]]]
    /\ overtaken' = overtaken \ {a}
    /\ UNCHANGED <<relStatus, onboarding, status, responses, saves, snapshots, task,
                   findingStatus, actionStatus, decisions>>

Slip_CheckCompleteness(a) ==
    /\ submitting[a] = "counting"
    /\ submitting' = [submitting EXCEPT ![a] = "complete"]
    /\ UNCHANGED <<relStatus, onboarding, status, responses, saves, required, overtaken,
                   snapshots, task, findingStatus, actionStatus, decisions>>

\* It counts the answered ones and the ready documents.  Evidence, the subject
\* of DocumentLifecycle, comes and goes at any time and is read once here: that
\* count may come out either way (AbandonSubmission).
CheckCompleteness(a) ==
    /\ submitting[a] = "counting"
    /\ AnsweredIn[responses[a]] = required[a]
    /\ submitting' = [submitting EXCEPT ![a] = "complete"]
    /\ UNCHANGED <<relStatus, onboarding, status, responses, saves, required, overtaken,
                   snapshots, task, findingStatus, actionStatus, decisions>>

\* It copies the rows as they are now; the copy, the status and the task are
\* seen together.
CommitSubmission(a) ==
    /\ submitting[a] = "complete"
    /\ snapshots'  = [snapshots EXCEPT ![a] = Append(@, responses[a])]
    /\ status'     = [status EXCEPT ![a] = StatusAfterSubmit(a)]
    /\ task'       = [task EXCEPT ![a] = TaskAfterSubmit(a)]
    /\ submitting' = [submitting EXCEPT ![a] = "none"]
    /\ required'   = [required EXCEPT ![a] = 0]
    /\ UNCHANGED <<relStatus, onboarding, responses, saves, overtaken, findingStatus,
                   actionStatus, decisions>>

\* "assessment is incomplete", or any other failure before the commit.
AbandonSubmission(a) ==
    /\ ~ Unlocked(a)
    /\ submitting' = [submitting EXCEPT ![a] = "none"]
    /\ required'   = [required EXCEPT ![a] = 0]
    /\ overtaken'  = overtaken \ {a}
    /\ UNCHANGED <<relStatus, onboarding, status, responses, saves, snapshots, task,
                   findingStatus, actionStatus, decisions>>

\* Only the caller's own pending task moves: a manager who opens the review of
\* a colleague leaves the colleague's task pending.
StartReview(a, u) ==
    /\ Unlocked(a)
    /\ CanReview(u, a)
    /\ LegalAssessmentTransition(status[a], "under_review")
    /\ status' = [status EXCEPT ![a] = "under_review"]
    /\ task' = [task EXCEPT ![a] =
                  IF u = ReviewerOf[a] /\ @ = "pending" THEN "in_progress" ELSE @]
    /\ UNCHANGED <<relStatus, onboarding, responses, handover, snapshots, findingStatus,
                   actionStatus, decisions>>

Slip_RequestChanges(a, u) ==
    /\ Unlocked(a)
    /\ CanReview(u, a)
    /\ status[a] \notin Editable
    /\ status' = [status EXCEPT ![a] = "changes_requested"]
    /\ overtaken' = overtaken \ {a}
    /\ UNCHANGED <<relStatus, onboarding, responses, saves, submitting, required, snapshots,
                   task, findingStatus, actionStatus, decisions>>

RequestChanges(a, u) ==
    /\ Unlocked(a)
    /\ CanReview(u, a)
    /\ status[a] = "under_review"
    /\ status' = [status EXCEPT ![a] = "changes_requested"]
    /\ overtaken' = overtaken \ {a}
    /\ UNCHANGED <<relStatus, onboarding, responses, saves, submitting, required, snapshots,
                   task, findingStatus, actionStatus, decisions>>

CreateFinding(f, u) ==
    /\ findingStatus[f] = "absent"
    /\ Unlocked(AssessmentOf[f])
    /\ CanReview(u, AssessmentOf[f])
    /\ status[AssessmentOf[f]] \in {"under_review", "changes_requested"}
    /\ findingStatus' = [findingStatus EXCEPT ![f] = "response_required"]
    /\ UNCHANGED <<relStatus, onboarding, status, responses, handover, snapshots, task,
                   actionStatus, decisions>>

\* The status of the assessment is not looked at: a supplier may still answer
\* a finding after the decision.
SubmitCorrectiveAction(c) ==
    LET f == FindingOf[c] IN
    /\ actionStatus[c] = "absent"
    /\ relStatus[RelationshipOf[AssessmentOf[f]]] = "active"
    /\ findingStatus[f] \in {"response_required", "rejected"}
    /\ ~ HasActiveAction(f)
    /\ actionStatus'  = [actionStatus EXCEPT ![c] = "submitted"]
    /\ findingStatus' = [findingStatus EXCEPT ![f] = "response_submitted"]
    /\ UNCHANGED <<relStatus, onboarding, status, responses, handover, snapshots, task,
                   decisions>>

Slip_RevisionReopensFinding(outcome) ==
    IF outcome = "accepted" THEN "verified" ELSE "response_required"

FindingAfterVerification(outcome) ==
    IF outcome = "accepted" THEN "verified" ELSE "rejected"

VerifyCorrectiveAction(c, u, outcome) ==
    LET f == FindingOf[c] IN
    /\ CanReview(u, AssessmentOf[f])
    /\ actionStatus[c] = "submitted"
    /\ findingStatus[f] = "response_submitted"
    /\ actionStatus'  = [actionStatus EXCEPT ![c] = outcome]
    /\ findingStatus' = [findingStatus EXCEPT ![f] =
                           FindingAfterVerification(outcome)]
    /\ UNCHANGED <<relStatus, onboarding, status, responses, handover, snapshots, task,
                   decisions>>

Slip_ConditionalIsApproved(d) ==
    IF d = "deferred" THEN "changes_requested"
    ELSE IF d = "conditionally_approved" THEN "approved" ELSE d

StatusAfterDecision(d) == IF d = "deferred" THEN "changes_requested" ELSE d

\* Neither the relationship's status nor findings below critical matter here.
RecordDecision(a, u, d) ==
    /\ Unlocked(a)
    /\ u \in Managers
    /\ status[a] = "under_review"
    /\ d \in {"approved", "conditionally_approved"} => ~ UnresolvedCritical(a)
    /\ LegalAssessmentTransition(status[a], StatusAfterDecision(d))
    /\ d \in Terminal => ~ HasTerminalDecision(a)
    /\ decisions'  = [decisions EXCEPT ![a] = Append(@, d)]
    /\ status'     = [status EXCEPT ![a] = StatusAfterDecision(d)]
    /\ onboarding' = [onboarding EXCEPT ![RelationshipOf[a]] = OnboardingAfter(d, @)]
    /\ task'       = [task EXCEPT ![a] = "none"]
    /\ overtaken'  = IF d = "deferred" THEN overtaken \ {a} ELSE overtaken
    /\ UNCHANGED <<relStatus, responses, saves, submitting, required, snapshots,
                   findingStatus, actionStatus>>

-----------------------------------------------------------------------------
Next ==
    \/ \E r \in Relationships, to \in RelationshipStatuses : TransitionRelationship(r, to)
    \/ \E a \in Assessments : CreateAssessment(a)
    \/ \E a \in Assessments : StartAssessment(a)
    \/ \E a \in Assessments : BeginSave(a)
    \/ \E a \in Assessments, content \in Contents : CommitSave(a, content)
    \/ \E a \in Assessments : FailSave(a)
    \/ \E a \in Assessments : BeginSubmission(a)
    \/ \E a \in Assessments : CheckCompleteness(a)
    \/ \E a \in Assessments : CommitSubmission(a)
    \/ \E a \in Assessments : AbandonSubmission(a)
    \/ \E a \in Assessments, u \in BuyerUsers : StartReview(a, u)
    \/ \E a \in Assessments, u \in BuyerUsers : RequestChanges(a, u)
    \/ \E f \in Findings, u \in BuyerUsers : CreateFinding(f, u)
    \/ \E c \in CorrectiveActions : SubmitCorrectiveAction(c)
    \/ \E c \in CorrectiveActions, u \in BuyerUsers, o \in {"accepted", "revision_required"} :
           VerifyCorrectiveAction(c, u, o)
    \/ \E a \in Assessments, u \in BuyerUsers, d \in Decisions : RecordDecision(a, u, d)

Spec == Init /\ [][Next]_vars

-----------------------------------------------------------------------------
(* Invariants                                                              *)

\* Every column holds a status the functions write; nothing here sets
\* "withdrawn", "open", "verification_required", "closed" or "completed",
\* which the tables and check constraints also admit.
TypeOK ==
    /\ relStatus     \in [Relationships -> RelationshipStatuses]
    /\ onboarding    \in [Relationships -> OnboardingStatuses]
    /\ status        \in [Assessments -> {"absent"} \union Editable \union InReview \union Terminal]
    /\ responses     \in [Assessments -> Contents]
    /\ saves         \in [Assessments -> Nat]
    /\ submitting    \in [Assessments -> {"none", "counting", "complete"}]
    /\ required      \in [Assessments -> Nat]
    /\ overtaken     \subseteq Assessments
    /\ snapshots     \in [Assessments -> Seq(Contents)]
    /\ task          \in [Assessments -> {"none", "pending", "in_progress"}]
    /\ findingStatus \in [Findings -> {"absent", "response_required", "response_submitted",
                                       "verified", "rejected"}]
    /\ actionStatus  \in [CorrectiveActions -> {"absent", "submitted", "accepted",
                                                "revision_required"}]
    /\ decisions     \in [Assessments -> Seq(Decisions)]

\* An approved or conditionally approved assessment has no unresolved critical
\* finding, at the decision and ever after: record_approval_decision tests the
\* findings once, while findings and corrective actions keep moving under other
\* locks (workflows.sql, "unresolved critical findings block approval").
ApprovalResolvesCritical ==
    \A a \in Assessments :
        status[a] \in {"approved", "conditionally_approved"} => ~ UnresolvedCritical(a)

\* A finding and its corrective actions, two tables written by two functions,
\* always tell the same story: a response is pending exactly while one action
\* is submitted, a finding is verified exactly by one accepted action, and a
\* rejected one has had an action sent back and none outstanding.
Mirrored(f) ==
    LET Settled(c) == actionStatus[c] \in {"absent", "revision_required"}
    IN  /\ findingStatus[f] \in {"absent", "response_required"} =>
               \A c \in ActionsOn(f) : actionStatus[c] = "absent"
        /\ findingStatus[f] = "response_submitted" =>
               \E c \in ActionsOn(f) :
                   actionStatus[c] = "submitted" /\ \A d \in ActionsOn(f) \ {c} : Settled(d)
        /\ findingStatus[f] = "verified" =>
               \E c \in ActionsOn(f) :
                   actionStatus[c] = "accepted" /\ \A d \in ActionsOn(f) \ {c} : Settled(d)
        /\ findingStatus[f] = "rejected" =>
               /\ \A c \in ActionsOn(f) : Settled(c)
               /\ \E c \in ActionsOn(f) : actionStatus[c] = "revision_required"

FindingMirrorsActions == \A f \in Findings : Mirrored(f)

\* The decision history and the assessment's status agree: an assessment is
\* decided exactly when its last decision is that terminal status, and every
\* earlier decision was a deferral.
DecisionAgrees(a) ==
    LET n == Len(decisions[a]) IN
    /\ \A i \in 1 .. n - 1 : decisions[a][i] = "deferred"
    /\ status[a] \in Terminal => n > 0 /\ decisions[a][n] = status[a]
    /\ status[a] \notin Terminal /\ n > 0 => decisions[a][n] = "deferred"

DecisionMatchesStatus == \A a \in Assessments : DecisionAgrees(a)

\* Each decision is about a submission of its own: no submission is decided
\* twice, and whatever waits for a reviewer has a submission not yet decided.
OneDecisionPerSubmission ==
    \A a \in Assessments :
        /\ Len(decisions[a]) <= Len(snapshots[a])
        /\ status[a] \in InReview => Len(decisions[a]) < Len(snapshots[a])

\* What reviewers work on and decide about is what was submitted: from the
\* submission to the next change request, and for ever after a decision, there
\* is a snapshot, it is complete and the response rows equal it, unless a save
\* that was let through before committed beside the submission or after it.
\* However many saves and counts overlap, nothing else makes rows and snapshot
\* differ or lets an incomplete one through.
ReviewsTheLastSnapshot(a) ==
    status[a] \in InReview \union Terminal =>
        /\ Len(snapshots[a]) > 0
        /\ a \notin overtaken =>
               /\ snapshots[a][Len(snapshots[a])] = responses[a]
               /\ responses[a] \in CompleteContents

ReviewedResponsesAreSubmitted == \A a \in Assessments : ReviewsTheLastSnapshot(a)

\* A reviewer's list of open tasks is neither short nor stale: an assessment
\* that waits for its assigned reviewer has an open task, also after a deferral
\* completed the previous one, and a decided assessment has none.
OpenTaskTracksReview ==
    \A a \in Assessments :
        /\ status[a] \in InReview /\ ReviewerOf[a] # NoReviewer => task[a] # "none"
        /\ status[a] \in Terminal => task[a] = "none"

\* The onboarding status of a relationship is the outcome of one of its decided
\* assessments and stays at profile_pending exactly until there is one, however
\* the decisions and deferrals of several assessments interleave.
OnboardingReflectsDecisions ==
    \A r \in Relationships :
        LET decided == {a \in Assessments : RelationshipOf[a] = r /\ status[a] \in Terminal}
        IN  IF decided = {} THEN onboarding[r] = "profile_pending"
            ELSE \E a \in decided : onboarding[r] = OnboardingAfter(status[a], "none")

-----------------------------------------------------------------------------
(* Action properties                                                       *)

\* Nothing undoes a decision: once an assessment is decided its status, its
\* decisions and what was submitted never change again, although a response may
\* (ClosedAssessmentOnlyEnds).
DecidedIsFinal ==
    [][\A a \in Assessments :
           status[a] \in Terminal =>
               /\ status'[a] = status[a]
               /\ decisions'[a] = decisions[a]
               /\ snapshots'[a] = snapshots[a]]_vars

\* "Suspension blocks ordinary supplier access and mutation", and so do a
\* submission and a decision, to this extent: while the relationship is not
\* active or the assessment not editable, no save is let through and no
\* submission begun; responses change, and snapshots are added, only by what was
\* under way before, each of which ends once.  Evidence is not included:
\* finalize_document_upload asks for neither (DocumentLifecycle).
ClosedAssessmentOnlyEnds ==
    [][\A a \in Assessments :
           relStatus[RelationshipOf[a]] # "active" \/ status[a] \notin Editable =>
               /\ saves'[a] <= saves[a]
               /\ responses'[a] # responses[a] => saves'[a] < saves[a]
               /\ Unlocked(a) => Unlocked(a)' /\ snapshots'[a] = snapshots[a]
               /\ snapshots'[a] # snapshots[a] => Unlocked(a)']_vars

\* Every status change of every function is one its is_legal_*_transition
\* table lists, also in the functions that never consult the table.
StatusMachinesRespected ==
    [][/\ \A r \in Relationships :
              relStatus'[r] # relStatus[r] =>
                  LegalRelationshipTransition(relStatus[r], relStatus'[r])
       /\ \A a \in Assessments :
              status'[a] # status[a] =>
                  \/ status[a] = "absent" /\ status'[a] = "draft"
                  \/ LegalAssessmentTransition(status[a], status'[a])
       /\ \A f \in Findings :
              findingStatus'[f] # findingStatus[f] =>
                  \/ findingStatus[f] = "absent" /\ findingStatus'[f] = "response_required"
                  \/ LegalFindingTransition(findingStatus[f], findingStatus'[f])
       /\ \A c \in CorrectiveActions :
              actionStatus'[c] # actionStatus[c] =>
                  \/ actionStatus[c] = "absent" /\ actionStatus'[c] = "submitted"
                  \/ LegalActionTransition(actionStatus[c], actionStatus'[c])]_vars

-----------------------------------------------------------------------------
(* What the workflow promises                                              *)

TurnOf(a) ==
    IF status[a] \in Terminal THEN status[a]
    ELSE IF status[a] \in InReview THEN "buyer"
    ELSE IF Unlocked(a) THEN "supplier"
    ELSE IF a \in overtaken THEN "disturbed" ELSE "presented"

\* The answers that are handed over, and then the copy that was.
SheetOf(a) ==
    CASE TurnOf(a) = "supplier"                   -> {}
      [] TurnOf(a) \in {"presented", "disturbed"} -> {responses[a]}
      [] OTHER                                    -> {snapshots[a][Len(snapshots[a])]}

Promise == INSTANCE Qualification WITH
    turn     <- [a \in Assessments |-> TurnOf(a)],
    sheet    <- [a \in Assessments |-> SheetOf(a)],
    blocked  <- [a \in Assessments |-> UnresolvedCritical(a)],
    standing <- onboarding

\* Seen from outside, statuses, tasks, rows, counts, findings and their actions
\* are turns over one copy of the answers, blocked now and then, and one verdict
\* each: the functions together implement Qualification.  The copy is complete
\* unless a row was committed while it was handed over, and nothing changes it
\* then, whatever becomes of the rows.
KeepsThePromise == Promise!Spec
=============================================================================
