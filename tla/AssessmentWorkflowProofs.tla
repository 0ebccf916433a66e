----------------------- MODULE AssessmentWorkflowProofs -----------------------
(***************************************************************************)
(* Theorems about AssessmentWorkflow, for every set of relationships,      *)
(* assessments, findings, corrective actions, contents and users.          *)
(***************************************************************************)
EXTENDS AssessmentWorkflow, TLAPS

LEMMA LastOfAppend ==
    ASSUME NEW S, NEW s \in Seq(S), NEW e \in S
    PROVE  Len(Append(s, e)) > 0 /\ Append(s, e)[Len(Append(s, e))] = e
OBVIOUS

USE RowsAssumption, ContentsAssumption, UsersAssumption, BoundAssumption

\* Every reachable row holds a status the functions write.
THEOREM TypeCorrect == Spec => []TypeOK
<1>1. Init => TypeOK
  BY DEF Init, TypeOK, RelationshipStatuses, OnboardingStatuses
<1>2. TypeOK /\ [Next]_vars => TypeOK'
  <2> SUFFICES ASSUME TypeOK, [Next]_vars PROVE TypeOK'
    OBVIOUS
  <2> USE DEF TypeOK, Editable, InReview, Terminal, Decisions, handover
  <2>1. ASSUME NEW r \in Relationships, NEW to \in RelationshipStatuses,
               TransitionRelationship(r, to)
        PROVE  TypeOK'
    BY <2>1 DEF TransitionRelationship
  <2>2. ASSUME NEW a \in Assessments, CreateAssessment(a)
        PROVE  TypeOK'
    BY <2>2 DEF CreateAssessment
  <2>3. ASSUME NEW a \in Assessments, StartAssessment(a)
        PROVE  TypeOK'
    BY <2>3 DEF StartAssessment
  <2>4. ASSUME NEW a \in Assessments, BeginSave(a) \/ FailSave(a)
        PROVE  TypeOK'
    <3>1. CASE BeginSave(a)
      BY <3>1 DEF BeginSave
    <3>2. CASE FailSave(a)
      BY <3>2 DEF FailSave
    <3>3. QED
      BY <2>4, <3>1, <3>2
  <2>5. ASSUME NEW a \in Assessments, NEW content \in Contents, CommitSave(a, content)
        PROVE  TypeOK'
    <3>1. saves' \in [Assessments -> Nat]
      BY <2>5 DEF CommitSave
    <3>2. QED
      BY <2>5, <3>1 DEF CommitSave
  <2>6. ASSUME NEW a \in Assessments,
               \/ BeginSubmission(a) \/ CheckCompleteness(a)
               \/ CommitSubmission(a) \/ AbandonSubmission(a)
        PROVE  TypeOK'
    <3>1. CASE BeginSubmission(a)
      BY <3>1 DEF BeginSubmission
    <3>2. CASE CheckCompleteness(a)
      BY <3>2 DEF CheckCompleteness
    <3>3. CASE CommitSubmission(a)
      BY <3>3 DEF CommitSubmission, StatusAfterSubmit, TaskAfterSubmit
    <3>4. CASE AbandonSubmission(a)
      BY <3>4 DEF AbandonSubmission
    <3>5. QED
      BY <2>6, <3>1, <3>2, <3>3, <3>4
  <2>7. ASSUME NEW a \in Assessments, NEW u \in BuyerUsers, StartReview(a, u)
        PROVE  TypeOK'
    BY <2>7 DEF StartReview
  <2>8. ASSUME NEW a \in Assessments, NEW u \in BuyerUsers, RequestChanges(a, u)
        PROVE  TypeOK'
    BY <2>8 DEF RequestChanges
  <2>9. ASSUME NEW f \in Findings, NEW u \in BuyerUsers, CreateFinding(f, u)
        PROVE  TypeOK'
    BY <2>9 DEF CreateFinding
  <2>10. ASSUME NEW c \in CorrectiveActions, SubmitCorrectiveAction(c)
         PROVE  TypeOK'
    BY <2>10 DEF SubmitCorrectiveAction
  <2>11. ASSUME NEW c \in CorrectiveActions, NEW u \in BuyerUsers,
                NEW o \in {"accepted", "revision_required"}, VerifyCorrectiveAction(c, u, o)
         PROVE  TypeOK'
    BY <2>11 DEF VerifyCorrectiveAction, FindingAfterVerification
  <2>12. ASSUME NEW a \in Assessments, NEW u \in BuyerUsers, NEW d \in Decisions,
                RecordDecision(a, u, d)
         PROVE  TypeOK'
    BY <2>12 DEF RecordDecision, StatusAfterDecision, OnboardingAfter, OnboardingStatuses
  <2>13. CASE UNCHANGED vars
    BY <2>13 DEF vars
  <2> HIDE DEF TypeOK
  <2>14. QED
    BY <2>1, <2>2, <2>3, <2>4, <2>5, <2>6, <2>7, <2>8, <2>9, <2>10, <2>11, <2>12, <2>13
       DEF Next
<1>3. QED
  BY <1>1, <1>2, PTL DEF Spec

-----------------------------------------------------------------------------
\* What the functions do is about the records of reviews or about findings, or
\* changes neither.
Records == <<status, snapshots, task, decisions, onboarding>>
Cases   == <<findingStatus, actionStatus>>

RecordsMove ==
    \/ \E a \in Assessments : CreateAssessment(a) \/ StartAssessment(a) \/ CommitSubmission(a)
    \/ \E a \in Assessments, u \in BuyerUsers : StartReview(a, u) \/ RequestChanges(a, u)
    \/ \E a \in Assessments, u \in BuyerUsers, d \in Decisions : RecordDecision(a, u, d)

CasesMove ==
    \/ \E f \in Findings, u \in BuyerUsers : CreateFinding(f, u)
    \/ \E c \in CorrectiveActions : SubmitCorrectiveAction(c)
    \/ \E c \in CorrectiveActions, u \in BuyerUsers, o \in {"accepted", "revision_required"} :
           VerifyCorrectiveAction(c, u, o)

LEMMA KindsOfStep ==
    ASSUME [Next]_vars
    PROVE  \/ UNCHANGED <<Records, Cases>>
           \/ UNCHANGED Cases /\ RecordsMove
           \/ UNCHANGED Records /\ CasesMove
<1> USE DEF Records, Cases
<1>1. CASE \/ UNCHANGED vars
           \/ \E r \in Relationships, to \in RelationshipStatuses : TransitionRelationship(r, to)
           \/ \E a \in Assessments :
                  \/ BeginSave(a) \/ FailSave(a) \/ BeginSubmission(a) \/ CheckCompleteness(a)
                  \/ AbandonSubmission(a) \/ \E content \in Contents : CommitSave(a, content)
  BY <1>1 DEF vars, TransitionRelationship, BeginSave, FailSave, BeginSubmission,
              CheckCompleteness, AbandonSubmission, CommitSave
<1>2. RecordsMove => UNCHANGED Cases
  BY DEF RecordsMove, CreateAssessment, StartAssessment, CommitSubmission, StartReview,
         RequestChanges, RecordDecision
<1>3. CasesMove => UNCHANGED Records
  BY DEF CasesMove, CreateFinding, SubmitCorrectiveAction, VerifyCorrectiveAction
<1>4. QED
  BY <1>1, <1>2, <1>3 DEF Next, RecordsMove, CasesMove

\* A submission reads the status under the lock of the assessment, which keeps
\* every other function out until it ends.
SubmittingIsEditable == \A a \in Assessments : Unlocked(a) \/ status[a] \in Editable

LEMMA EditableStep ==
    TypeOK /\ SubmittingIsEditable /\ [Next]_vars => SubmittingIsEditable'
<1> SUFFICES ASSUME TypeOK, SubmittingIsEditable, [Next]_vars PROVE SubmittingIsEditable'
  OBVIOUS
<1> USE DEF TypeOK, SubmittingIsEditable, Unlocked, Editable, handover
<1>1. CASE UNCHANGED <<status, submitting>>
  BY <1>1
<1>2. CASE \E a \in Assessments : CreateAssessment(a)
  BY <1>2 DEF CreateAssessment
<1>3. CASE \E a \in Assessments : StartAssessment(a)
  BY <1>3 DEF StartAssessment
<1>4. CASE \E a \in Assessments : BeginSubmission(a)
  BY <1>4 DEF BeginSubmission, CanEdit
<1>5. CASE \E a \in Assessments : CheckCompleteness(a)
  BY <1>5 DEF CheckCompleteness
<1>6. CASE \E a \in Assessments : CommitSubmission(a) \/ AbandonSubmission(a)
  BY <1>6 DEF CommitSubmission, AbandonSubmission
<1>7. CASE \E a \in Assessments, u \in BuyerUsers : StartReview(a, u) \/ RequestChanges(a, u)
  BY <1>7 DEF StartReview, RequestChanges
<1>8. CASE \E a \in Assessments, u \in BuyerUsers, d \in Decisions : RecordDecision(a, u, d)
  BY <1>8 DEF RecordDecision
<1>9. QED
  BY <1>1, <1>2, <1>3, <1>4, <1>5, <1>6, <1>7, <1>8
     DEF Next, vars, TransitionRelationship, BeginSave, CommitSave, FailSave, CreateFinding,
         SubmitCorrectiveAction, VerifyCorrectiveAction

LEMMA SubmittingEditable == Spec => []SubmittingIsEditable
<1>1. Init => SubmittingIsEditable
  BY DEF Init, SubmittingIsEditable, Unlocked
<1>2. QED
  BY <1>1, EditableStep, TypeCorrect, PTL DEF Spec

\* What submit_assessment has found out is still so while no row was committed.
CountsHold(a) ==
    a \notin overtaken =>
        /\ submitting[a] = "counting" => required[a] = RequiredIn[responses[a]]
        /\ submitting[a] = "complete" => responses[a] \in CompleteContents

CountsAreRight == \A a \in Assessments : CountsHold(a)

LEMMA CountsStep == TypeOK /\ CountsAreRight /\ [Next]_vars => CountsAreRight'
<1> SUFFICES ASSUME TypeOK, CountsAreRight, [Next]_vars PROVE CountsAreRight'
  OBVIOUS
<1> USE DEF TypeOK, CountsAreRight, CountsHold, handover
<1>1. CASE UNCHANGED <<responses, submitting, required, overtaken>>
  BY <1>1
<1>2. CASE \E b \in Assessments, content \in Contents : CommitSave(b, content)
  BY <1>2 DEF CommitSave, Unlocked
<1>3. CASE \E b \in Assessments : BeginSubmission(b)
  BY <1>3 DEF BeginSubmission
<1>4. CASE \E b \in Assessments : CheckCompleteness(b)
  BY <1>4 DEF CheckCompleteness, CompleteContents
<1>5. CASE \E b \in Assessments : CommitSubmission(b)
  BY <1>5 DEF CommitSubmission
<1>6. CASE \E b \in Assessments : AbandonSubmission(b)
  BY <1>6 DEF AbandonSubmission
<1>7. CASE \E b \in Assessments, u \in BuyerUsers : RequestChanges(b, u)
  BY <1>7 DEF RequestChanges, Unlocked
<1>8. CASE \E b \in Assessments, u \in BuyerUsers, d \in Decisions : RecordDecision(b, u, d)
  BY <1>8 DEF RecordDecision, Unlocked
<1>9. QED
  BY <1>1, <1>2, <1>3, <1>4, <1>5, <1>6, <1>7, <1>8
     DEF Next, vars, TransitionRelationship, CreateAssessment, StartAssessment, BeginSave,
         FailSave, StartReview, CreateFinding, SubmitCorrectiveAction, VerifyCorrectiveAction

LEMMA CountsCorrect == Spec => []CountsAreRight
<1>1. Init => CountsAreRight
  BY DEF Init, CountsAreRight, CountsHold
<1>2. QED
  BY <1>1, CountsStep, TypeCorrect, PTL DEF Spec

-----------------------------------------------------------------------------
\* A critical finding raised, answered or sent back always belongs to an
\* assessment that is not approved: findings are raised before the decision, and
\* one that is still to be answered or verified would have blocked the approval.
LEMMA ApprovalStep ==
    TypeOK /\ ApprovalResolvesCritical /\ [Next]_vars => ApprovalResolvesCritical'
<1> SUFFICES ASSUME TypeOK, ApprovalResolvesCritical, [Next]_vars,
                    NEW a \in Assessments,
                    status'[a] \in {"approved", "conditionally_approved"}
             PROVE  ~ UnresolvedCritical(a)'
  BY DEF ApprovalResolvesCritical
<1> USE DEF TypeOK, ApprovalResolvesCritical, UnresolvedCritical, FindingsOf
<1>1. CASE UNCHANGED <<status, findingStatus>>
  BY <1>1
<1>2. ASSUME NEW b \in Assessments, CreateAssessment(b)
      PROVE  ~ UnresolvedCritical(a)'
  BY <1>2 DEF CreateAssessment
<1>3. ASSUME NEW b \in Assessments, StartAssessment(b)
      PROVE  ~ UnresolvedCritical(a)'
  BY <1>3 DEF StartAssessment
<1>4. ASSUME NEW b \in Assessments, CommitSubmission(b)
      PROVE  ~ UnresolvedCritical(a)'
  BY <1>4 DEF CommitSubmission, StatusAfterSubmit
<1>5. ASSUME NEW b \in Assessments, NEW u \in BuyerUsers, StartReview(b, u)
      PROVE  ~ UnresolvedCritical(a)'
  BY <1>5 DEF StartReview
<1>6. ASSUME NEW b \in Assessments, NEW u \in BuyerUsers, RequestChanges(b, u)
      PROVE  ~ UnresolvedCritical(a)'
  BY <1>6 DEF RequestChanges
<1>7. ASSUME NEW f \in Findings, NEW u \in BuyerUsers, CreateFinding(f, u)
      PROVE  ~ UnresolvedCritical(a)'
  BY <1>7 DEF CreateFinding
<1>8. ASSUME NEW c \in CorrectiveActions, SubmitCorrectiveAction(c)
      PROVE  ~ UnresolvedCritical(a)'
  BY <1>8 DEF SubmitCorrectiveAction
<1>9. ASSUME NEW c \in CorrectiveActions, NEW u \in BuyerUsers,
             NEW o \in {"accepted", "revision_required"}, VerifyCorrectiveAction(c, u, o)
      PROVE  ~ UnresolvedCritical(a)'
  BY <1>9 DEF VerifyCorrectiveAction
<1>10. ASSUME NEW b \in Assessments, NEW u \in BuyerUsers, NEW d \in Decisions,
              RecordDecision(b, u, d)
       PROVE  ~ UnresolvedCritical(a)'
  <2>1. CASE a = b
    BY <1>10, <2>1 DEF RecordDecision, StatusAfterDecision
  <2>2. CASE a # b
    BY <1>10, <2>2 DEF RecordDecision
  <2>3. QED
    BY <2>1, <2>2
<1>11. QED
  BY <1>1, <1>2, <1>3, <1>4, <1>5, <1>6, <1>7, <1>8, <1>9, <1>10, KindsOfStep
     DEF Records, Cases, RecordsMove, CasesMove

\* No approved assessment has an unresolved critical finding.
THEOREM ApprovalSafe == Spec => []ApprovalResolvesCritical
<1>1. Init => ApprovalResolvesCritical
  BY DEF Init, ApprovalResolvesCritical
<1>2. QED
  BY <1>1, ApprovalStep, TypeCorrect, PTL DEF Spec

-----------------------------------------------------------------------------
\* Submitting and verifying a corrective action write both tables of a pair
\* (finding, action) at once and leave every other pair alone.
LEMMA MirrorStep ==
    TypeOK /\ FindingMirrorsActions /\ [Next]_vars => FindingMirrorsActions'
<1> SUFFICES ASSUME TypeOK, FindingMirrorsActions, [Next]_vars, NEW g \in Findings
             PROVE  Mirrored(g)'
  BY DEF FindingMirrorsActions
<1> USE DEF TypeOK, ActionsOn
<1>0. Mirrored(g)
  BY DEF FindingMirrorsActions
<1>1. CASE UNCHANGED <<findingStatus, actionStatus>>
  BY <1>0, <1>1 DEF Mirrored
<1>2. ASSUME NEW f \in Findings, NEW u \in BuyerUsers, CreateFinding(f, u)
      PROVE  Mirrored(g)'
  BY <1>0, <1>2 DEF CreateFinding, Mirrored
<1>3. ASSUME NEW c \in CorrectiveActions, SubmitCorrectiveAction(c)
      PROVE  Mirrored(g)'
  <2> DEFINE f == FindingOf[c]
  <2>1. /\ actionStatus' = [actionStatus EXCEPT ![c] = "submitted"]
        /\ findingStatus' = [findingStatus EXCEPT ![f] = "response_submitted"]
        /\ findingStatus[f] \in {"response_required", "rejected"}
    BY <1>3 DEF SubmitCorrectiveAction
  <2>2. CASE g # f
    <3>1. findingStatus'[g] = findingStatus[g] /\ \A d \in ActionsOn(g) : actionStatus'[d] = actionStatus[d]
      BY <2>1, <2>2
    <3>2. QED
      BY <1>0, <3>1 DEF Mirrored
  <2>3. CASE g = f
    <3>1. \A d \in ActionsOn(g) \ {c} : actionStatus'[d] \in {"absent", "revision_required"}
      BY <1>0, <2>1, <2>3 DEF Mirrored
    <3>2. c \in ActionsOn(g) /\ actionStatus'[c] = "submitted"
          /\ findingStatus'[g] = "response_submitted"
      BY <2>1, <2>3
    <3>3. QED
      BY <3>1, <3>2 DEF Mirrored
  <2>4. QED
    BY <2>2, <2>3
<1>4. ASSUME NEW c \in CorrectiveActions, NEW u \in BuyerUsers,
             NEW o \in {"accepted", "revision_required"}, VerifyCorrectiveAction(c, u, o)
      PROVE  Mirrored(g)'
  <2> DEFINE f == FindingOf[c]
  <2>1. /\ actionStatus' = [actionStatus EXCEPT ![c] = o]
        /\ findingStatus' = [findingStatus EXCEPT ![f] = FindingAfterVerification(o)]
        /\ actionStatus[c] = "submitted"
        /\ findingStatus[f] = "response_submitted"
    BY <1>4 DEF VerifyCorrectiveAction
  <2>2. CASE g # f
    <3>1. findingStatus'[g] = findingStatus[g] /\ \A d \in ActionsOn(g) : actionStatus'[d] = actionStatus[d]
      BY <2>1, <2>2
    <3>2. QED
      BY <1>0, <3>1 DEF Mirrored
  <2>3. CASE g = f
    <3>1. \A d \in ActionsOn(g) \ {c} : actionStatus[d] \in {"absent", "revision_required"}
      BY <1>0, <2>1, <2>3 DEF Mirrored
    <3>2. \A d \in ActionsOn(g) \ {c} : actionStatus'[d] \in {"absent", "revision_required"}
      BY <2>1, <3>1
    <3>3. c \in ActionsOn(g) /\ actionStatus'[c] = o
          /\ findingStatus'[g] = FindingAfterVerification(o)
      BY <2>1, <2>3
    <3>4. CASE o = "accepted"
      BY <3>2, <3>3, <3>4 DEF Mirrored, FindingAfterVerification
    <3>5. CASE o = "revision_required"
      BY <3>2, <3>3, <3>5 DEF Mirrored, FindingAfterVerification
    <3>6. QED
      BY <3>4, <3>5
  <2>4. QED
    BY <2>2, <2>3
<1>5. QED
  BY <1>1, <1>2, <1>3, <1>4, KindsOfStep
     DEF Records, Cases, RecordsMove, CasesMove

\* Findings and corrective actions always agree.
THEOREM FindingsMirrored == Spec => []FindingMirrorsActions
<1>1. Init => FindingMirrorsActions
  BY DEF Init, FindingMirrorsActions, Mirrored, ActionsOn
<1>2. QED
  BY <1>1, MirrorStep, TypeCorrect, PTL DEF Spec

-----------------------------------------------------------------------------
\* A decision is only recorded under review, where every earlier one is a
\* deferral, and nothing leaves a terminal status.
LEMMA DecisionStep ==
    TypeOK /\ SubmittingIsEditable /\ DecisionMatchesStatus /\ [Next]_vars
        => DecisionMatchesStatus'
<1> SUFFICES ASSUME TypeOK, SubmittingIsEditable, DecisionMatchesStatus, [Next]_vars,
                    NEW a \in Assessments
             PROVE  DecisionAgrees(a)'
  BY DEF DecisionMatchesStatus
<1>0. DecisionAgrees(a)
  BY DEF DecisionMatchesStatus
<1> USE DEF TypeOK, Editable, InReview, Terminal, Decisions
<1>1. CASE UNCHANGED <<status, decisions>>
  BY <1>0, <1>1 DEF DecisionAgrees
<1>2. ASSUME NEW b \in Assessments, CreateAssessment(b)
      PROVE  DecisionAgrees(a)'
  BY <1>0, <1>2 DEF CreateAssessment, DecisionAgrees
<1>3. ASSUME NEW b \in Assessments, StartAssessment(b)
      PROVE  DecisionAgrees(a)'
  BY <1>0, <1>3 DEF StartAssessment, DecisionAgrees
<1>4. ASSUME NEW b \in Assessments, CommitSubmission(b)
      PROVE  DecisionAgrees(a)'
  <2>1. status[b] \notin Terminal
    BY <1>4 DEF CommitSubmission, SubmittingIsEditable, Unlocked
  <2>2. status' = [status EXCEPT ![b] = StatusAfterSubmit(b)] /\ decisions' = decisions
    BY <1>4 DEF CommitSubmission
  <2>3. StatusAfterSubmit(b) \notin Terminal
    BY DEF StatusAfterSubmit
  <2>4. QED
    BY <1>0, <2>1, <2>2, <2>3 DEF DecisionAgrees
<1>5. ASSUME NEW b \in Assessments, NEW u \in BuyerUsers, StartReview(b, u)
      PROVE  DecisionAgrees(a)'
  BY <1>0, <1>5 DEF StartReview, LegalAssessmentTransition, DecisionAgrees
<1>6. ASSUME NEW b \in Assessments, NEW u \in BuyerUsers, RequestChanges(b, u)
      PROVE  DecisionAgrees(a)'
  BY <1>0, <1>6 DEF RequestChanges, DecisionAgrees
<1>7. ASSUME NEW b \in Assessments, NEW u \in BuyerUsers, NEW d \in Decisions,
             RecordDecision(b, u, d)
      PROVE  DecisionAgrees(a)'
  <2>1. /\ decisions' = [decisions EXCEPT ![b] = Append(decisions[b], d)]
        /\ status' = [status EXCEPT ![b] = StatusAfterDecision(d)]
        /\ status[b] = "under_review"
    BY <1>7 DEF RecordDecision
  <2>2. CASE a # b
    BY <1>0, <2>1, <2>2 DEF DecisionAgrees
  <2>3. CASE a = b
    <3> DEFINE n == Len(decisions[a])
    <3>0. decisions[a] \in Seq(Decisions)
      OBVIOUS
    <3>1. n \in Nat
      BY <3>0
    <3>2. decisions'[a] = Append(decisions[a], d)
      BY <2>1, <2>3
    <3>3. /\ Len(decisions'[a]) = n + 1
          /\ decisions'[a][n + 1] = d
          /\ \A i \in 1 .. n : decisions'[a][i] = decisions[a][i]
      BY <3>0, <3>2
    <3>4. /\ \A i \in 1 .. n - 1 : decisions[a][i] = "deferred"
          /\ n > 0 => decisions[a][n] = "deferred"
      BY <1>0, <2>1, <2>3 DEF DecisionAgrees
    <3>5. ASSUME NEW i \in 1 .. n
          PROVE  decisions[a][i] = "deferred"
      <4>1. i = n \/ i \in 1 .. n - 1
        BY <3>1
      <4>2. QED
        BY <3>1, <3>4, <4>1
    <3>6. (n + 1) - 1 = n /\ \A i \in 1 .. n : decisions'[a][i] = "deferred"
      <4>1. (n + 1) - 1 = n
        BY <3>1
      <4>2. \A i \in 1 .. n : decisions'[a][i] = "deferred"
        BY <3>3, <3>5
      <4>3. QED
        BY <4>1, <4>2
    <3>7. status'[a] = StatusAfterDecision(d)
      BY <2>1, <2>3
    <3>8. d \in Terminal => status'[a] = d
      BY <3>7 DEF StatusAfterDecision
    <3>9. d = "deferred" => status'[a] \notin Terminal
      BY <3>7 DEF StatusAfterDecision
    <3>10. d \in Terminal \/ d = "deferred"
      OBVIOUS
    <3> HIDE DEF n, TypeOK, Terminal, Decisions, InReview, Editable
    <3>11. /\ \A i \in 1 .. (n + 1) - 1 : decisions'[a][i] = "deferred"
           /\ status'[a] \in Terminal => n + 1 > 0 /\ decisions'[a][n + 1] = status'[a]
           /\ status'[a] \notin Terminal => decisions'[a][n + 1] = "deferred"
      <4>1. CASE d \in Terminal
        BY <3>1, <3>3, <3>6, <3>8, <4>1
      <4>2. CASE d = "deferred"
        BY <3>1, <3>3, <3>6, <3>9, <4>2
      <4>3. QED
        BY <3>10, <4>1, <4>2
    <3>12. QED
      BY <3>3, <3>11 DEF DecisionAgrees
  <2>4. QED
    BY <2>2, <2>3
<1>8. QED
  BY <1>1, <1>2, <1>3, <1>4, <1>5, <1>6, <1>7, KindsOfStep
     DEF Records, Cases, RecordsMove, CasesMove

\* The decision history and the status of an assessment always agree.
THEOREM DecisionsMatched == Spec => []DecisionMatchesStatus
<1>1. Init => DecisionMatchesStatus
  BY DEF Init, DecisionMatchesStatus, DecisionAgrees, Terminal
<1>2. QED
  BY <1>1, DecisionStep, SubmittingEditable, TypeCorrect, PTL DEF Spec

-----------------------------------------------------------------------------
\* Entering review costs a submission, leaving it at most a decision.
LEMMA OneDecisionStep ==
    TypeOK /\ OneDecisionPerSubmission /\ [Next]_vars => OneDecisionPerSubmission'
<1> SUFFICES ASSUME TypeOK, OneDecisionPerSubmission, [Next]_vars
             PROVE  OneDecisionPerSubmission'
  OBVIOUS
<1> USE DEF TypeOK, OneDecisionPerSubmission, Editable, InReview, Terminal, Decisions
<1>1. CASE UNCHANGED <<status, snapshots, decisions>>
  BY <1>1
<1>2. ASSUME NEW b \in Assessments, CreateAssessment(b)
      PROVE  OneDecisionPerSubmission'
  BY <1>2 DEF CreateAssessment
<1>3. ASSUME NEW b \in Assessments, StartAssessment(b)
      PROVE  OneDecisionPerSubmission'
  BY <1>3 DEF StartAssessment
<1>4. ASSUME NEW b \in Assessments, CommitSubmission(b)
      PROVE  OneDecisionPerSubmission'
  <2>1. /\ snapshots' = [snapshots EXCEPT ![b] = Append(snapshots[b], responses[b])]
        /\ decisions' = decisions
        /\ status' = [status EXCEPT ![b] = StatusAfterSubmit(b)]
    BY <1>4 DEF CommitSubmission
  <2>2. /\ Len(snapshots'[b]) = Len(snapshots[b]) + 1
        /\ Len(snapshots[b]) \in Nat
        /\ Len(decisions[b]) \in Nat
    BY <2>1
  <2>3. QED
    BY <2>1, <2>2
<1>5. ASSUME NEW b \in Assessments, NEW u \in BuyerUsers, StartReview(b, u)
      PROVE  OneDecisionPerSubmission'
  BY <1>5 DEF StartReview, LegalAssessmentTransition
<1>6. ASSUME NEW b \in Assessments, NEW u \in BuyerUsers, RequestChanges(b, u)
      PROVE  OneDecisionPerSubmission'
  BY <1>6 DEF RequestChanges
<1>7. ASSUME NEW b \in Assessments, NEW u \in BuyerUsers, NEW d \in Decisions,
             RecordDecision(b, u, d)
      PROVE  OneDecisionPerSubmission'
  <2>1. /\ decisions' = [decisions EXCEPT ![b] = Append(decisions[b], d)]
        /\ status' = [status EXCEPT ![b] = StatusAfterDecision(d)]
        /\ status[b] = "under_review"
        /\ snapshots' = snapshots
    BY <1>7 DEF RecordDecision
  <2>2. /\ Len(decisions'[b]) = Len(decisions[b]) + 1
        /\ Len(decisions[b]) \in Nat
        /\ Len(snapshots[b]) \in Nat
        /\ Len(decisions[b]) < Len(snapshots[b])
    BY <2>1
  <2>3. status'[b] \notin InReview
    BY <2>1 DEF StatusAfterDecision
  <2>4. QED
    BY <2>1, <2>2, <2>3
<1>8. QED
  BY <1>1, <1>2, <1>3, <1>4, <1>5, <1>6, <1>7, KindsOfStep
     DEF Records, Cases, RecordsMove, CasesMove

\* No submission is ever decided twice.
THEOREM OneDecisionEach == Spec => []OneDecisionPerSubmission
<1>1. Init => OneDecisionPerSubmission
  BY DEF Init, OneDecisionPerSubmission, InReview
<1>2. QED
  BY <1>1, OneDecisionStep, TypeCorrect, PTL DEF Spec

-----------------------------------------------------------------------------
\* The submission writes the snapshot from the rows it finds, which are the ones
\* it counted unless a row was committed meanwhile, and after it only a save that
\* was let through before changes them.
LEMMA ReviewedStep ==
    TypeOK /\ SubmittingIsEditable /\ CountsAreRight /\ ReviewedResponsesAreSubmitted
        /\ [Next]_vars => ReviewedResponsesAreSubmitted'
<1> SUFFICES ASSUME TypeOK, SubmittingIsEditable, CountsAreRight, ReviewedResponsesAreSubmitted,
                    [Next]_vars, NEW a \in Assessments
             PROVE  ReviewsTheLastSnapshot(a)'
  BY DEF ReviewedResponsesAreSubmitted
<1>0. ReviewsTheLastSnapshot(a)
  BY DEF ReviewedResponsesAreSubmitted
<1> USE DEF TypeOK, Editable, InReview, Terminal, Decisions
<1>1. CASE UNCHANGED <<status, responses, snapshots, overtaken>>
  BY <1>0, <1>1 DEF ReviewsTheLastSnapshot
<1>2. ASSUME NEW b \in Assessments, CreateAssessment(b)
      PROVE  ReviewsTheLastSnapshot(a)'
  BY <1>0, <1>2 DEF CreateAssessment, handover, ReviewsTheLastSnapshot
<1>3. ASSUME NEW b \in Assessments, StartAssessment(b)
      PROVE  ReviewsTheLastSnapshot(a)'
  BY <1>0, <1>3 DEF StartAssessment, handover, ReviewsTheLastSnapshot
<1>4. ASSUME NEW b \in Assessments, NEW content \in Contents, CommitSave(b, content)
      PROVE  ReviewsTheLastSnapshot(a)'
  <2>1. CASE a # b
    BY <1>0, <1>4, <2>1 DEF CommitSave, ReviewsTheLastSnapshot
  <2>2. CASE a = b
    BY <1>0, <1>4, <2>2 DEF CommitSave, ReviewsTheLastSnapshot
  <2>3. QED
    BY <2>1, <2>2
<1>5. ASSUME NEW b \in Assessments, BeginSubmission(b) \/ AbandonSubmission(b)
      PROVE  ReviewsTheLastSnapshot(a)'
  <2>1. status[b] \in Editable
    BY <1>5 DEF BeginSubmission, CanEdit, AbandonSubmission, SubmittingIsEditable
  <2>2. QED
    BY <1>0, <1>5, <2>1 DEF BeginSubmission, AbandonSubmission, ReviewsTheLastSnapshot
<1>6. ASSUME NEW b \in Assessments, CommitSubmission(b)
      PROVE  ReviewsTheLastSnapshot(a)'
  <2>1. /\ snapshots' = [snapshots EXCEPT ![b] = Append(snapshots[b], responses[b])]
        /\ responses' = responses /\ overtaken' = overtaken
        /\ b \notin overtaken => responses[b] \in CompleteContents
        /\ status' = [status EXCEPT ![b] = StatusAfterSubmit(b)]
    BY <1>6 DEF CommitSubmission, CountsAreRight, CountsHold
  <2>2. CASE a # b
    BY <1>0, <2>1, <2>2 DEF ReviewsTheLastSnapshot
  <2>3. CASE a = b
    <3>1. snapshots[a] \in Seq(Contents) /\ responses[a] \in Contents
      OBVIOUS
    <3>2. snapshots'[a] = Append(snapshots[a], responses[a])
      BY <2>1, <2>3
    <3> HIDE DEF TypeOK
    <3>3. /\ Len(snapshots'[a]) > 0
          /\ snapshots'[a][Len(snapshots'[a])] = responses[a]
      BY <3>1, <3>2, LastOfAppend
    <3>4. (a \notin overtaken => responses[a] \in CompleteContents)'
      BY <2>1, <2>3 DEF CompleteContents, TypeOK
    <3>5. responses'[a] = responses[a]
      BY <2>1
    <3>6. QED
      BY <3>3, <3>4, <3>5 DEF ReviewsTheLastSnapshot
  <2>4. QED
    BY <2>2, <2>3
<1>7. ASSUME NEW b \in Assessments, NEW u \in BuyerUsers, StartReview(b, u)
      PROVE  ReviewsTheLastSnapshot(a)'
  BY <1>0, <1>7 DEF StartReview, LegalAssessmentTransition, handover, ReviewsTheLastSnapshot
<1>8. ASSUME NEW b \in Assessments, NEW u \in BuyerUsers, RequestChanges(b, u)
      PROVE  ReviewsTheLastSnapshot(a)'
  BY <1>0, <1>8 DEF RequestChanges, ReviewsTheLastSnapshot
<1>9. ASSUME NEW b \in Assessments, NEW u \in BuyerUsers, NEW d \in Decisions,
             RecordDecision(b, u, d)
      PROVE  ReviewsTheLastSnapshot(a)'
  BY <1>0, <1>9 DEF RecordDecision, StatusAfterDecision, ReviewsTheLastSnapshot
<1>10. QED
  BY <1>1, <1>2, <1>3, <1>4, <1>5, <1>6, <1>7, <1>8, <1>9
     DEF Next, vars, handover, TransitionRelationship, BeginSave, FailSave, CheckCompleteness,
         CreateFinding, SubmitCorrectiveAction, VerifyCorrectiveAction

\* What is reviewed and decided is the last submission, and it is complete, as
\* long as no save that was let through before commits beside or after it.
THEOREM ReviewedIsSubmitted == Spec => []ReviewedResponsesAreSubmitted
<1>1. Init => ReviewedResponsesAreSubmitted
  BY DEF Init, ReviewedResponsesAreSubmitted, ReviewsTheLastSnapshot, InReview, Terminal
<1>2. QED
  BY <1>1, ReviewedStep, SubmittingEditable, CountsCorrect, TypeCorrect, PTL DEF Spec

-----------------------------------------------------------------------------
\* The task is opened with the submission and closed with the decision.
LEMMA OpenTaskStep ==
    TypeOK /\ OpenTaskTracksReview /\ [Next]_vars => OpenTaskTracksReview'
<1> SUFFICES ASSUME TypeOK, OpenTaskTracksReview, [Next]_vars
             PROVE  OpenTaskTracksReview'
  OBVIOUS
<1> USE DEF TypeOK, OpenTaskTracksReview, Editable, InReview, Terminal, Decisions
<1>1. CASE UNCHANGED <<status, task>>
  BY <1>1
<1>2. ASSUME NEW b \in Assessments, CreateAssessment(b)
      PROVE  OpenTaskTracksReview'
  BY <1>2 DEF CreateAssessment
<1>3. ASSUME NEW b \in Assessments, StartAssessment(b)
      PROVE  OpenTaskTracksReview'
  BY <1>3 DEF StartAssessment
<1>4. ASSUME NEW b \in Assessments, CommitSubmission(b)
      PROVE  OpenTaskTracksReview'
  BY <1>4 DEF CommitSubmission, StatusAfterSubmit, TaskAfterSubmit
<1>5. ASSUME NEW b \in Assessments, NEW u \in BuyerUsers, StartReview(b, u)
      PROVE  OpenTaskTracksReview'
  BY <1>5 DEF StartReview, LegalAssessmentTransition
<1>6. ASSUME NEW b \in Assessments, NEW u \in BuyerUsers, RequestChanges(b, u)
      PROVE  OpenTaskTracksReview'
  BY <1>6 DEF RequestChanges
<1>7. ASSUME NEW b \in Assessments, NEW u \in BuyerUsers, NEW d \in Decisions,
             RecordDecision(b, u, d)
      PROVE  OpenTaskTracksReview'
  BY <1>7 DEF RecordDecision, StatusAfterDecision
<1>8. QED
  BY <1>1, <1>2, <1>3, <1>4, <1>5, <1>6, <1>7, KindsOfStep
     DEF Records, Cases, RecordsMove, CasesMove

\* An assessment in review has an open task and a decided one has none.
THEOREM OpenTaskTracked == Spec => []OpenTaskTracksReview
<1>1. Init => OpenTaskTracksReview
  BY DEF Init, OpenTaskTracksReview, InReview, Terminal
<1>2. QED
  BY <1>1, OpenTaskStep, TypeCorrect, PTL DEF Spec

-----------------------------------------------------------------------------
\* A decided assessment is out of reach of every function: the legality tables
\* lead nowhere from a terminal status, it is not in review, and a submission under
\* way keeps its assessment editable.
THEOREM DecisionsAreFinal == Spec => DecidedIsFinal
<1>1. ASSUME TypeOK, SubmittingIsEditable, [Next]_vars, NEW a \in Assessments,
             status[a] \in Terminal
      PROVE  /\ status'[a] = status[a]
             /\ decisions'[a] = decisions[a]
             /\ snapshots'[a] = snapshots[a]
  <2> USE <1>1 DEF TypeOK, Editable, InReview, Terminal, Decisions
  <2>1. CASE UNCHANGED <<status, decisions, snapshots>>
    BY <2>1
  <2>2. CASE \E b \in Assessments : CreateAssessment(b)
    BY <2>2 DEF CreateAssessment
  <2>3. CASE \E b \in Assessments : StartAssessment(b)
    BY <2>3 DEF StartAssessment
  <2>4. ASSUME NEW b \in Assessments, CommitSubmission(b)
        PROVE  UNCHANGED <<status[a], decisions[a], snapshots[a]>>
    <3>1. status[b] \in Editable
      BY <2>4 DEF CommitSubmission, SubmittingIsEditable, Unlocked
    <3>2. QED
      BY <2>4, <3>1 DEF CommitSubmission
  <2>5. CASE \E b \in Assessments, u \in BuyerUsers : StartReview(b, u)
    BY <2>5 DEF StartReview, LegalAssessmentTransition
  <2>6. CASE \E b \in Assessments, u \in BuyerUsers : RequestChanges(b, u)
    BY <2>6 DEF RequestChanges
  <2>7. CASE \E b \in Assessments, u \in BuyerUsers, d \in Decisions :
                 RecordDecision(b, u, d)
    BY <2>7 DEF RecordDecision
  <2>8. QED
    BY <2>1, <2>2, <2>3, <2>4, <2>5, <2>6, <2>7, KindsOfStep
       DEF Records, Cases, RecordsMove, CasesMove
<1>2. TypeOK /\ SubmittingIsEditable /\ [Next]_vars =>
        [\A a \in Assessments :
             status[a] \in Terminal =>
                 /\ status'[a] = status[a]
                 /\ decisions'[a] = decisions[a]
                 /\ snapshots'[a] = snapshots[a]]_vars
  BY <1>1
<1>3. QED
  BY <1>2, SubmittingEditable, TypeCorrect, PTL DEF Spec, DecidedIsFinal

-----------------------------------------------------------------------------
\* A save is let through and a submission begun only by CanEdit; from then on each
\* commits or fails once, and takes itself out of what is under way.
THEOREM ClosedOnlyEnds == Spec => ClosedAssessmentOnlyEnds
<1> DEFINE Ends(a) == /\ saves'[a] <= saves[a]
                      /\ responses'[a] # responses[a] => saves'[a] < saves[a]
                      /\ Unlocked(a) => Unlocked(a)' /\ snapshots'[a] = snapshots[a]
                      /\ snapshots'[a] # snapshots[a] => Unlocked(a)'
<1>1. ASSUME TypeOK, [Next]_vars, NEW a \in Assessments,
             relStatus[RelationshipOf[a]] # "active" \/ status[a] \notin Editable
      PROVE  Ends(a)
  <2> USE <1>1 DEF TypeOK, Unlocked
  <2>1. CASE UNCHANGED <<saves, responses, submitting, snapshots>>
    BY <2>1
  <2>2. ASSUME NEW b \in Assessments, BeginSave(b) \/ FailSave(b) PROVE Ends(a)
    <3>1. /\ UNCHANGED <<responses, submitting, snapshots>>
          /\ saves[a] \in Nat /\ (b # a => saves'[a] = saves[a])
      BY <2>2 DEF BeginSave, FailSave
    <3>2. b = a => saves'[a] = saves[a] - 1
      BY <2>2 DEF BeginSave, FailSave, CanEdit
    <3>3. QED
      BY <3>1, <3>2
  <2>3. CASE \E b \in Assessments, content \in Contents : CommitSave(b, content)
    BY <2>3 DEF CommitSave
  <2>4. CASE \E b \in Assessments : BeginSubmission(b)
    BY <2>4 DEF BeginSubmission, CanEdit
  <2>5. CASE \E b \in Assessments :
                 CheckCompleteness(b) \/ CommitSubmission(b) \/ AbandonSubmission(b)
    BY <2>5 DEF CheckCompleteness, CommitSubmission, AbandonSubmission
  <2>6. QED
    BY <2>1, <2>2, <2>3, <2>4, <2>5
       DEF Next, vars, handover, TransitionRelationship, CreateAssessment, StartAssessment,
           StartReview, RequestChanges, CreateFinding, SubmitCorrectiveAction,
           VerifyCorrectiveAction, RecordDecision
<1>2. TypeOK /\ [Next]_vars =>
        [\A a \in Assessments :
             relStatus[RelationshipOf[a]] # "active" \/ status[a] \notin Editable => Ends(a)]_vars
  BY <1>1
<1>3. QED
  BY <1>2, TypeCorrect, PTL DEF Spec, ClosedAssessmentOnlyEnds

-----------------------------------------------------------------------------
\* Only a terminal decision turns an undecided assessment into a decided one,
\* and it writes the onboarding status in the same step.
LEMMA OnboardingStep ==
    TypeOK /\ SubmittingIsEditable /\ OnboardingReflectsDecisions /\ [Next]_vars
        => OnboardingReflectsDecisions'
<1> SUFFICES ASSUME TypeOK, SubmittingIsEditable, OnboardingReflectsDecisions, [Next]_vars,
                    NEW r \in Relationships
             PROVE  LET decided == {a \in Assessments :
                                      RelationshipOf[a] = r /\ status'[a] \in Terminal}
                    IN  IF decided = {} THEN onboarding'[r] = "profile_pending"
                        ELSE \E a \in decided : onboarding'[r] = OnboardingAfter(status'[a], "none")
  BY DEF OnboardingReflectsDecisions, OnboardingAfter
<1> DEFINE Decided    == {a \in Assessments : RelationshipOf[a] = r /\ status[a] \in Terminal}
           DecidedNow == {a \in Assessments : RelationshipOf[a] = r /\ status'[a] \in Terminal}
<1>0. IF Decided = {} THEN onboarding[r] = "profile_pending"
      ELSE \E a \in Decided : onboarding[r] = OnboardingAfter(status[a], "none")
  BY DEF OnboardingReflectsDecisions
<1> SUFFICES IF DecidedNow = {} THEN onboarding'[r] = "profile_pending"
             ELSE \E a \in DecidedNow : onboarding'[r] = OnboardingAfter(status'[a], "none")
  OBVIOUS
\* A step that decides nothing.
<1>1. ASSUME onboarding' = onboarding,
             \A a \in Assessments : \/ status'[a] = status[a]
                                    \/ status[a] \notin Terminal /\ status'[a] \notin Terminal
      PROVE  IF DecidedNow = {} THEN onboarding'[r] = "profile_pending"
             ELSE \E a \in DecidedNow : onboarding'[r] = OnboardingAfter(status'[a], "none")
  <2>1. DecidedNow = Decided /\ \A a \in Decided : status'[a] = status[a]
    BY <1>1
  <2>2. QED
    BY <1>0, <1>1, <2>1
<1> USE DEF TypeOK, Terminal
<1>2. CASE UNCHANGED <<onboarding, status>>
  BY <1>1, <1>2
<1>3. CASE \E b \in Assessments : CreateAssessment(b)
  <2>1. PICK b \in Assessments : CreateAssessment(b)
    BY <1>3
  <2>2. onboarding' = onboarding /\ status' = [status EXCEPT ![b] = "draft"] /\ status[b] = "absent"
    BY <2>1 DEF CreateAssessment
  <2>3. QED
    BY <1>1, <2>2
<1>4. CASE \E b \in Assessments : StartAssessment(b)
  BY <1>1, <1>4 DEF StartAssessment
<1>5. CASE \E b \in Assessments : CommitSubmission(b)
  <2>1. PICK b \in Assessments : CommitSubmission(b)
    BY <1>5
  <2>2. /\ onboarding' = onboarding /\ status' = [status EXCEPT ![b] = StatusAfterSubmit(b)]
        /\ StatusAfterSubmit(b) \notin Terminal
    BY <2>1 DEF CommitSubmission, StatusAfterSubmit
  <2>3. status[b] \notin Terminal
    BY <2>1 DEF CommitSubmission, SubmittingIsEditable, Unlocked, Editable
  <2>4. QED
    BY <1>1, <2>2, <2>3
<1>6. CASE \E b \in Assessments, u \in BuyerUsers : StartReview(b, u)
  BY <1>1, <1>6 DEF StartReview, LegalAssessmentTransition
<1>7. CASE \E b \in Assessments, u \in BuyerUsers : RequestChanges(b, u)
  BY <1>1, <1>7 DEF RequestChanges
<1>8. ASSUME NEW b \in Assessments, NEW u \in BuyerUsers, NEW d \in Decisions,
             RecordDecision(b, u, d)
      PROVE  IF DecidedNow = {} THEN onboarding'[r] = "profile_pending"
             ELSE \E a \in DecidedNow : onboarding'[r] = OnboardingAfter(status'[a], "none")
  <2> USE <1>8 DEF RecordDecision, StatusAfterDecision
  <2>1. CASE d = "deferred"
    <3>1. onboarding' = onboarding
      BY <2>1 DEF OnboardingAfter
    <3>2. QED
      BY <1>1, <2>1, <3>1
  <2>2. CASE d \in Terminal /\ RelationshipOf[b] = r
    <3>1. b \in DecidedNow /\ status'[b] = d
      BY <2>2
    <3>2. onboarding'[r] = OnboardingAfter(d, onboarding[r])
      BY <2>2
    <3>3. OnboardingAfter(d, onboarding[r]) = OnboardingAfter(d, "none")
      BY <2>2 DEF OnboardingAfter
    <3>4. QED
      BY <3>1, <3>2, <3>3
  <2>3. CASE d \in Terminal /\ RelationshipOf[b] # r
    <3>1. onboarding'[r] = onboarding[r]
      BY <2>3
    <3>2. DecidedNow = Decided /\ \A a \in Decided : status'[a] = status[a]
      BY <2>3
    <3>3. QED
      BY <1>0, <3>1, <3>2
  <2>4. QED
    BY <2>1, <2>2, <2>3 DEF Decisions
<1>9. QED
  BY <1>2, <1>3, <1>4, <1>5, <1>6, <1>7, <1>8, KindsOfStep
     DEF Records, Cases, RecordsMove, CasesMove

\* The onboarding status of a relationship is the outcome of one of its decided
\* assessments, or profile_pending while there is none.
THEOREM OnboardingReflected == Spec => []OnboardingReflectsDecisions
<1>1. Init => OnboardingReflectsDecisions
  <2> SUFFICES ASSUME Init, NEW r \in Relationships
               PROVE  LET decided == {a \in Assessments :
                                        RelationshipOf[a] = r /\ status[a] \in Terminal}
                      IN  IF decided = {} THEN onboarding[r] = "profile_pending"
                          ELSE \E a \in decided :
                                   onboarding[r] = OnboardingAfter(status[a], "none")
    BY DEF OnboardingReflectsDecisions
  <2>1. {a \in Assessments : RelationshipOf[a] = r /\ status[a] \in Terminal} = {}
    BY DEF Init, Terminal
  <2>2. onboarding[r] = "profile_pending"
    BY DEF Init
  <2>3. QED
    BY <2>1, <2>2
<1>2. QED
  BY <1>1, OnboardingStep, SubmittingEditable, TypeCorrect, PTL DEF Spec

-----------------------------------------------------------------------------
\* Only some functions consult the transition tables; the guards of the others
\* leave no other way.  The four tables one after the other.
LegalRelationships ==
    \A r \in Relationships :
        relStatus'[r] # relStatus[r] => LegalRelationshipTransition(relStatus[r], relStatus'[r])

LegalAssessments ==
    \A a \in Assessments :
        status'[a] # status[a] =>
            \/ status[a] = "absent" /\ status'[a] = "draft"
            \/ LegalAssessmentTransition(status[a], status'[a])

LegalFindings ==
    \A f \in Findings :
        findingStatus'[f] # findingStatus[f] =>
            \/ findingStatus[f] = "absent" /\ findingStatus'[f] = "response_required"
            \/ LegalFindingTransition(findingStatus[f], findingStatus'[f])

LegalActions ==
    \A c \in CorrectiveActions :
        actionStatus'[c] # actionStatus[c] =>
            \/ actionStatus[c] = "absent" /\ actionStatus'[c] = "submitted"
            \/ LegalActionTransition(actionStatus[c], actionStatus'[c])

LEMMA LegalRelationshipStep == TypeOK /\ [Next]_vars => LegalRelationships
<1> SUFFICES ASSUME TypeOK, [Next]_vars PROVE LegalRelationships
  OBVIOUS
<1> USE DEF TypeOK, LegalRelationships
<1>1. CASE \E r \in Relationships, to \in RelationshipStatuses : TransitionRelationship(r, to)
  BY <1>1 DEF TransitionRelationship
<1>2. CASE UNCHANGED relStatus
  BY <1>2
<1>3. QED
  BY <1>1, <1>2
     DEF Next, vars, BeginSave, CommitSave, FailSave, BeginSubmission, CheckCompleteness,
         AbandonSubmission, handover, CreateAssessment, StartAssessment, CommitSubmission,
         StartReview, RequestChanges, CreateFinding, SubmitCorrectiveAction,
         VerifyCorrectiveAction, RecordDecision

LEMMA LegalAssessmentStep ==
    TypeOK /\ SubmittingIsEditable /\ [Next]_vars => LegalAssessments
<1> SUFFICES ASSUME TypeOK, SubmittingIsEditable, [Next]_vars PROVE LegalAssessments
  OBVIOUS
<1> USE DEF TypeOK, LegalAssessments
<1>1. CASE UNCHANGED status
  BY <1>1
<1>2. CASE \E a \in Assessments : CreateAssessment(a)
  BY <1>2 DEF CreateAssessment
<1>3. CASE \E a \in Assessments : StartAssessment(a)
  BY <1>3 DEF StartAssessment, LegalAssessmentTransition
<1>4. CASE \E a \in Assessments : CommitSubmission(a)
  BY <1>4 DEF CommitSubmission, SubmittingIsEditable, Unlocked, Editable, StatusAfterSubmit,
               LegalAssessmentTransition
<1>5. CASE \E a \in Assessments, u \in BuyerUsers : StartReview(a, u)
  BY <1>5 DEF StartReview
<1>6. CASE \E a \in Assessments, u \in BuyerUsers : RequestChanges(a, u)
  BY <1>6 DEF RequestChanges, LegalAssessmentTransition
<1>7. CASE \E a \in Assessments, u \in BuyerUsers, d \in Decisions : RecordDecision(a, u, d)
  BY <1>7 DEF RecordDecision
<1>8. QED
  BY <1>1, <1>2, <1>3, <1>4, <1>5, <1>6, <1>7, KindsOfStep
     DEF Records, Cases, RecordsMove, CasesMove

LEMMA LegalFindingStep == TypeOK /\ [Next]_vars => LegalFindings /\ LegalActions
<1> SUFFICES ASSUME TypeOK, [Next]_vars PROVE LegalFindings /\ LegalActions
  OBVIOUS
<1> USE DEF TypeOK, LegalFindings, LegalActions, LegalFindingTransition, LegalActionTransition
<1>1. CASE UNCHANGED <<findingStatus, actionStatus>>
  BY <1>1
<1>2. CASE \E f \in Findings, u \in BuyerUsers : CreateFinding(f, u)
  BY <1>2 DEF CreateFinding
<1>3. CASE \E c \in CorrectiveActions : SubmitCorrectiveAction(c)
  BY <1>3 DEF SubmitCorrectiveAction
<1>4. CASE \E c \in CorrectiveActions, u \in BuyerUsers, o \in {"accepted", "revision_required"} :
               VerifyCorrectiveAction(c, u, o)
  BY <1>4 DEF VerifyCorrectiveAction, FindingAfterVerification
<1>5. QED
  BY <1>1, <1>2, <1>3, <1>4, KindsOfStep
     DEF Records, Cases, RecordsMove, CasesMove

\* Every status change of every function is one its transition table lists.
THEOREM StatusMachines == Spec => StatusMachinesRespected
<1>1. TypeOK /\ SubmittingIsEditable /\ [Next]_vars =>
        [LegalRelationships /\ LegalAssessments /\ LegalFindings /\ LegalActions]_vars
  BY LegalRelationshipStep, LegalAssessmentStep, LegalFindingStep
<1>2. QED
  BY <1>1, SubmittingEditable, TypeCorrect, PTL
     DEF Spec, StatusMachinesRespected, LegalRelationships, LegalAssessments, LegalFindings,
         LegalActions
-----------------------------------------------------------------------------
(* The refinement of Qualification                                         *)

turns    == [a \in Assessments |-> TurnOf(a)]
sheets   == [a \in Assessments |-> SheetOf(a)]
blockeds == [a \in Assessments |-> UnresolvedCritical(a)]

PromiseStep == [Promise!Next]_<<turns, sheets, blockeds, onboarding>>

\* What is seen of one assessment reads its own rows only, and no task, count of
\* required questions or save under way.
LEMMA SeenStep ==
    ASSUME NEW a \in Assessments, status'[a] = status[a], submitting'[a] = submitting[a],
           responses'[a] = responses[a], snapshots'[a] = snapshots[a],
           a \in overtaken' <=> a \in overtaken
    PROVE  TurnOf(a)' = TurnOf(a) /\ SheetOf(a)' = SheetOf(a)
<1>1. TurnOf(a)' = TurnOf(a)
  BY DEF TurnOf, Unlocked
<1>2. QED
  BY <1>1 DEF SheetOf

\* The rows of the other assessments are as they were.
OthersStay(b) ==
    \A a \in Assessments \ {b} :
        /\ status'[a] = status[a] /\ submitting'[a] = submitting[a]
        /\ responses'[a] = responses[a] /\ snapshots'[a] = snapshots[a]
        /\ a \in overtaken' <=> a \in overtaken

\* A step about one assessment's rows is seen as one of its turns.
LEMMA SeenAs ==
    ASSUME NEW b \in Assessments, OthersStay(b), findingStatus' = findingStatus
    PROVE  /\ turns' = [turns EXCEPT ![b] = TurnOf(b)']
           /\ sheets' = [sheets EXCEPT ![b] = SheetOf(b)']
           /\ blockeds' = blockeds
<1>1. \A a \in Assessments \ {b} : TurnOf(a)' = TurnOf(a) /\ SheetOf(a)' = SheetOf(a)
  BY SeenStep DEF OthersStay
<1>2. \A a \in Assessments : UnresolvedCritical(a)' = UnresolvedCritical(a)
  BY DEF UnresolvedCritical, FindingsOf
<1>3. QED
  BY <1>1, <1>2 DEF turns, sheets, blockeds

LEMMA UnseenStep ==
    ASSUME NEW b \in Assessments, OthersStay(b), UNCHANGED <<onboarding, findingStatus>>,
           TurnOf(b)' = TurnOf(b), SheetOf(b)' = SheetOf(b)
    PROVE  PromiseStep
<1>1. turns' = turns /\ sheets' = sheets /\ blockeds' = blockeds
  BY SeenAs DEF turns, sheets
<1>2. QED
  BY <1>1 DEF PromiseStep

LEMMA UnseenRows ==
    ASSUME UNCHANGED <<onboarding, findingStatus, status, submitting, responses, snapshots,
                       overtaken>>
    PROVE  PromiseStep
<1>1. \A a \in Assessments : TurnOf(a)' = TurnOf(a) /\ SheetOf(a)' = SheetOf(a)
  BY SeenStep
<1>2. \A a \in Assessments : UnresolvedCritical(a)' = UnresolvedCritical(a)
  BY DEF UnresolvedCritical, FindingsOf
<1>3. turns' = turns /\ sheets' = sheets /\ blockeds' = blockeds
  BY <1>1, <1>2 DEF turns, sheets, blockeds
<1>4. QED
  BY <1>3 DEF PromiseStep

\* A step about one finding blocks its assessment, unblocks it or is not seen.
LEMMA FindingStep ==
    ASSUME TypeOK, NEW f \in Findings, NEW s, findingStatus' = [findingStatus EXCEPT ![f] = s],
           UNCHANGED <<onboarding, status, responses, handover, snapshots>>,
           \/ TurnOf(AssessmentOf[f]) \in {"supplier", "buyer"}
           \/ findingStatus[f] \notin {"absent", "verified", "closed"}
    PROVE  PromiseStep
<1> DEFINE b == AssessmentOf[f]
<1>1. b \in Assessments
  OBVIOUS
<1>2. turns' = turns /\ sheets' = sheets
  BY DEF turns, sheets, TurnOf, SheetOf, Unlocked, handover
<1>3. \A a \in Assessments \ {b} : UnresolvedCritical(a)' = UnresolvedCritical(a)
  BY DEF UnresolvedCritical, FindingsOf, TypeOK
<1>4. blockeds' = [blockeds EXCEPT ![b] = UnresolvedCritical(b)']
  BY <1>1, <1>3 DEF blockeds
<1>5. UnresolvedCritical(b) \in BOOLEAN /\ UnresolvedCritical(b)' \in BOOLEAN
  BY DEF UnresolvedCritical
<1>6. CASE UnresolvedCritical(b)' = UnresolvedCritical(b)
  <2>1. blockeds' = blockeds
    BY <1>3, <1>6 DEF blockeds
  <2>2. QED
    BY <1>2, <2>1 DEF PromiseStep
<1>7. CASE ~ UnresolvedCritical(b)' /\ UnresolvedCritical(b)
  <2>1. blockeds' = [blockeds EXCEPT ![b] = FALSE]
    BY <1>4, <1>5, <1>7
  <2>2. Promise!Unblock(b)
    BY <1>1, <1>2, <1>7, <2>1 DEF Promise!Unblock, turns, sheets, blockeds
  <2>3. QED
    BY <1>1, <2>2 DEF PromiseStep, Promise!Next
<1>8. CASE UnresolvedCritical(b)' /\ ~ UnresolvedCritical(b)
  <2>1. TurnOf(b) \in {"supplier", "buyer"}
    BY <1>8 DEF UnresolvedCritical, FindingsOf, TypeOK
  <2>2. blockeds' = [blockeds EXCEPT ![b] = TRUE]
    BY <1>4, <1>5, <1>8
  <2>3. turns[b] \in {"supplier", "buyer"}
    BY <1>1, <2>1 DEF turns
  <2>4. Promise!Block(b)
    BY <1>1, <1>2, <1>8, <2>2, <2>3 DEF Promise!Block, turns, sheets, blockeds
  <2>5. QED
    BY <1>1, <2>4 DEF PromiseStep, Promise!Next
<1>9. QED
  BY <1>5, <1>6, <1>7, <1>8

\* The steps of a submission, and of the saves it meets.
LEMMA HandOverKept ==
    ASSUME TypeOK, SubmittingIsEditable, NEW a \in Assessments, CountsHold(a),
           \/ \E content \in Contents : CommitSave(a, content)
           \/ BeginSubmission(a) \/ CommitSubmission(a) \/ AbandonSubmission(a)
    PROVE  PromiseStep
<1> USE DEF TypeOK
<1>1. /\ OthersStay(a) /\ UNCHANGED <<onboarding, findingStatus>>
  BY DEF CommitSave, BeginSubmission, CommitSubmission, AbandonSubmission, OthersStay
<1>2. /\ turns' = [turns EXCEPT ![a] = TurnOf(a)']
      /\ sheets' = [sheets EXCEPT ![a] = SheetOf(a)']
      /\ blockeds' = blockeds /\ onboarding' = onboarding
      /\ turns[a] = TurnOf(a) /\ sheets[a] = SheetOf(a)
  BY <1>1, SeenAs DEF turns, sheets
<1>3. ~ Unlocked(a) => status[a] \in Editable
  BY DEF SubmittingIsEditable
<1>4. ~ Unlocked(a) => TurnOf(a) = IF a \in overtaken THEN "disturbed" ELSE "presented"
  BY <1>3 DEF TurnOf, Editable, InReview, Terminal
<1> USE DEF Promise!Passing
<1>5. ASSUME NEW content \in Contents, CommitSave(a, content) PROVE PromiseStep
  <2>1. CASE Unlocked(a)
    <3>1. /\ status' = status /\ submitting' = submitting /\ snapshots' = snapshots
      BY <1>5 DEF CommitSave
    <3>2. TurnOf(a)' = TurnOf(a) /\ TurnOf(a) \notin {"presented", "disturbed"}
      BY <2>1, <3>1 DEF TurnOf, Unlocked, Terminal
    <3>3. SheetOf(a)' = SheetOf(a)
      BY <3>1, <3>2 DEF SheetOf
    <3>4. QED
      BY <1>1, <3>2, <3>3, UnseenStep
  <2>2. CASE ~ Unlocked(a)
    <3>1. /\ status' = status /\ submitting' = submitting
          /\ a \in overtaken' /\ responses'[a] = content
      BY <1>5, <2>2 DEF CommitSave
    <3>2. TurnOf(a)' = "disturbed"
      BY <1>3, <2>2, <3>1 DEF TurnOf, Unlocked, Editable, InReview, Terminal
    <3>3. SheetOf(a)' = {content}
      BY <3>1, <3>2 DEF SheetOf
    <3>4. Promise!Disturb(a)
      BY <1>2, <1>4, <2>2, <3>2, <3>3 DEF Promise!Disturb, turns, sheets, blockeds
    <3>5. QED
      BY <3>4 DEF PromiseStep, Promise!Next
  <2>3. QED
    BY <2>1, <2>2
<1>6. ASSUME BeginSubmission(a) PROVE PromiseStep
  <2>1. /\ Unlocked(a) /\ status[a] \in Editable /\ status' = status /\ responses' = responses
        /\ submitting'[a] = "counting" /\ a \notin overtaken'
    BY <1>6 DEF BeginSubmission, CanEdit
  <2>2. TurnOf(a) = "supplier" /\ TurnOf(a)' = "presented"
    BY <2>1 DEF TurnOf, Unlocked, Editable, InReview, Terminal
  <2>3. SheetOf(a)' = {responses[a]} /\ responses[a] \in Contents
    BY <2>1, <2>2 DEF SheetOf
  <2>4. Promise!Present(a)
    BY <1>2, <2>2, <2>3 DEF Promise!Present, turns, sheets, blockeds
  <2>5. QED
    BY <2>4 DEF PromiseStep, Promise!Next
<1>7. ASSUME CommitSubmission(a) PROVE PromiseStep
  <2>1. /\ ~ Unlocked(a) /\ status'[a] \in {"submitted", "resubmitted"}
        /\ a \notin overtaken => responses[a] \in CompleteContents
        /\ snapshots'[a] = Append(snapshots[a], responses[a])
    BY <1>7 DEF CommitSubmission, StatusAfterSubmit, Unlocked, CountsHold
  <2>2. TurnOf(a)' = "buyer"
    BY <2>1 DEF TurnOf, InReview, Terminal
  <2>3. snapshots'[a][Len(snapshots'[a])] = responses[a]
    <3>1. snapshots[a] \in Seq(Contents) /\ responses[a] \in Contents
      OBVIOUS
    <3>2. QED
      BY <2>1, <3>1
  <2>4. SheetOf(a)' = {responses[a]}
    BY <2>2, <2>3 DEF SheetOf
  <2>5. SheetOf(a) = {responses[a]}
    BY <1>4, <2>1 DEF SheetOf
  <2>6. sheets' = sheets
    BY <1>2, <2>4, <2>5 DEF sheets
  <2>7. Promise!HandOver(a)
    BY <1>2, <1>4, <2>1, <2>2, <2>5, <2>6 DEF Promise!HandOver, turns, sheets, blockeds
  <2>8. QED
    BY <2>7 DEF PromiseStep, Promise!Next
<1>8. ASSUME AbandonSubmission(a) PROVE PromiseStep
  <2>1. ~ Unlocked(a) /\ status' = status /\ submitting'[a] = "none"
    BY <1>8 DEF AbandonSubmission
  <2>2. TurnOf(a)' = "supplier"
    BY <1>3, <2>1 DEF TurnOf, Unlocked, Editable, InReview, Terminal
  <2>3. SheetOf(a)' = {}
    BY <2>2 DEF SheetOf
  <2>4. Promise!TakeBack(a)
    BY <1>2, <1>4, <2>1, <2>2, <2>3 DEF Promise!TakeBack, turns, sheets, blockeds
  <2>5. QED
    BY <2>4 DEF PromiseStep, Promise!Next
<1>9. QED
  BY <1>5, <1>6, <1>7, <1>8

LEMMA PromiseKept ==
    ASSUME TypeOK, SubmittingIsEditable, CountsAreRight, [Next]_vars PROVE PromiseStep
<1> USE DEF handover
<1>1. ASSUME NEW r \in Relationships, NEW to \in RelationshipStatuses, TransitionRelationship(r, to)
      PROVE  PromiseStep
  BY <1>1, UnseenRows DEF TransitionRelationship
<1>2. ASSUME NEW a \in Assessments,
             \/ CreateAssessment(a) \/ StartAssessment(a)
             \/ \E u \in BuyerUsers : StartReview(a, u)
      PROVE  PromiseStep
  <2>1. /\ OthersStay(a) /\ UNCHANGED <<onboarding, findingStatus>>
        /\ UNCHANGED <<responses, submitting, snapshots, overtaken>>
    BY <1>2 DEF CreateAssessment, StartAssessment, StartReview, OthersStay, TypeOK
  <2>2. \/ status[a] \in {"absent", "draft"} /\ status'[a] \in {"draft", "in_progress"}
        \/ status[a] \in InReview /\ status'[a] \in InReview
    BY <1>2 DEF CreateAssessment, StartAssessment, StartReview, LegalAssessmentTransition,
                InReview, Terminal, TypeOK
  <2>3. TurnOf(a)' = TurnOf(a)
    BY <2>1, <2>2 DEF TurnOf, Unlocked, InReview, Terminal
  <2>4. SheetOf(a)' = SheetOf(a)
    BY <2>1, <2>3 DEF SheetOf
  <2>5. QED
    BY <2>1, <2>3, <2>4, UnseenStep
<1>3. ASSUME NEW a \in Assessments, BeginSave(a) \/ FailSave(a) PROVE PromiseStep
  BY <1>3, UnseenRows DEF BeginSave, FailSave
<1>4. ASSUME NEW a \in Assessments,
             \/ \E content \in Contents : CommitSave(a, content)
             \/ BeginSubmission(a) \/ CommitSubmission(a) \/ AbandonSubmission(a)
      PROVE  PromiseStep
  BY <1>4, HandOverKept DEF CountsAreRight
<1>5. ASSUME NEW a \in Assessments, CheckCompleteness(a) PROVE PromiseStep
  <2>1. /\ OthersStay(a) /\ UNCHANGED <<onboarding, findingStatus, status, responses, snapshots,
                                        overtaken>>
        /\ submitting[a] = "counting" /\ submitting'[a] = "complete"
    BY <1>5 DEF CheckCompleteness, OthersStay, TypeOK
  <2>2. TurnOf(a)' = TurnOf(a)
    BY <2>1 DEF TurnOf, Unlocked
  <2>3. SheetOf(a)' = SheetOf(a)
    BY <2>1, <2>2 DEF SheetOf
  <2>4. QED
    BY <2>1, <2>2, <2>3, UnseenStep
<1>6. ASSUME NEW a \in Assessments, Unlocked(a), status[a] = "under_review",
             status' = [status EXCEPT ![a] = "changes_requested"],
             overtaken' = overtaken \ {a},
             UNCHANGED <<findingStatus, responses, submitting, snapshots, onboarding>>
      PROVE  PromiseStep
  <2>1. OthersStay(a)
    BY <1>6 DEF OthersStay, TypeOK
  <2>2. TurnOf(a)' = "supplier" /\ TurnOf(a) = "buyer"
    BY <1>6 DEF TurnOf, Unlocked, InReview, Terminal, TypeOK
  <2>3. SheetOf(a)' = {}
    BY <2>2 DEF SheetOf
  <2>4. Promise!SendBack(a)
    BY <1>6, <2>1, <2>2, <2>3, SeenAs DEF Promise!SendBack, turns, sheets, blockeds
  <2>5. QED
    BY <2>4 DEF PromiseStep, Promise!Next
<1>7. ASSUME NEW a \in Assessments, NEW u \in BuyerUsers, RequestChanges(a, u) PROVE PromiseStep
  BY <1>6, <1>7 DEF RequestChanges
<1>8. ASSUME NEW f \in Findings, NEW u \in BuyerUsers, CreateFinding(f, u) PROVE PromiseStep
  <2>1. TurnOf(AssessmentOf[f]) \in {"supplier", "buyer"}
    BY <1>8 DEF CreateFinding, TurnOf, InReview, Terminal
  <2>2. QED
    BY <1>8, <2>1, FindingStep DEF CreateFinding
<1>9. ASSUME NEW c \in CorrectiveActions,
             \/ SubmitCorrectiveAction(c)
             \/ \E u \in BuyerUsers, o \in {"accepted", "revision_required"} :
                    VerifyCorrectiveAction(c, u, o)
      PROVE  PromiseStep
  <2>1. findingStatus[FindingOf[c]] \notin {"absent", "verified", "closed"}
    BY <1>9 DEF SubmitCorrectiveAction, VerifyCorrectiveAction
  <2>2. /\ \E s : findingStatus' = [findingStatus EXCEPT ![FindingOf[c]] = s]
        /\ UNCHANGED <<onboarding, status, responses, handover, snapshots>>
    BY <1>9 DEF SubmitCorrectiveAction, VerifyCorrectiveAction
  <2>3. QED
    BY <2>1, <2>2, FindingStep
<1>10. ASSUME NEW a \in Assessments, NEW u \in BuyerUsers, NEW d \in Decisions, RecordDecision(a, u, d)
       PROVE  PromiseStep
  <2>1. CASE d = "deferred"
    <3>1. onboarding' = onboarding
      BY <1>10, <2>1 DEF RecordDecision, OnboardingAfter, TypeOK
    <3>2. QED
      BY <1>6, <1>10, <2>1, <3>1 DEF RecordDecision, StatusAfterDecision
  <2>2. CASE d \in Terminal
    <3>1. /\ status[a] = "under_review" /\ status' = [status EXCEPT ![a] = d]
          /\ UNCHANGED <<findingStatus, responses, submitting, snapshots, overtaken>>
      BY <1>10, <2>2 DEF RecordDecision, StatusAfterDecision, Terminal
    <3>2. OthersStay(a) /\ status'[a] = d
      BY <3>1 DEF OthersStay, TypeOK
    <3>3. TurnOf(a) = "buyer" /\ TurnOf(a)' = d
      BY <2>2, <3>1, <3>2 DEF TurnOf, InReview, Terminal
    <3>4. SheetOf(a)' = SheetOf(a)
      BY <2>2, <3>1, <3>3 DEF SheetOf, Terminal
    <3>5. /\ turns' = [turns EXCEPT ![a] = d] /\ turns[a] = "buyer"
          /\ sheets' = sheets /\ blockeds' = blockeds
      BY <3>1, <3>2, <3>3, <3>4, SeenAs DEF turns, sheets
    <3>6. blockeds[a] => d = "rejected"
      BY <1>10, <2>2 DEF blockeds, RecordDecision, Terminal
    <3>7. onboarding' = [onboarding EXCEPT ![RelationshipOf[a]] = Promise!StandingAfter(d)]
      BY <1>10, <2>2 DEF RecordDecision, OnboardingAfter, Promise!StandingAfter, Terminal
    <3>8. Promise!Decide(a, d)
      BY <3>5, <3>6, <3>7 DEF Promise!Decide, turns, sheets, blockeds
    <3>9. d \in Promise!Verdicts
      BY <2>2 DEF Terminal, Promise!Verdicts
    <3>10. QED
      BY <3>8, <3>9 DEF PromiseStep, Promise!Next
  <2>3. QED
    BY <2>1, <2>2 DEF Decisions
<1>11. CASE UNCHANGED vars
  BY <1>11, UnseenRows DEF vars
<1>12. QED
  BY <1>1, <1>2, <1>3, <1>4, <1>5, <1>7, <1>8, <1>9, <1>10, <1>11 DEF Next

\* Statuses, tasks, rows, counts, findings and actions are turns over one copy of
\* the answers, complete unless a save disturbed the submission, and one verdict
\* each: the functions together implement Qualification.
THEOREM ImplementsPromise == Spec => KeepsThePromise
<1>1. Init => Promise!Init
  BY DEF Init, Promise!Init, TurnOf, SheetOf, Unlocked, UnresolvedCritical, InReview, Terminal
<1>2. TypeOK /\ SubmittingIsEditable /\ CountsAreRight /\ [Next]_vars => PromiseStep
  BY PromiseKept
<1>3. QED
  BY <1>1, <1>2, SubmittingEditable, CountsCorrect, TypeCorrect, PTL
     DEF Spec, KeepsThePromise, Promise!Spec, PromiseStep, turns, sheets, blockeds
-----------------------------------------------------------------------------
(* What follows from Qualification                                         *)

ConclusiveTurn(a) ==
    /\ turns[a] \in {"supplier", "buyer"} \union Promise!Passing \union Promise!Verdicts
    /\ IF turns[a] = "supplier" THEN sheets[a] = {}
       ELSE \E answers \in Contents : sheets[a] = {answers}
    /\ turns[a] \in Promise!Verdicts \ {"rejected"} => ~ blockeds[a]

DecidedOf(r) == {a \in Assessments : RelationshipOf[a] = r /\ turns[a] \in Promise!Verdicts}

ConclusiveStanding(r) ==
    IF DecidedOf(r) = {} THEN onboarding[r] = "profile_pending"
    ELSE \E a \in DecidedOf(r) : onboarding[r] = Promise!StandingAfter(turns[a])

LEMMA ConclusiveParts ==
    Promise!Conclusive <=> /\ \A a \in Assessments : ConclusiveTurn(a)
                           /\ \A r \in Relationships : ConclusiveStanding(r)
BY DEF Promise!Conclusive, ConclusiveTurn, ConclusiveStanding, DecidedOf, turns, sheets, blockeds

LEMMA SeenAsFunctions ==
    DOMAIN turns = Assessments /\ DOMAIN sheets = Assessments /\ DOMAIN blockeds = Assessments
BY DEF turns, sheets, blockeds

LEMMA VerdictsApart ==
    /\ "supplier" \notin Promise!Verdicts \union Promise!Passing
    /\ "buyer" \notin Promise!Verdicts \union Promise!Passing
    /\ Promise!Passing \intersect Promise!Verdicts = {}
BY DEF Promise!Verdicts, Promise!Passing

\* A turn that passes between supplier and buyer decides nothing.
LEMMA NothingDecided ==
    ASSUME onboarding' = onboarding,
           \A a \in Assessments :
              turns'[a] \in Promise!Verdicts \/ turns[a] \in Promise!Verdicts => turns'[a] = turns[a],
           \A r \in Relationships : ConclusiveStanding(r)
    PROVE  \A r \in Relationships : ConclusiveStanding(r)'
<1>1. \A r \in Relationships : DecidedOf(r)' = DecidedOf(r)
  BY DEF DecidedOf
<1>2. \A r \in Relationships : \A a \in DecidedOf(r) : turns'[a] = turns[a]
  BY DEF DecidedOf
<1>3. QED
  BY <1>1, <1>2 DEF ConclusiveStanding

\* The standing after a verdict is the verdict's, that of other relationships
\* stays what one of theirs made it.
LEMMA DecisionConclusive ==
    ASSUME TypeOK, NEW a \in Assessments, NEW verdict \in Promise!Verdicts,
           Promise!Decide(a, verdict), \A r \in Relationships : ConclusiveStanding(r)
    PROVE  \A r \in Relationships : ConclusiveStanding(r)'
<1>1. /\ turns[a] = "buyer" /\ turns' = [turns EXCEPT ![a] = verdict]
      /\ onboarding' = [onboarding EXCEPT ![RelationshipOf[a]] = Promise!StandingAfter(verdict)]
  BY DEF Promise!Decide, turns
<1>2. /\ turns'[a] = verdict /\ \A b \in Assessments : b # a => turns'[b] = turns[b]
      /\ DOMAIN onboarding = Relationships
  BY <1>1, SeenAsFunctions DEF TypeOK
<1>3. ASSUME NEW r \in Relationships, r = RelationshipOf[a] PROVE ConclusiveStanding(r)'
  <2>1. a \in DecidedOf(r)'
    BY <1>2, <1>3 DEF DecidedOf
  <2>2. onboarding'[r] = Promise!StandingAfter(verdict)
    BY <1>1, <1>2, <1>3
  <2>3. onboarding'[r] = Promise!StandingAfter(turns'[a])
    BY <1>2, <2>2
  <2>4. QED
    BY <2>1, <2>3 DEF ConclusiveStanding
<1>4. ASSUME NEW r \in Relationships, r # RelationshipOf[a] PROVE ConclusiveStanding(r)'
  <2>1. DecidedOf(r)' = DecidedOf(r) /\ \A b \in DecidedOf(r) : turns'[b] = turns[b]
    BY <1>2, <1>4 DEF DecidedOf
  <2>2. onboarding'[r] = onboarding[r]
    BY <1>1, <1>2, <1>4
  <2>3. QED
    BY <2>1, <2>2 DEF ConclusiveStanding
<1>5. QED
  BY <1>3, <1>4

LEMMA ConclusiveStep ==
    ASSUME TypeOK, Promise!Conclusive, PromiseStep PROVE Promise!Conclusive'
<1> DEFINE TurnsKept == \A a \in Assessments : ConclusiveTurn(a)'
           StandingsKept == \A r \in Relationships : ConclusiveStanding(r)'
<1>1. (\A a \in Assessments : ConclusiveTurn(a)) /\ \A r \in Relationships : ConclusiveStanding(r)
  BY ConclusiveParts
<1>2. ASSUME TurnsKept, StandingsKept PROVE Promise!Conclusive'
  <2>1. Promise!Conclusive' <=> TurnsKept /\ StandingsKept
    BY DEF Promise!Conclusive, ConclusiveTurn, ConclusiveStanding, DecidedOf, turns, sheets, blockeds
  <2>2. QED
    BY <1>2, <2>1
<1>3. ASSUME UNCHANGED <<turns, sheets, blockeds, onboarding>> PROVE TurnsKept /\ StandingsKept
  BY <1>1, <1>3, NothingDecided DEF ConclusiveTurn
<1>4. ASSUME NEW a \in Assessments, Promise!Block(a) \/ Promise!Unblock(a)
      PROVE  TurnsKept /\ StandingsKept
  <2>1. /\ turns' = turns /\ sheets' = sheets /\ onboarding' = onboarding
        /\ \A b \in Assessments : b # a => blockeds'[b] = blockeds[b]
        /\ turns[a] \in {"supplier", "buyer"} \/ blockeds'[a] = FALSE
    BY <1>4, SeenAsFunctions DEF Promise!Block, Promise!Unblock, turns, sheets, blockeds
  <2>2. TurnsKept
    BY <1>1, <2>1, VerdictsApart DEF ConclusiveTurn
  <2>3. QED
    BY <1>1, <2>1, <2>2, NothingDecided
<1>5. ASSUME NEW a \in Assessments,
             \/ Promise!Present(a) \/ Promise!Disturb(a) \/ Promise!HandOver(a)
             \/ Promise!TakeBack(a) \/ Promise!Submit(a) \/ Promise!SendBack(a)
      PROVE  TurnsKept /\ StandingsKept
  <2>1. /\ blockeds' = blockeds /\ onboarding' = onboarding
        /\ \A b \in Assessments : b # a => turns'[b] = turns[b] /\ sheets'[b] = sheets[b]
        /\ turns[a] \in {"supplier", "buyer"} \union Promise!Passing
    BY <1>5, SeenAsFunctions
       DEF Promise!Present, Promise!Disturb, Promise!HandOver, Promise!TakeBack, Promise!Submit,
           Promise!SendBack, turns, sheets, blockeds
  <2>2. \/ turns'[a] = "supplier" /\ sheets'[a] = {}
        \/ /\ turns'[a] \in {"buyer"} \union Promise!Passing
           /\ \/ \E answers \in Contents : sheets'[a] = {answers}
              \/ turns[a] \in Promise!Passing /\ sheets'[a] = sheets[a]
    BY <1>5, SeenAsFunctions
       DEF Promise!Present, Promise!Disturb, Promise!HandOver, Promise!TakeBack, Promise!Submit,
           Promise!SendBack, Promise!Passing, turns, sheets, CompleteContents
  <2>3. ConclusiveTurn(a)
    BY <1>1
  <2>4. ConclusiveTurn(a)'
    BY <2>1, <2>2, <2>3, VerdictsApart DEF ConclusiveTurn
  <2>5. \A b \in Assessments : b # a => ConclusiveTurn(b)'
    BY <1>1, <2>1 DEF ConclusiveTurn
  <2>6. \A b \in Assessments :
           turns'[b] \in Promise!Verdicts \/ turns[b] \in Promise!Verdicts => turns'[b] = turns[b]
    BY <2>1, <2>2, VerdictsApart
  <2>7. QED
    BY <1>1, <2>1, <2>4, <2>5, <2>6, NothingDecided
<1>6. ASSUME NEW a \in Assessments, NEW verdict \in Promise!Verdicts, Promise!Decide(a, verdict)
      PROVE  TurnsKept /\ StandingsKept
  <2>1. /\ sheets' = sheets /\ blockeds' = blockeds
        /\ \A b \in Assessments : b # a => turns'[b] = turns[b]
        /\ turns[a] = "buyer" /\ turns'[a] = verdict /\ (blockeds[a] => verdict = "rejected")
    BY <1>6, SeenAsFunctions DEF Promise!Decide, turns, sheets, blockeds
  <2>2. TurnsKept
    BY <1>1, <2>1, VerdictsApart DEF ConclusiveTurn
  <2>3. QED
    BY <1>1, <1>6, <2>2, DecisionConclusive
<1>7. PromiseStep => \/ UNCHANGED <<turns, sheets, blockeds, onboarding>>
                     \/ \E a \in Assessments :
                           \/ Promise!Present(a) \/ Promise!Disturb(a) \/ Promise!HandOver(a)
                           \/ Promise!TakeBack(a) \/ Promise!Submit(a) \/ Promise!SendBack(a)
                           \/ Promise!Unblock(a) \/ Promise!Block(a)
                           \/ \E verdict \in Promise!Verdicts : Promise!Decide(a, verdict)
  BY DEF PromiseStep, Promise!Next
<1>8. QED
  BY <1>2, <1>3, <1>4, <1>5, <1>6, <1>7

\* What Qualification lets anybody conclude is true of the workflow at any time:
\* one copy of the answers handed over exactly when it is not the supplier's turn, no
\* favourable verdict beside a critical finding, and a standing that one of the
\* relationship's own verdicts gave it.
THEOREM PromiseIsConclusive == Spec => []Promise!Conclusive
<1>1. Init => Promise!Conclusive
  <2> SUFFICES ASSUME Init PROVE Promise!Conclusive
    OBVIOUS
  <2>1. \A a \in Assessments : turns[a] = "supplier" /\ sheets[a] = {}
    BY DEF Init, turns, sheets, TurnOf, SheetOf, Unlocked, InReview, Terminal
  <2>2. \A r \in Relationships : DecidedOf(r) = {} /\ onboarding[r] = "profile_pending"
    BY <2>1, VerdictsApart DEF DecidedOf, Init
  <2>3. QED
    BY <2>1, <2>2, VerdictsApart, ConclusiveParts DEF ConclusiveTurn, ConclusiveStanding
<1>2. TypeOK /\ SubmittingIsEditable /\ CountsAreRight /\ Promise!Conclusive /\ [Next]_vars
        => Promise!Conclusive'
  BY PromiseKept, ConclusiveStep
<1>3. QED
  BY <1>1, <1>2, SubmittingEditable, CountsCorrect, TypeCorrect, PTL DEF Spec
=============================================================================
