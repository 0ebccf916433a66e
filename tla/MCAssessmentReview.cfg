SPECIFICATION Spec
CONSTANTS
    r1 = r1
    a1 = a1
    a2 = a2
    f1 = f1
    c1 = c1
    c2 = c2
    manager = manager
    assigned = assigned
    blank = blank
    full = full
    Relationships <- TheRelationship
    BlankContent = blank
    BuyerUsers <- TheBuyerUsers
    Managers = {manager}
    ReviewerOf <- OneReviewer
    NoReviewer = NoReviewer
    Assessments <- TwoAssessments
    RelationshipOf <- TwoRelationshipOf
    Findings <- OneFinding
    AssessmentOf <- OneFindingAssessment
    CriticalFindings = {f1}
    CorrectiveActions <- TwoActions
    FindingOf <- TwoActionsFinding
    Contents <- TheContents
    RequiredIn <- TheRequired
    AnsweredIn <- TheAnswered
    MaxSaves = 1
    MaxSubmissions <- SubmittedTwiceOrOnce
INVARIANTS
    ApprovalResolvesCritical
    FindingMirrorsActions
    DecisionMatchesStatus
    ReviewedResponsesAreSubmitted
    OpenTaskTracksReview
PROPERTIES
    KeepsThePromise
    DecidedIsFinal
    ClosedAssessmentOnlyEnds
\* A relationship terminated before any assessment leaves nothing to do.
CHECK_DEADLOCK FALSE
