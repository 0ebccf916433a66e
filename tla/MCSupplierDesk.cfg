SPECIFICATION Spec
CONSTANTS
    controller = controller
    dependent = dependent
    Always = Always
    Questions <- TheQuestions
    Gate <- TheGate
    MultiSelects = {dependent}
    Roles = {"supplier_admin"}
    EarlierRows <- TheEarlierRows
    MaxEdits = 2
    MaxFaults = 1
    MaxSubmissions = 2
INVARIANTS
    RestingFieldIsHonest
    ReadOnlyPageShowsSubmission
PROPERTIES
    KeepsThePromise
    
    RefusedOnlyForEvidenceOrStatus
    EveryEditComesToRest
\* A submitted assessment that is not sent back leaves the page nothing to do.
CHECK_DEADLOCK FALSE
