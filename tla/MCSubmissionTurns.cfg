SPECIFICATION Spec
CONSTANTS
    controller = controller
    dependent = dependent
    s1 = s1
    s2 = s2
    w1 = w1
    w2 = w2
    Always = Always
    Nobody = Nobody
    Questions <- TheQuestions
    Gate <- TheGate
    Submitters = {s1, s2}
    Writers = {w1, w2}
    MaxSubmissions = 2
INVARIANTS
    OneSnapshotPerTurn
    UndisturbedSubmissionIsExact
PROPERTIES
    KeepsThePromise
