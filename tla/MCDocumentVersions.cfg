SPECIFICATION FairSpec
CONSTANTS
    d1 = d1
    q1 = q1
    q2 = q2
    None = None
    Documents = {d1}
    Requests = {q1, q2}
    ReviewOutcomes = {"accepted"}
    MaxVersions = 3
INVARIANTS
    LineageConsistent
    SnapshotVersionsStay
PROPERTIES
    VersionStateMachine
    EvidenceLostOnlyByReplacement
    KeepsTheShelf
    PendingIsTransient
