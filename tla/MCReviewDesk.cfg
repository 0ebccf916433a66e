SPECIFICATION Spec
CONSTANTS
    Api = TRUE
    Roles = {"buyer_owner", "buyer_reviewer"}
    Severities = {"critical"}
    MaxFindings = 1
    MaxRequests = 1

INVARIANT AnnouncedIsUnderWay
PROPERTIES
    KeepsThePromise
    OwnActionsAppear
    ReviewsEnd
