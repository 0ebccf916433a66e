SPECIFICATION DiligentSpec
CONSTANTS
    Api = FALSE
    Roles = {"buyer_owner", "buyer_reviewer"}
    Severities = {"critical"}
    MaxFindings = 1
    MaxRequests = 1

PROPERTY ReviewsEnd
