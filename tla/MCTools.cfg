SPECIFICATION Spec
CONSTANTS
    CURL_MEMORY_POOL_SIZE = 4
    SizeMax = 15
    Sizes = {0, 1, 2}
    Bytes = {0, 1}
    Nothing = Nothing
    Path = "path"
    Elsewhere = "elsewhere"
    NULL = NULL
    Entry <- MCEntry
    Place <- MCPlace
    Leads <- MCLeads
    Size <- MCSize
    Expired = {"f"}
    Depth = 2
    MaxRemoved = 1
    PipeSize = 2
    MaxOutput = 3
INVARIANTS
    StoredIsThere
    LeftoversExplained
    SizeExplained
PROPERTIES
    MypopenReturns
CHECK_DEADLOCK FALSE
