SPECIFICATION StdioSpec
CONSTANTS
    Requesters = {"c1", "l1", "l2"}
    Listers = {"l1", "l2"}
    MaxPages = 1
    MaxDiscoveryPages = 2
    MaxJunk = 0
    NoRequester = "none"
INVARIANT ListingAttribution
CHECK_DEADLOCK FALSE
