SPECIFICATION FairSpec
CONSTANTS
    Request = {r1, r2}
    MaxPage = 2
    MaxRequests = 4
    Increment = 2
INVARIANTS
    VisitsAccountedFor
    PageNeverAhead
PROPERTIES
    CachesAreFlushed
