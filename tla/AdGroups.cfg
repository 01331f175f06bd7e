\* Two requests on one ad group, with the lock on or off for each.
SPECIFICATION MCSpec
CONSTANTS
    Handlers = {h1, h2}
    NoOne = NoOne
    x1 = x1
    x2 = x2
    x3 = x3
    Items = {x1, x2, x3}
    Unfit = {x3}
    Requests <- MCRequests
SYMMETRY Symmetry
INVARIANTS
    AdGroupTypeOK
    LockKeepsCompanyOut
    StatusIsHonoured
    PublishedWasApproved
PROPERTIES
    NoLostUpdate
    NoPatchIntoPublication
    PostFillsEmpty
