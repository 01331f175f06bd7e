\* The same bounds: deleted keywords are gone, which TLC refutes.
SPECIFICATION MCSpec
CONSTANTS
    Handlers = {h1, h2}
    NoOne = NoOne
    x1 = x1
    x2 = x2
    x3 = x3
    Items = {x1, x2, x3}
    Unfit = {x3}
    Requests <- MCRequests
SYMMETRY Symmetry
INVARIANTS
    DeletedKeywordIsGone
