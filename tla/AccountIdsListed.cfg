\* The same bounds: every listed id resolves, which TLC refutes.
SPECIFICATION MCSpec
CONSTANTS
    a1 = a1
    a2 = a2
    a3 = a3
    c1 = c1
    c2 = c2
    c3 = c3
    Calls <- MCCalls
    Keys <- MCKeys
    Requests <- MCRequests
    Listings <- MCListings
SYMMETRY Symmetric
INVARIANTS
    ListedIdResolves
