\* The same bounds: the promise of bind_bids_to_entity_ids, which TLC refutes.
SPECIFICATION MCSpec
CONSTANTS
    u1 = u1
    u2 = u2
    c1 = c1
    c2 = c2
    c3 = c3
    Calls <- MCCalls
    Keys <- MCKeys
    Requests <- MCRequests
    Pages <- MCPages
SYMMETRY Symmetric
INVARIANTS
    BoundIdNamesItsProduct
