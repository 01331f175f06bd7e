\* Three requests (page or bind) about two products.
SPECIFICATION MCSpec
CONSTANTS
    u1 = u1
    u2 = u2
    c1 = c1
    c2 = c2
    c3 = c3
    Calls <- MCCalls
    Keys <- MCKeys
    Requests <- MCRequests
    Pages <- MCPages
SYMMETRY Symmetric
INVARIANTS
    ProductTypeOK
    GrantedIdNamesItsProduct
    GrantedIdResolves
    BidsOnSelectedProduct
