\* Three requests on one entity, leases that expire or do not.
SPECIFICATION MCSpec
CONSTANTS
    Handlers = {h1, h2, h3}
    NoOne = NoOne
INVARIANTS
    LockTypeOK
    Exclusive
PROPERTIES
    ImplementsSection
    WaitingEnds
