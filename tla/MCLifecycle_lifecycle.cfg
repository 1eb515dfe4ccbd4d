SPECIFICATION FairLifecycleSpec
CONSTANTS
    V4 = {v4, w4}
    V6 = {v6}
    Domain = Domain
    Garbage = Garbage
    Nil = Nil
    MaxIps = 3
    Request = {r1}
INVARIANTS
    AcceptedAddressesAreUsed
PROPERTIES
    InterruptEnds
CHECK_DEADLOCK FALSE
