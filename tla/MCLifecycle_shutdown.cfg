SPECIFICATION LifecycleSpec
CONSTANTS
    V4 = {v4, w4}
    V6 = {v6}
    Domain = Domain
    Garbage = Garbage
    Nil = Nil
    MaxIps = 1
    Request = {r1}
INVARIANTS
    FailedShutdownIsReported
CHECK_DEADLOCK FALSE
