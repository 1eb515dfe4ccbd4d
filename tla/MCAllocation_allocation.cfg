SPECIFICATION FairAllocationSpec
CONSTANTS
    Modulus = 4
    Allocation = {a1, a2}
    Loop = Loop
    Caller = {a1, a2, Loop}
    MaxTries = 2
    NoRange = NoRange
    Address = {ip}
    Failure = Failure
    Minute = 2
    Second = 1
    MaxTime = 3
INVARIANTS
    PortsInRange
    AnswersAreFresh
PROPERTIES
    ResolverIsSpared
    CallsReturn
