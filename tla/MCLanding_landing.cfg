SPECIFICATION Spec
CONSTANTS
    Attempt = {a1, a2}
    Call = {c1, c2}
    None = None
SYMMETRY Interchangeable
INVARIANTS
    ToldOnce
    FormWaitsForAnAnswer
    ModeIsAccepted
    ConfigIsCurrent
CHECK_DEADLOCK FALSE
