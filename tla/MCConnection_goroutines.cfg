SPECIFICATION Spec
CONSTANTS
    Client = {c1, c2}
    Prober = {}
SYMMETRY Symmetry
INVARIANTS
    OneFarewell
    NoGhosts
CHECK_DEADLOCK FALSE
