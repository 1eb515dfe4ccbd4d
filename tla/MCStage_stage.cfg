SPECIFICATION Spec
CONSTANTS
    Attempt = {a1, a2}
    Session = {s1}
    Capture = {c1, c2}
    Host = Host
    None = None
SYMMETRY Interchangeable
INVARIANTS
    StageIsLit
    VolumeButtonIsRight
    ShareIsAsShown
