CONSTANTS
    Frame = {f1, f2, f3}
    Stream = {}
    None = None
    Allowed = {"unjoined"}
SPECIFICATION Spec
SYMMETRY Symmetry
INVARIANT NoDangling
CHECK_DEADLOCK FALSE
