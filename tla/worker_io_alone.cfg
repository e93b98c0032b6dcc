CONSTANTS
    Frame = {f1, f2}
    Stream = {s1}
    None = None
    Allowed = {}
SPECIFICATION Spec
SYMMETRY Symmetry
INVARIANT SurvivesIoWait
CHECK_DEADLOCK FALSE
