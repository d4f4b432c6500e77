SPECIFICATION Spec
CONSTANTS
    Encoders = {e1, e2}
    Passes = {p1, p2}
    CmdBuffers = {b1, b2}
    None = None
    MaxSubmit = 2
    MaxDepth = 2
SYMMETRY Symmetry
INVARIANTS
    NoMisuse
    LockAgrees
    FinishedOnce
    SubmittedOnce
    DroppedPoisons
