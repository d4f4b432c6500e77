SPECIFICATION Spec
CHECK_DEADLOCK FALSE
SYMMETRY Symmetry
CONSTANTS
    Callbacks = {f}
    Types = {"uncapturederror"}
    None = None
    MaxListeners = 2
    MaxDepth = 2
    Errors = {e1, e2}
    Pops = {p1, p2}
    MaxScopes = 2
    MaxCalls = 5
INVARIANTS
    ListenersServed
    PopReportsItsScope
    ErrorsAccounted
