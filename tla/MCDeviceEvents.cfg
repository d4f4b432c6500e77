CONSTANTS
    d1 = d1
    d2 = d2
    n1 = n1
    Devices = {d1, d2}
    Natives = {n1}
    Handle <- SharedHandle
    Pipelines = {p1}
    None = None
    MaxErrors = 1
    MaxForwards = 2
SPECIFICATION Spec
SYMMETRY Symmetry
INVARIANTS
    LossSettledOnce
    RegisteredWhileNeeded
    PipelineAfterLoss
PROPERTIES
    KeepsLossContract
