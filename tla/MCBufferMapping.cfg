SPECIFICATION MCSpec
CONSTANTS
    Buffers = {b1, b2}
    Calls = {c1, c2, c3}
    Spans <- MCSpans
    MaxUsize = 2
    None = None
    AtCreation = AtCreation
INVARIANTS
    MappedAgrees
PROPERTIES
    FulfilledInForce
    KeepsMapContract
    EveryMapSettles
