SPECIFICATION Spec
CONSTANTS
    Adapters = {a1}
    Devices = {d1}
    Pipelines = {p1}
    Works = {w1}
    Events = {e1}
    MaxCalls = 2
CHECK_DEADLOCK FALSE
INVARIANTS
    TeardownReleasesAll
