CONSTANTS
    d1 = d1
    d2 = d2
    n1 = n1
    Devices = {d1}
    Natives = {n1}
    Handle <- OneHandle
    Pipelines = {p1}
    None = None
    MaxErrors = 1
    MaxForwards = 2
SPECIFICATION FairSpec
PROPERTIES
    LossReported
    PipelinesSettle
