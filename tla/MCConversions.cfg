INIT MCInit
NEXT MCNext
CONSTANTS
    Interface <- Rows
    MaxU64 = 7
    Numbers = {0, 2, 4, 7}
    Lengths = {0, 2, 4}
    Word = 2
    MaxEvents = 1
    U32Undefined = 7
    MaxSafe = 12
    U64Undefined = 15
    Doubles <- MCDoubles
    Requestable = {"maxBindGroups", "maxBufferSize", "minUniformBufferOffsetAlignment", "maxStorageTexturesInVertexStage", "unknown"}
    MaxAsked = 2
    Reported = {0, 3, 7, 12, 15}
    Alphabet = {"x", "lf", "cr", "ls", "emoji"}
    MaxChars = 3
    Tails <- MCTails
    Ids <- MCIds
    Specifiers <- MCSpecifiers
    Entry <- MCEntry
    Aliases <- MCAliases
    MaxLoads = 3
CHECK_DEADLOCK FALSE
INVARIANTS
    OneValue
    SourceInBounds
    ThrowLeavesNothing
    LabelsAgree
    ArgumentsUnlocked
    LimitsHonoured
    MessagesPointAtSource
    OneModulePerPlace
