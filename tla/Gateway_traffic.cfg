SPECIFICATION Spec
CONSTANTS
    r1 = r1
    r2 = r2
    None = None
    Unreadable = Unreadable
    Files <- ReadableFiles
    Port <- MCPort
    Packets <- MCPackets
    RouteTopic <- MCRouteTopic
    Configs <- OneConfig
    Raising <- NoRaising
    CommandTopic <- MCCommandTopic
    Filtered <- MCFiltered
    Expose = TRUE
    ItemPattern = TRUE
    Window = 1
    MaxNested = 0
    SetWill = TRUE
    MaxCuts = 1
INVARIANTS
    NoChangeHidden
    BrokerShowsLastValue
CHECK_DEADLOCK FALSE
