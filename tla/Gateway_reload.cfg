SPECIFICATION Spec
CONSTANTS
    r1 = r1
    r2 = r2
    None = None
    Unreadable = Unreadable
    Files <- MCFiles
    Port <- RoutingPort
    Packets <- RoutingPackets
    RouteTopic <- MCRouteTopic
    Configs <- RoutingConfigs
    Raising <- RoutingRaising
    CommandTopic <- MCCommandTopic
    Filtered <- MCFiltered
    Expose = TRUE
    ItemPattern = TRUE
    Window = 0
    MaxNested = 2
    SetWill = TRUE
    MaxCuts = 1
INVARIANTS
    ReloadInstallsConfig
    ReloadSubscribes
PROPERTIES
    CommandMatchesRoute
VIEW RoutingView
CHECK_DEADLOCK FALSE
