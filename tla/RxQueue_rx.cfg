SPECIFICATION FairSpec
CONSTANTS
    mqtt = mqtt
    web = web
    main = main
    h1 = h1
    h2 = h2
    Hw <- TwoHardware
    Callers <- ThreeCallers
    Owner <- Owners
    Asks <- EachAsks
    Web = Web
    Work = Work
    Dummy = Dummy
    None = None
    Freed = Freed
    Stopper = Stopper
    Stored <- InOrder
    MaxPushed = 2
    MaxErased = 1
INVARIANTS
    TriggersAreAlive
    IndexIsFresh
PROPERTIES
    ImplementsFifo
    FreedOnlyByRemoval
    OnlyARestartRevives
    CallsEnd
    StopEnds
\* Domoticz has stopped, or hangs in a removal.
CHECK_DEADLOCK FALSE
