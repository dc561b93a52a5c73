SPECIFICATION Spec
CONSTANTS
    None = None
    Pin <- MCPin
    Commands <- MCCommands
    ChangeDetection = TRUE
    MaxFlight = 0
    MayRestart = TRUE
INVARIANTS
    RegisterFollowsMask
    DetectionMatchesMode
PROPERTIES
    EventuallySettles
