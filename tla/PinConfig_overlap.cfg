SPECIFICATION Spec
CONSTANTS
    None = None
    Pin <- OnePin
    Commands <- OnePinCommands
    ChangeDetection = TRUE
    MaxFlight = 3
    MayRestart = TRUE
INVARIANTS
    SettledIsStored
    ReportMatchesMode
