SPECIFICATION LinkSpec
CONSTANTS
    CommandTopic <- MCCommandTopic
    SetWill = TRUE
    MaxCuts = 3
INVARIANTS
    StartupTopicsSubscribed
    StatusWhileUp
PROPERTIES
    Heals
\* The daemon may have exited, or its link be dead for ever.
CHECK_DEADLOCK FALSE
