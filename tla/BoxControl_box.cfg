SPECIFICATION Spec
CONSTANTS
    w1 = w1
    n1 = n1
    Web <- OneWeb
    Box = Box
    Others <- OneOther
    Minutes <- OneTime
    Default = 1
    Debounce = 1
    MaxRequests = 2
    MaxLosses = 1
INVARIANTS
    RelayFollowsState
PROPERTIES
    PressIsHandled
    EndsOff
\* The timer thread may have ended, and nobody press anything any more.
CHECK_DEADLOCK FALSE
