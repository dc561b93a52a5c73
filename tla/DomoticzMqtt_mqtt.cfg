SPECIFICATION FairSpec
CONSTANTS
    rx = rx
    web = web
    Senders <- TwoSenders
    RxWorker = rx
    Mqtt = Mqtt
    None = None
    Threaded = FALSE
    Tls = TRUE
    Period = 2
    MaxFaults = 2
    MaxMessages = 1
INVARIANTS
    PublishedOnce
PROPERTIES
    GivenUpOnlyByTls
    Recovers
    CallsReturn
    StopReturns
\* The hardware has been stopped.
CHECK_DEADLOCK FALSE
