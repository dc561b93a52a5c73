SPECIFICATION FairSpec
CONSTANTS
    lamp = lamp
    door = door
    web = web
    Devices <- MCDevices
    SubDevices <- MCSubDevices
    DoorLock <- MCDoorLock
    OffDelay <- MCOffDelay
    OnDelay <- MCOnDelay
    Scene = Scene
    SceneDevices <- MCSceneDevices
    Activators <- MCActivators
    Callers <- MCCallers
    Tasker = Tasker
    EventDelays <- MCEventDelays
    MaxRequests = 3
    MaxFaults = 1
INVARIANTS
    OneOffPerDevice
    NotTooSoon
    EventsInOrder

    
