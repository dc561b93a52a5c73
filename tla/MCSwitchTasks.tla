---------------------------- MODULE MCSwitchTasks ----------------------------
(* A lamp with an off delay that activates a scene; a door lock that is its *)
(* sub device and that the scene switches.                                  *)
EXTENDS SwitchTasks, TLC

CONSTANTS lamp, door, web

MCDevices == {lamp, door}
MCSubDevices == {<<door, lamp>>}
MCDoorLock == {door}
MCOffDelay == lamp :> 2 @@ door :> 0
MCOnDelay == lamp :> 0 @@ door :> 1
MCSceneDevices == <<[idx |-> door, on |-> TRUE, ondelay |-> 1, offdelay |-> 3]>>
MCActivators == {lamp}
MCCallers == {web}
MCEventDelays == {4}
=============================================================================
