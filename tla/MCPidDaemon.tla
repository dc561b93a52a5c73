----------------------------- MODULE MCPidDaemon -----------------------------
(* Three invocations: a daemon, a command, and one more of each to race. *)
EXTENDS PidDaemon

CONSTANTS p1, p2, p3

Three == {p1, p2, p3}
=============================================================================
