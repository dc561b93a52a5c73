--------------------------- MODULE MCDomoticzMqtt ---------------------------
(* The worker of the received messages and a thread of the web server. *)
EXTENDS DomoticzMqtt

CONSTANTS rx, web

TwoSenders == {rx, web}
=============================================================================
