----------------------------- MODULE MCMqttLink -----------------------------
(* Two command topics: the broker tells a start-up topic from a dynamic one. *)
EXTENDS MqttLink

MCCommandTopic == {"t1", "t2"}
=============================================================================
