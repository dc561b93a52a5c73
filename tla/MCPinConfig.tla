----------------------------- MODULE MCPinConfig -----------------------------
(* Pins 0 and 12 share a bit of the mask, pin 3 has one of its own. *)
EXTENDS PinConfig

MCPin == {0, 3, 12}

\* A raw function 3 (also written 13), a function the radio rejects, a level.
MCCommands ==
    {[pin |-> 0, kind |-> "pin", value |-> 3], [pin |-> 0, kind |-> "dio", value |-> 1],
     [pin |-> 3, kind |-> "pin", value |-> 13], [pin |-> 12, kind |-> "pin", value |-> 7]}

OnePin == {3}
OnePinCommands ==
    {[pin |-> 3, kind |-> "pin", value |-> 13], [pin |-> 3, kind |-> "dio", value |-> 1]}
=============================================================================
