---------------------------- MODULE MCBoxControl ----------------------------
(* One page open beside the button and the timer, another radio. *)
EXTENDS BoxControl

CONSTANTS w1, n1

OneWeb == {w1}
OneOther == {n1}
OneTime == {1}
=============================================================================
