----------------------------- MODULE MCLineBuffer -----------------------------
(* The three bytes process() looks at, and one it does not. *)
EXTENDS LineBuffer

MCByte == {"\n", "\r", ":", "x"}

MCDefaultPort == <<"serial">>
=============================================================================
