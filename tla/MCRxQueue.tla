------------------------------ MODULE MCRxQueue ------------------------------
(* Two hardware; the thread of the second, a web client and the main worker. *)
EXTENDS RxQueue

CONSTANTS mqtt, web, main, h1, h2

TwoHardware == {h1, h2}
InOrder == <<h1, h2>>
ThreeCallers == {mqtt, web, main}
Owners == [c \in Callers |->
              CASE c = mqtt -> h2 [] c = web -> Web [] c = main -> Work]
EachAsks == [c \in Callers |->
               CASE c = mqtt -> {<<"switch", h2>>}
                 [] c = web -> {<<"switch", h2>>, <<"restart", h1>>}
                 [] c = main -> {<<"restart", h2>>}]
=============================================================================
