-------------------------------- MODULE RxFifo --------------------------------
(***************************************************************************)
(* What the queue of received messages of Domoticz promises to the threads *)
(* that hand messages to it: they are taken one at a time and in the order *)
(* in which they were handed over, each at most once, and who waits for a  *)
(* message returns when it is done with, or when the service is closing.   *)
(***************************************************************************)
EXTENDS Naturals, Sequences

CONSTANTS
    Hw,       \* the identifiers of the hardware
    Dummy     \* no hardware: the message that only wakes the worker

VARIABLES
    submitted,  \* messages handed over so far
    pending,    \* handed over and not yet taken
    busy,       \* the message in the hands of the worker, or WakeUp
    waiting,    \* messages somebody waits for
    closing

vars == <<submitted, pending, busy, waiting, closing>>

Message == [id : Nat, hw : Hw \cup {Dummy}, waited : BOOLEAN]

WakeUp == [id |-> 0, hw |-> Dummy, waited |-> FALSE]

\* Neither in the queue nor in the hands of the worker.
DoneWith(i) ==
    /\ busy.id # i
    /\ \A n \in DOMAIN pending : pending[n].id # i

Init ==
    /\ submitted = 0
    /\ pending = <<>>
    /\ busy = WakeUp
    /\ waiting = {}
    /\ closing = FALSE

Submit(h, wait) ==
    /\ submitted' = submitted + 1
    /\ pending' = Append(pending, [id |-> submitted + 1, hw |-> h, waited |-> wait])
    /\ waiting' = IF wait THEN waiting \cup {submitted + 1} ELSE waiting
    /\ UNCHANGED <<busy, closing>>

Take ==
    /\ pending # <<>> /\ busy = WakeUp
    /\ busy' = Head(pending)
    /\ pending' = Tail(pending)
    /\ UNCHANGED <<submitted, waiting, closing>>

Finish ==
    /\ busy # WakeUp
    /\ busy' = WakeUp
    /\ UNCHANGED <<submitted, pending, waiting, closing>>

Return(i) ==
    /\ i \in waiting
    /\ closing \/ DoneWith(i)
    /\ waiting' = waiting \ {i}
    /\ UNCHANGED <<submitted, pending, busy, closing>>

\* The worker is woken up, to see that the service is closing.
Close ==
    /\ closing' = TRUE
    /\ pending' = Append(pending, WakeUp)
    /\ UNCHANGED <<submitted, busy, waiting>>

Next ==
    \/ \E h \in Hw, wait \in BOOLEAN : Submit(h, wait)
    \/ \E i \in waiting : Return(i)
    \/ Take \/ Finish \/ Close

Spec == Init /\ [][Next]_vars
=============================================================================
