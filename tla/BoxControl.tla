----------------------------- MODULE BoxControl -----------------------------
(***************************************************************************)
(* The controller of the box with two relays, two LEDs and two buttons on  *)
(* a remote radio: gestionaCaja (src/Python/GestionaCaja.py) over the      *)
(* reader thread of dialogoAPI (src/Python/DialogaAPI.py), switched by the *)
(* buttons, by a timer and by the web page (src/Python/WebCaja.py).        *)
(*                                                                         *)
(* Three kinds of threads, and no lock: "reader" handles the frames of the *)
(* radio, "timer" fixes the initial state, then blinks the LED and         *)
(* switches off what is overdue, and each of Web serves one request at a   *)
(* time.  Channel 4 is modelled; the code of channel 5 is the same.        *)
(* Instants (encendido4, timePulsa4) are kept as the time left until them. *)
(* The radio is reached over a socket or a serial port, which may go away. *)
(***************************************************************************)
EXTENDS Naturals, FiniteSets

CONSTANTS
    Web,         \* threads that serve requests
    Box,         \* the radio of the box
    Others,      \* other radios of the network
    Minutes,     \* the times the page offers
    Default,     \* the time of a button, of /cambia4.html and of "Apagar"
    Debounce,    \* tiempoRebotes
    MaxRequests, \* environment: buttons pressed and requests made
    MaxLosses    \* environment: remote commands lost on the air

ASSUME BoxAssumption ==
    /\ Web \cap {"timer", "reader"} = {} /\ Box \notin Others
    /\ IsFiniteSet(Others)
    /\ Minutes \subseteq Nat /\ Default \in Minutes
    /\ {Debounce, MaxRequests, MaxLosses} \subseteq Nat

VARIABLES
    estado,   \* estado4: what the controller believes
    left,     \* until encendido4
    bounce,   \* until timePulsa4
    known,    \* the keys of tablaDirecciones
    named,    \* the entry of Box holds nombreNodo
    ready,    \* fijaInicial has assigned the attributes of the buttons
    phase,    \* where the timer thread is
    beat,     \* the blink command it is at
    shown,    \* the LED level of that command
    counted,  \* the size of the table when its lookup of the address began
    seen,     \* parpadea found the address of the box
    reader,   \* the reader thread: "up" or "dead"
    call,     \* the call of fija4 each thread is in
    port,               \* external: the connection to the radio, "open" or "closed"
    relay, led,         \* external: the pins of the box
    lost,               \* external: failed commands not yet reported
    requests, losses,   \* environment: what is left of the bounds
    trouble   \* history: the last relay command was lost, not sent or raced

table == <<known, named>>
blinking == <<phase, beat, shown, counted, seen>>
air == <<port, relay, led, lost, losses>>
vars == <<estado, left, bounce, table, ready, blinking, reader, call, air, requests, trouble>>

Thread == Web \cup {"timer", "reader"}
Nodes == Others \cup {Box}

Call == [step : {"none", "set", "seek", "relay", "led"}, on : BOOLEAN, minutes : Minutes,
         size : Nat, found : BOOLEAN, alone : BOOLEAN]

NoCall == [step |-> "none", on |-> FALSE, minutes |-> Default,
           size |-> 0, found |-> FALSE, alone |-> FALSE]

Free(t) == call[t] = NoCall

-----------------------------------------------------------------------------
(* fija4(on, minutos), in any thread *)

Begin(t, on, minutes) ==
    call' = [call EXCEPT ![t] = [NoCall EXCEPT !.step = "set", !.on = on, !.minutes = minutes]]

\* The state is written and the relay command for it is not yet sent.
InFlight(t) == call[t].step \in {"seek", "relay"}

\* estado4 is set, and nombretoSerial starts going through the table.
SetState(t) ==
    /\ call[t].step = "set"
    /\ estado' = call[t].on
    /\ LET racing == \E u \in Thread \ {t} : InFlight(u) IN
       /\ call' = [u \in Thread |->
            IF u = t THEN [call[t] EXCEPT !.step = "seek", !.size = Cardinality(known),
                                          !.alone = ~racing]
            ELSE IF InFlight(u) THEN [call[u] EXCEPT !.alone = FALSE] ELSE call[u]]
       /\ trouble' = (trouble \/ racing)
    /\ UNCHANGED <<left, bounce, table, ready, blinking, reader, air, requests>>

\* The address is found, or not; the commands are those of the estado4 of
\* now, which may be another thread's.  encendido4 is set after it.
Seek(t) ==
    /\ call[t].step = "seek" /\ Cardinality(known) = call[t].size
    /\ call' = [call EXCEPT ![t].step = "relay", ![t].size = 0, ![t].found = named, ![t].on = estado]
    /\ left' = IF estado THEN call[t].minutes ELSE left
    /\ UNCHANGED <<estado, bounce, table, ready, blinking, reader, air, requests, trouble>>

\* An exception in a call ends it.  Nothing catches it but the web server,
\* whose thread serves on.
Abandon(t) ==
    /\ call' = [call EXCEPT ![t] = NoCall]
    /\ phase' = IF t = "timer" THEN "dead" ELSE phase
    /\ reader' = IF t = "reader" THEN "dead" ELSE reader

\* A dictionary that grew while it was gone through raises.
SeekRaises(t) ==
    /\ call[t].step = "seek" /\ Cardinality(known) # call[t].size
    /\ Abandon(t)
    /\ trouble' = TRUE
    /\ UNCHANGED <<estado, left, bounce, table, ready, beat, shown, counted, seen, air, requests>>

\* What may become of a remote command.
Fate == {"unsent", "arrives", "lost", "vanishes", "raises"}

\* Without an address comandoATremoto sends nothing.  The pin takes the level,
\* or the command is lost on the air and a failure will be reported; nothing
\* sends it again.  A closed connection takes the command, or raises.
Transmit(addressed, pin, level, fate) ==
    \/ fate = "unsent" /\ ~addressed /\ UNCHANGED <<pin, lost, losses>>
    \/ /\ fate = "arrives" /\ addressed /\ port = "open"
       /\ pin' = level
       /\ UNCHANGED <<lost, losses>>
    \/ /\ fate = "lost" /\ addressed /\ port = "open"
       /\ losses > 0
       /\ losses' = losses - 1 /\ lost' = lost + 1
       /\ UNCHANGED pin
    \/ /\ fate \in {"vanishes", "raises"} /\ addressed /\ port = "closed"
       /\ UNCHANGED <<pin, lost, losses>>

\* 'D04' or 'D05'.
SendRelay(t) ==
    /\ call[t].step = "relay"
    /\ \E fate \in Fate :
        /\ Transmit(call[t].found, relay, call[t].on, fate)
        /\ IF fate = "raises" THEN Abandon(t)
           ELSE call' = [call EXCEPT ![t].step = "led", ![t].alone = FALSE] /\ UNCHANGED <<phase, reader>>
        /\ trouble' = ~(fate = "arrives" /\ call[t].alone)
    /\ UNCHANGED <<estado, left, bounce, table, ready, beat, shown, counted, seen, port, led, requests>>

\* 'D25' or 'D24', and fija4 returns.
SendLed(t) ==
    /\ call[t].step = "led"
    /\ \E fate \in Fate :
        /\ Transmit(call[t].found, led, call[t].on, fate)
        /\ IF fate = "raises" THEN Abandon(t)
           ELSE call' = [call EXCEPT ![t] = NoCall] /\ UNCHANGED <<phase, reader>>
    /\ UNCHANGED <<estado, left, bounce, table, ready, beat, shown, counted, seen, port, relay, requests, trouble>>

Fija4(t) == SetState(t) \/ Seek(t) \/ SeekRaises(t) \/ SendRelay(t) \/ SendLed(t)

-----------------------------------------------------------------------------
(* The timer thread: fijaInicial and parpadea *)

Goto(where) == phase' = where /\ UNCHANGED <<beat, shown, counted, seen>>

\* Two seconds after run() the node is asked for (ND), if the connection is
\* still there ...
AskForNode ==
    /\ phase = "delay"
    /\ Goto("asked") \/ (port = "closed" /\ Goto("dead"))
    /\ UNCHANGED <<estado, left, bounce, table, ready, reader, call, air, requests, trouble>>

\* ... and two seconds later, answered or not, the initial state is fixed.
FijaInicial ==
    /\ phase = "asked"
    /\ Goto("fixing")
    /\ Begin("timer", estado, Default)
    /\ UNCHANGED <<estado, left, bounce, table, ready, reader, air, requests, trouble>>

\* Only now do the attributes of the buttons exist.  parpadea looks the
\* address up, once.
AssignAttributes ==
    /\ phase = "fixing" /\ Free("timer")
    /\ ready' = TRUE
    /\ bounce' = 0
    /\ phase' = "start"
    /\ counted' = Cardinality(known)
    /\ UNCHANGED <<estado, left, table, beat, shown, seen, reader, call, air, requests, trouble>>

Parpadea ==
    /\ phase = "start"
    /\ IF counted = Cardinality(known)
       THEN phase' = "napping" /\ seen' = named
       ELSE phase' = "dead" /\ UNCHANGED seen
    /\ counted' = 0
    /\ UNCHANGED <<estado, left, bounce, table, ready, beat, shown, reader, call, air, requests, trouble>>

\* Mutant: the time is compared the other way round.
MutantOverdue == estado /\ left > 0

\* estado4 and ahora >= encendido4
Overdue == estado /\ left = 0

\* Every five seconds, a time short against Minutes: it may be any.
Wake ==
    /\ phase = "napping"
    /\ IF Overdue THEN Goto("switching") /\ Begin("timer", FALSE, Default)
                  ELSE Goto("reading") /\ UNCHANGED call
    /\ UNCHANGED <<estado, left, bounce, table, ready, reader, air, requests, trouble>>

SwitchedOff ==
    /\ phase = "switching" /\ Free("timer")
    /\ Goto("reading")
    /\ UNCHANGED <<estado, left, bounce, table, ready, reader, call, air, requests, trouble>>

\* The first command of a blink inverts the LED, the second restores it.  The
\* two blinks of a cycle are the same for channel 4 (pulsaLarga4 is always
\* True): one stands for both.
BlinkLevel == IF beat = 2 THEN estado ELSE ~estado

ReadBlink ==
    /\ phase = "reading"
    /\ shown' = BlinkLevel
    /\ phase' = "showing"
    /\ UNCHANGED <<estado, left, bounce, table, ready, beat, counted, seen, reader, call, air, requests, trouble>>

\* Mutant: D04 and D05 are sent for D24 and D25.
MutantShowBlink ==
    /\ phase = "showing"
    /\ \E fate \in Fate :
        /\ Transmit(seen, relay, shown, fate)
        /\ phase' = IF fate = "raises" THEN "dead"
                    ELSE IF beat = 2 THEN "napping" ELSE "reading"
    /\ shown' = FALSE
    /\ beat' = 3 - beat
    /\ UNCHANGED <<estado, left, bounce, table, ready, counted, seen, reader, call, port, led, requests, trouble>>

ShowBlink ==
    /\ phase = "showing"
    /\ \E fate \in Fate :
        /\ Transmit(seen, led, shown, fate)
        /\ phase' = IF fate = "raises" THEN "dead"
                    ELSE IF beat = 2 THEN "napping" ELSE "reading"
    /\ shown' = FALSE
    /\ beat' = 3 - beat
    /\ UNCHANGED <<estado, left, bounce, table, ready, counted, seen, reader, call, port, relay, requests, trouble>>

Timer ==
    \/ AskForNode \/ FijaInicial \/ AssignAttributes \/ Parpadea
    \/ Wake \/ SwitchedOff \/ ReadBlink \/ ShowBlink

-----------------------------------------------------------------------------
(* The reader thread: one frame after the other *)

\* Mutant: frames are handled while the last one still is.
MutantReading == reader = "up"

Reading == reader = "up" /\ Free("reader")

\* The answer to ND, or an identification (0x95): address and name.
Identified ==
    /\ Reading
    /\ known' = known \cup {Box}
    /\ named' = TRUE
    /\ UNCHANGED <<estado, left, bounce, ready, blinking, reader, call, air, requests, trouble>>

\* A frame of a radio that says nothing of channel 4 adds its address.
Overheard(n) ==
    /\ Reading
    /\ known' = known \cup {n}
    /\ UNCHANGED <<estado, left, bounce, named, ready, blinking, reader, call, air, requests, trouble>>

\* An I/O sample of the box whose timePulsa4 does not exist yet.
SampleTooEarly ==
    /\ Reading
    /\ named /\ ~ready
    /\ reader' = "dead"
    /\ UNCHANGED <<estado, left, bounce, table, ready, blinking, call, air, requests, trouble>>

\* A sample with the button down, once the last press is tiempoRebotes ago.
\* (timePulsa4 counts from the sample: it is as good as set before fija4.)
Pressed ==
    /\ Reading
    /\ named /\ ready /\ bounce = 0
    /\ requests > 0
    /\ requests' = requests - 1
    /\ bounce' = Debounce
    /\ Begin("reader", ~estado, Default)
    /\ UNCHANGED <<estado, left, table, ready, blinking, reader, air, trouble>>

\* A failed transmission has status 4, and estadoAT has four names.
ReportedFailure ==
    /\ Reading
    /\ lost > 0
    /\ lost' = lost - 1
    /\ reader' = "dead"
    /\ UNCHANGED <<estado, left, bounce, table, ready, blinking, call, port, relay, led, losses, requests, trouble>>

\* A frame that carries what the code has no entry for, or less than it
\* reads, raises: at once (a modem status beyond the seven named), after its
\* address is in the table (receive options beyond the three named, a sample
\* of the box without a payload), or after its name is too (a kind of device
\* or of event beyond those named).
Unforeseen ==
    /\ Reading
    /\ reader' = "dead"
    /\ \/ UNCHANGED table
       \/ \E n \in Nodes : known' = known \cup {n} /\ UNCHANGED named
       \/ known' = known \cup {Box} /\ named' = TRUE
    /\ UNCHANGED <<estado, left, bounce, ready, blinking, call, air, requests, trouble>>

\* A closed connection gives no byte where one is expected.
ReadsNothing ==
    /\ Reading
    /\ port = "closed"
    /\ reader' = "dead"
    /\ UNCHANGED <<estado, left, bounce, table, ready, blinking, call, air, requests, trouble>>

\* Frames that came before the connection closed may still be read.
Frame ==
    \/ Identified \/ SampleTooEarly \/ Pressed \/ ReportedFailure
    \/ Unforeseen \/ ReadsNothing
    \/ \E n \in Nodes : Overheard(n)

-----------------------------------------------------------------------------
(* The web page, time, and the connection *)

\* "Apagar" and /cambia4.html invert what estado4 is when they are served;
\* "Encender 5", 15 and 30 switch on.
Request(w) ==
    /\ Free(w)
    /\ requests > 0
    /\ requests' = requests - 1
    /\ \/ Begin(w, ~estado, Default)
       \/ \E m \in Minutes : Begin(w, TRUE, m)
    /\ UNCHANGED <<estado, left, bounce, table, ready, blinking, reader, air, trouble>>

Less(n) == IF n > 0 THEN n - 1 ELSE 0

Tick ==
    /\ left > 0 \/ bounce > 0
    /\ left' = Less(left) /\ bounce' = Less(bounce)
    /\ UNCHANGED <<estado, table, ready, phase, beat, shown, counted, seen, reader, call, air, requests, trouble>>

\* Nothing opens it again, and nothing more is lost on the air.
PortCloses ==
    /\ port = "open" /\ port' = "closed"
    /\ losses' = 0
    /\ UNCHANGED <<estado, left, bounce, table, ready, blinking, reader, call, relay, led,
                   lost, requests, trouble>>

\* The controller may start with relay and LED on, as an earlier one left them.
Init ==
    /\ estado = FALSE /\ left = 0 /\ bounce = 0
    /\ known = {} /\ named = FALSE /\ ready = FALSE
    /\ phase = "delay" /\ beat = 1 /\ shown = FALSE /\ counted = 0 /\ seen = FALSE
    /\ reader = "up"
    /\ call = [t \in Thread |-> NoCall]
    /\ port = "open" /\ relay \in BOOLEAN /\ led = relay
    /\ lost = 0 /\ losses = MaxLosses
    /\ requests = MaxRequests
    /\ trouble = TRUE

Next ==
    \/ \E t \in Thread : Fija4(t)
    \/ Timer \/ Frame \/ Tick \/ PortCloses
    \/ \E w \in Web : Request(w)

\* The threads run and time goes on; frames, requests and a closed connection
\* may never come.
Fairness ==
    /\ \A t \in Thread : WF_vars(Fija4(t))
    /\ WF_vars(Timer)
    /\ WF_vars(Tick)

Spec == Init /\ [][Next]_vars /\ Fairness

-----------------------------------------------------------------------------
(* Properties *)

\* Types, and: only the timer's own switching is under way in its phases, and
\* a reader that ended is in no call.
TypeOK ==
    /\ estado \in BOOLEAN /\ left \in Nat /\ bounce \in 0..Debounce
    /\ known \subseteq Nodes /\ named \in BOOLEAN /\ (named => Box \in known)
    /\ ready \in BOOLEAN
    /\ phase \in {"delay", "asked", "fixing", "start", "napping", "switching", "reading", "showing", "dead"}
    /\ beat \in 1..2 /\ shown \in BOOLEAN /\ counted \in Nat /\ seen \in BOOLEAN
    /\ reader \in {"up", "dead"}
    /\ call \in [Thread -> Call]
    /\ port \in {"open", "closed"} /\ relay \in BOOLEAN /\ led \in BOOLEAN
    /\ lost \in Nat /\ losses \in Nat /\ lost + losses <= MaxLosses
    /\ requests \in 0..MaxRequests /\ trouble \in BOOLEAN
    /\ ~Free("timer") => phase \in {"fixing", "switching"}
    /\ reader = "dead" => Free("reader")

\* What the page shows is what the relay is, once no switching is under way,
\* unless the last relay command was lost or raced: fija4 remembers what it
\* commanded, and the blinking, which runs all the time, only drives the LED.
RelayFollowsState ==
    (\A t \in Thread : ~InFlight(t)) /\ ~trouble => relay = estado

\* A press that is taken is handled to its end: the reader thread, which alone
\* writes the table, never finds it grown while it goes through it, as the
\* timer and the web threads may.  Only a connection that closed ends the
\* reader inside a call; every other exception of it is in a frame of its own.
PressIsHandled ==
    [][reader = "up" /\ reader' = "dead" /\ ~Free("reader") => port = "closed"]_vars

\* "Miramos si hay que apagar algo": nothing stays on.  However the threads
\* interleave, an output ends switched off when nobody switches it any more,
\* unless the timer thread has ended; and so does the relay, unless its last
\* command was lost, unsent or raced with another.  The LED is dark between
\* two blinks in the end while the radio is reached: the blinking repairs it,
\* whatever was lost or raced.
EndsOff ==
    <>[](\/ phase = "dead"
         \/ /\ ~estado
            /\ relay => trouble
            /\ port = "open" /\ phase = "napping" /\ seen => ~led)
=============================================================================
