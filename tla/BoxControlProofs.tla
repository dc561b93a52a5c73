--------------------------- MODULE BoxControlProofs ---------------------------
(***************************************************************************)
(* The safety of the box controller, for any number of web threads, other  *)
(* radios, requests and lost commands.                                     *)
(***************************************************************************)
EXTENDS BoxControl, FiniteSetTheorems, TLAPS

\* The table has at most the radios of the network.
LEMMA TableSize ==
    ASSUME known \subseteq Nodes
    PROVE  Cardinality(known) \in Nat
<1>1. IsFiniteSet(Nodes)
    BY BoxAssumption, FS_AddElement DEF Nodes
<1>2. IsFiniteSet(known)
    BY <1>1, FS_Subset
<1> QED
    BY <1>2, FS_CardinalityType

-----------------------------------------------------------------------------
(* Types *)

\* What a press or "Apagar" asks for is a state.
LEMMA NegationTyped == (~estado) \in BOOLEAN
BY Zenon

\* Being in no call is one of the values of call.
LEMMA NoCallTyped == NoCall \in Call
BY BoxAssumption DEF NoCall, Call

\* A call that begins is one, of its thread only.
LEMMA BeginTyped ==
    ASSUME call \in [Thread -> Call], NEW t \in Thread, NEW on \in BOOLEAN,
           NEW minutes \in Minutes, Begin(t, on, minutes)
    PROVE  /\ call' \in [Thread -> Call]
           /\ call'[t].step = "set"
           /\ ~Free(t)'
           /\ \A u \in Thread \ {t} : call'[u] = call[u]
<1>1. [NoCall EXCEPT !.step = "set", !.on = on, !.minutes = minutes] \in Call
    BY NoCallTyped DEF Call
<1>2. [NoCall EXCEPT !.step = "set", !.on = on, !.minutes = minutes].step = "set"
    BY DEF NoCall
<1>3. NoCall.step # "set"
    BY DEF NoCall
<1> QED
    BY <1>1, <1>2, <1>3 DEF Begin, Free

\* The table starts empty, and no thread in a call.
LEMMA InitTyped == Init => TypeOK
<1> SUFFICES ASSUME Init PROVE TypeOK
    OBVIOUS
<1>1. /\ call \in [Thread -> Call] /\ Free("timer") /\ Free("reader")
    BY NoCallTyped DEF Init, Free, Thread
<1>2. Debounce \in Nat /\ MaxRequests \in Nat /\ MaxLosses \in Nat
    BY BoxAssumption
<1>3. led \in BOOLEAN /\ relay \in BOOLEAN
    BY DEF Init
<1> QED
    <2>1. /\ estado \in BOOLEAN /\ named \in BOOLEAN /\ ready \in BOOLEAN
          /\ shown \in BOOLEAN /\ seen \in BOOLEAN /\ trouble \in BOOLEAN
        BY Zenon DEF Init
    <2>2. /\ left \in Nat /\ bounce \in 0..Debounce /\ known \subseteq Nodes
          /\ beat \in 1..2 /\ counted \in Nat
          /\ lost \in Nat /\ losses \in Nat /\ lost + losses <= MaxLosses
          /\ requests \in 0..MaxRequests
        BY <1>2 DEF Init
    <2>3. phase = "delay" /\ reader = "up" /\ port = "open" /\ ~named
        BY DEF Init
    <2> QED
        BY <1>1, <1>3, <2>1, <2>2, <2>3 DEF TypeOK

\* A step of a call leaves it a call, and begins none.
LEMMA Fija4Calls ==
    ASSUME TypeOK, NEW t \in Thread, Fija4(t)
    PROVE  /\ call' \in [Thread -> Call]
           /\ \A u \in Thread : Free(u) => Free(u)'
<1> USE DEF TypeOK
<1>1. Cardinality(known) \in Nat
    BY TableSize
<1>2. \A u \in Thread : Free(u) => call[u].step = "none"
    BY DEF Free, NoCall
<1>3. CASE SetState(t)
    <2> DEFINE racing == \E u \in Thread \ {t} : InFlight(u)
    <2>1. [call[t] EXCEPT !.step = "seek", !.size = Cardinality(known), !.alone = ~racing] \in Call
        BY <1>1 DEF Call
    <2>2. \A u \in Thread : [call[u] EXCEPT !.alone = FALSE] \in Call
        BY DEF Call
    <2> QED
        BY <1>2, <1>3, <2>1, <2>2 DEF SetState, Free, InFlight
<1>4. CASE Seek(t)
    <2>1. [call[t] EXCEPT !.step = "relay", !.size = 0, !.found = named, !.on = estado] \in Call
        BY DEF Call
    <2>2. call' = [call EXCEPT ![t] = [call[t] EXCEPT !.step = "relay", !.size = 0, !.found = named, !.on = estado]]
        BY <1>4 DEF Seek, Call
    <2> QED
        BY <1>2, <1>4, <2>1, <2>2 DEF Seek, Free
<1>5. CASE SeekRaises(t)
    BY <1>5, NoCallTyped DEF SeekRaises, Abandon, Free
<1>6. CASE SendRelay(t)
    <2>1. [call[t] EXCEPT !.step = "led", !.alone = FALSE] \in Call
        BY DEF Call
    <2>2. \/ call' = [call EXCEPT ![t] = [call[t] EXCEPT !.step = "led", !.alone = FALSE]]
          \/ call' = [call EXCEPT ![t] = NoCall]
        BY <1>6 DEF SendRelay, Abandon, Call
    <2>3. ~Free(t)
        BY <1>2, <1>6 DEF SendRelay
    <2> QED
        BY <2>1, <2>2, <2>3, NoCallTyped DEF Free
<1>7. CASE SendLed(t)
    BY <1>7, NoCallTyped DEF SendLed, Abandon, Free
<1> QED
    BY <1>3, <1>4, <1>5, <1>6, <1>7 DEF Fija4

\* What a call sends changes a pin or the number of losses.
LEMMA Fija4Typed ==
    ASSUME TypeOK, NEW t \in Thread, Fija4(t)
    PROVE  TypeOK'
<1> USE BoxAssumption, Fija4Calls DEF TypeOK, table, blinking, air
<1>1. {"timer", "reader"} \subseteq Thread
    BY DEF Thread
<1>2. call[t] \in Call
    OBVIOUS
<1>3. CASE SetState(t)
    <2>1. trouble' \in BOOLEAN
        BY <1>3, Zenon DEF SetState
    <2>2. estado' \in BOOLEAN
        BY <1>2, <1>3 DEF SetState, Call
    <2>3. UNCHANGED <<left, bounce, table, ready, blinking, reader, air, requests>>
        BY <1>3 DEF SetState
    <2> QED
        BY <1>1, <2>1, <2>2, <2>3
<1>4. CASE Seek(t)
    BY <1>1, <1>2, <1>4 DEF Seek, Call
<1>5. CASE SeekRaises(t)
    BY <1>1, <1>5, NoCallTyped DEF SeekRaises, Abandon, Free
<1>6. CASE SendRelay(t)
    <2>1. call[t].on \in BOOLEAN
        BY <1>2 DEF Call
    <2>2. relay' \in BOOLEAN /\ lost' \in Nat /\ losses' \in Nat /\ lost' + losses' <= MaxLosses
        BY <1>6, <2>1 DEF SendRelay, Transmit
    <2>3. trouble' \in BOOLEAN
        BY <1>6, Zenon DEF SendRelay
    <2>4. UNCHANGED <<estado, left, bounce, table, ready, beat, shown, counted, seen, port, led, requests>>
        BY <1>6 DEF SendRelay
    <2>5. \/ Abandon(t)
          \/ /\ call' = [call EXCEPT ![t].step = "led", ![t].alone = FALSE]
             /\ UNCHANGED <<phase, reader>>
        BY <1>6 DEF SendRelay
    <2> QED
        BY <1>1, <1>6, <2>2, <2>3, <2>4, <2>5 DEF Abandon, Free
<1>7. CASE SendLed(t)
    <2>1. call[t].on \in BOOLEAN
        BY <1>2 DEF Call
    <2>2. led' \in BOOLEAN /\ lost' \in Nat /\ losses' \in Nat /\ lost' + losses' <= MaxLosses
        BY <1>7, <2>1 DEF SendLed, Transmit
    <2>3. /\ UNCHANGED <<estado, left, bounce, table, ready, beat, shown, counted, seen>>
          /\ UNCHANGED <<port, relay, requests, trouble>>
        BY <1>7 DEF SendLed
    <2>4. Abandon(t) \/ (call' = [call EXCEPT ![t] = NoCall] /\ UNCHANGED <<phase, reader>>)
        BY <1>7 DEF SendLed
    <2> QED
        BY <1>1, <1>7, <2>2, <2>3, <2>4 DEF Abandon, Free
<1> QED
    BY <1>3, <1>4, <1>5, <1>6, <1>7 DEF Fija4

\* The timer thread makes its calls in the two phases that wait for them.
LEMMA TimerTyped ==
    ASSUME TypeOK, Timer
    PROVE  TypeOK'
<1> USE BoxAssumption DEF TypeOK, table, blinking, air, Goto
<1>1. Cardinality(known) \in Nat
    BY TableSize
<1>a. {"timer", "reader"} \subseteq Thread /\ FALSE \in BOOLEAN
    BY DEF Thread
<1>2. CASE AskForNode
    BY <1>2 DEF AskForNode, Free
<1>3. CASE FijaInicial
    BY <1>3, <1>a, BeginTyped DEF FijaInicial, Free
<1>4. CASE AssignAttributes
    BY <1>1, <1>4 DEF AssignAttributes, Free
<1>5. CASE Parpadea
    BY <1>1, <1>5 DEF Parpadea, Free
<1>6. CASE Wake
    <2>1. UNCHANGED <<estado, left, bounce, table, ready, reader, air, requests, trouble>>
          /\ UNCHANGED <<beat, shown, counted, seen>>
        BY <1>6 DEF Wake
    <2>2. CASE Overdue
        <3>1. /\ phase' = "switching" /\ call' \in [Thread -> Call]
              /\ call'["reader"] = call["reader"]
            <4>1. phase' = "switching" /\ Begin("timer", FALSE, Default)
                BY <1>6, <2>2 DEF Wake
            <4>2. Default \in Minutes /\ call \in [Thread -> Call]
                OBVIOUS
            <4> HIDE DEF TypeOK
            <4>3. /\ call' \in [Thread -> Call]
                  /\ \A u \in Thread \ {"timer"} : call'[u] = call[u]
                BY <1>a, <4>1, <4>2, BeginTyped
            <4> QED
                BY <1>a, <4>1, <4>3
        <3> QED
            BY <2>1, <3>1 DEF Free
    <2>3. CASE ~Overdue
        BY <1>6, <2>1, <2>3 DEF Wake, Free
    <2> QED
        BY <2>2, <2>3
<1>7. CASE SwitchedOff
    BY <1>7 DEF SwitchedOff, Free
<1>8. CASE ReadBlink
    BY <1>8 DEF ReadBlink, BlinkLevel, Free
<1>9. CASE ShowBlink
    <2>1. beat' \in 1..2 /\ phase' \in {"napping", "reading", "dead"}
        BY <1>9 DEF ShowBlink
    <2>2. led' \in BOOLEAN /\ lost' \in Nat /\ losses' \in Nat /\ lost' + losses' <= MaxLosses
        BY <1>9 DEF ShowBlink, Transmit
    <2>3. Free("timer")
        BY <1>9 DEF ShowBlink
    <2> QED
        BY <1>9, <2>1, <2>2, <2>3 DEF ShowBlink, Free
<1> QED
    BY <1>2, <1>3, <1>4, <1>5, <1>6, <1>7, <1>8, <1>9 DEF Timer

\* Frames add radios of the network to the table.
LEMMA FrameTyped ==
    ASSUME TypeOK, Frame
    PROVE  TypeOK'
<1> USE BoxAssumption DEF TypeOK, table, blinking, air, Reading
<1>a. {"timer", "reader"} \subseteq Thread
    BY DEF Thread
<1>1. CASE Identified
    BY <1>1 DEF Identified, Free, Nodes
<1>2. CASE SampleTooEarly
    BY <1>2 DEF SampleTooEarly, Free
<1>3. CASE Pressed
    <2>1. Default \in Minutes
        BY BoxAssumption
    <2>2. /\ call' \in [Thread -> Call] /\ call'["timer"] = call["timer"]
        BY <1>3, <1>a, <2>1, BeginTyped, NegationTyped DEF Pressed
    <2>3. requests' \in 0..MaxRequests /\ bounce' \in 0..Debounce /\ reader = "up"
        BY <1>3 DEF Pressed
    <2> QED
        BY <1>3, <2>2, <2>3 DEF Pressed, Free
<1>4. CASE ReportedFailure
    BY <1>4 DEF ReportedFailure, Free
<1>5. ASSUME NEW n \in Nodes, Overheard(n) PROVE TypeOK'
    BY <1>5 DEF Overheard, Free
<1>6. CASE Unforeseen
    <2>1. /\ known' \subseteq Nodes /\ named' \in BOOLEAN /\ (named' => Box \in known')
        <3>1. CASE UNCHANGED table
            BY <3>1
        <3>2. ASSUME NEW n \in Nodes, known' = known \cup {n}, UNCHANGED named
              PROVE  known' \subseteq Nodes /\ named' \in BOOLEAN /\ (named' => Box \in known')
            BY <3>2
        <3>3. CASE known' = known \cup {Box} /\ named' = TRUE
            BY <3>3 DEF Nodes
        <3> QED
            BY <1>6, <3>1, <3>2, <3>3 DEF Unforeseen
    <2>2. /\ UNCHANGED <<estado, left, bounce, ready, blinking, call, air, requests, trouble>>
          /\ reader' = "dead" /\ Free("reader")
        BY <1>6 DEF Unforeseen
    <2> QED
        BY <2>1, <2>2 DEF Free
<1>7. CASE ReadsNothing
    BY <1>7 DEF ReadsNothing, Free
<1> QED
    BY <1>1, <1>2, <1>3, <1>4, <1>5, <1>6, <1>7 DEF Frame

\* Time only goes down, a request is one of those left, and the connection may
\* close at any time.
LEMMA OutsideTyped ==
    ASSUME TypeOK, Tick \/ PortCloses \/ \E w \in Web : Request(w)
    PROVE  TypeOK'
<1> USE BoxAssumption DEF TypeOK, table, blinking, air
<1>1. CASE Tick
    BY <1>1 DEF Tick, Less, Free
<1>2. ASSUME NEW w \in Web, Request(w) PROVE TypeOK'
    <2>1. w \in Thread /\ w \notin {"timer", "reader"} /\ {"timer", "reader"} \subseteq Thread
        BY DEF Thread
    <2>2. Default \in Minutes
        BY BoxAssumption
    <2>3. /\ call' \in [Thread -> Call]
          /\ call'["timer"] = call["timer"] /\ call'["reader"] = call["reader"]
        <3>1. CASE Begin(w, ~estado, Default)
            BY <2>1, <2>2, <3>1, BeginTyped, NegationTyped
        <3>2. ASSUME NEW m \in Minutes, Begin(w, TRUE, m) 
              PROVE  /\ call' \in [Thread -> Call]
                     /\ call'["timer"] = call["timer"] /\ call'["reader"] = call["reader"]
            BY <2>1, <2>2, <3>2, BeginTyped
        <3> QED
            BY <1>2, <3>1, <3>2 DEF Request
    <2>4. requests' \in 0..MaxRequests
        BY <1>2 DEF Request
    <2> QED
        BY <1>2, <2>3, <2>4 DEF Request, Free
<1>3. CASE PortCloses
    BY <1>3 DEF PortCloses, Free
<1> QED
    BY <1>1, <1>2, <1>3

\* Every value the controller keeps has its type, and the timer thread is in a
\* call only in the phases that wait for one to return.
THEOREM BoxTypeCorrect == Spec => []TypeOK
<1>1. TypeOK /\ [Next]_vars => TypeOK'
    <2> SUFFICES ASSUME TypeOK, [Next]_vars PROVE TypeOK'
        OBVIOUS
    <2>1. CASE UNCHANGED vars
        BY <2>1 DEF vars, table, blinking, air, TypeOK, Free
    <2>2. CASE Next
        BY <2>2, Fija4Typed, TimerTyped, FrameTyped, OutsideTyped DEF Next
    <2> QED
        BY <2>1, <2>2
<1> QED
    BY InitTyped, <1>1, PTL DEF Spec

-----------------------------------------------------------------------------
(* Relay and state *)

\* A call that is alone has no other beside it, and its command is the state.
RaceInv ==
    /\ \A t, u \in Thread : call[t].alone /\ InFlight(t) /\ InFlight(u) => t = u
    /\ \A t \in Thread : call[t].alone /\ call[t].step = "relay" => call[t].on = estado
    /\ RelayFollowsState

\* While the reader goes through the table nobody adds to it.
TableInv == call["reader"].step = "seek" => Cardinality(known) = call["reader"].size

\* At first no thread is in a call, and the relay is not known.
LEMMA InitRaces == Init => RaceInv /\ TableInv
<1> SUFFICES ASSUME Init PROVE RaceInv /\ TableInv
    OBVIOUS
<1>1. \A t \in Thread : call[t].step = "none"
    BY DEF Init, NoCall
<1>2. "reader" \in Thread
    BY DEF Thread
<1>3. trouble
    BY DEF Init
<1> QED
    BY <1>1, <1>2, <1>3 DEF RaceInv, RelayFollowsState, InFlight, TableInv

\* What is no step of a call begins one at most: state, relay and the calls in
\* flight stay as they are.
LEMMA OutsideCalls ==
    ASSUME TypeOK, Timer \/ Frame \/ Tick \/ PortCloses \/ \E w \in Web : Request(w)
    PROVE  /\ \A t \in Thread : InFlight(t) \/ InFlight(t)' => call'[t] = call[t]
           /\ estado' = estado /\ relay' = relay /\ trouble' = trouble
<1> DEFINE Same == /\ \A t \in Thread : InFlight(t) \/ InFlight(t)' => call'[t] = call[t]
                   /\ estado' = estado /\ relay' = relay /\ trouble' = trouble
<1>1. ASSUME NEW t \in Thread, Free(t), NEW on \in BOOLEAN, NEW minutes \in Minutes,
             Begin(t, on, minutes)
      PROVE  \A u \in Thread : InFlight(u) \/ InFlight(u)' => call'[u] = call[u]
    <2>1. call[t].step = "none"
        BY <1>1 DEF Free, NoCall
    <2> QED
        BY <1>1, <2>1, BeginTyped DEF TypeOK, InFlight
<1>2. /\ "timer" \in Thread /\ "reader" \in Thread /\ Web \subseteq Thread
      /\ Default \in Minutes
    BY BoxAssumption DEF Thread
<1>3. CASE UNCHANGED <<call, estado, relay, trouble>>
    BY <1>3
<1>4. CASE FijaInicial
    <2>1. Free("timer") /\ Begin("timer", estado, Default) /\ estado \in BOOLEAN
        BY <1>4 DEF TypeOK, FijaInicial
    <2> QED
        BY <1>1, <1>2, <1>4, <2>1 DEF FijaInicial, air
<1>5. CASE Wake
    <2>1. Free("timer") /\ (Begin("timer", FALSE, Default) \/ UNCHANGED call)
        BY <1>5 DEF TypeOK, Wake
    <2> QED
        BY <1>1, <1>2, <1>5, <2>1 DEF Wake, air
<1>6. CASE Pressed
    BY <1>1, <1>2, <1>6, NegationTyped DEF Pressed, Reading, air
<1>7. ASSUME NEW w \in Web, Request(w) PROVE Same
    <2>1. CASE Begin(w, ~estado, Default)
        BY <1>1, <1>2, <1>7, <2>1, NegationTyped DEF Request, air
    <2>2. ASSUME NEW m \in Minutes, Begin(w, TRUE, m) PROVE Same
        BY <1>1, <1>2, <1>7, <2>2 DEF Request, air
    <2> QED
        BY <1>7, <2>1, <2>2 DEF Request
<1>8. CASE Tick \/ PortCloses \/ (Timer /\ ~FijaInicial /\ ~Wake) \/ (Frame /\ ~Pressed)
    BY <1>3, <1>8 DEF Tick, PortCloses, Timer, Frame, air, AskForNode, AssignAttributes,
        Parpadea, SwitchedOff, ReadBlink, ShowBlink, Transmit, Identified, SampleTooEarly,
        ReportedFailure, Unforeseen, ReadsNothing, Overheard
<1> QED
    BY <1>4, <1>5, <1>6, <1>7, <1>8

\* A step of a call keeps the races marked: a call that sets the state is
\* alone, or all that are in flight are not.
LEMMA Fija4Races ==
    ASSUME TypeOK, RaceInv, NEW t \in Thread, Fija4(t)
    PROVE  RaceInv'
<1> USE DEF RaceInv, RelayFollowsState, InFlight
<1>1. call[t] \in Call /\ call \in [Thread -> Call]
    BY DEF TypeOK
<1>2. CASE SetState(t)
    BY <1>1, <1>2 DEF SetState, Call
<1>3. CASE Seek(t)
    BY <1>1, <1>3 DEF Seek, Call, air
<1>4. CASE SeekRaises(t)
    BY <1>1, <1>4 DEF SeekRaises, Abandon, Call, NoCall
<1>5. CASE SendRelay(t)
    <2>1. PICK fate \in Fate :
            /\ Transmit(call[t].found, relay, call[t].on, fate)
            /\ IF fate = "raises" THEN Abandon(t)
               ELSE call' = [call EXCEPT ![t].step = "led", ![t].alone = FALSE] /\ UNCHANGED <<phase, reader>>
            /\ trouble' = ~(fate = "arrives" /\ call[t].alone)
        BY <1>5 DEF SendRelay
    <2>2. /\ call[t].step = "relay" /\ estado' = estado
          /\ \A u \in Thread \ {t} : call'[u] = call[u]
          /\ ~InFlight(t)'
        BY <1>1, <1>5, <2>1 DEF SendRelay, Abandon, NoCall, Call
    <2>3. ~trouble' => relay' = estado'
        BY <1>1, <2>1, <2>2 DEF Transmit, Call
    <2> QED
        BY <1>1, <2>2, <2>3 DEF Call
<1>6. CASE SendLed(t)
    BY <1>1, <1>6 DEF SendLed, Transmit, Abandon, Call, NoCall
<1> QED
    BY <1>2, <1>3, <1>4, <1>5, <1>6 DEF Fija4

\* Once no switching is under way, the relay is what the controller believes,
\* unless the last relay command was lost, had no address or raced.
THEOREM RelayCorrect == Spec => []RelayFollowsState
<1>1. TypeOK /\ RaceInv /\ [Next]_vars => RaceInv'
    <2> SUFFICES ASSUME TypeOK, RaceInv, [Next]_vars PROVE RaceInv'
        OBVIOUS
    <2>1. CASE UNCHANGED vars
        BY <2>1 DEF vars, air, RaceInv, RelayFollowsState, InFlight
    <2>2. CASE Timer \/ Frame \/ Tick \/ PortCloses \/ \E w \in Web : Request(w)
        BY <2>2, OutsideCalls DEF RaceInv, RelayFollowsState, InFlight
    <2> QED
        BY <2>1, <2>2, Fija4Races DEF Next
<1>2. RaceInv => RelayFollowsState
    BY DEF RaceInv
<1> QED
    BY InitRaces, <1>1, <1>2, BoxTypeCorrect, PTL DEF Spec

-----------------------------------------------------------------------------
(* The reader thread *)

\* Only the reader adds to the table, and not while it is in a call.
LEMMA TableStays ==
    ASSUME TypeOK, TableInv, Next
    PROVE  TableInv'
<1>1. CASE Timer \/ Frame \/ Tick \/ PortCloses \/ \E w \in Web : Request(w)
    <2> SUFFICES ASSUME call'["reader"].step = "seek"
                 PROVE  Cardinality(known') = call'["reader"].size
        BY DEF TableInv
    <2>1. call'["reader"] = call["reader"] /\ ~Free("reader")
        BY <1>1, OutsideCalls DEF InFlight, Thread, Free, NoCall
    <2>2. known' = known
        BY <1>1, <2>1 DEF Timer, Frame, Tick, PortCloses, Request, table, AskForNode,
            FijaInicial, AssignAttributes, Parpadea, Wake, SwitchedOff, ReadBlink, ShowBlink,
            Reading, Identified, SampleTooEarly, Pressed, ReportedFailure, Unforeseen,
            ReadsNothing, Overheard
    <2> QED
        BY <2>1, <2>2 DEF TableInv
<1>2. ASSUME NEW t \in Thread, Fija4(t) PROVE TableInv'
    <2>1. known' = known
        BY <1>2 DEF Fija4, SetState, Seek, SeekRaises, SendRelay, SendLed, table
    <2>2. "reader" \in Thread /\ call \in [Thread -> Call] /\ call["reader"] \in Call /\ call[t] \in Call
        BY DEF Thread, TypeOK
    <2>3. CASE SetState(t)
        BY <2>1, <2>2, <2>3 DEF SetState, TableInv, Call, InFlight
    <2>4. CASE Seek(t) \/ SendRelay(t) \/ SendLed(t) \/ SeekRaises(t)
        BY <2>1, <2>2, <2>4 DEF Seek, SendRelay, SendLed, SeekRaises, Abandon, TableInv, Call, NoCall
    <2> QED
        BY <1>2, <2>3, <2>4 DEF Fija4
<1> QED
    BY <1>1, <1>2 DEF Next

\* A press that was taken is handled to its end unless the connection closed:
\* the table never grows under the reader, however many radios there are,
\* whatever frames come and whatever the other threads are doing.
THEOREM ReaderCorrect == Spec => PressIsHandled
<1>1. TypeOK /\ TableInv /\ [Next]_vars => TableInv'
    BY TableStays DEF TableInv, vars, table
<1>2. TypeOK /\ TableInv /\ [Next]_vars =>
          [reader = "up" /\ reader' = "dead" /\ ~Free("reader") => port = "closed"]_vars
    <2> SUFFICES ASSUME TypeOK, TableInv, Next,
                        reader = "up", reader' = "dead", ~Free("reader")
                 PROVE  port = "closed"
        BY DEF vars
    <2>1. ASSUME NEW t \in Thread, Fija4(t) PROVE port = "closed"
        BY <2>1 DEF Fija4, SetState, Seek, SeekRaises, SendRelay, SendLed, Transmit, Abandon, TableInv
    <2>2. CASE Timer
        BY <2>2 DEF Timer, AskForNode, FijaInicial, AssignAttributes, Parpadea, Wake,
            SwitchedOff, ReadBlink, ShowBlink
    <2>3. CASE Frame
        BY <2>3 DEF Frame, Reading, Identified, SampleTooEarly, Pressed, ReportedFailure,
            Unforeseen, ReadsNothing, Overheard
    <2>4. CASE Tick \/ PortCloses \/ \E w \in Web : Request(w)
        BY <2>4 DEF Tick, PortCloses, Request
    <2> QED
        BY <2>1, <2>2, <2>3, <2>4 DEF Next
<1> QED
    BY InitRaces, <1>1, <1>2, BoxTypeCorrect, PTL DEF Spec, PressIsHandled
=============================================================================
