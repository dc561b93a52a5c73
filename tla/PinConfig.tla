------------------------------ MODULE PinConfig ------------------------------
(***************************************************************************)
(* How the gateway configures the pins of a remote radio: send_message,    *)
(* issue_change_detection, send_query and on_response of XBeeWrapper       *)
(* (src/xbee2mqtt/libs/xbee_wrapper.py), with the radio's registers.       *)
(*                                                                         *)
(* Two threads share the serial port and the dictionary of masks:          *)
(*   - send_message and issue_change_detection run on the MQTT thread;     *)
(*     program holds what it has still to do;                              *)
(*   - process, on_response and send_query run on the reader thread of     *)
(*     python-xbee; sends holds the commands it has still to write.        *)
(* A remote radio answers the commands sent with a frame id, in order.     *)
(* One radio stands for all: nothing here relates two of them.             *)
(***************************************************************************)
EXTENDS Integers, Sequences, FiniteSets

CONSTANTS
    Pin,            \* the pins in use, numbered 0..12
    Commands,       \* the commands that may come from MQTT
    ChangeDetection,\* change_detection of the configuration
    MaxFlight,      \* bound: commands and responses under way when another begins; 0 if none may
    MayRestart,     \* environment: the gateway may be restarted
    None

ASSUME PinConfigAssumption ==
    /\ Pin \subseteq 0..12
    /\ Commands \subseteq [pin : Pin, kind : {"dio", "pin"}, value : Int]
    /\ ChangeDetection \in BOOLEAN /\ MayRestart \in BOOLEAN
    /\ MaxFlight \in Nat
    /\ None \notin 0..9 /\ \A bits \in SUBSET (0..12) : bits # None

VARIABLES
    mask,       \* _change_detection_masks of the radio, as a set of bits; or None
    program,    \* MQTT thread: the rest of send_message
    sends,      \* reader thread: the rest of on_response or send_query
    toRadio,    \* commands on their way to the radio
    fromRadio,  \* responses on their way to the gateway
    mode,       \* radio: the D and P registers
    ic,         \* radio: the bits of the IC register
    rate,       \* radio: whether IR holds the configured sample rate
    saved,      \* radio: the registers as WR last stored them
    reported,   \* the last pin-N value passed to on_message, per pin
    last        \* history: the mode last commanded since the gateway started

gatewayVars == <<mask, program, sends, reported, last>>
radioVars == <<mode, ic, rate, saved>>
vars == <<gatewayVars, radioVars, toRadio, fromRadio>>

\* Registers accept the functions 0 to 5; a bit of IC watches the pin of its
\* number, P0, P1 and P2 being pins 10, 11 and 12.
Mode == 0..5
Bit == 0..12
Input == 3

-----------------------------------------------------------------------------
(* Commands of python-xbee's remote_at, by the register they are about *)

SetPin(n, m) == [op |-> "set", pin |-> n, mode |-> m]
QueryPin(n) == [op |-> "query", pin |-> n]
SetIc(bits) == [op |-> "setIC", bits |-> bits]
QueryIc == [op |-> "queryIC"]
SetRate == [op |-> "IR"]
Write == [op |-> "WR"]

\* Not a command: the update of the mask between two of them.
UpdateMask(n, m) == [op |-> "mask", pin |-> n, mode |-> m]

\* What a command's value asks for: a raw function (one digit) or a level.
ModeOf(command) ==
    IF command.kind = "pin" THEN command.value % 10
    ELSE IF command.value > 0 THEN 5 ELSE 4

Offset(n) == n % 12

Settled ==
    /\ program = <<>> /\ sends = <<>>
    /\ toRadio = <<>> /\ fromRadio = <<>>

\* A command or an identification comes when everything has settled or, if
\* MaxFlight allows it, before.
MayBegin == Settled \/ Len(toRadio) + Len(fromRadio) + Len(sends) < MaxFlight

-----------------------------------------------------------------------------
(* The MQTT thread *)

\* Mutants: the pin is asked for before it is set; the IC register is asked
\* for before the mask is updated.
MutantSendMessageAsksFirst ==
    /\ program = <<>>
    /\ MayBegin
    /\ \E command \in Commands :
        LET n == command.pin
            m == ModeOf(command) IN
        /\ program' = <<QueryPin(n), SetPin(n, m), Write>>
                      \o (IF ChangeDetection THEN <<UpdateMask(n, m), QueryIc>> ELSE <<>>)
        /\ last' = [last EXCEPT ![n] = m]
    /\ UNCHANGED <<mask, sends, reported, radioVars, toRadio, fromRadio>>

MutantSendMessageMaskLast ==
    /\ program = <<>>
    /\ MayBegin
    /\ \E command \in Commands :
        LET n == command.pin
            m == ModeOf(command) IN
        /\ program' = <<SetPin(n, m), Write, QueryPin(n), QueryIc, UpdateMask(n, m)>>
        /\ last' = [last EXCEPT ![n] = m]
    /\ UNCHANGED <<mask, sends, reported, radioVars, toRadio, fromRadio>>

\* send_message: set, store, ask back; then, with change_detection, update
\* the mask and ask for the IC register (issue_change_detection).
SendMessage ==
    /\ program = <<>>
    /\ MayBegin
    /\ \E command \in Commands :
        LET n == command.pin
            m == ModeOf(command) IN
        /\ program' = <<SetPin(n, m), Write, QueryPin(n)>>
                      \o (IF ChangeDetection THEN <<UpdateMask(n, m), QueryIc>> ELSE <<>>)
        /\ last' = [last EXCEPT ![n] = m]
    /\ UNCHANGED <<mask, sends, reported, radioVars, toRadio, fromRadio>>

\* Mutant: a bit is set but never cleared.
MutantNewMask(n, m) ==
    LET old == IF mask = None THEN {} ELSE mask IN
    IF m = Input THEN old \cup {Offset(n)} ELSE old

NewMask(n, m) ==
    LET old == IF mask = None THEN {} ELSE mask IN
    IF m = Input THEN old \cup {Offset(n)} ELSE old \ {Offset(n)}

MqttThreadStep ==
    /\ program # <<>>
    /\ program' = Tail(program)
    /\ LET step == Head(program) IN
       IF step.op = "mask"
       THEN mask' = NewMask(step.pin, step.mode) /\ UNCHANGED toRadio
       ELSE toRadio' = Append(toRadio, step) /\ UNCHANGED mask
    /\ UNCHANGED <<sends, reported, last, radioVars, fromRadio>>

-----------------------------------------------------------------------------
(* The reader thread *)

ReaderIdle == sends = <<>>

ReaderSends ==
    /\ sends # <<>>
    /\ toRadio' = Append(toRadio, Head(sends))
    /\ sends' = Tail(sends)
    /\ UNCHANGED <<mask, program, reported, last, radioVars, fromRadio>>

\* The pins in the order of their numbers.
IsPinQueries(s) ==
    /\ {s[i].pin : i \in DOMAIN s} = Pin
    /\ \A i, j \in DOMAIN s : i < j => s[i].pin < s[j].pin

\* A node identification makes send_query ask for every pin, a second apart;
\* the answer to a node discovery sets the sample rate first.
Identified ==
    /\ ReaderIdle
    /\ MayBegin
    /\ \E queries \in [1..Cardinality(Pin) -> {QueryPin(n) : n \in Pin}] :
        /\ IsPinQueries(queries)
        /\ sends' \in {queries, <<SetRate>> \o queries}
    /\ UNCHANGED <<mask, program, reported, last, radioVars, toRadio, fromRadio>>

\* on_response to a D or P query: the value is published as pin-N.
OnPinResponse ==
    /\ ReaderIdle
    /\ fromRadio # <<>> /\ Head(fromRadio).op = "query"
    /\ reported' = [reported EXCEPT ![Head(fromRadio).pin] = Head(fromRadio).mode]
    /\ fromRadio' = Tail(fromRadio)
    /\ UNCHANGED <<mask, program, sends, last, radioVars, toRadio>>

\* Mutants: the new register is not stored; it is set and asked for again
\* without comparing it.
MutantOnIcResponseNoWrite ==
    /\ ReaderIdle
    /\ fromRadio # <<>> /\ Head(fromRadio).op = "queryIC"
    /\ LET current == Head(fromRadio).bits
           wanted == IF mask = None THEN current ELSE mask IN
       sends' = IF ChangeDetection /\ current # wanted THEN <<SetIc(wanted)>> ELSE <<>>
    /\ fromRadio' = Tail(fromRadio)
    /\ UNCHANGED <<mask, program, reported, last, radioVars, toRadio>>

MutantOnIcResponseAgain ==
    /\ ReaderIdle
    /\ fromRadio # <<>> /\ Head(fromRadio).op = "queryIC"
    /\ LET current == Head(fromRadio).bits
           wanted == IF mask = None THEN current ELSE mask IN
       sends' = <<SetIc(wanted), Write, QueryIc>>
    /\ fromRadio' = Tail(fromRadio)
    /\ UNCHANGED <<mask, program, reported, last, radioVars, toRadio>>

\* on_response to an IC query: the register is set if it differs from the
\* mask as it is now, and stored.
OnIcResponse ==
    /\ ReaderIdle
    /\ fromRadio # <<>> /\ Head(fromRadio).op = "queryIC"
    /\ LET current == Head(fromRadio).bits
           wanted == IF mask = None THEN current ELSE mask IN
       sends' = IF ChangeDetection /\ current # wanted THEN <<SetIc(wanted), Write>> ELSE <<>>
    /\ fromRadio' = Tail(fromRadio)
    /\ UNCHANGED <<mask, program, reported, last, radioVars, toRadio>>

-----------------------------------------------------------------------------
(* The radio *)

Registers == [mode |-> mode, ic |-> ic, rate |-> rate]

RadioStep ==
    /\ toRadio # <<>>
    /\ toRadio' = Tail(toRadio)
    /\ LET command == Head(toRadio) IN
       /\ mode' = IF command.op = "set" /\ command.mode \in Mode
                  THEN [mode EXCEPT ![command.pin] = command.mode] ELSE mode
       /\ ic' = IF command.op = "setIC" THEN command.bits ELSE ic
       /\ rate' = (rate \/ command.op = "IR")
       /\ saved' = IF command.op = "WR" THEN Registers ELSE saved
       /\ fromRadio' =
            CASE command.op = "query" ->
                    Append(fromRadio, [op |-> "query", pin |-> command.pin, mode |-> mode[command.pin]])
              [] command.op = "queryIC" ->
                    Append(fromRadio, [op |-> "queryIC", bits |-> ic])
              [] OTHER -> fromRadio
    /\ UNCHANGED gatewayVars

\* A power cut of the radio, while nothing is under way to it.
RadioRestart ==
    /\ Settled
    /\ mode' = saved.mode
    /\ ic' = saved.ic
    /\ rate' = saved.rate
    /\ UNCHANGED <<gatewayVars, saved, toRadio, fromRadio>>

\* The gateway is restarted: its masks are gone, and so are the responses.
GatewayRestart ==
    /\ MayRestart
    /\ mask' = None
    /\ program' = <<>> /\ sends' = <<>> /\ fromRadio' = <<>>
    /\ reported' = [n \in Pin |-> None]
    /\ last' = [n \in Pin |-> None]
    /\ UNCHANGED <<radioVars, toRadio>>

-----------------------------------------------------------------------------
\* A radio whose pins are disabled, with any bits of theirs left in IC.
Init ==
    /\ mask = None
    /\ program = <<>> /\ sends = <<>>
    /\ toRadio = <<>> /\ fromRadio = <<>>
    /\ mode = [n \in Pin |-> 0]
    /\ ic \in SUBSET Pin
    /\ rate = FALSE
    /\ saved = Registers
    /\ reported = [n \in Pin |-> None]
    /\ last = [n \in Pin |-> None]

ReaderStep == ReaderSends \/ OnPinResponse \/ OnIcResponse

Next ==
    \/ SendMessage \/ MqttThreadStep
    \/ Identified \/ ReaderStep
    \/ RadioStep \/ RadioRestart
    \/ GatewayRestart

\* Both threads run and the radio answers; commands and restarts may never come.
Fairness == WF_vars(MqttThreadStep) /\ WF_vars(ReaderStep) /\ WF_vars(RadioStep)

Spec == Init /\ [][Next]_vars /\ Fairness

-----------------------------------------------------------------------------
TypeOK ==
    /\ mask = None \/ mask \in SUBSET Bit
    /\ mode \in [Pin -> Mode]
    /\ ic \in SUBSET Bit
    /\ rate \in BOOLEAN
    /\ saved.mode \in [Pin -> Mode] /\ saved.ic \in SUBSET Bit
    /\ DOMAIN reported = Pin /\ DOMAIN last = Pin
    /\ \A n \in Pin : reported[n] \in Mode \cup {None} /\ last[n] \in 0..9 \cup {None}

\* "Sends IC command to check the response and change if it differs": when
\* everything has settled, the radio's IC register is the gateway's mask.
\* This needs MaxFlight = 0: a register set from an older mask by the reader
\* thread may reach the radio after the query that checks a newer one.
RegisterFollowsMask == Settled /\ mask # None => ic = mask

\* The mask has the pin's own bit for it, and no other pin that has been
\* commanded shares that bit.  Pin 12 has none: the modulo gives it that of
\* pin 0, which is pin 0's own as long as pin 12 is not commanded.
OwnBit(n) ==
    /\ Offset(n) = n
    /\ \A m \in Pin \ {n} : Offset(m) = n => last[m] = None

\* The purpose of the mask: once the commands have settled, the radio reports
\* the changes of a commanded pin exactly when it is an input, if the pin has
\* a bit of its own.  (A function the radio rejects leaves the pin as it is,
\* but clears its bit.)
DetectionMatchesMode ==
    Settled /\ ChangeDetection =>
        \A n \in Pin : last[n] \in Mode /\ OwnBit(n) => (n \in ic <=> mode[n] = Input)

\* Once a command given since the gateway started has settled, the radio would
\* survive a power cut with the pins and the change detection it has, however
\* the commands overlapped and whatever an earlier restart cut short.
SettledIsStored ==
    Settled /\ (\E n \in Pin : last[n] # None) => saved.mode = mode /\ saved.ic = ic

\* What was published of a commanded pin is what the radio has, however the
\* commands overlapped.
ReportMatchesMode ==
    Settled => \A n \in Pin : last[n] # None => reported[n] = mode[n]

\* Setting, checking and correcting the register does not go on for ever.
EventuallySettles == ~Settled ~> Settled
=============================================================================
