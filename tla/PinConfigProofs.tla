--------------------------- MODULE PinConfigProofs ---------------------------
(***************************************************************************)
(* What the radio stores and what is reported of it, for any pins and      *)
(* commands and however many commands overlap.  The argument follows the   *)
(* messages: the channel to the radio keeps their order, so a WR or a      *)
(* query that is still to come will see every change made before it.       *)
(***************************************************************************)
EXTENDS PinConfig, FiniteSetTheorems, TLAPS

Query == [op : {"query"}, pin : Pin]
ProgramStep == [op : {"set", "mask"}, pin : Pin, mode : 0..9] \cup Query
                  \cup [op : {"WR", "queryIC"}]
SendsStep == [op : {"setIC"}, bits : SUBSET Bit] \cup Query \cup [op : {"WR", "IR"}]
Response == [op : {"query"}, pin : Pin, mode : Mode] \cup [op : {"queryIC"}, bits : SUBSET Bit]

RadioCommand == {s \in ProgramStep : s.op # "mask"} \cup SendsStep

Typed ==
    /\ TypeOK
    /\ program \in Seq(ProgramStep)
    /\ sends \in Seq(SendsStep)
    /\ toRadio \in Seq(RadioCommand)
    /\ fromRadio \in Seq(Response)
    /\ saved \in [mode : [Pin -> Mode], ic : SUBSET Bit, rate : BOOLEAN]

-----------------------------------------------------------------------------
(* Sequences *)

LEMMA TailFacts ==
    ASSUME NEW S, NEW s \in Seq(S), s # <<>>
    PROVE  /\ Head(s) = s[1] /\ 1 \in DOMAIN s /\ Head(s) \in S
           /\ Tail(s) \in Seq(S)
           /\ \A i \in DOMAIN Tail(s) : i + 1 \in DOMAIN s /\ Tail(s)[i] = s[i + 1]
           /\ \A i \in DOMAIN s : i # 1 => i - 1 \in DOMAIN Tail(s) /\ Tail(s)[i - 1] = s[i]
           /\ DOMAIN s \subseteq Nat /\ DOMAIN Tail(s) \subseteq Nat
           /\ \A i \in DOMAIN s : i >= 1
BY SMT

LEMMA AppendFacts ==
    ASSUME NEW S, NEW s \in Seq(S), NEW e \in S
    PROVE  /\ Append(s, e) \in Seq(S)
           /\ Len(s) + 1 \in DOMAIN Append(s, e) /\ Append(s, e)[Len(s) + 1] = e
           /\ \A i \in DOMAIN s : i \in DOMAIN Append(s, e) /\ Append(s, e)[i] = s[i]
           /\ \A i \in DOMAIN Append(s, e) : i \in DOMAIN s \/ i = Len(s) + 1
           /\ \A i \in DOMAIN s : i < Len(s) + 1
           /\ DOMAIN s \subseteq Nat /\ Len(s) + 1 \in Nat
BY SMT

LEMMA Concatenations ==
    ASSUME NEW S, NEW a \in S, NEW b \in S, NEW c \in S, NEW d \in S, NEW e \in S
    PROVE  /\ LET s == <<a, b, c>> \o <<d, e>> IN
              /\ s \in Seq(S) /\ DOMAIN s = 1..5
              /\ s[1] = a /\ s[2] = b /\ s[3] = c /\ s[4] = d /\ s[5] = e
           /\ LET s == <<a, b, c>> \o <<>> IN
              /\ s \in Seq(S) /\ DOMAIN s = 1..3
              /\ s[1] = a /\ s[2] = b /\ s[3] = c
<1> DEFINE s == <<a, b, c>>
           t == <<d, e>>
<1>1. s \in Seq(S) /\ t \in Seq(S) /\ Len(s) = 3 /\ Len(t) = 2
    OBVIOUS
<1>2. s \o t = [i \in 1..5 |-> IF i <= 3 THEN s[i] ELSE t[i - 3]]
    BY <1>1
<1>3. s \o t \in Seq(S)
    BY <1>1
<1>4. t[4 - 3] = d /\ t[5 - 3] = e
    BY SMT
<1>5. s \o <<>> = s
    BY <1>1
<1> QED BY <1>1, <1>2, <1>3, <1>4, <1>5

LEMMA ShortSequences ==
    ASSUME NEW S
    PROVE  /\ <<>> \in Seq(S)
           /\ \A a, b \in S : <<a, b>> \in Seq(S)
           /\ \A n \in Nat : \A s \in [1..n -> S] : s \in Seq(S)
BY SMT

-----------------------------------------------------------------------------
(* Types *)

LEMMA PinsFinite == Pin \subseteq 0..12 /\ Cardinality(Pin) \in Nat
<1>1. Pin \subseteq 0..12
    BY PinConfigAssumption
<1>2. Pin \in SUBSET Nat /\ 12 \in Nat /\ \A n \in Pin : n <= 12
    BY <1>1
<1>3. IsFiniteSet(Pin)
    BY <1>2, FS_BoundedSetOfNaturals
<1> QED BY <1>1, <1>3, FS_CardinalityType

LEMMA ModeTyped ==
    ASSUME NEW command \in Commands
    PROVE  command.pin \in Pin /\ ModeOf(command) \in 0..9
BY PinConfigAssumption DEF ModeOf

\* What send_message has to do, one step after the other.
Steps(n, m) ==
    <<SetPin(n, m), Write, QueryPin(n)>>
      \o (IF ChangeDetection THEN <<UpdateMask(n, m), QueryIc>> ELSE <<>>)

LEMMA StepsTyped ==
    ASSUME NEW n \in Pin, NEW m \in 0..9
    PROVE  LET s == Steps(n, m) IN
           /\ s \in Seq(ProgramStep)
           /\ DOMAIN s = IF ChangeDetection THEN 1..5 ELSE 1..3
           /\ s[1] = SetPin(n, m) /\ s[2] = Write /\ s[3] = QueryPin(n)
           /\ ChangeDetection => s[4] = UpdateMask(n, m) /\ s[5] = QueryIc
<1>1. /\ SetPin(n, m) \in ProgramStep /\ Write \in ProgramStep
      /\ QueryPin(n) \in ProgramStep /\ UpdateMask(n, m) \in ProgramStep
      /\ QueryIc \in ProgramStep
    BY DEF SetPin, Write, QueryPin, UpdateMask, QueryIc, ProgramStep, Query
<1>2. CASE ChangeDetection
    <2>1. Steps(n, m) = <<SetPin(n, m), Write, QueryPin(n)>> \o <<UpdateMask(n, m), QueryIc>>
        BY <1>2 DEF Steps
    <2> QED BY <1>1, <1>2, <2>1, Concatenations
<1>3. CASE ~ChangeDetection
    <2>1. Steps(n, m) = <<SetPin(n, m), Write, QueryPin(n)>> \o <<>>
        BY <1>3 DEF Steps
    <2> QED BY <1>1, <1>3, <2>1, Concatenations
<1> QED BY <1>2, <1>3

LEMMA InitTyped == Init => Typed
<1> SUFFICES ASSUME Init PROVE Typed
    OBVIOUS
<1>1. mode \in [Pin -> Mode] /\ ic \in SUBSET Bit /\ rate \in BOOLEAN
    <2>1. mode \in [Pin -> Mode]
        BY DEF Init, Mode
    <2>2. ic \in SUBSET Bit
        BY PinsFinite DEF Init, Bit
    <2> QED BY <2>1, <2>2 DEF Init
<1>2. saved \in [mode : [Pin -> Mode], ic : SUBSET Bit, rate : BOOLEAN]
    BY <1>1 DEF Init, Registers
<1>3. program = <<>> /\ sends = <<>> /\ toRadio = <<>> /\ fromRadio = <<>>
    BY DEF Init
<1>4. TypeOK
    BY <1>1, <1>2 DEF Init, TypeOK
<1> QED BY <1>2, <1>3, <1>4 DEF Typed

LEMMA GatewayTyped ==
    ASSUME Typed, SendMessage \/ MqttThreadStep \/ Identified \/ ReaderStep \/ GatewayRestart
    PROVE  Typed'
<1> USE DEF Typed
<1>1. CASE SendMessage
    <2>1. PICK n \in Pin, m \in 0..9 : program' = Steps(n, m) /\ last' = [last EXCEPT ![n] = m]
        BY <1>1, ModeTyped DEF SendMessage, Steps
    <2>2. program' \in Seq(ProgramStep)
        BY <2>1, StepsTyped
    <2>3. DOMAIN last' = Pin /\ \A q \in Pin : last'[q] \in 0..9 \cup {None}
        BY <2>1 DEF TypeOK
    <2> QED BY <1>1, <2>2, <2>3 DEF SendMessage, TypeOK, radioVars
<1>2. CASE MqttThreadStep
    <2>1. Head(program) \in ProgramStep /\ Tail(program) \in Seq(ProgramStep)
        BY <1>2, TailFacts DEF MqttThreadStep
    <2>2. mask' = None \/ mask' \in SUBSET Bit
        <3>1. CASE Head(program).op = "mask"
            <4>1. Head(program).pin \in Pin
                BY <3>1, <2>1 DEF ProgramStep, Query
            <4>2. Offset(Head(program).pin) \in Bit
                <5>1. \A n \in 0..12 : n % 12 \in 0..12
                    BY SMT
                <5> QED BY <4>1, <5>1, PinsFinite DEF Offset, Bit
            <4> QED BY <1>2, <3>1, <4>2 DEF MqttThreadStep, NewMask, TypeOK
        <3>2. CASE Head(program).op # "mask"
            BY <1>2, <3>2 DEF MqttThreadStep, TypeOK
        <3> QED BY <3>1, <3>2
    <2>3. toRadio' \in Seq(RadioCommand)
        <3>1. CASE Head(program).op = "mask"
            BY <1>2, <3>1 DEF MqttThreadStep
        <3>2. CASE Head(program).op # "mask"
            <4>1. Head(program) \in RadioCommand
                BY <3>2, <2>1 DEF RadioCommand
            <4>2. toRadio' = Append(toRadio, Head(program))
                BY <1>2, <3>2 DEF MqttThreadStep
            <4> QED BY <4>1, <4>2, AppendFacts
        <3> QED BY <3>1, <3>2
    <2> QED BY <1>2, <2>1, <2>2, <2>3 DEF MqttThreadStep, TypeOK, radioVars
<1>3. CASE Identified
    <2>1. PICK queries \in [1..Cardinality(Pin) -> {QueryPin(n) : n \in Pin}] :
            sends' \in {queries, <<SetRate>> \o queries}
        BY <1>3 DEF Identified
    <2>2. Cardinality(Pin) \in Nat
        BY PinsFinite
    <2>3. queries \in Seq(SendsStep)
        <3>1. {QueryPin(n) : n \in Pin} \subseteq SendsStep
            BY DEF SendsStep, Query, QueryPin
        <3>2. queries \in [1..Cardinality(Pin) -> SendsStep]
            BY <2>1, <3>1
        <3> QED BY <2>2, <3>2, ShortSequences
    <2>4. <<SetRate>> \in Seq(SendsStep)
        BY DEF SetRate, SendsStep
    <2>5. <<SetRate>> \o queries \in Seq(SendsStep)
        BY <2>3, <2>4
    <2>6. sends' \in Seq(SendsStep)
        BY <2>1, <2>3, <2>5
    <2> QED BY <1>3, <2>6 DEF Identified, TypeOK, radioVars
<1>4. CASE ReaderSends
    <2>1. Head(sends) \in SendsStep /\ Tail(sends) \in Seq(SendsStep)
        BY <1>4, TailFacts DEF ReaderSends
    <2>2. toRadio' \in Seq(RadioCommand)
        BY <1>4, <2>1, AppendFacts DEF ReaderSends, RadioCommand
    <2> QED BY <1>4, <2>1, <2>2 DEF ReaderSends, TypeOK, radioVars
<1>5. CASE OnPinResponse
    <2>1. Head(fromRadio) \in Response /\ Tail(fromRadio) \in Seq(Response)
        BY <1>5, TailFacts DEF OnPinResponse
    <2>2. Head(fromRadio).pin \in Pin /\ Head(fromRadio).mode \in Mode
        BY <1>5, <2>1 DEF OnPinResponse, Response
    <2>3. DOMAIN reported' = Pin /\ \A n \in Pin : reported'[n] \in Mode \cup {None}
        BY <1>5, <2>2 DEF OnPinResponse, TypeOK
    <2> QED BY <1>5, <2>1, <2>3 DEF OnPinResponse, TypeOK, radioVars
<1>6. CASE OnIcResponse
    <2>1. Head(fromRadio) \in Response /\ Tail(fromRadio) \in Seq(Response)
        BY <1>6, TailFacts DEF OnIcResponse
    <2>2. Head(fromRadio).bits \in SUBSET Bit
        BY <1>6, <2>1 DEF OnIcResponse, Response
    <2>3. PICK wanted \in SUBSET Bit : sends' \in {<<>>, <<SetIc(wanted), Write>>}
        BY <1>6, <2>2 DEF OnIcResponse, TypeOK
    <2>4. SetIc(wanted) \in SendsStep /\ Write \in SendsStep
        BY DEF SetIc, Write, SendsStep
    <2>5. sends' \in Seq(SendsStep)
        BY <2>3, <2>4, ShortSequences
    <2> QED BY <1>6, <2>1, <2>5 DEF OnIcResponse, TypeOK, radioVars
<1>7. CASE GatewayRestart
    BY <1>7 DEF GatewayRestart, TypeOK, radioVars
<1> QED BY <1>1, <1>2, <1>3, <1>4, <1>5, <1>6, <1>7 DEF ReaderStep

LEMMA RadioTyped ==
    ASSUME Typed, RadioStep \/ RadioRestart
    PROVE  Typed'
<1> USE DEF Typed
<1>1. CASE RadioStep
    <2> DEFINE command == Head(toRadio)
    <2>1. command \in RadioCommand /\ Tail(toRadio) \in Seq(RadioCommand)
        BY <1>1, TailFacts DEF RadioStep
    <2>2. mode' \in [Pin -> Mode]
        <3>1. CASE command.op = "set" /\ command.mode \in Mode
            BY <1>1, <3>1, <2>1 DEF RadioStep, TypeOK
        <3>2. CASE ~(command.op = "set" /\ command.mode \in Mode)
            BY <1>1, <3>2 DEF RadioStep, TypeOK
        <3> QED BY <3>1, <3>2
    <2>3. ic' \in SUBSET Bit
        <3>1. CASE command.op = "setIC"
            BY <1>1, <3>1, <2>1 DEF RadioStep, RadioCommand, ProgramStep, SendsStep, Query
        <3>2. CASE command.op # "setIC"
            BY <1>1, <3>2 DEF RadioStep, TypeOK
        <3> QED BY <3>1, <3>2
    <2>4. rate' \in BOOLEAN
        BY <1>1 DEF RadioStep, TypeOK
    <2>5. saved' \in [mode : [Pin -> Mode], ic : SUBSET Bit, rate : BOOLEAN]
        BY <1>1 DEF RadioStep, TypeOK, Registers
    <2>6. fromRadio' \in Seq(Response)
        <3>1. CASE command.op = "query"
            <4>1. command.pin \in Pin
                BY <3>1, <2>1 DEF RadioCommand, ProgramStep, SendsStep, Query
            <4>2. [op |-> "query", pin |-> command.pin, mode |-> mode[command.pin]] \in Response
                BY <4>1 DEF Response, TypeOK
            <4>3. fromRadio' = Append(fromRadio, [op |-> "query", pin |-> command.pin, mode |-> mode[command.pin]])
                BY <1>1, <3>1 DEF RadioStep
            <4> QED BY <4>2, <4>3, AppendFacts
        <3>2. CASE command.op = "queryIC"
            <4>1. [op |-> "queryIC", bits |-> ic] \in Response
                BY DEF Response, TypeOK
            <4>2. fromRadio' = Append(fromRadio, [op |-> "queryIC", bits |-> ic])
                BY <1>1, <3>2 DEF RadioStep
            <4> QED BY <4>1, <4>2, AppendFacts
        <3>3. CASE command.op \notin {"query", "queryIC"}
            BY <1>1, <3>3 DEF RadioStep
        <3> QED BY <3>1, <3>2, <3>3
    <2> HIDE DEF command
    <2> QED
        BY <1>1, <2>1, <2>2, <2>3, <2>4, <2>5, <2>6 DEF RadioStep, TypeOK, gatewayVars
<1>2. CASE RadioRestart
    BY <1>2 DEF RadioRestart, TypeOK, gatewayVars
<1> QED BY <1>1, <1>2

LEMMA StepTyped == Typed /\ [Next]_vars => Typed'
<1>1. ASSUME Typed, UNCHANGED vars PROVE Typed'
    BY <1>1 DEF vars, gatewayVars, radioVars, Typed, TypeOK
<1> QED BY <1>1, GatewayTyped, RadioTyped DEF Next

\* Types hold at every step, for any pins and commands.
THEOREM TypesHold == Spec => []TypeOK
<1>1. Typed => TypeOK
    BY DEF Typed
<1> QED BY <1>1, InitTyped, StepTyped, PTL DEF Spec

-----------------------------------------------------------------------------
(* What is behind what in a sequence *)

Absent(s, B) == \A i \in DOMAIN s : s[i] \notin B

\* Every element of A has one of B behind it.
Followed(s, A, B) ==
    \A i \in DOMAIN s : s[i] \in A => \E j \in DOMAIN s : j > i /\ s[j] \in B

LEMMA FollowedTail ==
    ASSUME NEW S, NEW A, NEW B, NEW s \in Seq(S), s # <<>>, Followed(s, A, B)
    PROVE  /\ Followed(Tail(s), A, B)
           /\ Absent(Tail(s), B) => Head(s) \notin A
           /\ Absent(Tail(s), B) /\ Head(s) \notin B => Absent(s, B)
<1>1. Followed(Tail(s), A, B)
    <2> SUFFICES ASSUME NEW i \in DOMAIN Tail(s), Tail(s)[i] \in A
                 PROVE  \E j \in DOMAIN Tail(s) : j > i /\ Tail(s)[j] \in B
        BY DEF Followed
    <2>1. PICK j \in DOMAIN s : j > i + 1 /\ s[j] \in B
        BY TailFacts DEF Followed
    <2>2. i \in Nat /\ j \in Nat /\ j # 1
        BY <2>1, TailFacts
    <2>3. j - 1 \in DOMAIN Tail(s) /\ Tail(s)[j - 1] = s[j]
        BY <2>2, TailFacts
    <2> QED BY <2>1, <2>2, <2>3
<1>2. ASSUME Absent(Tail(s), B), Head(s) \in A PROVE FALSE
    <2>1. PICK j \in DOMAIN s : j > 1 /\ s[j] \in B
        BY <1>2, TailFacts DEF Followed
    <2>2. j \in Nat /\ j # 1
        BY <2>1, TailFacts
    <2>3. j - 1 \in DOMAIN Tail(s) /\ Tail(s)[j - 1] = s[j]
        BY <2>2, TailFacts
    <2> QED BY <1>2, <2>1, <2>3 DEF Absent
<1>3. ASSUME Absent(Tail(s), B), Head(s) \notin B PROVE Absent(s, B)
    <2> SUFFICES ASSUME NEW i \in DOMAIN s PROVE s[i] \notin B
        BY DEF Absent
    <2>1. CASE i = 1
        BY <1>3, <2>1, TailFacts
    <2>2. CASE i # 1
        <3>1. i - 1 \in DOMAIN Tail(s) /\ Tail(s)[i - 1] = s[i]
            BY <2>2, TailFacts
        <3> QED BY <1>3, <3>1 DEF Absent
    <2> QED BY <2>1, <2>2
<1> QED BY <1>1, <1>2, <1>3

LEMMA FollowedAppend ==
    ASSUME NEW S, NEW A, NEW B, NEW s \in Seq(S), NEW e \in S, e \notin A
    PROVE  /\ Followed(s, A, B) \/ e \in B => Followed(Append(s, e), A, B)
           /\ Absent(Append(s, e), B) => Absent(s, B) /\ e \notin B
<1>1. ASSUME Followed(s, A, B) PROVE Followed(Append(s, e), A, B)
    BY <1>1, AppendFacts DEF Followed
<1>2. ASSUME e \in B PROVE Followed(Append(s, e), A, B)
    BY <1>2, AppendFacts DEF Followed
<1>3. ASSUME Absent(Append(s, e), B) PROVE Absent(s, B) /\ e \notin B
    BY <1>3, AppendFacts DEF Absent
<1> QED BY <1>1, <1>2, <1>3

LEMMA EmptyFollowed ==
    ASSUME NEW A, NEW B
    PROVE  Followed(<<>>, A, B) /\ Absent(<<>>, B)
BY DEF Followed, Absent

-----------------------------------------------------------------------------
(* What is stored *)

Writes == [op : {"WR"}]
Changes == [op : {"set"}, pin : Pin, mode : 0..9] \cup [op : {"setIC"}, bits : SUBSET Bit]

\* Every change that is on its way has a WR behind it; and when none is left,
\* the registers are stored.
ChangesAreWritten ==
    /\ Followed(program, Changes, Writes)
    /\ Followed(sends, Changes, Writes)
    /\ (\E n \in Pin : last[n] # None) /\ Absent(program, Writes) /\ Absent(sends, Writes) =>
          /\ Followed(toRadio, Changes, Writes)
          /\ Absent(toRadio, Writes) => saved.mode = mode /\ saved.ic = ic

LEMMA InitWritten == Init => ChangesAreWritten
BY EmptyFollowed DEF Init, ChangesAreWritten

LEMMA SendMessageWritten ==
    ASSUME Typed, ChangesAreWritten, SendMessage
    PROVE  ChangesAreWritten'
<1>1. PICK n \in Pin, m \in 0..9 : program' = Steps(n, m)
    BY ModeTyped DEF SendMessage, Steps
<1>2. \A i \in DOMAIN program' : i # 1 => program'[i] \notin Changes
    <2>1. /\ Write \notin Changes /\ QueryPin(n) \notin Changes
          /\ UpdateMask(n, m) \notin Changes /\ QueryIc \notin Changes
        BY DEF Changes, Write, QueryPin, UpdateMask, QueryIc
    <2>2. /\ DOMAIN program' \subseteq {1, 2, 3, 4, 5}
          /\ 4 \in DOMAIN program' \/ 5 \in DOMAIN program' => ChangeDetection
        <3>1. DOMAIN program' = IF ChangeDetection THEN 1..5 ELSE 1..3
            BY <1>1, StepsTyped
        <3>2. 1..5 = {1, 2, 3, 4, 5} /\ 1..3 = {1, 2, 3}
            OBVIOUS
        <3> QED BY <3>1, <3>2
    <2>3. /\ program'[2] = Write /\ program'[3] = QueryPin(n)
          /\ ChangeDetection => program'[4] = UpdateMask(n, m) /\ program'[5] = QueryIc
        BY <1>1, StepsTyped
    <2> QED BY <2>1, <2>2, <2>3
<1>3. 2 \in DOMAIN program' /\ program'[2] \in Writes /\ DOMAIN program' \subseteq Nat
    BY <1>1, StepsTyped DEF Write, Writes
<1>4. Followed(program', Changes, Writes)
    BY <1>2, <1>3 DEF Followed
<1>5. ~Absent(program', Writes)
    BY <1>3 DEF Absent
<1> QED BY <1>4, <1>5 DEF SendMessage, ChangesAreWritten

LEMMA MqttThreadWritten ==
    ASSUME Typed, ChangesAreWritten, MqttThreadStep
    PROVE  ChangesAreWritten'
<1> DEFINE h == Head(program)
<1>1. /\ program # <<>> /\ program' = Tail(program) /\ program \in Seq(ProgramStep)
      /\ UNCHANGED <<sends, last, mode, ic, saved>>
    BY DEF MqttThreadStep, Typed, radioVars
<1>2. h \in ProgramStep
    BY <1>1, TailFacts
<1>3. Followed(program, Changes, Writes)
    BY DEF ChangesAreWritten
<1>4. /\ Followed(program', Changes, Writes)
      /\ Absent(program', Writes) => h \notin Changes
      /\ Absent(program', Writes) /\ h \notin Writes => Absent(program, Writes)
    BY <1>1, <1>3, FollowedTail
<1>5. CASE h.op = "mask"
    <2>1. h \notin Writes /\ toRadio' = toRadio
        BY <1>5 DEF Writes, MqttThreadStep
    <2> QED BY <1>1, <1>4, <2>1 DEF ChangesAreWritten
<1>6. CASE h.op # "mask"
    <2>1. toRadio' = Append(toRadio, h) /\ h \in RadioCommand /\ toRadio \in Seq(RadioCommand)
        BY <1>2, <1>6 DEF MqttThreadStep, Typed, RadioCommand
    <2>2. ASSUME h \notin Changes
          PROVE  /\ Followed(toRadio, Changes, Writes) \/ h \in Writes
                    => Followed(toRadio', Changes, Writes)
                 /\ Absent(toRadio', Writes) => Absent(toRadio, Writes) /\ h \notin Writes
        BY <2>1, <2>2, FollowedAppend
    <2> HIDE DEF h
    <2> QED BY <1>1, <1>4, <2>2 DEF ChangesAreWritten
<1> QED BY <1>5, <1>6

LEMMA ReaderSendsWritten ==
    ASSUME Typed, ChangesAreWritten, ReaderSends
    PROVE  ChangesAreWritten'
<1> DEFINE h == Head(sends)
<1>1. /\ sends # <<>> /\ sends' = Tail(sends) /\ sends \in Seq(SendsStep)
      /\ toRadio' = Append(toRadio, h) /\ toRadio \in Seq(RadioCommand)
      /\ UNCHANGED <<program, last, mode, ic, saved>>
    BY DEF ReaderSends, Typed, radioVars
<1>2. h \in RadioCommand
    BY <1>1, TailFacts DEF RadioCommand
<1>3. Followed(sends, Changes, Writes)
    BY DEF ChangesAreWritten
<1>4. /\ Followed(sends', Changes, Writes)
      /\ Absent(sends', Writes) => h \notin Changes
      /\ Absent(sends', Writes) /\ h \notin Writes => Absent(sends, Writes)
    BY <1>1, <1>3, FollowedTail
<1>5. ASSUME h \notin Changes
      PROVE  /\ Followed(toRadio, Changes, Writes) \/ h \in Writes
                => Followed(toRadio', Changes, Writes)
             /\ Absent(toRadio', Writes) => Absent(toRadio, Writes) /\ h \notin Writes
    BY <1>1, <1>2, <1>5, FollowedAppend
<1> HIDE DEF h
<1> QED BY <1>1, <1>4, <1>5 DEF ChangesAreWritten

\* What an identification makes the gateway send changes no pin.
LEMMA IdentifiedSends ==
    ASSUME Typed, Identified
    PROVE  \A i \in DOMAIN sends' : sends'[i] \in Query \cup [op : {"IR"}]
<1> DEFINE Sent == Query \cup [op : {"IR"}]
<1>1. PICK queries \in [1..Cardinality(Pin) -> {QueryPin(n) : n \in Pin}] :
        sends' \in {queries, <<SetRate>> \o queries}
    BY DEF Identified
<1>2. queries \in [1..Cardinality(Pin) -> Sent]
    BY <1>1 DEF QueryPin, Query
<1>3. SetRate \in Sent
    BY DEF SetRate
<1> HIDE DEF Sent
<1>4. queries \in Seq(Sent)
    BY <1>2, PinsFinite, ShortSequences
<1>5. <<SetRate>> \in Seq(Sent)
    BY <1>3
<1>6. <<SetRate>> \o queries \in Seq(Sent)
    BY <1>4, <1>5
<1>7. sends' \in Seq(Sent)
    BY <1>1, <1>4, <1>6
<1>8. \A i \in DOMAIN sends' : sends'[i] \in Sent
    BY <1>7
<1> QED BY <1>8 DEF Sent

LEMMA ReaderWritten ==
    ASSUME Typed, ChangesAreWritten, Identified \/ OnPinResponse \/ OnIcResponse
    PROVE  ChangesAreWritten'
<1>1. CASE Identified
    <2>1. Followed(sends', Changes, Writes)
        BY <1>1, IdentifiedSends DEF Followed, Changes, Query
    <2>2. Absent(sends, Writes)
        BY <1>1, EmptyFollowed DEF Identified, ReaderIdle
    <2> QED BY <1>1, <2>1, <2>2 DEF Identified, ChangesAreWritten, radioVars
<1>2. CASE OnPinResponse
    BY <1>2 DEF OnPinResponse, ChangesAreWritten, radioVars
<1>3. CASE OnIcResponse
    <2>1. PICK bits : sends' \in {<<>>, <<SetIc(bits), Write>>}
        BY <1>3 DEF OnIcResponse
    <2>2. Followed(<<SetIc(bits), Write>>, Changes, Writes)
        BY DEF Followed, Changes, Writes, Write
    <2>3. Followed(sends', Changes, Writes)
        BY <2>1, <2>2, EmptyFollowed
    <2>4. Absent(sends, Writes)
        BY <1>3, EmptyFollowed DEF OnIcResponse, ReaderIdle
    <2> QED BY <1>3, <2>3, <2>4 DEF OnIcResponse, ChangesAreWritten, radioVars
<1> QED BY <1>1, <1>2, <1>3

LEMMA RadioWritten ==
    ASSUME Typed, ChangesAreWritten, RadioStep
    PROVE  ChangesAreWritten'
<1> DEFINE h == Head(toRadio)
<1>1. /\ toRadio # <<>> /\ toRadio' = Tail(toRadio) /\ toRadio \in Seq(RadioCommand)
      /\ UNCHANGED <<program, sends, last>>
    BY DEF RadioStep, Typed, gatewayVars
<1>2. h \in RadioCommand
    BY <1>1, TailFacts
<1>3. SUFFICES ASSUME Followed(toRadio, Changes, Writes),
                      Absent(toRadio, Writes) => saved.mode = mode /\ saved.ic = ic
               PROVE  /\ Followed(toRadio', Changes, Writes)
                      /\ Absent(toRadio', Writes) => saved'.mode = mode' /\ saved'.ic = ic'
    BY <1>1 DEF ChangesAreWritten
<1>4. /\ Followed(toRadio', Changes, Writes)
      /\ Absent(toRadio', Writes) => h \notin Changes
      /\ Absent(toRadio', Writes) /\ h \notin Writes => Absent(toRadio, Writes)
    BY <1>1, <1>3, FollowedTail
<1>5. ASSUME h \notin Changes PROVE mode' = mode /\ ic' = ic
    <2>1. h.op \notin {"set", "setIC"}
        BY <1>2, <1>5 DEF RadioCommand, ProgramStep, SendsStep, Query, Changes
    <2> QED BY <2>1 DEF RadioStep
<1>6. ASSUME h \in Writes PROVE saved'.mode = mode /\ saved'.ic = ic
    BY <1>6 DEF RadioStep, Writes, Registers
<1>7. ASSUME h \notin Writes PROVE saved' = saved
    <2>1. h.op # "WR"
        BY <1>2, <1>7 DEF RadioCommand, ProgramStep, SendsStep, Query, Writes
    <2> QED BY <2>1 DEF RadioStep
<1> HIDE DEF h
<1> QED BY <1>3, <1>4, <1>5, <1>6, <1>7

LEMMA StepWritten == Typed /\ ChangesAreWritten /\ [Next]_vars => ChangesAreWritten'
<1> SUFFICES ASSUME Typed, ChangesAreWritten, [Next]_vars PROVE ChangesAreWritten'
    OBVIOUS
<1>1. CASE UNCHANGED vars
    BY <1>1 DEF vars, gatewayVars, radioVars, ChangesAreWritten
<1>2. CASE RadioRestart
    BY <1>2 DEF RadioRestart, gatewayVars, ChangesAreWritten
<1>3. CASE GatewayRestart
    BY <1>3, EmptyFollowed DEF GatewayRestart, ChangesAreWritten, TypeOK, Typed
<1> QED BY <1>1, <1>2, <1>3, SendMessageWritten, MqttThreadWritten, ReaderSendsWritten,
           ReaderWritten, RadioWritten DEF Next, ReaderStep

\* A settled command survives a power cut of the radio, however many overlap.
THEOREM SettledStored == Spec => []SettledIsStored
<1>1. Typed /\ ChangesAreWritten => SettledIsStored
    BY EmptyFollowed DEF SettledIsStored, Settled, ChangesAreWritten
<1> QED BY <1>1, InitTyped, StepTyped, InitWritten, StepWritten, PTL DEF Spec

-----------------------------------------------------------------------------
(* What is reported *)

Queries(n) == [op : {"query"}, pin : {n}]
Sets(n) == [op : {"set"}, pin : {n}, mode : 0..9]
Answers(n) == [op : {"query"}, pin : {n}, mode : Mode]
Stale(n) == [op : {"query"}, pin : {n}, mode : Mode \ {mode[n]}]

\* The last answer about the pin, on its way or reported, is the register.
LastAnswerHolds(n) ==
    /\ Followed(fromRadio, Stale(n), Answers(n))
    /\ Absent(fromRadio, Answers(n)) => reported[n] = mode[n]

\* Every change of a commanded pin that is on its way has a query behind it;
\* and when none is left, the last answer holds.
IsAsked(n) ==
    /\ Followed(program, Sets(n), Queries(n))
    /\ last[n] # None /\ Absent(program, Queries(n)) /\ Absent(sends, Queries(n)) =>
          /\ Followed(toRadio, Sets(n), Queries(n))
          /\ Absent(toRadio, Queries(n)) => LastAnswerHolds(n)

ChangesAreAsked == \A n \in Pin : IsAsked(n)

LEMMA InitAsked == Init => ChangesAreAsked
BY EmptyFollowed DEF Init, ChangesAreAsked, IsAsked

LEMMA SendMessageAsked ==
    ASSUME Typed, NEW n \in Pin, IsAsked(n), SendMessage
    PROVE  IsAsked(n)'
<1>1. PICK p \in Pin, m \in 0..9 : program' = Steps(p, m) /\ last' = [last EXCEPT ![p] = m]
    BY ModeTyped DEF SendMessage, Steps
<1>2. /\ 1 \in DOMAIN program' /\ program'[1] = SetPin(p, m)
      /\ 3 \in DOMAIN program' /\ program'[3] = QueryPin(p)
      /\ DOMAIN program' \subseteq Nat
    BY <1>1, StepsTyped
<1>3. \A i \in DOMAIN program' : i # 1 => program'[i] \notin Sets(n)
    <2>1. /\ Write \notin Sets(n) /\ QueryPin(p) \notin Sets(n)
          /\ UpdateMask(p, m) \notin Sets(n) /\ QueryIc \notin Sets(n)
        BY DEF Sets, Write, QueryPin, UpdateMask, QueryIc
    <2>2. DOMAIN program' = IF ChangeDetection THEN 1..5 ELSE 1..3
        BY <1>1, StepsTyped
    <2>3. 1..5 = {1, 2, 3, 4, 5} /\ 1..3 = {1, 2, 3}
        OBVIOUS
    <2>4. /\ program'[2] = Write /\ program'[3] = QueryPin(p)
          /\ ChangeDetection => program'[4] = UpdateMask(p, m) /\ program'[5] = QueryIc
        BY <1>1, StepsTyped
    <2> QED BY <2>1, <2>2, <2>3, <2>4
<1>4. CASE p = n
    <2>1. program'[3] \in Queries(n)
        BY <1>2, <1>4 DEF QueryPin, Queries
    <2>2. Followed(program', Sets(n), Queries(n))
        BY <1>2, <1>3, <2>1 DEF Followed
    <2>3. ~Absent(program', Queries(n))
        BY <1>2, <2>1 DEF Absent
    <2> QED BY <2>2, <2>3 DEF IsAsked, SendMessage, Queries, Sets
<1>5. CASE p # n
    <2>1. program'[1] \notin Sets(n)
        BY <1>2, <1>5 DEF SetPin, Sets
    <2>2. Followed(program', Sets(n), Queries(n))
        BY <1>3, <2>1 DEF Followed
    <2>3. Absent(program, Queries(n))
        BY EmptyFollowed DEF SendMessage
    <2>4. last'[n] = last[n]
        BY <1>1, <1>5 DEF Typed, TypeOK
    <2> QED
        BY <2>2, <2>3, <2>4
        DEF IsAsked, SendMessage, radioVars, LastAnswerHolds, Stale, Answers, Queries, Sets
<1> QED BY <1>4, <1>5

\* A command passes from a thread to the channel.
LEMMA MqttThreadAsked ==
    ASSUME Typed, NEW n \in Pin, IsAsked(n), MqttThreadStep
    PROVE  IsAsked(n)'
<1> DEFINE h == Head(program)
<1>1. /\ program # <<>> /\ program' = Tail(program) /\ program \in Seq(ProgramStep)
      /\ UNCHANGED <<sends, last, mode, fromRadio, reported>>
    BY DEF MqttThreadStep, Typed, radioVars
<1>2. h \in ProgramStep
    BY <1>1, TailFacts
<1>3. Followed(program, Sets(n), Queries(n))
    BY DEF IsAsked
<1>4. /\ Followed(program', Sets(n), Queries(n))
      /\ Absent(program', Queries(n)) => h \notin Sets(n)
      /\ Absent(program', Queries(n)) /\ h \notin Queries(n) => Absent(program, Queries(n))
    BY <1>1, <1>3, FollowedTail
<1>5. LastAnswerHolds(n)' <=> LastAnswerHolds(n)
    BY <1>1 DEF LastAnswerHolds, Stale, Answers
<1>6. CASE h.op = "mask"
    <2>1. h \notin Queries(n) /\ toRadio' = toRadio
        BY <1>6 DEF Queries, MqttThreadStep
    <2> QED BY <1>1, <1>4, <1>5, <2>1 DEF IsAsked, Sets, Queries
<1>7. CASE h.op # "mask"
    <2>1. toRadio' = Append(toRadio, h) /\ h \in RadioCommand /\ toRadio \in Seq(RadioCommand)
        BY <1>2, <1>7 DEF MqttThreadStep, Typed, RadioCommand
    <2>2. ASSUME h \notin Sets(n)
          PROVE  /\ Followed(toRadio, Sets(n), Queries(n)) \/ h \in Queries(n)
                    => Followed(toRadio', Sets(n), Queries(n))
                 /\ Absent(toRadio', Queries(n)) => Absent(toRadio, Queries(n)) /\ h \notin Queries(n)
        BY <2>1, <2>2, FollowedAppend
    <2> HIDE DEF h
    <2> QED BY <1>1, <1>4, <1>5, <2>2 DEF IsAsked, Sets, Queries
<1> QED BY <1>6, <1>7

LEMMA ReaderSendsAsked ==
    ASSUME Typed, NEW n \in Pin, IsAsked(n), ReaderSends
    PROVE  IsAsked(n)'
<1> DEFINE h == Head(sends)
<1>1. /\ sends # <<>> /\ sends' = Tail(sends) /\ sends \in Seq(SendsStep)
      /\ toRadio' = Append(toRadio, h) /\ toRadio \in Seq(RadioCommand)
      /\ UNCHANGED <<program, last, mode, fromRadio, reported>>
    BY DEF ReaderSends, Typed, radioVars
<1>2. h \in SendsStep /\ h \in RadioCommand
    BY <1>1, TailFacts DEF RadioCommand
<1>3. h \notin Sets(n)
    BY <1>2 DEF SendsStep, Query, Sets
<1>4. Followed(sends, {}, Queries(n))
    BY DEF Followed
<1>5. Absent(sends', Queries(n)) /\ h \notin Queries(n) => Absent(sends, Queries(n))
    BY <1>1, <1>4, FollowedTail
<1>6. LastAnswerHolds(n)' <=> LastAnswerHolds(n)
    BY <1>1 DEF LastAnswerHolds, Stale, Answers
<1>7. /\ Followed(toRadio, Sets(n), Queries(n)) \/ h \in Queries(n)
            => Followed(toRadio', Sets(n), Queries(n))
      /\ Absent(toRadio', Queries(n)) => Absent(toRadio, Queries(n)) /\ h \notin Queries(n)
    BY <1>1, <1>2, <1>3, FollowedAppend
<1> HIDE DEF h
<1> QED BY <1>1, <1>5, <1>6, <1>7 DEF IsAsked, Sets, Queries

\* The reader takes an answer: it was the last of its pin, or another follows.
LEMMA AnswerTaken ==
    ASSUME Typed, NEW n \in Pin, LastAnswerHolds(n), OnPinResponse \/ OnIcResponse
    PROVE  LastAnswerHolds(n)'
<1> DEFINE r == Head(fromRadio)
<1>1. fromRadio # <<>> /\ fromRadio' = Tail(fromRadio) /\ fromRadio \in Seq(Response) /\ mode' = mode
    BY DEF OnPinResponse, OnIcResponse, Typed, radioVars
<1>2. r \in Response
    BY <1>1, TailFacts
<1>3. /\ Followed(fromRadio', Stale(n), Answers(n))
      /\ Absent(fromRadio', Answers(n)) => r \notin Stale(n)
      /\ Absent(fromRadio', Answers(n)) /\ r \notin Answers(n) => Absent(fromRadio, Answers(n))
    BY <1>1, FollowedTail DEF LastAnswerHolds
<1>4. Stale(n)' = Stale(n) /\ Answers(n)' = Answers(n)
    BY <1>1 DEF Stale, Answers
<1>5. SUFFICES ASSUME Absent(fromRadio', Answers(n)) PROVE reported'[n] = mode[n]
    BY <1>1, <1>3, <1>4 DEF LastAnswerHolds
<1>6. CASE r \in Answers(n)
    <2>1. r.op = "query" /\ r.pin = n /\ r.mode \in Mode
        BY <1>6 DEF Answers
    <2>2. r.mode = mode[n]
        BY <1>2, <1>3, <1>5, <1>6 DEF Answers, Stale
    <2>3. OnPinResponse
        BY <2>1 DEF OnIcResponse
    <2> QED BY <2>1, <2>2, <2>3 DEF OnPinResponse, Typed, TypeOK
<1>7. CASE r \notin Answers(n)
    <2>1. reported[n] = mode[n]
        BY <1>3, <1>5, <1>7 DEF LastAnswerHolds
    <2>2. CASE OnIcResponse
        BY <2>1, <2>2 DEF OnIcResponse
    <2>3. CASE OnPinResponse
        <3>1. r.op = "query"
            BY <2>3 DEF OnPinResponse
        <3>2. r.pin # n
            BY <1>2, <1>7, <3>1 DEF Response, Answers
        <3> QED BY <2>1, <2>3, <3>2 DEF OnPinResponse, Typed, TypeOK
    <2> QED BY <2>2, <2>3
<1> QED BY <1>6, <1>7

LEMMA ReaderAsked ==
    ASSUME Typed, NEW n \in Pin, IsAsked(n), Identified \/ OnPinResponse \/ OnIcResponse
    PROVE  IsAsked(n)'
<1>1. Absent(sends, Queries(n))
    BY EmptyFollowed DEF Identified, OnPinResponse, OnIcResponse, ReaderIdle
<1>2. UNCHANGED <<program, toRadio, last>>
    BY DEF Identified, OnPinResponse, OnIcResponse
<1>3. LastAnswerHolds(n) => LastAnswerHolds(n)'
    <2>1. CASE Identified
        BY <2>1 DEF Identified, LastAnswerHolds, Stale, Answers, radioVars
    <2> QED BY <2>1, AnswerTaken
<1> QED BY <1>1, <1>2, <1>3 DEF IsAsked, Sets, Queries

\* The radio answers a query with the register as it is.
LEMMA AnswerGiven ==
    ASSUME Typed, NEW n \in Pin, RadioStep, Head(toRadio) \notin Sets(n),
           LastAnswerHolds(n) \/ Head(toRadio) \in Queries(n)
    PROVE  LastAnswerHolds(n)'
<1> DEFINE h == Head(toRadio)
           answer == [op |-> "query", pin |-> h.pin, mode |-> mode[h.pin]]
           icAnswer == [op |-> "queryIC", bits |-> ic]
<1>1. h \in RadioCommand /\ fromRadio \in Seq(Response) /\ reported' = reported
    BY TailFacts DEF RadioStep, Typed, gatewayVars
<1>2. mode'[n] = mode[n]
    <2>1. CASE h.op = "set" /\ h.mode \in Mode
        <3>1. h.pin \in Pin /\ h.pin # n
            BY <1>1, <2>1 DEF RadioCommand, ProgramStep, SendsStep, Query, Sets
        <3> QED BY <2>1, <3>1 DEF RadioStep, Typed, TypeOK
    <2>2. CASE ~(h.op = "set" /\ h.mode \in Mode)
        BY <2>2 DEF RadioStep
    <2> QED BY <2>1, <2>2
<1>3. Stale(n)' = Stale(n) /\ Answers(n)' = Answers(n)
    BY <1>2 DEF Stale, Answers
<1>4. CASE h.op = "query"
    <2>1. h.pin \in Pin
        BY <1>1, <1>4 DEF RadioCommand, ProgramStep, SendsStep, Query
    <2>2. answer \in Response /\ answer \notin Stale(n)
        BY <2>1 DEF Response, Stale, Typed, TypeOK
    <2>3. fromRadio' = Append(fromRadio, answer)
        BY <1>4 DEF RadioStep
    <2>4. h \in Queries(n) => answer \in Answers(n)
        BY <2>1 DEF Queries, Answers, Typed, TypeOK
    <2> HIDE DEF answer
    <2>5. /\ Followed(fromRadio, Stale(n), Answers(n)) \/ answer \in Answers(n)
                => Followed(fromRadio', Stale(n), Answers(n))
          /\ Absent(fromRadio', Answers(n)) => Absent(fromRadio, Answers(n)) /\ answer \notin Answers(n)
        BY <1>1, <2>2, <2>3, FollowedAppend
    <2> QED BY <1>1, <1>2, <1>3, <2>4, <2>5 DEF LastAnswerHolds
<1>5. CASE h.op # "query"
    <2>1. LastAnswerHolds(n)
        BY <1>5 DEF Queries
    <2>2. CASE h.op = "queryIC"
        <3>1. icAnswer \in Response /\ icAnswer \notin Stale(n)
            BY DEF Response, Stale, Typed, TypeOK
        <3>2. fromRadio' = Append(fromRadio, icAnswer)
            BY <2>2 DEF RadioStep
        <3> HIDE DEF icAnswer
        <3>3. /\ Followed(fromRadio, Stale(n), Answers(n))
                    => Followed(fromRadio', Stale(n), Answers(n))
              /\ Absent(fromRadio', Answers(n)) => Absent(fromRadio, Answers(n))
            BY <1>1, <3>1, <3>2, FollowedAppend
        <3> QED BY <1>1, <1>2, <1>3, <2>1, <3>3 DEF LastAnswerHolds
    <2>3. CASE h.op # "queryIC"
        <3>1. fromRadio' = fromRadio
            BY <1>5, <2>3 DEF RadioStep
        <3> QED BY <1>1, <1>2, <1>3, <2>1, <3>1 DEF LastAnswerHolds
    <2> QED BY <2>2, <2>3
<1> QED BY <1>4, <1>5

LEMMA RadioAsked ==
    ASSUME Typed, NEW n \in Pin, IsAsked(n), RadioStep
    PROVE  IsAsked(n)'
<1> DEFINE h == Head(toRadio)
<1>1. /\ toRadio # <<>> /\ toRadio' = Tail(toRadio) /\ toRadio \in Seq(RadioCommand)
      /\ UNCHANGED <<program, sends, last>>
    BY DEF RadioStep, Typed, gatewayVars
<1>2. SUFFICES ASSUME Followed(toRadio, Sets(n), Queries(n)),
                      Absent(toRadio, Queries(n)) => LastAnswerHolds(n)
               PROVE  /\ Followed(toRadio', Sets(n), Queries(n))
                      /\ Absent(toRadio', Queries(n)) => LastAnswerHolds(n)'
    BY <1>1 DEF IsAsked, Sets, Queries
<1>3. /\ Followed(toRadio', Sets(n), Queries(n))
      /\ Absent(toRadio', Queries(n)) => h \notin Sets(n)
      /\ Absent(toRadio', Queries(n)) /\ h \notin Queries(n) => Absent(toRadio, Queries(n))
    BY <1>1, <1>2, FollowedTail
<1> QED BY <1>2, <1>3, AnswerGiven

LEMMA StepAsked ==
    Typed /\ ChangesAreWritten /\ ChangesAreAsked /\ [Next]_vars => ChangesAreAsked'
<1> SUFFICES ASSUME Typed, ChangesAreWritten, [Next]_vars, NEW n \in Pin, IsAsked(n)
             PROVE  IsAsked(n)'
    BY DEF ChangesAreAsked
<1>1. CASE UNCHANGED vars
    BY <1>1 DEF vars, gatewayVars, radioVars, IsAsked, LastAnswerHolds, Stale, Answers, Sets, Queries
<1>2. CASE RadioRestart
    <2>1. UNCHANGED gatewayVars /\ UNCHANGED <<toRadio, fromRadio>>
        BY <1>2 DEF RadioRestart
    <2>2. last[n] # None => saved.mode = mode
        BY <1>2, EmptyFollowed DEF RadioRestart, Settled, ChangesAreWritten
    <2>3. last[n] # None => mode' = mode
        BY <1>2, <2>2 DEF RadioRestart
    <2>4. last[n] # None => (LastAnswerHolds(n)' <=> LastAnswerHolds(n))
        BY <2>1, <2>3 DEF LastAnswerHolds, Stale, Answers, gatewayVars
    <2> QED BY <2>1, <2>4 DEF IsAsked, Sets, Queries, gatewayVars
<1>3. CASE GatewayRestart
    BY <1>3, EmptyFollowed DEF GatewayRestart, IsAsked, TypeOK, Typed
<1> QED BY <1>1, <1>2, <1>3, SendMessageAsked, MqttThreadAsked, ReaderSendsAsked,
           ReaderAsked, RadioAsked DEF Next, ReaderStep

\* What is reported of a commanded pin is what the radio has.
THEOREM ReportCorrect == Spec => []ReportMatchesMode
<1>1. Typed /\ ChangesAreAsked => ReportMatchesMode
    BY EmptyFollowed
       DEF ReportMatchesMode, Settled, ChangesAreAsked, IsAsked, LastAnswerHolds
<1> QED BY <1>1, InitTyped, StepTyped, InitWritten, StepWritten, InitAsked, StepAsked,
           PTL DEF Spec

-----------------------------------------------------------------------------
(* The mask and the commands *)

MaskUpdates == [op : {"mask"}, pin : Pin, mode : 0..9]

\* Without change_detection there is no mask.
MaskIsWanted == ~ChangeDetection => mask = None /\ Absent(program, MaskUpdates)

\* What the MQTT thread has still to do is about the last command of the pin.
ProgramIsLast ==
    \A i \in DOMAIN program :
        program[i].op \in {"set", "mask"} => program[i].mode = last[program[i].pin]

\* The bit of a commanded pin that is its own is that of its last command, or
\* will be.
MaskFollows ==
    \A n \in Pin : ChangeDetection /\ last[n] # None /\ OwnBit(n) =>
        \/ UpdateMask(n, last[n]) \in {program[i] : i \in DOMAIN program}
        \/ mask # None /\ (n \in mask <=> last[n] = Input)

\* The gateway acts on its own only where it has been given a command.
SomeCommanded == mask # None \/ program # <<>> => \E n \in Pin : last[n] # None

MaskInv == MaskIsWanted /\ ProgramIsLast /\ SomeCommanded

LEMMA AbsentTail ==
    ASSUME NEW S, NEW B, NEW s \in Seq(S), s # <<>>
    PROVE  Absent(s, B) <=> Head(s) \notin B /\ Absent(Tail(s), B)
<1>1. ASSUME Absent(s, B) PROVE Head(s) \notin B /\ Absent(Tail(s), B)
    BY <1>1, TailFacts DEF Absent
<1>2. ASSUME Head(s) \notin B, Absent(Tail(s), B) PROVE Absent(s, B)
    <2> SUFFICES ASSUME NEW i \in DOMAIN s PROVE s[i] \notin B
        BY DEF Absent
    <2>1. CASE i = 1
        BY <1>2, <2>1, TailFacts
    <2>2. CASE i # 1
        <3>1. i - 1 \in DOMAIN Tail(s) /\ Tail(s)[i - 1] = s[i]
            BY <2>2, TailFacts
        <3> QED BY <1>2, <3>1 DEF Absent
    <2> QED BY <2>1, <2>2
<1> QED BY <1>1, <1>2

LEMMA AbsentAppend ==
    ASSUME NEW S, NEW B, NEW s \in Seq(S), NEW e \in S
    PROVE  Absent(Append(s, e), B) <=> Absent(s, B) /\ e \notin B
<1>1. ASSUME Absent(Append(s, e), B) PROVE Absent(s, B) /\ e \notin B
    BY <1>1, AppendFacts DEF Absent
<1>2. ASSUME Absent(s, B), e \notin B PROVE Absent(Append(s, e), B)
    BY <1>2, AppendFacts DEF Absent
<1> QED BY <1>1, <1>2

LEMMA InitMask == Init => MaskInv /\ MaskFollows
BY EmptyFollowed DEF Init, MaskInv, MaskIsWanted, ProgramIsLast, MaskFollows, SomeCommanded

\* What a command adds to the program, by its kind.
LEMMA SendMessageProgram ==
    ASSUME SendMessage
    PROVE  \E n \in Pin, m \in 0..9 :
              /\ last' = [last EXCEPT ![n] = m]
              /\ program' \in Seq(ProgramStep) /\ program' # <<>>
              /\ SetPin(n, m) \in {program'[i] : i \in DOMAIN program'}
              /\ ChangeDetection => UpdateMask(n, m) \in {program'[i] : i \in DOMAIN program'}
              /\ \A i \in DOMAIN program' :
                    program'[i] \in {SetPin(n, m), Write, QueryPin(n)}
                                      \cup (IF ChangeDetection THEN {UpdateMask(n, m), QueryIc} ELSE {})
<1>1. PICK n \in Pin, m \in 0..9 : program' = Steps(n, m) /\ last' = [last EXCEPT ![n] = m]
    BY ModeTyped DEF SendMessage, Steps
<1>2. /\ program' \in Seq(ProgramStep)
      /\ DOMAIN program' = IF ChangeDetection THEN 1..5 ELSE 1..3
      /\ program'[1] = SetPin(n, m) /\ program'[2] = Write /\ program'[3] = QueryPin(n)
      /\ ChangeDetection => program'[4] = UpdateMask(n, m) /\ program'[5] = QueryIc
    BY <1>1, StepsTyped
<1>3. 1..5 = {1, 2, 3, 4, 5} /\ 1..3 = {1, 2, 3}
    OBVIOUS
<1>4. program' # <<>>
    BY <1>2, <1>3
<1>5. \A i \in DOMAIN program' :
        program'[i] \in {SetPin(n, m), Write, QueryPin(n)}
                          \cup (IF ChangeDetection THEN {UpdateMask(n, m), QueryIc} ELSE {})
    BY <1>2, <1>3
<1>6. /\ SetPin(n, m) \in {program'[i] : i \in DOMAIN program'}
      /\ ChangeDetection => UpdateMask(n, m) \in {program'[i] : i \in DOMAIN program'}
    BY <1>2, <1>3
<1> QED BY <1>1, <1>2, <1>4, <1>5, <1>6

LEMMA SendMessageMask ==
    ASSUME Typed, MaskInv, SendMessage
    PROVE  MaskInv' /\ (MaskFollows => MaskFollows')
<1>1. PICK n \in Pin, m \in 0..9 :
        /\ last' = [last EXCEPT ![n] = m]
        /\ program' # <<>>
        /\ ChangeDetection => UpdateMask(n, m) \in {program'[i] : i \in DOMAIN program'}
        /\ \A i \in DOMAIN program' :
              program'[i] \in {SetPin(n, m), Write, QueryPin(n)}
                                \cup (IF ChangeDetection THEN {UpdateMask(n, m), QueryIc} ELSE {})
    BY SendMessageProgram
<1>2. last'[n] = m /\ m # None /\ \A q \in Pin : q # n => last'[q] = last[q]
    BY <1>1, PinConfigAssumption DEF Typed, TypeOK
<1>3. MaskIsWanted'
    <2> SUFFICES ASSUME ~ChangeDetection PROVE mask' = None /\ Absent(program', MaskUpdates)
        BY DEF MaskIsWanted
    <2>1. {SetPin(n, m), Write, QueryPin(n)} \cap MaskUpdates = {}
        BY DEF SetPin, Write, QueryPin, MaskUpdates
    <2>2. mask' = None
        BY DEF SendMessage, MaskInv, MaskIsWanted
    <2> QED BY <1>1, <2>1, <2>2 DEF Absent
<1>4. ProgramIsLast'
    <2> SUFFICES ASSUME NEW i \in DOMAIN program', program'[i].op \in {"set", "mask"}
                 PROVE  program'[i].mode = last'[program'[i].pin]
        BY DEF ProgramIsLast
    <2>1. program'[i] \in {SetPin(n, m), UpdateMask(n, m)}
        BY <1>1 DEF Write, QueryPin, QueryIc
    <2> QED BY <1>2, <2>1 DEF SetPin, UpdateMask
<1>5. MaskFollows => MaskFollows'
    <2> SUFFICES ASSUME MaskFollows, NEW q \in Pin, ChangeDetection, last'[q] # None, OwnBit(q)'
                 PROVE  \/ UpdateMask(q, last'[q]) \in {program'[i] : i \in DOMAIN program'}
                        \/ mask' # None /\ (q \in mask' <=> last'[q] = Input)
        BY DEF MaskFollows
    <2>1. CASE q = n
        BY <1>1, <1>2, <2>1
    <2>2. CASE q # n
        <3>1. {program[i] : i \in DOMAIN program} = {} /\ mask' = mask
            BY DEF SendMessage
        <3>2. last[q] = last'[q]
            BY <1>2, <2>2
        <3>3. OwnBit(q)
            BY <1>2 DEF OwnBit, Offset
        <3> QED BY <3>1, <3>2, <3>3 DEF MaskFollows
    <2> QED BY <2>1, <2>2
<1>6. SomeCommanded'
    BY <1>2 DEF SomeCommanded
<1> QED BY <1>3, <1>4, <1>5, <1>6 DEF MaskInv

LEMMA Shortened ==
    ASSUME NEW S, NEW s \in Seq(S), s # <<>>
    PROVE  {s[i] : i \in DOMAIN s} = {Head(s)} \cup {Tail(s)[i] : i \in DOMAIN Tail(s)}
<1>1. ASSUME NEW i \in DOMAIN s
      PROVE  s[i] \in {Head(s)} \cup {Tail(s)[j] : j \in DOMAIN Tail(s)}
    <2>1. CASE i = 1
        BY <2>1, TailFacts
    <2>2. CASE i # 1
        <3>1. i - 1 \in DOMAIN Tail(s) /\ Tail(s)[i - 1] = s[i]
            BY <2>2, TailFacts
        <3> QED BY <3>1
    <2> QED BY <2>1, <2>2
<1>2. Head(s) \in {s[i] : i \in DOMAIN s}
    BY TailFacts
<1>3. ASSUME NEW i \in DOMAIN Tail(s) PROVE Tail(s)[i] \in {s[j] : j \in DOMAIN s}
    BY TailFacts
<1> QED BY <1>1, <1>2, <1>3

LEMMA MqttThreadMask ==
    ASSUME Typed, MaskInv, MqttThreadStep
    PROVE  MaskInv' /\ (MaskFollows => MaskFollows')
<1> DEFINE h == Head(program)
<1>1. /\ program # <<>> /\ program' = Tail(program) /\ program \in Seq(ProgramStep)
      /\ last' = last
    BY DEF MqttThreadStep, Typed
<1>2. h \in ProgramStep
    BY <1>1, TailFacts
<1>3. {program[i] : i \in DOMAIN program} = {h} \cup {program'[i] : i \in DOMAIN program'}
    BY <1>1, Shortened
<1>4. h \in {program[i] : i \in DOMAIN program} /\ h.op = "mask" => h.mode = last[h.pin]
    BY DEF MaskInv, ProgramIsLast
<1>5. ProgramIsLast'
    <2>1. \A s \in {program[i] : i \in DOMAIN program} :
             s.op \in {"set", "mask"} => s.mode = last[s.pin]
        BY DEF MaskInv, ProgramIsLast
    <2> QED BY <1>1, <1>3, <2>1 DEF ProgramIsLast
<1>6. CASE h.op = "mask"
    <2>1. h \in MaskUpdates /\ h = UpdateMask(h.pin, h.mode)
        BY <1>2, <1>6 DEF ProgramStep, Query, MaskUpdates, UpdateMask
    <2>2. h.pin \in Pin /\ h.mode = last[h.pin]
        BY <1>3, <1>4, <1>6, <2>1 DEF MaskUpdates
    <2>3. ~Absent(program, MaskUpdates)
        BY <1>1, <2>1, AbsentTail
    <2>4. ChangeDetection
        BY <2>3 DEF MaskInv, MaskIsWanted
    <2>5. mask' = NewMask(h.pin, h.mode)
        BY <1>6 DEF MqttThreadStep
    <2>6. mask' # None
        <3>1. \A n \in 0..12 : n % 12 \in 0..12
            BY SMT
        <3>2. Offset(h.pin) \in Bit
            BY <2>2, <3>1, PinsFinite DEF Offset, Bit
        <3>3. mask' \in SUBSET Bit
            BY <2>5, <3>2 DEF NewMask, Typed, TypeOK
        <3> QED BY <3>3, PinConfigAssumption DEF Bit
    <2>7. ASSUME MaskFollows PROVE MaskFollows'
        <3> SUFFICES ASSUME NEW n \in Pin, last[n] # None, OwnBit(n)
                     PROVE  \/ UpdateMask(n, last[n]) \in {program'[i] : i \in DOMAIN program'}
                            \/ mask' # None /\ (n \in mask' <=> last[n] = Input)
            BY <1>1 DEF MaskFollows, OwnBit
        <3>1. CASE n = h.pin
            BY <2>2, <2>5, <2>6, <3>1 DEF NewMask, OwnBit
        <3>2. CASE n # h.pin
            <4>1. UpdateMask(n, last[n]) # h
                BY <3>2 DEF UpdateMask
            <4>2. \/ UpdateMask(n, last[n]) \in {program[i] : i \in DOMAIN program}
                  \/ mask # None /\ (n \in mask <=> last[n] = Input)
                BY <2>4, <2>7 DEF MaskFollows
            <4>3. last[h.pin] # None
                <5>1. h.mode \in 0..9
                    BY <2>1 DEF MaskUpdates
                <5> QED BY <2>2, <5>1, PinConfigAssumption
            <4>4. Offset(h.pin) # n
                BY <2>2, <3>2, <4>3 DEF OwnBit
            <4>5. mask # None => (n \in mask' <=> n \in mask)
                BY <2>5, <4>4 DEF NewMask
            <4> QED BY <1>3, <2>6, <4>1, <4>2, <4>5
        <3> QED BY <3>1, <3>2
    <2>8. SomeCommanded'
        BY <1>1 DEF MaskInv, SomeCommanded
    <2> QED BY <1>5, <2>4, <2>7, <2>8 DEF MaskInv, MaskIsWanted
<1>7. CASE h.op # "mask"
    <2>1. mask' = mask /\ \A n \in Pin : UpdateMask(n, last[n]) # h
        BY <1>7 DEF MqttThreadStep, UpdateMask
    <2>2. MaskIsWanted'
        BY <1>1, <2>1, AbsentTail DEF MaskInv, MaskIsWanted
    <2>3. MaskFollows => MaskFollows'
        BY <1>1, <1>3, <2>1 DEF MaskFollows, OwnBit
    <2>4. SomeCommanded'
        BY <1>1, <2>1 DEF MaskInv, SomeCommanded
    <2> QED BY <1>5, <2>2, <2>3, <2>4 DEF MaskInv
<1> QED BY <1>6, <1>7

LEMMA StepMask ==
    Typed /\ MaskInv /\ [Next]_vars
      => MaskInv' /\ (MaskFollows => MaskFollows')
<1> SUFFICES ASSUME Typed, MaskInv, [Next]_vars
             PROVE  MaskInv' /\ (MaskFollows => MaskFollows')
    OBVIOUS
<1>1. CASE GatewayRestart
    BY <1>1, EmptyFollowed
       DEF GatewayRestart, MaskInv, MaskIsWanted, ProgramIsLast, MaskFollows, SomeCommanded
<1>2. CASE UNCHANGED <<mask, program, last>>
    BY <1>2 DEF MaskInv, MaskIsWanted, ProgramIsLast, MaskFollows, OwnBit, SomeCommanded
<1>3. CASE Identified \/ ReaderStep \/ RadioStep \/ RadioRestart \/ UNCHANGED vars
    BY <1>2, <1>3
       DEF Identified, ReaderStep, ReaderSends, OnPinResponse, OnIcResponse, RadioStep,
           RadioRestart, vars, gatewayVars
<1> QED BY <1>1, <1>3, SendMessageMask, MqttThreadMask DEF Next

-----------------------------------------------------------------------------
(* Commands given one at a time *)

IcQueries == [op : {"queryIC"}]
IcChanges == [op : {"setIC"}, bits : SUBSET Bit]
IcAnswers == [op : {"queryIC"}, bits : SUBSET Bit]

\* Changes of IC to anything but the mask; the answer that it is the mask.
OtherChanges == [op : {"setIC"}, bits : (SUBSET Bit) \ {mask}]
Agreements == [op : {"queryIC"}, bits : {mask}]

\* The MQTT thread asks for IC last, and until then nobody else is about it.
ProgramAlone ==
    /\ Followed(program, MaskUpdates, IcQueries)
    /\ \A i \in DOMAIN program : program[i] \in IcQueries => i = Len(program)
    /\ program # <<>> =>
          /\ Absent(sends, IcChanges)
          /\ Absent(toRadio, IcChanges) /\ Absent(toRadio, IcQueries)
          /\ Absent(fromRadio, IcAnswers)

\* From the query on, IC is only changed to the mask; an answer that agrees
\* stays true; and with nothing about it under way it is the mask.
IcFollows ==
    mask # None /\ Absent(program, IcQueries) =>
        /\ Absent(sends, OtherChanges) /\ Absent(toRadio, OtherChanges)
        /\ Absent(fromRadio, Agreements) \/ ic = mask
        /\ \/ ic = mask
           \/ ~Absent(sends, IcChanges) \/ ~Absent(toRadio, IcChanges)
           \/ ~Absent(toRadio, IcQueries) \/ ~Absent(fromRadio, IcAnswers)

\* The settings of a commanded pin under way are its last command; with none
\* left, the pin has the function commanded, if it exists.
OtherSets(n) == [op : {"set"}, pin : {n}, mode : 0..9 \ {last[n]}]

ModeFollows ==
    \A n \in Pin : last[n] # None =>
        /\ Absent(toRadio, OtherSets(n))
        /\ last[n] \in Mode /\ Absent(program, Sets(n)) /\ Absent(toRadio, Sets(n))
             => mode[n] = last[n]

SerialInv == ProgramAlone /\ IcFollows /\ ModeFollows

LEMMA InitSerial == Init => SerialInv
BY EmptyFollowed DEF Init, SerialInv, ProgramAlone, IcFollows, ModeFollows

LEMMA BeginsSettled ==
    ASSUME Typed, MaxFlight = 0, MayBegin
    PROVE  /\ program = <<>> /\ sends = <<>> /\ toRadio = <<>> /\ fromRadio = <<>>
           /\ \A B : /\ Absent(program, B) /\ Absent(sends, B)
                     /\ Absent(toRadio, B) /\ Absent(fromRadio, B)
<1>1. Len(toRadio) + Len(fromRadio) + Len(sends) >= 0
    BY DEF Typed
<1>2. Settled
    BY <1>1 DEF MayBegin
<1> QED BY <1>2, EmptyFollowed DEF Settled

LEMMA SendMessageSerial ==
    ASSUME Typed, SerialInv, SendMessage, MaxFlight = 0
    PROVE  SerialInv'
<1>1. PICK n \in Pin, m \in 0..9 : program' = Steps(n, m) /\ last' = [last EXCEPT ![n] = m]
    BY ModeTyped DEF SendMessage, Steps
<1>2. /\ program' \in Seq(ProgramStep)
      /\ DOMAIN program' = IF ChangeDetection THEN 1..5 ELSE 1..3
      /\ program'[1] = SetPin(n, m) /\ program'[2] = Write /\ program'[3] = QueryPin(n)
      /\ ChangeDetection => program'[4] = UpdateMask(n, m) /\ program'[5] = QueryIc
    BY <1>1, StepsTyped
<1>3. 1..5 = {1, 2, 3, 4, 5} /\ 1..3 = {1, 2, 3}
    OBVIOUS
<1>4. /\ UNCHANGED <<mask, sends, toRadio, fromRadio, mode, ic>>
      /\ \A B : /\ Absent(program, B) /\ Absent(sends, B)
                /\ Absent(toRadio, B) /\ Absent(fromRadio, B)
    BY BeginsSettled DEF SendMessage, radioVars
<1>5. ProgramAlone'
    <2>1. /\ {SetPin(n, m), Write, QueryPin(n)} \cap MaskUpdates = {}
          /\ {SetPin(n, m), Write, QueryPin(n), UpdateMask(n, m)} \cap IcQueries = {}
          /\ QueryIc \in IcQueries /\ QueryIc \notin MaskUpdates
        BY DEF SetPin, Write, QueryPin, UpdateMask, QueryIc, MaskUpdates, IcQueries
    <2>2. Followed(program', MaskUpdates, IcQueries)
        BY <1>2, <1>3, <2>1 DEF Followed
    <2>3. \A i \in DOMAIN program' : program'[i] \in IcQueries => i = Len(program')
        <3> SUFFICES ASSUME NEW i \in DOMAIN program', program'[i] \in IcQueries
                     PROVE  i = Len(program')
            OBVIOUS
        <3>1. ChangeDetection /\ i = 5
            BY <1>2, <1>3, <2>1
        <3>2. DOMAIN program' = 1..5
            BY <1>2, <3>1
        <3> QED BY <1>2, <3>1, <3>2
    <2> QED BY <1>4, <2>2, <2>3 DEF ProgramAlone
<1>6. IcFollows'
    BY <1>4 DEF SerialInv, IcFollows, OtherChanges, Agreements
<1>7. ModeFollows'
    <2> SUFFICES ASSUME NEW q \in Pin, last'[q] # None,
                        last'[q] \in Mode, Absent(program', Sets(q))
                 PROVE  mode'[q] = last'[q]
        BY <1>4 DEF ModeFollows, Sets
    <2>1. CASE q = n
        <3>1. SetPin(n, m) \in Sets(q) /\ 1 \in DOMAIN program'
            BY <1>2, <1>3, <2>1 DEF SetPin, Sets
        <3> QED BY <1>2, <3>1 DEF Absent
    <2>2. CASE q # n
        <3>1. last'[q] = last[q]
            BY <1>1, <2>2 DEF Typed, TypeOK
        <3> QED BY <1>4, <3>1 DEF SerialInv, ModeFollows
    <2> QED BY <2>1, <2>2
<1> QED BY <1>5, <1>6, <1>7 DEF SerialInv

LEMMA MqttThreadSerial ==
    ASSUME Typed, MaskInv, SerialInv, MqttThreadStep
    PROVE  SerialInv'
<1> DEFINE h == Head(program)
<1>1. /\ program # <<>> /\ program' = Tail(program) /\ program \in Seq(ProgramStep)
      /\ UNCHANGED <<sends, fromRadio, last, mode, ic>>
    BY DEF MqttThreadStep, Typed, radioVars
<1>2. /\ h \in ProgramStep /\ h = program[1] /\ 1 \in DOMAIN program
      /\ Tail(program) \in Seq(ProgramStep)
    BY <1>1, TailFacts
<1>3. /\ Absent(sends, IcChanges)
      /\ Absent(toRadio, IcChanges) /\ Absent(toRadio, IcQueries)
      /\ Absent(fromRadio, IcAnswers)
    BY <1>1 DEF SerialInv, ProgramAlone
<1>4. /\ h.op = "mask" => toRadio' = toRadio
      /\ h.op # "mask" => /\ h \in RadioCommand /\ toRadio \in Seq(RadioCommand)
                          /\ toRadio' = Append(toRadio, h) /\ mask' = mask
    BY <1>2 DEF MqttThreadStep, Typed, RadioCommand
<1>5. \A B : /\ h.op = "mask" => (Absent(toRadio', B) <=> Absent(toRadio, B))
             /\ h.op # "mask" => (Absent(toRadio', B) <=> Absent(toRadio, B) /\ h \notin B)
    BY <1>4, AbsentAppend
<1>6. \A B : Absent(program, B) <=> h \notin B /\ Absent(program', B)
    BY <1>1, AbsentTail
<1>7. ASSUME h \in IcQueries PROVE program' = <<>>
    <2>1. Len(program) = 1
        BY <1>2, <1>7 DEF SerialInv, ProgramAlone
    <2> QED BY <1>1, <2>1
<1>8. /\ Followed(program', MaskUpdates, IcQueries)
      /\ Absent(program', IcQueries) => h \notin MaskUpdates
    BY <1>1, FollowedTail DEF SerialInv, ProgramAlone
<1>9. h \notin IcChanges
    BY <1>2 DEF ProgramStep, Query, IcChanges
<1>10. ProgramAlone'
    <2>1. \A i \in DOMAIN program' : program'[i] \in IcQueries => i = Len(program')
        <3> SUFFICES ASSUME NEW i \in DOMAIN program', program'[i] \in IcQueries
                     PROVE  i = Len(program')
            OBVIOUS
        <3>1. i + 1 \in DOMAIN program /\ program[i + 1] \in IcQueries
            BY <1>1, TailFacts
        <3>2. i + 1 = Len(program)
            BY <3>1 DEF SerialInv, ProgramAlone
        <3> QED BY <1>1, <3>2
    <2>2. program' # <<>> => Absent(toRadio', IcChanges) /\ Absent(toRadio', IcQueries)
        BY <1>3, <1>5, <1>7, <1>9
    <2> QED BY <1>1, <1>3, <1>8, <2>1, <2>2 DEF ProgramAlone
<1>11. IcFollows'
    <2> SUFFICES ASSUME mask' # None, Absent(program', IcQueries)
                 PROVE  /\ Absent(sends, OtherChanges') /\ Absent(toRadio', OtherChanges')
                        /\ Absent(fromRadio, Agreements') \/ ic = mask'
                        /\ \/ ic = mask'
                           \/ ~Absent(sends, IcChanges) \/ ~Absent(toRadio', IcChanges)
                           \/ ~Absent(toRadio', IcQueries) \/ ~Absent(fromRadio, IcAnswers)
        BY <1>1 DEF IcFollows, IcQueries, IcChanges, IcAnswers
    <2>1. h.op # "mask" /\ mask' = mask
        <3>1. h.op = "mask" => h \in MaskUpdates
            BY <1>2 DEF ProgramStep, Query, MaskUpdates
        <3> QED BY <1>4, <1>8, <3>1
    <2>2. CASE h \in IcQueries
        <3>1. ~Absent(toRadio', IcQueries)
            BY <1>5, <2>1, <2>2
        <3>2. OtherChanges' \subseteq IcChanges
            BY DEF OtherChanges, IcChanges
        <3>3. Absent(sends, OtherChanges') /\ Absent(toRadio', OtherChanges')
            BY <1>3, <1>5, <1>9, <2>1, <3>2 DEF Absent
        <3>4. Absent(fromRadio, Agreements') \/ ic = mask'
            <4>1. mask' \in SUBSET Bit
                BY <2>1 DEF Typed, TypeOK
            <4>2. Agreements' \subseteq IcAnswers
                BY <4>1 DEF Agreements, IcAnswers
            <4> QED BY <1>3, <4>2 DEF Absent
        <3> QED BY <3>1, <3>3, <3>4
    <2>3. CASE h \notin IcQueries
        <3>1. Absent(program, IcQueries)
            BY <1>6, <2>3
        <3>2. OtherChanges' = OtherChanges /\ Agreements' = Agreements /\ h \notin OtherChanges
            BY <1>9, <2>1 DEF OtherChanges, Agreements, IcChanges
        <3> QED BY <1>5, <1>9, <2>1, <2>3, <3>1, <3>2 DEF SerialInv, IcFollows
    <2> QED BY <2>2, <2>3
<1>12. ModeFollows'
    <2> SUFFICES ASSUME NEW n \in Pin, last[n] # None
                 PROVE  /\ Absent(toRadio', OtherSets(n))
                        /\ last[n] \in Mode /\ Absent(program', Sets(n)) /\ Absent(toRadio', Sets(n))
                             => mode[n] = last[n]
        BY <1>1 DEF ModeFollows, Sets, OtherSets
    <2>1. Absent(toRadio, OtherSets(n))
        BY DEF SerialInv, ModeFollows
    <2>2. h \notin OtherSets(n)
        <3>1. h.op = "set" => h.mode = last[h.pin]
            BY <1>2 DEF MaskInv, ProgramIsLast
        <3> QED BY <3>1 DEF OtherSets
    <2>3. h.op = "mask" => h \notin Sets(n)
        BY DEF Sets
    <2> HIDE DEF h
    <2> QED BY <1>5, <1>6, <2>1, <2>2, <2>3 DEF SerialInv, ModeFollows
<1> QED BY <1>10, <1>11, <1>12 DEF SerialInv

LEMMA ReaderSendsSerial ==
    ASSUME Typed, SerialInv, ReaderSends
    PROVE  SerialInv'
<1> DEFINE h == Head(sends)
<1>1. /\ sends # <<>> /\ sends' = Tail(sends) /\ sends \in Seq(SendsStep)
      /\ toRadio' = Append(toRadio, h) /\ toRadio \in Seq(RadioCommand)
      /\ UNCHANGED <<program, fromRadio, last, mode, ic, mask>>
    BY DEF ReaderSends, Typed, radioVars
<1>2. h \in SendsStep /\ h \in RadioCommand
    BY <1>1, TailFacts DEF RadioCommand
<1>3. h \notin IcQueries /\ \A n \in Pin : h \notin Sets(n) /\ h \notin OtherSets(n)
    BY <1>2 DEF SendsStep, Query, IcQueries, Sets, OtherSets
<1>4. \A B : /\ Absent(sends, B) <=> h \notin B /\ Absent(sends', B)
             /\ Absent(toRadio', B) <=> Absent(toRadio, B) /\ h \notin B
    BY <1>1, <1>2, AbsentTail, AbsentAppend
<1>5. OtherChanges' = OtherChanges /\ Agreements' = Agreements
      /\ \A n \in Pin : OtherSets(n)' = OtherSets(n)
    BY <1>1 DEF OtherChanges, Agreements, OtherSets
<1> HIDE DEF h
<1>6. ProgramAlone'
    BY <1>1, <1>3, <1>4 DEF SerialInv, ProgramAlone
<1>7. IcFollows'
    BY <1>1, <1>3, <1>4, <1>5 DEF SerialInv, IcFollows
<1>8. ModeFollows'
    BY <1>1, <1>3, <1>4, <1>5 DEF SerialInv, ModeFollows
<1> QED BY <1>6, <1>7, <1>8 DEF SerialInv

LEMMA ReaderSerial ==
    ASSUME Typed, MaskInv, SerialInv, Identified \/ OnPinResponse \/ OnIcResponse
    PROVE  SerialInv'
<1>1. /\ UNCHANGED <<program, toRadio, last, mode, ic, mask>>
      /\ \A B : Absent(sends, B)
    BY EmptyFollowed DEF Identified, OnPinResponse, OnIcResponse, ReaderIdle, radioVars
<1>2. OtherChanges' = OtherChanges /\ Agreements' = Agreements
      /\ \A n \in Pin : OtherSets(n)' = OtherSets(n)
    BY <1>1 DEF OtherChanges, Agreements, OtherSets
<1>3. ModeFollows'
    BY <1>1, <1>2 DEF SerialInv, ModeFollows
<1>4. CASE Identified
    <2>1. fromRadio' = fromRadio
        BY <1>4 DEF Identified
    <2>2. Absent(sends', IcChanges) /\ Absent(sends', OtherChanges)
        BY <1>4, IdentifiedSends DEF Absent, IcChanges, OtherChanges, Query
    <2>3. ProgramAlone'
        BY <1>1, <2>1, <2>2 DEF SerialInv, ProgramAlone
    <2>4. IcFollows'
        BY <1>1, <1>2, <2>1, <2>2 DEF SerialInv, IcFollows
    <2> QED BY <1>3, <2>3, <2>4 DEF SerialInv
<1>5. CASE OnPinResponse \/ OnIcResponse
    <2> DEFINE r == Head(fromRadio)
    <2>1. fromRadio # <<>> /\ fromRadio' = Tail(fromRadio) /\ fromRadio \in Seq(Response)
        BY <1>5 DEF OnPinResponse, OnIcResponse, Typed
    <2>2. r \in Response
        BY <2>1, TailFacts
    <2>3. \A B : Absent(fromRadio, B) <=> r \notin B /\ Absent(fromRadio', B)
        BY <2>1, AbsentTail
    <2>4. CASE OnPinResponse
        <3>1. r \notin IcAnswers /\ r \notin Agreements /\ sends' = sends
            BY <2>4 DEF OnPinResponse, IcAnswers, Agreements
        <3> HIDE DEF r
        <3>2. ProgramAlone'
            BY <1>1, <2>3, <3>1 DEF SerialInv, ProgramAlone
        <3>3. IcFollows'
            BY <1>1, <1>2, <2>3, <3>1 DEF SerialInv, IcFollows
        <3> QED BY <1>3, <3>2, <3>3 DEF SerialInv
    <2>5. CASE OnIcResponse
        <3>1. r \in IcAnswers
            BY <2>2, <2>5 DEF OnIcResponse, Response, IcAnswers
        <3>2. program = <<>>
            BY <2>3, <3>1 DEF SerialInv, ProgramAlone
        <3>3. ProgramAlone'
            BY <1>1, <3>2 DEF SerialInv, ProgramAlone
        <3>4. IcFollows'
            <4> SUFFICES ASSUME mask # None
                         PROVE  /\ Absent(sends', OtherChanges) /\ Absent(toRadio, OtherChanges)
                                /\ Absent(fromRadio', Agreements) \/ ic = mask
                                /\ \/ ic = mask
                                   \/ ~Absent(sends', IcChanges) \/ ~Absent(toRadio, IcChanges)
                                   \/ ~Absent(toRadio, IcQueries) \/ ~Absent(fromRadio', IcAnswers)
                BY <1>1, <1>2 DEF IcFollows
            <4>1. /\ Absent(toRadio, OtherChanges)
                  /\ Absent(fromRadio, Agreements) \/ ic = mask
                BY <3>2, EmptyFollowed DEF SerialInv, IcFollows
            <4>2. ChangeDetection /\ mask \in SUBSET Bit
                BY DEF MaskInv, MaskIsWanted, Typed, TypeOK
            <4>3. CASE r.bits = mask
                <5>1. r \in Agreements
                    BY <3>1, <4>3 DEF IcAnswers, Agreements
                <5>2. sends' = <<>>
                    BY <2>5, <4>3 DEF OnIcResponse
                <5> QED BY <2>3, <4>1, <5>1, <5>2, EmptyFollowed
            <4>4. CASE r.bits # mask
                <5>1. sends' = <<SetIc(mask), Write>>
                    BY <2>5, <4>2, <4>4 DEF OnIcResponse
                <5>2. SetIc(mask) \in IcChanges /\ SetIc(mask) \notin OtherChanges /\ Write \notin OtherChanges
                    BY <4>2 DEF SetIc, Write, IcChanges, OtherChanges
                <5>3. Absent(sends', OtherChanges) /\ ~Absent(sends', IcChanges)
                    BY <5>1, <5>2 DEF Absent
                <5> QED BY <2>3, <4>1, <5>3
            <4> QED BY <4>3, <4>4
        <3> QED BY <1>3, <3>3, <3>4 DEF SerialInv
    <2> QED BY <1>5, <2>4, <2>5
<1> QED BY <1>4, <1>5

LEMMA RadioSerial ==
    ASSUME Typed, SerialInv, RadioStep
    PROVE  SerialInv'
<1> DEFINE h == Head(toRadio)
           pinAnswer == [op |-> "query", pin |-> h.pin, mode |-> mode[h.pin]]
           icAnswer == [op |-> "queryIC", bits |-> ic]
<1>1. /\ toRadio # <<>> /\ toRadio' = Tail(toRadio) /\ toRadio \in Seq(RadioCommand)
      /\ fromRadio \in Seq(Response)
      /\ UNCHANGED <<program, sends, last, mask>>
    BY DEF RadioStep, Typed, gatewayVars
<1>2. h \in RadioCommand
    BY <1>1, TailFacts
<1>3. \A B : Absent(toRadio, B) <=> h \notin B /\ Absent(toRadio', B)
    BY <1>1, AbsentTail
<1>4. OtherChanges' = OtherChanges /\ Agreements' = Agreements
      /\ \A n \in Pin : OtherSets(n)' = OtherSets(n)
    BY <1>1 DEF OtherChanges, Agreements, OtherSets
\* What the command does to IC and to the answers about it.
<1>5. /\ h.op = "setIC" <=> h \in IcChanges
      /\ h.op = "queryIC" <=> h \in IcQueries
    BY <1>2 DEF RadioCommand, ProgramStep, SendsStep, Query, IcChanges, IcQueries
<1>6. \A B : B \in {IcAnswers, Agreements} =>
         \/ h \notin IcQueries /\ (Absent(fromRadio', B) <=> Absent(fromRadio, B))
         \/ h \in IcQueries /\ (Absent(fromRadio', B) <=> Absent(fromRadio, B) /\ icAnswer \notin B)
    <2> SUFFICES ASSUME NEW B \in {IcAnswers, Agreements}
                 PROVE  \/ h \notin IcQueries /\ (Absent(fromRadio', B) <=> Absent(fromRadio, B))
                        \/ /\ h \in IcQueries
                           /\ Absent(fromRadio', B) <=> Absent(fromRadio, B) /\ icAnswer \notin B
        OBVIOUS
    <2>1. CASE h.op = "query"
        <3>1. h.pin \in Pin
            BY <1>2, <2>1 DEF RadioCommand, ProgramStep, SendsStep, Query
        <3>2. pinAnswer \in Response /\ pinAnswer \notin B
            BY <3>1 DEF Response, IcAnswers, Agreements, Typed, TypeOK
        <3>3. fromRadio' = Append(fromRadio, pinAnswer)
            BY <2>1 DEF RadioStep
        <3> HIDE DEF pinAnswer
        <3> QED BY <1>1, <1>5, <2>1, <3>2, <3>3, AbsentAppend
    <2>2. CASE h.op = "queryIC"
        <3>1. icAnswer \in Response
            BY DEF Response, Typed, TypeOK
        <3>2. fromRadio' = Append(fromRadio, icAnswer)
            BY <2>2 DEF RadioStep
        <3> HIDE DEF icAnswer
        <3> QED BY <1>1, <1>5, <2>2, <3>1, <3>2, AbsentAppend
    <2>3. CASE h.op \notin {"query", "queryIC"}
        <3>1. fromRadio' = fromRadio
            BY <2>3 DEF RadioStep
        <3> QED BY <1>5, <2>3, <3>1
    <2> QED BY <2>1, <2>2, <2>3
<1>7. /\ h \in IcChanges => ic' = h.bits
      /\ h \notin IcChanges => ic' = ic
    BY <1>5 DEF RadioStep
<1>8. icAnswer \in IcAnswers /\ (icAnswer \in Agreements => ic = mask)
    BY DEF IcAnswers, Agreements, Typed, TypeOK
<1>9. h \in IcChanges /\ h \notin OtherChanges => h.bits = mask
    BY DEF IcChanges, OtherChanges
<1>10. h \in IcChanges => h \notin IcQueries
    BY DEF IcChanges, IcQueries
<1> HIDE DEF icAnswer
<1>11. ProgramAlone'
    <2>1. program # <<>> => h \notin IcQueries
        BY <1>3 DEF SerialInv, ProgramAlone
    <2>2. program # <<>> => Absent(fromRadio', IcAnswers)
        BY <1>6, <2>1 DEF SerialInv, ProgramAlone
    <2> HIDE DEF h
    <2> QED BY <1>1, <1>3, <2>2 DEF SerialInv, ProgramAlone
<1>12. IcFollows'
    <2> HIDE DEF h
    <2> SUFFICES ASSUME mask # None, Absent(program, IcQueries)
                 PROVE  /\ Absent(sends, OtherChanges) /\ Absent(toRadio', OtherChanges)
                        /\ Absent(fromRadio', Agreements) \/ ic' = mask
                        /\ \/ ic' = mask
                           \/ ~Absent(sends, IcChanges) \/ ~Absent(toRadio', IcChanges)
                           \/ ~Absent(toRadio', IcQueries) \/ ~Absent(fromRadio', IcAnswers)
        BY <1>1, <1>4 DEF IcFollows
    <2>1. /\ Absent(sends, OtherChanges) /\ Absent(toRadio, OtherChanges)
          /\ Absent(fromRadio, Agreements) \/ ic = mask
          /\ \/ ic = mask
             \/ ~Absent(sends, IcChanges) \/ ~Absent(toRadio, IcChanges)
             \/ ~Absent(toRadio, IcQueries) \/ ~Absent(fromRadio, IcAnswers)
        BY DEF SerialInv, IcFollows
    <2>2. h \notin OtherChanges /\ Absent(toRadio', OtherChanges)
        BY <1>3, <2>1
    <2>3. CASE h \in IcChanges
        BY <1>7, <1>9, <2>1, <2>2, <2>3
    <2>4. CASE h \notin IcChanges
        <3>1. Absent(fromRadio', Agreements) \/ ic = mask
            BY <1>6, <1>8, <2>1
        <3>2. CASE h \in IcQueries
            <4>1. ~Absent(fromRadio', IcAnswers)
                BY <1>6, <1>8, <3>2
            <4> QED BY <1>7, <2>1, <2>2, <2>4, <3>1, <4>1
        <3>3. CASE h \notin IcQueries
            <4>1. Absent(fromRadio', IcAnswers) <=> Absent(fromRadio, IcAnswers)
                BY <1>6, <3>3
            <4> QED BY <1>3, <1>7, <2>1, <2>2, <2>4, <3>1, <3>3, <4>1
        <3> QED BY <3>2, <3>3
    <2> QED BY <2>3, <2>4
<1>13. ModeFollows'
    <2> SUFFICES ASSUME NEW n \in Pin, last[n] # None
                 PROVE  /\ Absent(toRadio', OtherSets(n))
                        /\ last[n] \in Mode /\ Absent(program, Sets(n)) /\ Absent(toRadio', Sets(n))
                             => mode'[n] = last[n]
        BY <1>1, <1>4 DEF ModeFollows, Sets
    <2>1. Absent(toRadio', OtherSets(n)) /\ h \notin OtherSets(n)
        BY <1>3 DEF SerialInv, ModeFollows
    <2> SUFFICES ASSUME last[n] \in Mode, Absent(program, Sets(n)), Absent(toRadio', Sets(n))
                 PROVE  mode'[n] = last[n]
        BY <2>1
    <2>2. CASE h \in Sets(n)
        <3>1. h.op = "set" /\ h.pin = n /\ h.mode = last[n]
            BY <2>1, <2>2 DEF Sets, OtherSets
        <3> QED BY <3>1 DEF RadioStep, Typed, TypeOK
    <2>3. CASE h \notin Sets(n)
        <3>1. mode[n] = last[n]
            BY <1>3, <2>3 DEF SerialInv, ModeFollows
        <3>2. mode'[n] = mode[n]
            <4>1. CASE h.op = "set" /\ h.mode \in Mode
                <5>1. h.pin \in Pin /\ h.pin # n
                    BY <1>2, <2>3, <4>1 DEF RadioCommand, ProgramStep, SendsStep, Query, Sets
                <5> QED BY <4>1, <5>1 DEF RadioStep, Typed, TypeOK
            <4>2. CASE ~(h.op = "set" /\ h.mode \in Mode)
                BY <4>2 DEF RadioStep
            <4> QED BY <4>1, <4>2
        <3> QED BY <3>1, <3>2
    <2> QED BY <2>2, <2>3
<1> QED BY <1>11, <1>12, <1>13 DEF SerialInv

\* A power cut gives back what is there: the commands so far are stored.
LEMMA RestartsSerial ==
    ASSUME Typed, ChangesAreWritten, MaskInv, SerialInv, RadioRestart \/ GatewayRestart
    PROVE  SerialInv'
<1>1. CASE RadioRestart
    <2>1. UNCHANGED <<mask, program, sends, toRadio, fromRadio, last>> /\ program = <<>>
        BY <1>1 DEF RadioRestart, gatewayVars, Settled
    <2>2. (\E n \in Pin : last[n] # None) => saved.mode = mode /\ saved.ic = ic
        BY <1>1, EmptyFollowed DEF RadioRestart, Settled, ChangesAreWritten
    <2>3. mask # None => ic' = ic
        BY <1>1, <2>2 DEF RadioRestart, MaskInv, SomeCommanded
    <2>4. \A n \in Pin : last[n] # None => mode' = mode
        BY <1>1, <2>2 DEF RadioRestart
    <2>5. OtherChanges' = OtherChanges /\ Agreements' = Agreements
          /\ \A n \in Pin : OtherSets(n)' = OtherSets(n)
        BY <2>1 DEF OtherChanges, Agreements, OtherSets
    <2>6. ProgramAlone'
        BY <2>1 DEF SerialInv, ProgramAlone
    <2>7. IcFollows'
        BY <2>1, <2>3, <2>5 DEF SerialInv, IcFollows
    <2>8. ModeFollows'
        BY <2>1, <2>4, <2>5 DEF SerialInv, ModeFollows
    <2> QED BY <2>6, <2>7, <2>8 DEF SerialInv
<1>2. CASE GatewayRestart
    BY <1>2, EmptyFollowed DEF GatewayRestart, SerialInv, ProgramAlone, IcFollows, ModeFollows
<1> QED BY <1>1, <1>2

LEMMA StepSerial ==
    ASSUME MaxFlight = 0
    PROVE  Typed /\ ChangesAreWritten /\ MaskInv /\ SerialInv /\ [Next]_vars => SerialInv'
<1> SUFFICES ASSUME Typed, ChangesAreWritten, MaskInv, SerialInv, [Next]_vars PROVE SerialInv'
    OBVIOUS
<1>1. CASE UNCHANGED vars
    BY <1>1 DEF vars, gatewayVars, radioVars, SerialInv, ProgramAlone, IcFollows, ModeFollows,
                OtherChanges, Agreements, OtherSets
<1> QED BY <1>1, SendMessageSerial, MqttThreadSerial, ReaderSendsSerial, ReaderSerial,
           RadioSerial, RestartsSerial DEF Next, ReaderStep

\* With commands one at a time: when all has settled the radio's IC register
\* is the gateway's mask.
THEOREM RegisterCorrect == ASSUME MaxFlight = 0 PROVE Spec => []RegisterFollowsMask
<1>1. SerialInv => RegisterFollowsMask
    BY EmptyFollowed DEF SerialInv, IcFollows, RegisterFollowsMask, Settled
<1>2. Typed /\ MaskInv /\ [Next]_vars => MaskInv'
    BY StepMask
<1>3. Typed /\ ChangesAreWritten /\ MaskInv /\ SerialInv /\ [Next]_vars => SerialInv'
    BY StepSerial
<1> QED BY <1>1, <1>2, <1>3, InitTyped, StepTyped, InitWritten, StepWritten, InitMask,
           InitSerial, PTL DEF Spec

\* And whatever pins are in use, pins 0 and 12 among them, a commanded pin with
\* a bit of its own is watched for changes exactly when it is an input.
THEOREM DetectionCorrect == ASSUME MaxFlight = 0 PROVE Spec => []DetectionMatchesMode
<1>1. MaskFollows /\ SerialInv => DetectionMatchesMode
    <2> SUFFICES ASSUME MaskFollows, SerialInv, Settled, ChangeDetection,
                        NEW n \in Pin, last[n] \in Mode, OwnBit(n)
                 PROVE  n \in ic <=> mode[n] = Input
        BY DEF DetectionMatchesMode
    <2>1. last[n] # None
        BY PinConfigAssumption DEF Mode
    <2>2. mask # None /\ (n \in mask <=> last[n] = Input)
        BY <2>1 DEF MaskFollows, Settled
    <2>3. ic = mask
        BY <2>2, EmptyFollowed DEF SerialInv, IcFollows, Settled
    <2>4. mode[n] = last[n]
        BY <2>1, EmptyFollowed DEF SerialInv, ModeFollows, Settled
    <2> QED BY <2>2, <2>3, <2>4
<1>2. Typed /\ MaskInv /\ [Next]_vars => MaskInv'
    BY StepMask
<1>3. Typed /\ MaskInv /\ MaskFollows /\ [Next]_vars => MaskFollows'
    BY StepMask
<1>4. Typed /\ ChangesAreWritten /\ MaskInv /\ SerialInv /\ [Next]_vars => SerialInv'
    BY StepSerial
<1> QED BY <1>1, <1>2, <1>3, <1>4, InitTyped, StepTyped, InitWritten, StepWritten, InitMask,
           InitSerial, PTL DEF Spec
=============================================================================
