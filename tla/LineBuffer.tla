------------------------------ MODULE LineBuffer ------------------------------
(***************************************************************************)
(* How XBeeWrapper.process puts together the text that remote radios send  *)
(* through their serial ports (src/xbee2mqtt/libs/xbee_wrapper.py): a text *)
(* arrives in packets cut anywhere, is buffered per radio until a newline, *)
(* and every line becomes one message "port:value".                        *)
(*                                                                         *)
(* A text is a sequence of bytes of Byte: "\n", "\r", ":" and any others.  *)
(***************************************************************************)
EXTENDS Integers, Sequences, SequencesExt, FiniteSets

CONSTANTS
    Address,        \* the radios
    Byte,           \* the bytes they send
    MaxChunk,       \* bound: bytes per packet
    MaxBytes,       \* bound: bytes sent in all
    DefaultPort     \* default_port_name

ASSUME LineBufferAssumption ==
    /\ {"\n", "\r", ":"} \subseteq Byte
    /\ MaxChunk \in Nat /\ MaxBytes \in Nat

VARIABLES
    buffer,         \* XBeeWrapper.buffer
    messages,       \* the messages given to on_message, per radio
    text,           \* history: all the bytes each radio sent
    lossless        \* history: the radios on whose lines on_message never raised

vars == <<buffer, messages, text, lossless>>

-----------------------------------------------------------------------------
(* Python's string operations *)

Count(s, byte) == Cardinality({i \in DOMAIN s : s[i] = byte})

\* splitlines() ends a line at "\n", at "\r" and at "\r\n".
SplitByte(state, byte) ==
    IF byte = "\n" /\ state.last = "\r" THEN [state EXCEPT !.last = byte]
    ELSE IF byte \in {"\n", "\r"}
    THEN [lines |-> Append(state.lines, state.line), line |-> <<>>, last |-> byte]
    ELSE [lines |-> state.lines, line |-> Append(state.line, byte), last |-> byte]

NothingSplit == [lines |-> <<>>, line |-> <<>>, last |-> "\n"]

\* For each n: the lines ended in the first n bytes of s, the line begun there
\* and the last of these bytes.
Splittings(s) ==
    LET upto[n \in 0..Len(s)] ==
            IF n = 0 THEN NothingSplit ELSE SplitByte(upto[n - 1], s[n])
    IN  upto

Splitting(s) == Splittings(s)[Len(s)]

SplitLines(s) ==
    LET split == Splitting(s) IN
    split.lines \o (IF split.line = <<>> THEN <<>> ELSE <<split.line>>)

\* rstrip(); "\r" and "\n" are the only blanks among the bytes.
Stripped(s) == SubSeq(s, 1, SelectLastInSeq(s, LAMBDA b : b \notin {"\r", "\n"}))

\* split(':', 1): a line without a colon is a value of the default port.
ToMessage(line) ==
    LET colon == SelectInSeq(line, LAMBDA b : b = ":") IN
    IF colon = 0 THEN [port |-> DefaultPort, value |-> line]
    ELSE [port |-> SubSeq(line, 1, colon - 1), value |-> SubSeq(line, colon + 1, Len(line))]

-----------------------------------------------------------------------------
\* Mutant: the rest of the buffer is what follows the first line.
MutantRest(lines, count) == IF Len(lines) > 1 THEN lines[2] ELSE <<>>

\* lines[count:][0], or nothing.
Rest(lines, count) == IF Len(lines) > count THEN lines[count + 1] ELSE <<>>

\* Mutant: one buffer for all the radios.
MutantReceive(a, data) ==
    LET whole == buffer[a] \o data
        count == Count(whole, "\n")
        lines == SplitLines(whole)
        new == [i \in 1..count |-> ToMessage(Stripped(lines[i]))]
        rest == IF count = 0 THEN whole ELSE Rest(lines, count)
    IN  /\ text' = [text EXCEPT ![a] = @ \o data]
        /\ buffer' = [b \in Address |-> rest]
        /\ messages' = [messages EXCEPT ![a] = @ \o new]
        /\ UNCHANGED lossless

\* process() of an "rx" packet.  The buffer is set before the lines are
\* delivered: an exception in on_message only loses the lines after it.
Receive(a, data) ==
    LET whole == buffer[a] \o data
        count == Count(whole, "\n")
        lines == SplitLines(whole)
        new == [i \in 1..count |-> ToMessage(Stripped(lines[i]))]
    IN  /\ text' = [text EXCEPT ![a] = @ \o data]
        /\ buffer' = [buffer EXCEPT ![a] = IF count = 0 THEN whole ELSE Rest(lines, count)]
        /\ \E done \in (IF count > 0 THEN 1..count ELSE {0}) :
            /\ messages' = [messages EXCEPT ![a] = @ \o SubSeq(new, 1, done)]
            /\ lossless' = IF done = count THEN lossless ELSE lossless \ {a}

\* The texts modelled have a "\r" only before a "\n".
WellFormed(s) ==
    \A i \in 1..(Len(s) - 1) : s[i] = "\r" => s[i + 1] = "\n"

BytesSent == FoldSet(LAMBDA a, n : n + Len(text[a]), 0, Address)

Init ==
    /\ buffer = [a \in Address |-> <<>>]
    /\ messages = [a \in Address |-> <<>>]
    /\ text = [a \in Address |-> <<>>]
    /\ lossless = Address

Next ==
    \E a \in Address, n \in 1..MaxChunk : \E data \in [1..n -> Byte] :
        /\ BytesSent + n <= MaxBytes
        /\ WellFormed(text[a] \o data)
        /\ Receive(a, data)

Spec == Init /\ [][Next]_vars

-----------------------------------------------------------------------------
\* Reference: reading the text byte by byte, with no packets.
ReadByte(state, byte) ==
    IF byte = "\n"
    THEN [messages |-> Append(state.messages, ToMessage(Stripped(state.line))), line |-> <<>>]
    ELSE [state EXCEPT !.line = Append(@, byte)]

NothingRead == [messages |-> <<>>, line |-> <<>>]

Readings(s) ==
    LET upto[n \in 0..Len(s)] ==
            IF n = 0 THEN NothingRead ELSE ReadByte(upto[n - 1], s[n])
    IN  upto

Reading(s) == Readings(s)[Len(s)]

\* t is what is left of s when some of its elements are lost.
Thinned(t, s) ==
    \E kept \in [DOMAIN t -> DOMAIN s] :
        /\ \A i, j \in DOMAIN t : i < j => kept[i] < kept[j]
        /\ \A i \in DOMAIN t : t[i] = s[kept[i]]

\* "To send a custom message just send "port:value\n"": the messages of a
\* radio are its lines, however the text was cut into packets and whatever
\* the other radios send in between.  An exception in on_message loses
\* messages, but never changes one, makes one up or exchanges two.
MessagesAreLines ==
    \A a \in Address :
        LET lines == Reading(text[a]).messages IN
        IF a \in lossless THEN messages[a] = lines ELSE Thinned(messages[a], lines)

\* The buffer is always the unfinished line, with no line end left in it, also
\* after on_message raised.  (splitlines() takes a final "\r" off the rest of a
\* packet: what it was half of is a line end, which is stripped later anyway.)
BufferIsUnfinishedLine ==
    \A a \in Address :
        /\ "\n" \notin Range(buffer[a])
        /\ Stripped(buffer[a]) = Stripped(Reading(text[a]).line)
=============================================================================
