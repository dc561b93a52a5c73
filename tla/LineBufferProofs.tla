--------------------------- MODULE LineBufferProofs ---------------------------
(***************************************************************************)
(* That the messages of a radio are the lines of its text, for any texts,  *)
(* any radios and packets of any size.  The proofs are by induction over a *)
(* text, which TextInduction states of a set of texts.                     *)
(***************************************************************************)
EXTENDS LineBuffer, SequenceTheorems, FiniteSetTheorems, WellFoundedInduction, TLAPS

-----------------------------------------------------------------------------
(* Induction *)

\* A set of numbers that is not empty has a least element.
LEMMA LeastNumber ==
    ASSUME NEW S, S \subseteq Nat, S # {}
    PROVE  \E n \in S : \A m \in S : ~(m < n)
<1> DEFINE R == {p \in Nat \X Nat : p[1] < p[2]}
<1>1. IsWellFoundedOn(R, Nat)
    BY NatLessThanWellFounded, Zenon DEF OpToRel
<1> HIDE DEF R
<1>2. \E n \in S : \A m \in S : ~(<<m, n>> \in R)
    BY <1>1, WFMin, Zenon
<1> QED
    BY <1>2 DEF R

\* A set with 0 and the successors of its members has every number.
LEMMA SetInduction ==
    ASSUME NEW S, 0 \in S, \A n \in Nat : n \in S => n + 1 \in S
    PROVE  Nat \subseteq S
<1> SUFFICES ASSUME Nat \ S # {} PROVE FALSE
    OBVIOUS
<1>1. PICK n \in Nat \ S : \A m \in Nat \ S : ~(m < n)
    BY LeastNumber
<1>2. n - 1 \in Nat /\ n - 1 \notin S
    BY <1>1
<1> QED
    BY <1>1, <1>2

\* A set with the empty text, and with every text one byte longer than one of
\* its members, has every text.
LEMMA TextInduction ==
    ASSUME NEW S, <<>> \in S,
           \A s \in Seq(Byte), b \in Byte : s \in S => Append(s, b) \in S
    PROVE  \A s \in Seq(Byte) : s \in S
<1> DEFINE T == {n \in Nat : \A s \in Seq(Byte) : Len(s) = n => s \in S}
<1>1. 0 \in T
    BY EmptySeq
<1>2. ASSUME NEW n \in Nat, n \in T PROVE n + 1 \in T
    <2> SUFFICES ASSUME NEW s \in Seq(Byte), Len(s) = n + 1 PROVE s \in S
        OBVIOUS
    <2>1. PICK r \in Seq(Byte), b \in Byte : s = Append(r, b)
        BY SequenceEmptyOrAppend
    <2>2. Len(r) = n
        BY <2>1
    <2> QED
        BY <1>2, <2>1, <2>2
<1> HIDE DEF T
<1>3. Nat \subseteq T
    BY <1>1, <1>2, SetInduction
<1> QED
    BY <1>3 DEF T

-----------------------------------------------------------------------------
(* Reading and splitting byte by byte *)

\* The messages of all lines.
Message == {ToMessage(Stripped(s)) : s \in Seq(Byte)}

ReadState == [messages : Seq(Message), line : Seq(Byte)]

SplitState == [lines : Seq(Seq(Byte)), line : Seq(Byte), last : Byte]

LEMMA ReadByteTyped ==
    ASSUME NEW state \in ReadState, NEW b \in Byte
    PROVE  ReadByte(state, b) \in ReadState
<1>1. ToMessage(Stripped(state.line)) \in Message
    BY DEF Message, ReadState
<1> HIDE DEF Message
<1> QED
    BY <1>1 DEF ReadByte, ReadState

LEMMA SplitByteTyped ==
    ASSUME NEW state \in SplitState, NEW b \in Byte
    PROVE  SplitByte(state, b) \in SplitState
BY DEF SplitByte, SplitState

\* The recursive functions exist: the one over the first k + 1 prefixes is the
\* one over the first k with the next value.
LEMMA ReadingsEqual ==
    ASSUME NEW s \in Seq(Byte)
    PROVE  Readings(s) = [n \in 0..Len(s) |->
               IF n = 0 THEN NothingRead ELSE ReadByte(Readings(s)[n - 1], s[n])]
<1> DEFINE Upto(g, k) ==
        g = [n \in 0..k |-> IF n = 0 THEN NothingRead ELSE ReadByte(g[n - 1], s[n])]
<1> DEFINE S == {k \in Nat : \E g : Upto(g, k)}
<1>1. 0 \in S
    <2>1. Upto([n \in 0..0 |-> NothingRead], 0)
        OBVIOUS
    <2> QED
        BY <2>1
<1>2. ASSUME NEW k \in Nat, k \in S PROVE k + 1 \in S
    <2>1. PICK g : Upto(g, k)
        BY <1>2
    <2> DEFINE h == [n \in 0..(k + 1) |->
                        IF n = k + 1 THEN ReadByte(g[k], s[k + 1]) ELSE g[n]]
    <2>2. Upto(h, k + 1)
        <3>1. ASSUME NEW n \in 0..(k + 1)
              PROVE  h[n] = IF n = 0 THEN NothingRead ELSE ReadByte(h[n - 1], s[n])
            <4>1. CASE n = 0
                BY <2>1, <4>1
            <4>2. CASE n \in 1..k
                <5>1. h[n] = g[n] /\ h[n - 1] = g[n - 1]
                    BY <4>2
                <5>2. g[n] = ReadByte(g[n - 1], s[n])
                    BY <2>1, <4>2
                <5> QED
                    BY <4>2, <5>1, <5>2
            <4>3. CASE n = k + 1
                BY <4>3
            <4> QED
                BY <4>1, <4>2, <4>3
        <3> QED
            BY <3>1
    <2> HIDE DEF h, Upto
    <2>3. \E f : Upto(f, k + 1)
        BY <2>2
    <2> QED
        BY <2>3
<1> HIDE DEF S
<1>3. Len(s) \in S
    BY <1>1, <1>2, SetInduction
<1>4. \E g : Upto(g, Len(s))
    BY <1>3 DEF S
<1> QED
    BY <1>4 DEF Readings

LEMMA SplittingsEqual ==
    ASSUME NEW s \in Seq(Byte)
    PROVE  Splittings(s) = [n \in 0..Len(s) |->
               IF n = 0 THEN NothingSplit ELSE SplitByte(Splittings(s)[n - 1], s[n])]
<1> DEFINE Upto(g, k) ==
        g = [n \in 0..k |-> IF n = 0 THEN NothingSplit ELSE SplitByte(g[n - 1], s[n])]
<1> DEFINE S == {k \in Nat : \E g : Upto(g, k)}
<1>1. 0 \in S
    <2>1. Upto([n \in 0..0 |-> NothingSplit], 0)
        OBVIOUS
    <2> QED
        BY <2>1
<1>2. ASSUME NEW k \in Nat, k \in S PROVE k + 1 \in S
    <2>1. PICK g : Upto(g, k)
        BY <1>2
    <2> DEFINE h == [n \in 0..(k + 1) |->
                        IF n = k + 1 THEN SplitByte(g[k], s[k + 1]) ELSE g[n]]
    <2>2. Upto(h, k + 1)
        <3>1. ASSUME NEW n \in 0..(k + 1)
              PROVE  h[n] = IF n = 0 THEN NothingSplit ELSE SplitByte(h[n - 1], s[n])
            <4>1. CASE n = 0
                BY <2>1, <4>1
            <4>2. CASE n \in 1..k
                <5>1. h[n] = g[n] /\ h[n - 1] = g[n - 1]
                    BY <4>2
                <5>2. g[n] = SplitByte(g[n - 1], s[n])
                    BY <2>1, <4>2
                <5> QED
                    BY <4>2, <5>1, <5>2
            <4>3. CASE n = k + 1
                BY <4>3
            <4> QED
                BY <4>1, <4>2, <4>3
        <3> QED
            BY <3>1
    <2> HIDE DEF h, Upto
    <2>3. \E f : Upto(f, k + 1)
        BY <2>2
    <2> QED
        BY <2>3
<1> HIDE DEF S
<1>3. Len(s) \in S
    BY <1>1, <1>2, SetInduction
<1>4. \E g : Upto(g, Len(s))
    BY <1>3 DEF S
<1> QED
    BY <1>4 DEF Splittings

\* A text that is one byte longer is read, and split, by one step more.
LEMMA ReadingAppend ==
    ASSUME NEW s \in Seq(Byte), NEW b \in Byte
    PROVE  Reading(Append(s, b)) = ReadByte(Reading(s), b)
<1> DEFINE t == Append(s, b)
<1>1. /\ t \in Seq(Byte) /\ Len(t) = Len(s) + 1 /\ t[Len(s) + 1] = b
      /\ \A n \in 1..Len(s) : t[n] = s[n]
    BY AppendProperties
<1> HIDE DEF t
<1> DEFINE S == {n \in Nat : n <= Len(s) => Readings(t)[n] = Readings(s)[n]}
<1>2. 0 \in S
    <2>1. Readings(t)[0] = NothingRead
        BY <1>1, ReadingsEqual
    <2>2. Readings(s)[0] = NothingRead
        BY ReadingsEqual
    <2> QED
        BY <2>1, <2>2
<1>3. ASSUME NEW n \in Nat, n \in S PROVE n + 1 \in S
    <2> SUFFICES ASSUME n + 1 <= Len(s) PROVE Readings(t)[n + 1] = Readings(s)[n + 1]
        OBVIOUS
    <2>1. Readings(t)[n + 1] = ReadByte(Readings(t)[n], t[n + 1])
        BY <1>1, ReadingsEqual
    <2>2. Readings(s)[n + 1] = ReadByte(Readings(s)[n], s[n + 1])
        BY ReadingsEqual
    <2> QED
        BY <1>1, <1>3, <2>1, <2>2
<1> HIDE DEF S
<1>4. Len(s) \in S
    BY <1>2, <1>3, SetInduction
<1>5. Readings(t)[Len(s)] = Readings(s)[Len(s)]
    BY <1>4 DEF S
<1>6. Readings(t)[Len(s) + 1] = ReadByte(Readings(t)[Len(s)], b)
    BY <1>1, ReadingsEqual
<1> QED
    BY <1>1, <1>5, <1>6 DEF Reading, t

LEMMA SplittingAppend ==
    ASSUME NEW s \in Seq(Byte), NEW b \in Byte
    PROVE  Splitting(Append(s, b)) = SplitByte(Splitting(s), b)
<1> DEFINE t == Append(s, b)
<1>1. /\ t \in Seq(Byte) /\ Len(t) = Len(s) + 1 /\ t[Len(s) + 1] = b
      /\ \A n \in 1..Len(s) : t[n] = s[n]
    BY AppendProperties
<1> HIDE DEF t
<1> DEFINE S == {n \in Nat : n <= Len(s) => Splittings(t)[n] = Splittings(s)[n]}
<1>2. 0 \in S
    <2>1. Splittings(t)[0] = NothingSplit
        BY <1>1, SplittingsEqual
    <2>2. Splittings(s)[0] = NothingSplit
        BY SplittingsEqual
    <2> QED
        BY <2>1, <2>2
<1>3. ASSUME NEW n \in Nat, n \in S PROVE n + 1 \in S
    <2> SUFFICES ASSUME n + 1 <= Len(s) PROVE Splittings(t)[n + 1] = Splittings(s)[n + 1]
        OBVIOUS
    <2>1. Splittings(t)[n + 1] = SplitByte(Splittings(t)[n], t[n + 1])
        BY <1>1, SplittingsEqual
    <2>2. Splittings(s)[n + 1] = SplitByte(Splittings(s)[n], s[n + 1])
        BY SplittingsEqual
    <2> QED
        BY <1>1, <1>3, <2>1, <2>2
<1> HIDE DEF S
<1>4. Len(s) \in S
    BY <1>2, <1>3, SetInduction
<1>5. Splittings(t)[Len(s)] = Splittings(s)[Len(s)]
    BY <1>4 DEF S
<1>6. Splittings(t)[Len(s) + 1] = SplitByte(Splittings(t)[Len(s)], b)
    BY <1>1, SplittingsEqual
<1> QED
    BY <1>1, <1>5, <1>6 DEF Splitting, t

LEMMA NothingBefore ==
    ASSUME NEW s \in Seq(Byte), Len(s) = 0
    PROVE  Reading(s) = NothingRead /\ Splitting(s) = NothingSplit
<1>1. ASSUME NEW r \in Seq(Byte)
      PROVE  Readings(r)[0] = NothingRead /\ Splittings(r)[0] = NothingSplit
    <2>1. Readings(r)[0] = NothingRead
        BY ReadingsEqual
    <2>2. Splittings(r)[0] = NothingSplit
        BY SplittingsEqual
    <2> QED
        BY <2>1, <2>2
<1> QED
    BY <1>1 DEF Reading, Splitting

LEMMA ReadingNothing ==
    /\ Reading(<<>>).line = <<>> /\ Reading(<<>>).messages = <<>>
    /\ Splitting(<<>>) = NothingSplit
<1>1. Reading(<<>>) = NothingRead /\ Splitting(<<>>) = NothingSplit
    BY NothingBefore, EmptySeq
<1>2. NothingRead.line = <<>> /\ NothingRead.messages = <<>>
    BY DEF NothingRead
<1> QED
    BY <1>1, <1>2

LEMMA ReadingTyped ==
    \A s \in Seq(Byte) : Reading(s) \in ReadState /\ Splitting(s) \in SplitState
<1> DEFINE S == {s \in Seq(Byte) : Reading(s) \in ReadState /\ Splitting(s) \in SplitState}
<1>1. <<>> \in S
    <2>1. NothingRead \in ReadState
        BY DEF NothingRead, ReadState
    <2>2. NothingSplit \in SplitState
        BY LineBufferAssumption DEF NothingSplit, SplitState
    <2> QED
        BY <2>1, <2>2, NothingBefore, EmptySeq
<1>2. \A s \in Seq(Byte), b \in Byte : s \in S => Append(s, b) \in S
    BY AppendProperties, ReadingAppend, SplittingAppend, ReadByteTyped, SplitByteTyped
<1> HIDE DEF S
<1>3. \A s \in Seq(Byte) : s \in S
    BY <1>1, <1>2, TextInduction
<1> QED
    BY <1>3 DEF S

-----------------------------------------------------------------------------
(* Counting and stripping *)

LEMMA CountTyped ==
    ASSUME NEW s \in Seq(Byte)
    PROVE  IsFiniteSet({i \in DOMAIN s : s[i] = "\n"}) /\ Count(s, "\n") \in Nat
<1>1. IsFiniteSet(1..Len(s))
    BY FS_Interval
<1>2. {i \in DOMAIN s : s[i] = "\n"} \in SUBSET (1..Len(s))
    OBVIOUS
<1>3. IsFiniteSet({i \in DOMAIN s : s[i] = "\n"})
    BY <1>1, <1>2, FS_Subset
<1> QED
    BY <1>3, FS_CardinalityType DEF Count

LEMMA CountAppend ==
    ASSUME NEW s \in Seq(Byte), NEW b \in Byte
    PROVE  Count(Append(s, b), "\n") =
               IF b = "\n" THEN Count(s, "\n") + 1 ELSE Count(s, "\n")
<1> DEFINE E == {i \in DOMAIN s : s[i] = "\n"}
<1> DEFINE F == {i \in DOMAIN Append(s, b) : Append(s, b)[i] = "\n"}
<1>1. IsFiniteSet(E)
    BY CountTyped
<1>2. CASE b = "\n"
    <2>1. F = E \cup {Len(s) + 1} /\ Len(s) + 1 \notin E
        BY <1>2
    <2>2. Cardinality(F) = Cardinality(E) + 1
        BY <1>1, <2>1, FS_AddElement
    <2> QED
        BY <1>2, <2>2 DEF Count
<1>3. CASE b # "\n"
    <2>1. F = E
        BY <1>3
    <2> QED
        BY <1>3, <2>1 DEF Count
<1> QED
    BY <1>2, <1>3

\* A set of numbers of an interval that is not empty has a greatest element.
LEMMA GreatestNumber ==
    ASSUME NEW k \in Nat, NEW S, S \subseteq 1..k, S # {}
    PROVE  Max(S) \in S
<1> DEFINE T == {k - n : n \in S}
<1>1. T \subseteq Nat /\ T # {}
    <2>1. \A n \in S : k - n \in Nat
        OBVIOUS
    <2> QED
        BY <2>1
<1> HIDE DEF T
<1>2. PICK m \in T : \A n \in T : ~(n < m)
    BY <1>1, LeastNumber
<1>3. PICK n \in S : m = k - n
    BY <1>2 DEF T
<1>4. \A i \in S : k - i \in T
    BY DEF T
<1>5. \A i \in S : n >= i
    BY <1>2, <1>3, <1>4
<1> QED
    BY <1>5 DEF Max

\* rstrip() takes a "\r" off the end.
LEMMA StrippedAppend ==
    ASSUME NEW s \in Seq(Byte)
    PROVE  Stripped(Append(s, "\r")) = Stripped(s)
<1> DEFINE t == Append(s, "\r")
<1> DEFINE E == {i \in 1..Len(s) : s[i] \notin {"\r", "\n"}}
<1> DEFINE F == {i \in 1..Len(t) : t[i] \notin {"\r", "\n"}}
<1>1. F = E
    BY LineBufferAssumption
<1> DEFINE m == IF E # {} THEN Max(E) ELSE 0
<1>2. m \in 0..Len(s)
    <2>1. CASE E = {}
        BY <2>1
    <2>2. CASE E # {}
        <3>1. Len(s) \in Nat /\ E \subseteq 1..Len(s)
            OBVIOUS
        <3> HIDE DEF E
        <3>2. Max(E) \in E
            BY <2>2, <3>1, GreatestNumber
        <3>3. Len(s) \in Nat /\ Max(E) \in 1..Len(s)
            BY <3>1, <3>2
        <3>4. m = Max(E)
            BY <2>2
        <3> HIDE DEF m
        <3> QED
            BY <3>3, <3>4
    <2> QED
        BY <2>1, <2>2
<1>3. Stripped(s) = SubSeq(s, 1, m)
    BY DEF Stripped, SelectLastInSeq
<1>4. Stripped(t) = SubSeq(t, 1, m)
    BY <1>1 DEF Stripped, SelectLastInSeq
<1> HIDE DEF m
<1>5. SubSeq(t, 1, m) = SubSeq(s, 1, m)
    BY <1>2, LineBufferAssumption
<1> QED
    BY <1>3, <1>4, <1>5

-----------------------------------------------------------------------------
(* What is read, and what is split *)

LEMMA ReadByteCases ==
    ASSUME NEW state \in ReadState, NEW b \in Byte
    PROVE  /\ b = "\n" =>
                /\ ReadByte(state, b).line = <<>>
                /\ ReadByte(state, b).messages =
                       Append(state.messages, ToMessage(Stripped(state.line)))
           /\ b # "\n" =>
                /\ ReadByte(state, b).line = Append(state.line, b)
                /\ ReadByte(state, b).messages = state.messages
BY DEF ReadByte, ReadState

\* The line being read is an end of the text, and no line has ended in it.
LineIsEnd(s) ==
    \E k \in 0..Len(s) :
        /\ Len(Reading(s).line) = Len(s) - k
        /\ \A i \in 1..(Len(s) - k) : Reading(s).line[i] = s[k + i] /\ s[k + i] # "\n"

LEMMA ReadingLine == \A s \in Seq(Byte) : LineIsEnd(s)
<1> DEFINE S == {s \in Seq(Byte) : LineIsEnd(s)}
<1>1. <<>> \in S
    <2>1. Reading(<<>>).line = <<>>
        BY ReadingNothing
    <2> QED
        BY <2>1, EmptySeq DEF LineIsEnd
<1>2. ASSUME NEW s \in Seq(Byte), NEW b \in Byte, s \in S PROVE Append(s, b) \in S
    <2> DEFINE t == Append(s, b)
    <2>1. /\ t \in Seq(Byte) /\ Len(t) = Len(s) + 1 /\ t[Len(s) + 1] = b
          /\ \A n \in 1..Len(s) : t[n] = s[n]
        BY AppendProperties
    <2>2. Reading(s) \in ReadState /\ Reading(t) = ReadByte(Reading(s), b)
        BY ReadingTyped, ReadingAppend
    <2> HIDE DEF t
    <2>3. CASE b = "\n"
        <3>1. Reading(t).line = <<>>
            BY <2>2, <2>3, ReadByteCases
        <3>2. LineIsEnd(t)
            BY <2>1, <3>1 DEF LineIsEnd
        <3> QED
            BY <2>1, <3>2 DEF t
    <2>4. CASE b # "\n"
        <3>1. Reading(t).line = Append(Reading(s).line, b)
            BY <2>2, <2>4, ReadByteCases
        <3>2. PICK k \in 0..Len(s) :
                /\ Len(Reading(s).line) = Len(s) - k
                /\ \A i \in 1..(Len(s) - k) :
                    Reading(s).line[i] = s[k + i] /\ s[k + i] # "\n"
            BY <1>2 DEF LineIsEnd
        <3> DEFINE l == Reading(s).line
        <3>3. l \in Seq(Byte)
            BY <2>2 DEF ReadState
        <3>4. /\ Len(l) = Len(s) - k
              /\ \A i \in 1..(Len(s) - k) : l[i] = s[k + i] /\ s[k + i] # "\n"
              /\ Reading(t).line = Append(l, b)
            BY <3>1, <3>2
        <3> HIDE DEF l
        <3>5. /\ Len(Append(l, b)) = Len(l) + 1 /\ Append(l, b)[Len(l) + 1] = b
              /\ \A i \in 1..Len(l) : Append(l, b)[i] = l[i]
            BY <3>3, AppendProperties
        <3>6. Len(s) \in Nat
            OBVIOUS
        <3>7. Len(Append(l, b)) = Len(t) - k
            BY <2>1, <3>4, <3>5, <3>6
        <3>8. ASSUME NEW i \in 1..(Len(t) - k)
              PROVE  Append(l, b)[i] = t[k + i] /\ t[k + i] # "\n"
            <4>1. CASE i \in 1..(Len(s) - k)
                <5>1. k + i \in 1..Len(s) /\ i \in 1..Len(l)
                    BY <3>4, <3>6, <4>1
                <5>2. l[i] = s[k + i] /\ s[k + i] # "\n"
                    BY <3>4, <4>1
                <5>3. Append(l, b)[i] = l[i] /\ t[k + i] = s[k + i]
                    BY <2>1, <3>5, <5>1
                <5> QED
                    BY <5>2, <5>3
            <4>2. CASE i = Len(s) - k + 1
                BY <2>1, <2>4, <3>4, <3>5, <3>6, <4>2
            <4>3. k \in Nat /\ i \in Nat /\ i >= 1 /\ i <= Len(s) + 1 - k
                BY <2>1, <3>6
            <4>4. i \in 1..(Len(s) - k) \/ i = Len(s) - k + 1
                BY <3>6, <4>3
            <4> QED
                BY <4>1, <4>2, <4>4
        <3>9. k \in 0..Len(t)
            BY <2>1, <3>6
        <3>10. LineIsEnd(t)
            BY <3>4, <3>7, <3>8, <3>9 DEF LineIsEnd
        <3> QED
            BY <2>1, <3>10 DEF t
    <2> QED
        BY <2>3, <2>4
<1> HIDE DEF S
<1>3. \A s \in Seq(Byte) : s \in S
    BY <1>1, <1>2, TextInduction
<1> QED
    BY <1>3 DEF S

\* A text in which no line ends is its unfinished line.
LEMMA ReadingUnfinished ==
    \A s \in Seq(Byte) : Count(s, "\n") = 0 =>
        Reading(s).messages = <<>> /\ Reading(s).line = s
<1> DEFINE S == {s \in Seq(Byte) : Count(s, "\n") = 0 =>
                    Reading(s).messages = <<>> /\ Reading(s).line = s}
<1>1. <<>> \in S
    BY ReadingNothing, EmptySeq
<1>2. ASSUME NEW s \in Seq(Byte), NEW b \in Byte, s \in S PROVE Append(s, b) \in S
    <2>1. Append(s, b) \in Seq(Byte) /\ Count(s, "\n") \in Nat
        BY AppendProperties, CountTyped
    <2> SUFFICES ASSUME Count(Append(s, b), "\n") = 0
                 PROVE  /\ Reading(Append(s, b)).messages = <<>>
                        /\ Reading(Append(s, b)).line = Append(s, b)
        BY <2>1
    <2>2. b # "\n" /\ Count(s, "\n") = 0
        BY <2>1, CountAppend
    <2>3. Reading(s) \in ReadState /\ Reading(Append(s, b)) = ReadByte(Reading(s), b)
        BY ReadingTyped, ReadingAppend
    <2>4. Reading(s).messages = <<>> /\ Reading(s).line = s
        BY <1>2, <2>2
    <2> QED
        BY <2>2, <2>3, <2>4, ReadByteCases
<1> HIDE DEF S
<1>3. \A s \in Seq(Byte) : s \in S
    BY <1>1, <1>2, TextInduction
<1> QED
    BY <1>3 DEF S

LEMMA ConcatAppend ==
    ASSUME NEW S, NEW s \in Seq(S), NEW r \in Seq(S), NEW e \in S
    PROVE  s \o Append(r, e) = Append(s \o r, e)
<1>1. Append(r, e) = r \o <<e>> /\ Append(s \o r, e) = (s \o r) \o <<e>>
    BY AppendIsConcat, ConcatProperties
<1>2. <<e>> \in Seq(S)
    OBVIOUS
<1> QED
    BY <1>1, <1>2, ConcatAssociative

LEMMA ConcatCons ==
    ASSUME NEW S, NEW s \in Seq(S), NEW r \in Seq(S), NEW e \in S
    PROVE  s \o (<<e>> \o r) = Append(s, e) \o r /\ Append(s, e) \in Seq(S)
<1> DEFINE o == <<e>>
<1>1. o \in Seq(S)
    OBVIOUS
<1>2. Append(s, e) = s \o o /\ Append(s, e) \in Seq(S)
    BY AppendIsConcat, AppendProperties
<1> HIDE DEF o
<1>3. (s \o o) \o r = s \o (o \o r)
    BY <1>1, ConcatAssociative
<1> QED
    BY <1>2, <1>3 DEF o

\* What has been read before matters to the rest of a text only through the
\* unfinished line: m is what has been delivered in addition.
LEMMA ReadingContinues ==
    ASSUME NEW x \in Seq(Byte), NEW y \in Seq(Byte), NEW m \in Seq(Message),
           Reading(x).line = Reading(y).line,
           Reading(x).messages = m \o Reading(y).messages
    PROVE  \A d \in Seq(Byte) :
               /\ Reading(x \o d).line = Reading(y \o d).line
               /\ Reading(x \o d).messages = m \o Reading(y \o d).messages
<1> DEFINE S == {d \in Seq(Byte) :
                    /\ Reading(x \o d).line = Reading(y \o d).line
                    /\ Reading(x \o d).messages = m \o Reading(y \o d).messages}
<1>1. <<>> \in S
    BY ConcatEmptySeq, EmptySeq
<1>2. ASSUME NEW d \in Seq(Byte), NEW b \in Byte, d \in S PROVE Append(d, b) \in S
    <2>1. /\ x \o d \in Seq(Byte) /\ x \o Append(d, b) = Append(x \o d, b)
          /\ y \o d \in Seq(Byte) /\ y \o Append(d, b) = Append(y \o d, b)
          /\ Append(d, b) \in Seq(Byte)
        BY ConcatProperties, ConcatAppend, AppendProperties
    <2> DEFINE p == Reading(x \o d)
    <2> DEFINE q == Reading(y \o d)
    <2>2. /\ p \in ReadState /\ Reading(x \o Append(d, b)) = ReadByte(p, b)
          /\ q \in ReadState /\ Reading(y \o Append(d, b)) = ReadByte(q, b)
        BY <2>1, ReadingTyped, ReadingAppend
    <2>3. p.line = q.line /\ p.messages = m \o q.messages
        BY <1>2
    <2> HIDE DEF p, q
    <2>4. CASE b = "\n"
        <3> DEFINE e == ToMessage(Stripped(q.line))
        <3>1. e \in Message /\ q.messages \in Seq(Message)
            BY <2>2 DEF Message, ReadState
        <3>2. m \o Append(q.messages, e) = Append(m \o q.messages, e)
            BY <3>1, ConcatAppend
        <3>3. ReadByte(p, b).line = <<>> /\ ReadByte(q, b).line = <<>>
            BY <2>2, <2>4, ReadByteCases
        <3>4. ReadByte(p, b).messages = Append(p.messages, e)
            BY <2>2, <2>3, <2>4, ReadByteCases
        <3>5. ReadByte(q, b).messages = Append(q.messages, e)
            BY <2>2, <2>4, ReadByteCases
        <3> QED
            BY <2>1, <2>2, <2>3, <3>2, <3>3, <3>4, <3>5
    <2>5. CASE b # "\n"
        <3>1. ReadByte(p, b).line = Append(p.line, b) /\ ReadByte(p, b).messages = p.messages
            BY <2>2, <2>5, ReadByteCases
        <3>2. ReadByte(q, b).line = Append(q.line, b) /\ ReadByte(q, b).messages = q.messages
            BY <2>2, <2>5, ReadByteCases
        <3> QED
            BY <2>1, <2>2, <2>3, <3>1, <3>2
    <2> QED
        BY <2>4, <2>5
<1> HIDE DEF S
<1>3. \A d \in Seq(Byte) : d \in S
    BY <1>1, <1>2, TextInduction
<1> QED
    BY <1>3 DEF S

LEMMA ReadingContinuesAlike ==
    ASSUME NEW x \in Seq(Byte), NEW y \in Seq(Byte), NEW d \in Seq(Byte),
           Reading(x).line = Reading(y).line, Reading(x).messages = Reading(y).messages
    PROVE  /\ Reading(x \o d).line = Reading(y \o d).line
           /\ Reading(x \o d).messages = Reading(y \o d).messages
<1>1. y \o d \in Seq(Byte)
    BY ConcatProperties
<1>2. Reading(y).messages \in Seq(Message) /\ Reading(y \o d).messages \in Seq(Message)
    BY <1>1, ReadingTyped DEF ReadState
<1> DEFINE m == SubSeq(Reading(y).messages, 1, 0)
<1>3. m \in Seq(Message) /\ m = <<>>
    BY <1>2
<1> HIDE DEF m
<1>4. Reading(x).messages = m \o Reading(y).messages
    BY <1>2, <1>3, ConcatEmptySeq
<1>5. /\ Reading(x \o d).line = Reading(y \o d).line
      /\ Reading(x \o d).messages = m \o Reading(y \o d).messages
    BY <1>3, <1>4, ReadingContinues
<1> QED
    BY <1>2, <1>3, <1>5, ConcatEmptySeq

LEMMA SplitByteCases ==
    ASSUME NEW state \in SplitState, NEW b \in Byte
    PROVE  /\ SplitByte(state, b).last = b
           /\ b = "\n" /\ state.last = "\r" =>
                /\ SplitByte(state, b).lines = state.lines
                /\ SplitByte(state, b).line = state.line
           /\ (b = "\n" => state.last # "\r") /\ b \in {"\n", "\r"} =>
                /\ SplitByte(state, b).lines = Append(state.lines, state.line)
                /\ SplitByte(state, b).line = <<>>
           /\ b \notin {"\n", "\r"} =>
                /\ SplitByte(state, b).lines = state.lines
                /\ SplitByte(state, b).line = Append(state.line, b)
BY DEF SplitByte, SplitState

LEMMA SplittingLast ==
    ASSUME NEW s \in Seq(Byte), s # <<>>
    PROVE  Splitting(s).last = s[Len(s)]
<1>1. PICK r \in Seq(Byte), b \in Byte : s = Append(r, b)
    BY SequenceEmptyOrAppend
<1>2. s[Len(s)] = b
    BY <1>1, AppendProperties
<1>3. Splitting(r) \in SplitState /\ Splitting(s) = SplitByte(Splitting(r), b)
    BY <1>1, ReadingTyped, SplittingAppend
<1> QED
    BY <1>2, <1>3, SplitByteCases

LEMMA CountNothing ==
    ASSUME NEW s \in Seq(Byte), Len(s) = 0
    PROVE  Count(s, "\n") = 0
<1>1. {i \in DOMAIN s : s[i] = "\n"} = {}
    OBVIOUS
<1> QED
    BY <1>1, FS_EmptySet DEF Count

LEMMA WellFormedAppend ==
    ASSUME NEW s \in Seq(Byte), NEW b \in Byte, WellFormed(Append(s, b))
    PROVE  WellFormed(s) /\ (s # <<>> /\ s[Len(s)] = "\r" => b = "\n")
<1>1. /\ Len(Append(s, b)) = Len(s) + 1 /\ Append(s, b)[Len(s) + 1] = b
      /\ \A i \in 1..Len(s) : Append(s, b)[i] = s[i]
    BY AppendProperties
<1>2. \A i \in 1..Len(s) : s[i] = "\r" => Append(s, b)[i + 1] = "\n"
    BY <1>1 DEF WellFormed
<1>3. WellFormed(s)
    <2> SUFFICES ASSUME NEW i \in 1..(Len(s) - 1), s[i] = "\r" PROVE s[i + 1] = "\n"
        BY DEF WellFormed
    <2>1. i \in 1..Len(s) /\ i + 1 \in 1..Len(s)
        OBVIOUS
    <2> QED
        BY <1>1, <1>2, <2>1
<1>4. s # <<>> => Len(s) \in 1..Len(s)
    BY EmptySeq
<1> QED
    BY <1>1, <1>2, <1>3, <1>4

\* The lines splitlines() ends are those that end in a "\n", and one more if
\* the text ends in a "\r": then that is not in the line.
SplitReads(s) ==
    LET split == Splitting(s)
        read == Reading(s)
        count == Count(s, "\n")
    IN  /\ Len(read.messages) = count
        /\ Len(split.lines) = IF split.last = "\r" THEN count + 1 ELSE count
        /\ \A i \in 1..count : read.messages[i] = ToMessage(Stripped(split.lines[i]))
        /\ split.last = "\r" =>
            split.line = <<>> /\ read.line = Append(split.lines[count + 1], "\r")
        /\ split.last # "\r" => read.line = split.line

\* splitlines() and the reading of the bytes agree on it, byte after byte.
LEMMA SplittingReads == \A s \in Seq(Byte) : WellFormed(s) => SplitReads(s)
<1> DEFINE S == {s \in Seq(Byte) : WellFormed(s) => SplitReads(s)}
<1>1. <<>> \in S
    <2>1. Count(<<>>, "\n") = 0
        BY CountNothing, EmptySeq
    <2>2. /\ Splitting(<<>>).lines = <<>> /\ Splitting(<<>>).line = <<>>
          /\ Splitting(<<>>).last = "\n"
        BY ReadingNothing DEF NothingSplit
    <2>3. Len(Reading(<<>>).messages) = 0 /\ Len(Splitting(<<>>).lines) = 0
        BY <2>2, ReadingNothing, EmptySeq
    <2>4. Reading(<<>>).line = Splitting(<<>>).line
        BY <2>2, ReadingNothing
    <2>5. SplitReads(<<>>)
        BY <2>1, <2>2, <2>3, <2>4 DEF SplitReads
    <2> QED
        BY <2>5, EmptySeq
<1>2. ASSUME NEW s \in Seq(Byte), NEW b \in Byte, s \in S PROVE Append(s, b) \in S
    <2> DEFINE t == Append(s, b)
    <2> DEFINE p == Splitting(s)
    <2> DEFINE q == Reading(s)
    <2> DEFINE c == Count(s, "\n")
    <2> SUFFICES ASSUME WellFormed(t) PROVE SplitReads(t)
        BY AppendProperties
    <2>1. WellFormed(s) /\ (s # <<>> /\ s[Len(s)] = "\r" => b = "\n")
        BY WellFormedAppend
    <2>2. /\ p \in SplitState /\ Splitting(t) = SplitByte(p, b)
          /\ q \in ReadState /\ Reading(t) = ReadByte(q, b)
        BY ReadingTyped, ReadingAppend, SplittingAppend
    <2>3. /\ p.lines \in Seq(Seq(Byte)) /\ p.line \in Seq(Byte) /\ p.last \in Byte
          /\ q.messages \in Seq(Message) /\ q.line \in Seq(Byte)
        BY <2>2 DEF SplitState, ReadState
    <2>4. /\ Len(q.messages) = c
          /\ Len(p.lines) = IF p.last = "\r" THEN c + 1 ELSE c
          /\ \A i \in 1..c : q.messages[i] = ToMessage(Stripped(p.lines[i]))
          /\ p.last = "\r" => p.line = <<>> /\ q.line = Append(p.lines[c + 1], "\r")
          /\ p.last # "\r" => q.line = p.line
        BY <1>2, <2>1 DEF SplitReads
    <2>5. c \in Nat /\ Count(t, "\n") = IF b = "\n" THEN c + 1 ELSE c
        BY CountTyped, CountAppend
    <2>6. p.last = "\r" => b = "\n"
        <3>1. CASE s = <<>>
            BY <3>1, ReadingNothing DEF NothingSplit
        <3>2. CASE s # <<>>
            BY <2>1, <3>2, SplittingLast
        <3> QED
            BY <3>1, <3>2
    <2> HIDE DEF t, p, q, c
    <2> DEFINE u == SplitByte(p, b)
    <2> DEFINE v == ReadByte(q, b)
    <2>7. CASE b = "\n"
        <3> DEFINE e == ToMessage(Stripped(q.line))
        <3>1. u.last = b /\ v.line = <<>> /\ v.messages = Append(q.messages, e)
            BY <2>2, <2>7, SplitByteCases, ReadByteCases
        <3>2. e \in Message
            BY <2>3 DEF Message
        <3> HIDE DEF u, v
        <3>3. /\ Len(v.messages) = c + 1 /\ v.messages[c + 1] = e
              /\ \A i \in 1..c : v.messages[i] = q.messages[i]
            <4> HIDE DEF e
            <4> QED
                BY <2>3, <2>4, <3>1, <3>2, AppendProperties
        <3>4. CASE p.last = "\r"
            <4>1. u.lines = p.lines /\ u.line = <<>>
                BY <2>2, <2>4, <2>7, <3>4, SplitByteCases DEF u
            <4>2. p.lines[c + 1] \in Seq(Byte)
                BY <2>3, <2>4, <2>5, <3>4
            <4>3. e = ToMessage(Stripped(p.lines[c + 1]))
                BY <2>4, <3>4, <4>2, StrippedAppend
            <4> HIDE DEF e
            <4>4. \A i \in 1..(c + 1) : v.messages[i] = ToMessage(Stripped(u.lines[i]))
                BY <2>4, <2>5, <3>3, <4>1, <4>3
            <4> QED
                BY <2>2, <2>4, <2>5, <2>7, <3>1, <3>3, <3>4, <4>1, <4>4 DEF SplitReads, u, v
        <3>5. CASE p.last # "\r"
            <4>1. u.lines = Append(p.lines, p.line) /\ u.line = <<>>
                BY <2>2, <2>7, <3>5, SplitByteCases DEF u
            <4>2. /\ Len(u.lines) = c + 1 /\ u.lines[c + 1] = p.line
                  /\ \A i \in 1..c : u.lines[i] = p.lines[i]
                BY <2>3, <2>4, <3>5, <4>1, AppendProperties
            <4>3. e = ToMessage(Stripped(p.line))
                BY <2>4, <3>5
            <4> HIDE DEF e
            <4>4. ASSUME NEW i \in 1..(c + 1)
                  PROVE  v.messages[i] = ToMessage(Stripped(u.lines[i]))
                <5>1. CASE i \in 1..c
                    BY <2>4, <3>3, <4>2, <5>1
                <5>2. CASE i = c + 1
                    BY <3>3, <4>2, <4>3, <5>2
                <5> QED
                    BY <2>5, <5>1, <5>2
            <4> QED
                BY <2>2, <2>4, <2>5, <2>7, <3>1, <3>3, <3>5, <4>1, <4>2, <4>4 DEF SplitReads, u, v
        <3> QED
            BY <3>4, <3>5
    <2>8. CASE b # "\n"
        <3>1. p.last # "\r" /\ q.line = p.line
            BY <2>4, <2>6, <2>8
        <3>2. u.last = b /\ v.line = Append(q.line, b) /\ v.messages = q.messages
            BY <2>2, <2>8, SplitByteCases, ReadByteCases
        <3> HIDE DEF u, v
        <3>3. CASE b = "\r"
            <4>1. u.lines = Append(p.lines, p.line) /\ u.line = <<>>
                BY <2>2, <3>3, SplitByteCases DEF u
            <4>2. /\ Len(u.lines) = c + 1 /\ u.lines[c + 1] = p.line
                  /\ \A i \in 1..c : u.lines[i] = p.lines[i]
                BY <2>3, <2>4, <3>1, <4>1, AppendProperties
            <4> QED
                BY <2>2, <2>4, <2>5, <2>8, <3>1, <3>2, <3>3, <4>1, <4>2 DEF SplitReads, u, v
        <3>4. CASE b # "\r"
            <4>1. u.lines = p.lines /\ u.line = Append(p.line, b)
                BY <2>2, <2>8, <3>4, SplitByteCases DEF u
            <4> QED
                BY <2>2, <2>4, <2>5, <2>8, <3>1, <3>2, <3>4, <4>1 DEF SplitReads, u, v
        <3> QED
            BY <3>3, <3>4
    <2> QED
        BY <2>7, <2>8
<1> HIDE DEF S
<1>3. \A s \in Seq(Byte) : s \in S
    BY <1>1, <1>2, TextInduction
<1> QED
    BY <1>3 DEF S

-----------------------------------------------------------------------------
(* One packet *)

\* What process() keeps of the unfinished line: all of it, or all but the "\r"
\* that splitlines() took for a line end.
Buffers(b, line) == line = b \/ line = Append(b, "\r")

\* The unfinished line and what follows it are an end of the text.
LEMMA LineWellFormed ==
    ASSUME NEW t \in Seq(Byte), NEW d \in Seq(Byte), WellFormed(t \o d)
    PROVE  WellFormed(Reading(t).line \o d)
<1> DEFINE l == Reading(t).line
<1>1. l \in Seq(Byte)
    BY ReadingTyped DEF ReadState
<1>2. PICK k \in 0..Len(t) :
        Len(l) = Len(t) - k /\ \A i \in 1..(Len(t) - k) : l[i] = t[k + i]
    BY ReadingLine DEF LineIsEnd
<1> HIDE DEF l
<1>3. /\ Len(l \o d) = Len(l) + Len(d) /\ Len(t \o d) = Len(t) + Len(d)
      /\ \A i \in 1..(Len(l) + Len(d)) :
            (l \o d)[i] = IF i <= Len(l) THEN l[i] ELSE d[i - Len(l)]
      /\ \A i \in 1..(Len(t) + Len(d)) :
            (t \o d)[i] = IF i <= Len(t) THEN t[i] ELSE d[i - Len(t)]
    BY <1>1, ConcatProperties
<1>4. Len(t) \in Nat /\ Len(d) \in Nat /\ k \in Nat /\ k <= Len(t)
    OBVIOUS
<1>5. ASSUME NEW i \in 1..(Len(l) + Len(d)) PROVE (l \o d)[i] = (t \o d)[k + i]
    <2>1. k + i \in 1..(Len(t) + Len(d))
        BY <1>2, <1>4
    <2>2. CASE i <= Len(l)
        <3>1. k + i <= Len(t) /\ i \in 1..(Len(t) - k)
            BY <1>2, <1>4, <2>2
        <3> QED
            BY <1>2, <1>3, <2>1, <2>2, <3>1
    <2>3. CASE i > Len(l)
        <3>1. ~(k + i <= Len(t)) /\ k + i - Len(t) = i - Len(l) /\ ~(i <= Len(l))
            BY <1>2, <1>4, <2>3
        <3> QED
            BY <1>3, <2>1, <3>1
    <2> QED
        BY <1>2, <1>4, <2>2, <2>3
<1>6. WellFormed(l \o d)
    <2> SUFFICES ASSUME NEW i \in 1..(Len(l \o d) - 1), (l \o d)[i] = "\r"
                 PROVE  (l \o d)[i + 1] = "\n"
        BY DEF WellFormed
    <2>1. /\ i \in 1..(Len(l) + Len(d)) /\ i + 1 \in 1..(Len(l) + Len(d))
          /\ k + i \in 1..(Len(t \o d) - 1) /\ k + (i + 1) = (k + i) + 1
        BY <1>2, <1>3, <1>4
    <2>2. (t \o d)[k + i] = "\r" => (t \o d)[(k + i) + 1] = "\n"
        BY <2>1 DEF WellFormed
    <2>3. (l \o d)[i] = (t \o d)[k + i] /\ (l \o d)[i + 1] = (t \o d)[k + (i + 1)]
        BY <1>5, <2>1
    <2> QED
        BY <2>1, <2>2, <2>3
<1> QED
    BY <1>6 DEF l

\* No line ends in the unfinished line.
LEMMA LineUnfinished ==
    ASSUME NEW t \in Seq(Byte)
    PROVE  LET l == Reading(t).line IN
           /\ l \in Seq(Byte)
           /\ \A i \in 1..Len(l) : l[i] # "\n"
           /\ Reading(l).messages = <<>> /\ Reading(l).line = l
<1> DEFINE l == Reading(t).line
<1>1. l \in Seq(Byte)
    BY ReadingTyped DEF ReadState
<1>2. \A i \in 1..Len(l) : l[i] # "\n"
    BY ReadingLine DEF LineIsEnd
<1> HIDE DEF l
<1>3. {i \in DOMAIN l : l[i] = "\n"} = {}
    BY <1>1, <1>2
<1>4. Count(l, "\n") = 0
    BY <1>3, FS_EmptySet DEF Count
<1>5. Reading(l).messages = <<>> /\ Reading(l).line = l
    BY <1>1, <1>4, ReadingUnfinished
<1> QED
    BY <1>1, <1>2, <1>5 DEF l

\* A "\r" that was taken off the buffer does not matter: a "\n" follows it.
LEMMA LostReturn ==
    ASSUME NEW b \in Seq(Byte), NEW d \in Seq(Byte), d # <<>>,
           \A i \in 1..Len(b) : b[i] # "\n",
           WellFormed(Append(b, "\r") \o d)
    PROVE  /\ WellFormed(b \o d)
           /\ Reading(Append(b, "\r") \o d).line = Reading(b \o d).line
           /\ Reading(Append(b, "\r") \o d).messages = Reading(b \o d).messages
<1> DEFINE l == Append(b, "\r")
<1>1. /\ l \in Seq(Byte) /\ Len(l) = Len(b) + 1 /\ l[Len(b) + 1] = "\r"
      /\ \A i \in 1..Len(b) : l[i] = b[i]
    BY AppendProperties, LineBufferAssumption
<1> HIDE DEF l
<1>2. /\ Len(l \o d) = Len(l) + Len(d) /\ Len(b \o d) = Len(b) + Len(d)
      /\ \A i \in 1..(Len(l) + Len(d)) :
            (l \o d)[i] = IF i <= Len(l) THEN l[i] ELSE d[i - Len(l)]
      /\ \A i \in 1..(Len(b) + Len(d)) :
            (b \o d)[i] = IF i <= Len(b) THEN b[i] ELSE d[i - Len(b)]
    BY <1>1, ConcatProperties
<1>3. Len(b) \in Nat /\ Len(d) \in Nat /\ Len(d) > 0
    BY EmptySeq
<1>4. \A i \in 1..(Len(b) + Len(d)) : (l \o d)[i] = "\r" => (l \o d)[i + 1] = "\n"
    BY <1>1, <1>2, <1>3 DEF WellFormed, l
<1>5. \A i \in 1..Len(b) : (b \o d)[i] = (l \o d)[i]
    BY <1>1, <1>2, <1>3
<1>6. \A i \in (Len(b) + 1)..(Len(b) + Len(d)) : (b \o d)[i] = (l \o d)[i + 1]
    <2> TAKE i \in (Len(b) + 1)..(Len(b) + Len(d))
    <2>1. /\ i \in 1..(Len(b) + Len(d)) /\ ~(i <= Len(b))
          /\ i + 1 \in 1..(Len(l) + Len(d)) /\ ~(i + 1 <= Len(l))
          /\ i + 1 - Len(l) = i - Len(b)
        BY <1>1, <1>3
    <2> QED
        BY <1>2, <2>1
<1>7. (l \o d)[Len(b) + 1] = "\r"
    BY <1>1, <1>2, <1>3
<1>8. WellFormed(b \o d)
    <2> SUFFICES ASSUME NEW i \in 1..(Len(b) + Len(d) - 1), (b \o d)[i] = "\r"
                 PROVE  (b \o d)[i + 1] = "\n"
        BY <1>2 DEF WellFormed
    <2>0. i \in Nat /\ i >= 1 /\ i \in 1..(Len(b) + Len(d))
        BY <1>3
    <2>1. CASE i < Len(b)
        <3>1. i \in 1..Len(b) /\ i + 1 \in 1..Len(b)
            BY <1>3, <2>0, <2>1
        <3> QED
            BY <1>4, <1>5, <2>0, <3>1
    <2>2. CASE i = Len(b)
        <3>1. (l \o d)[i] = "\r"
            <4>1. i \in 1..Len(b)
                BY <1>3, <2>0, <2>2
            <4> QED
                BY <1>5, <4>1
        <3>2. (l \o d)[Len(b) + 1] = "\n"
            BY <1>4, <2>0, <2>2, <3>1
        <3> QED
            BY <1>7, <3>2
    <2>3. CASE i > Len(b)
        <3>1. /\ i \in (Len(b) + 1)..(Len(b) + Len(d)) /\ i + 1 \in (Len(b) + 1)..(Len(b) + Len(d))
              /\ i + 1 \in 1..(Len(b) + Len(d))
            BY <1>3, <2>3
        <3> QED
            BY <1>4, <1>6, <3>1
    <2> QED
        BY <1>3, <2>1, <2>2, <2>3
<1>9. d[1] = "\n"
    <2>1. (l \o d)[Len(b) + 2] = "\n"
        <3>1. Len(b) + 1 \in 1..(Len(b) + Len(d)) /\ (Len(b) + 1) + 1 = Len(b) + 2
            BY <1>3
        <3> QED
            BY <1>4, <1>7, <3>1
    <2>2. (l \o d)[Len(b) + 2] = d[1]
        BY <1>1, <1>2, <1>3
    <2> QED
        BY <2>1, <2>2
<1>10. /\ Reading(l \o d).line = Reading(b \o d).line
       /\ Reading(l \o d).messages = Reading(b \o d).messages
    <2> DEFINE r == Tail(d)
    <2> DEFINE n == "\n"
    <2>1. n \in Byte /\ r \in Seq(Byte) /\ d = <<n>> \o r
        BY <1>9, LineBufferAssumption
    <2> HIDE DEF r, n
    <2>2. /\ l \o d = Append(l, n) \o r /\ Append(l, n) \in Seq(Byte)
          /\ b \o d = Append(b, n) \o r /\ Append(b, n) \in Seq(Byte)
        <3>1. /\ l \o (<<n>> \o r) = Append(l, n) \o r /\ Append(l, n) \in Seq(Byte)
            BY <1>1, <2>1, ConcatCons
        <3>2. /\ b \o (<<n>> \o r) = Append(b, n) \o r /\ Append(b, n) \in Seq(Byte)
            BY <2>1, ConcatCons
        <3> QED
            BY <2>1, <3>1, <3>2
    <2>3. /\ Reading(l).messages = <<>> /\ Reading(l).line = l
          /\ Reading(b).messages = <<>> /\ Reading(b).line = b
        <3>1. \A i \in 1..Len(l) : l[i] # "\n"
            BY <1>1, <1>3
        <3>2. {i \in DOMAIN l : l[i] = "\n"} = {} /\ {i \in DOMAIN b : b[i] = "\n"} = {}
            BY <1>1, <3>1
        <3>3. Count(l, "\n") = 0 /\ Count(b, "\n") = 0
            BY <3>2, FS_EmptySet DEF Count
        <3> QED
            BY <1>1, <3>3, ReadingUnfinished
    <2>4. Stripped(l) = Stripped(b)
        BY StrippedAppend DEF l
    <2> DEFINE p == Reading(Append(l, n))
    <2> DEFINE q == Reading(Append(b, n))
    <2>5. p.line = <<>> /\ p.messages = Append(<<>>, ToMessage(Stripped(l)))
        BY <1>1, <2>1, <2>3, ReadingTyped, ReadingAppend, ReadByteCases DEF n
    <2>6. q.line = <<>> /\ q.messages = Append(<<>>, ToMessage(Stripped(b)))
        BY <2>1, <2>3, ReadingTyped, ReadingAppend, ReadByteCases DEF n
    <2>7. p.line = q.line /\ p.messages = q.messages
        BY <2>4, <2>5, <2>6
    <2> DEFINE x == Append(l, n)
    <2> DEFINE y == Append(b, n)
    <2>8. x \in Seq(Byte) /\ y \in Seq(Byte) /\ l \o d = x \o r /\ b \o d = y \o r
        BY <2>2
    <2> HIDE DEF x, y
    <2>9. Reading(x).line = Reading(y).line /\ Reading(x).messages = Reading(y).messages
        BY <2>7 DEF x, y
    <2>10. /\ Reading(x \o r).line = Reading(y \o r).line
           /\ Reading(x \o r).messages = Reading(y \o r).messages
        BY <2>1, <2>8, <2>9, ReadingContinuesAlike
    <2> QED
        BY <2>8, <2>10
<1> QED
    BY <1>8, <1>10 DEF l

\* The buffer stands for all that was sent before it: reading it and the packet
\* gives the messages that the packet adds.
LEMMA PacketRead ==
    ASSUME NEW t \in Seq(Byte), NEW b \in Seq(Byte), NEW d \in Seq(Byte), d # <<>>,
           WellFormed(t \o d), Buffers(b, Reading(t).line)
    PROVE  /\ WellFormed(b \o d)
           /\ Reading(t \o d).line = Reading(b \o d).line
           /\ Reading(t \o d).messages = Reading(t).messages \o Reading(b \o d).messages
<1> DEFINE l == Reading(t).line
<1> DEFINE m == Reading(t).messages
<1>1. /\ l \in Seq(Byte) /\ \A i \in 1..Len(l) : l[i] # "\n"
      /\ Reading(l).messages = <<>> /\ Reading(l).line = l
    BY LineUnfinished
<1>2. m \in Seq(Message)
    BY ReadingTyped DEF ReadState
<1>3. WellFormed(l \o d)
    BY LineWellFormed
<1>4. /\ Reading(t \o d).line = Reading(l \o d).line
      /\ Reading(t \o d).messages = m \o Reading(l \o d).messages
    <2> HIDE DEF l
    <2>1. Reading(t).line = Reading(l).line
        BY <1>1 DEF l
    <2>2. Reading(t).messages = m \o Reading(l).messages
        BY <1>1, <1>2, ConcatEmptySeq
    <2> HIDE DEF m
    <2> QED
        BY <1>1, <1>2, <2>1, <2>2, ReadingContinues
<1>5. CASE l = b
    BY <1>3, <1>4, <1>5
<1>6. CASE l = Append(b, "\r")
    <2> HIDE DEF l, m
    <2>1. \A i \in 1..Len(b) : b[i] # "\n"
        BY <1>1, <1>6, LineBufferAssumption, AppendProperties
    <2>2. /\ WellFormed(b \o d)
          /\ Reading(l \o d).line = Reading(b \o d).line
          /\ Reading(l \o d).messages = Reading(b \o d).messages
        BY <1>3, <1>6, <2>1, LostReturn
    <2> QED
        BY <1>4, <2>2 DEF m
<1> QED
    BY <1>5, <1>6 DEF Buffers

\* count and splitlines() find in the buffer the messages of its lines, and
\* leave the unfinished one.
LEMMA PacketSplit ==
    ASSUME NEW w \in Seq(Byte), WellFormed(w)
    PROVE  LET count == Count(w, "\n")
               lines == SplitLines(w)
               rest == IF count = 0 THEN w ELSE Rest(lines, count)
           IN  /\ count \in Nat
               /\ [i \in 1..count |-> ToMessage(Stripped(lines[i]))] = Reading(w).messages
               /\ rest \in Seq(Byte)
               /\ Buffers(rest, Reading(w).line)
<1> DEFINE c == Count(w, "\n")
<1> DEFINE p == Splitting(w)
<1> DEFINE q == Reading(w)
<1> DEFINE tail == IF p.line = <<>> THEN <<>> ELSE <<p.line>>
<1> DEFINE lines == SplitLines(w)
<1>1. c \in Nat
    BY CountTyped
<1>2. /\ Len(q.messages) = c
      /\ Len(p.lines) = IF p.last = "\r" THEN c + 1 ELSE c
      /\ \A i \in 1..c : q.messages[i] = ToMessage(Stripped(p.lines[i]))
      /\ p.last = "\r" => p.line = <<>> /\ q.line = Append(p.lines[c + 1], "\r")
      /\ p.last # "\r" => q.line = p.line
    BY SplittingReads DEF SplitReads
<1>3. /\ p.lines \in Seq(Seq(Byte)) /\ p.line \in Seq(Byte)
      /\ q.messages \in Seq(Message) /\ q.line \in Seq(Byte)
    BY ReadingTyped DEF ReadState, SplitState
<1>4. lines = p.lines \o tail
    BY DEF SplitLines
<1>5. c = 0 => q.messages = <<>> /\ q.line = w
    BY ReadingUnfinished
<1> HIDE DEF c, p, q, lines
<1>6. tail \in Seq(Seq(Byte))
    BY <1>3
<1>7. /\ Len(lines) = Len(p.lines) + Len(tail)
      /\ \A i \in 1..(Len(p.lines) + Len(tail)) :
            lines[i] = IF i <= Len(p.lines) THEN p.lines[i] ELSE tail[i - Len(p.lines)]
    BY <1>3, <1>4, <1>6, ConcatProperties
<1>8. \A i \in 1..c : lines[i] = p.lines[i]
    <2> TAKE i \in 1..c
    <2>1. Len(tail) \in Nat /\ Len(p.lines) \in Nat /\ c <= Len(p.lines)
        <3> HIDE DEF tail
        <3> QED
            BY <1>1, <1>2, <1>3, <1>6
    <2> HIDE DEF tail
    <2>2. i \in 1..(Len(p.lines) + Len(tail)) /\ i <= Len(p.lines)
        BY <1>1, <2>1
    <2> QED
        BY <1>7, <2>2
<1>9. [i \in 1..c |-> ToMessage(Stripped(lines[i]))] = q.messages
    <2>1. [i \in 1..c |-> ToMessage(Stripped(lines[i]))] = [i \in 1..c |-> q.messages[i]]
        BY <1>2, <1>8
    <2>2. ASSUME NEW x \in Seq(Message) PROVE x = [i \in 1..Len(x) |-> x[i]]
        OBVIOUS
    <2> QED
        BY <1>2, <1>3, <2>1, <2>2
<1>10. Rest(lines, c) \in Seq(Byte) /\ Buffers(Rest(lines, c), q.line)
    <2>1. CASE p.last = "\r"
        <3>1. Len(lines) > c /\ lines[c + 1] = p.lines[c + 1] /\ p.lines[c + 1] \in Seq(Byte)
            BY <1>1, <1>2, <1>3, <1>6, <1>7, <2>1
        <3> QED
            BY <1>2, <2>1, <3>1 DEF Rest, Buffers
    <2>2. CASE p.last # "\r" /\ p.line = <<>>
        <3>1. Len(tail) = 0 /\ ~(Len(lines) > c)
            BY <1>1, <1>2, <1>7, <2>2
        <3> QED
            BY <1>2, <1>3, <2>2, <3>1 DEF Rest, Buffers
    <2>3. CASE p.last # "\r" /\ p.line # <<>>
        <3>1. Len(tail) = 1 /\ tail[1] = p.line
            BY <2>3
        <3>2. Len(lines) > c /\ lines[c + 1] = p.line
            <4> HIDE DEF tail
            <4> QED
                BY <1>1, <1>2, <1>7, <2>3, <3>1
        <3> QED
            BY <1>2, <1>3, <2>3, <3>2 DEF Rest, Buffers
    <2> QED
        BY <2>1, <2>2, <2>3
<1>11. c = 0 => w \in Seq(Byte) /\ Buffers(w, q.line)
    BY <1>5 DEF Buffers
<1> QED
    BY <1>1, <1>9, <1>10, <1>11 DEF c, q, lines

-----------------------------------------------------------------------------
(* Messages that are lost *)

LEMMA ThinnedAll ==
    ASSUME NEW S, NEW s \in Seq(S)
    PROVE  Thinned(s, s)
<1> DEFINE kept == [i \in DOMAIN s |-> i]
<1>1. kept \in [DOMAIN s -> DOMAIN s]
    OBVIOUS
<1> QED
    BY <1>1 DEF Thinned

\* The first messages of a packet are what is left of all of them.
LEMMA ThinnedMore ==
    ASSUME NEW S, NEW t \in Seq(S), NEW s \in Seq(S), NEW u \in Seq(S),
           NEW done \in 0..Len(u), Thinned(t, s)
    PROVE  Thinned(t \o SubSeq(u, 1, done), s \o u)
<1> DEFINE t1 == t \o SubSeq(u, 1, done)
<1> DEFINE s1 == s \o u
<1>1. PICK kept \in [DOMAIN t -> DOMAIN s] :
        /\ \A i, j \in DOMAIN t : i < j => kept[i] < kept[j]
        /\ \A i \in DOMAIN t : t[i] = s[kept[i]]
    BY DEF Thinned
<1>2. /\ SubSeq(u, 1, done) \in Seq(S) /\ Len(SubSeq(u, 1, done)) = done
      /\ \A i \in 1..done : SubSeq(u, 1, done)[i] = u[i]
    OBVIOUS
<1>3. /\ DOMAIN t1 = 1..(Len(t) + done) /\ DOMAIN s1 = 1..(Len(s) + Len(u))
      /\ \A i \in 1..Len(t) : t1[i] = t[i]
      /\ \A i \in 1..done : t1[Len(t) + i] = u[i]
      /\ \A i \in 1..Len(s) : s1[i] = s[i]
      /\ \A i \in 1..Len(u) : s1[Len(s) + i] = u[i]
    BY <1>2
<1> HIDE DEF t1, s1
<1>4. /\ Len(t) \in Nat /\ Len(s) \in Nat /\ Len(u) \in Nat /\ done \in Nat /\ done <= Len(u)
      /\ DOMAIN t = 1..Len(t) /\ DOMAIN s = 1..Len(s)
    OBVIOUS
<1> DEFINE more == [i \in DOMAIN t1 |-> IF i <= Len(t) THEN kept[i] ELSE Len(s) + (i - Len(t))]
<1>5. \A i \in DOMAIN t1 :
        \/ i \in DOMAIN t /\ more[i] = kept[i] /\ kept[i] \in 1..Len(s)
        \/ /\ i \notin DOMAIN t /\ i - Len(t) \in 1..done
           /\ more[i] = Len(s) + (i - Len(t)) /\ i = Len(t) + (i - Len(t))
    BY <1>1, <1>3, <1>4
<1> HIDE DEF more
<1>6. more \in [DOMAIN t1 -> DOMAIN s1]
    <2>1. ASSUME NEW i \in DOMAIN t1 PROVE more[i] \in DOMAIN s1
        <3>1. CASE i \in DOMAIN t
            BY <1>3, <1>4, <1>5, <3>1
        <3>2. CASE i \notin DOMAIN t
            <4>1. i - Len(t) \in 1..done /\ more[i] = Len(s) + (i - Len(t))
                BY <1>5, <3>2
            <4> DEFINE n == i - Len(t)
            <4>2. n \in Nat /\ n >= 1 /\ n <= done /\ more[i] = Len(s) + n
                BY <4>1
            <4> HIDE DEF n
            <4> QED
                BY <1>3, <1>4, <4>2
        <3> QED
            BY <3>1, <3>2
    <2> QED
        BY <2>1 DEF more
<1>7. \A i, j \in DOMAIN t1 : i < j => more[i] < more[j]
    <2> SUFFICES ASSUME NEW i \in DOMAIN t1, NEW j \in DOMAIN t1, i < j
                 PROVE  more[i] < more[j]
        OBVIOUS
    <2>1. i \in Nat /\ j \in Nat
        BY <1>3, <1>4
    <2>2. CASE i \in DOMAIN t /\ j \in DOMAIN t
        BY <1>1, <1>5, <2>2
    <2>3. CASE i \in DOMAIN t /\ j \notin DOMAIN t
        BY <1>4, <1>5, <2>1, <2>3
    <2>4. CASE i \notin DOMAIN t
        <3>1. j \notin DOMAIN t
            BY <1>3, <1>4, <2>1, <2>4
        <3>2. more[i] = Len(s) + (i - Len(t)) /\ more[j] = Len(s) + (j - Len(t))
            BY <1>5, <2>4, <3>1
        <3> QED
            BY <1>4, <2>1, <3>2
    <2> QED
        BY <2>2, <2>3, <2>4
<1>8. \A i \in DOMAIN t1 : t1[i] = s1[more[i]]
    <2> TAKE i \in DOMAIN t1
    <2>1. CASE i \in DOMAIN t
        BY <1>1, <1>3, <1>4, <1>5, <2>1
    <2>2. CASE i \notin DOMAIN t
        <3>1. /\ i - Len(t) \in 1..done /\ i - Len(t) \in 1..Len(u)
              /\ more[i] = Len(s) + (i - Len(t)) /\ i = Len(t) + (i - Len(t))
            BY <1>4, <1>5, <2>2
        <3> QED
            BY <1>3, <3>1
    <2> QED
        BY <2>1, <2>2
<1>9. Thinned(t1, s1)
    BY <1>6, <1>7, <1>8 DEF Thinned
<1> QED
    BY <1>9 DEF t1, s1

-----------------------------------------------------------------------------
(* The radios *)

LineTypes ==
    /\ text \in [Address -> Seq(Byte)]
    /\ buffer \in [Address -> Seq(Byte)]
    /\ messages \in [Address -> Seq(Message)]

\* Every buffer is its radio's unfinished line.
Buffered == \A a \in Address : Buffers(buffer[a], Reading(text[a]).line)

LineInv == LineTypes /\ Buffered /\ MessagesAreLines

LEMMA LineInit == Init => LineInv
<1> SUFFICES ASSUME Init PROVE LineInv
    OBVIOUS
<1>1. LineTypes
    BY EmptySeq DEF Init, LineTypes
<1>2. Buffered
    BY ReadingNothing DEF Init, Buffered, Buffers
<1>3. MessagesAreLines
    BY ReadingNothing DEF Init, MessagesAreLines
<1> QED
    BY <1>1, <1>2, <1>3 DEF LineInv

\* A packet keeps them for its radio and does not touch the others.
LEMMA ReceiveKeeps ==
    ASSUME LineInv, NEW a \in Address, NEW data \in Seq(Byte), data # <<>>,
           WellFormed(text[a] \o data), Receive(a, data)
    PROVE  LineInv'
<1> DEFINE t == text[a]
<1> DEFINE whole == buffer[a] \o data
<1> DEFINE count == Count(whole, "\n")
<1> DEFINE lines == SplitLines(whole)
<1> DEFINE new == [i \in 1..count |-> ToMessage(Stripped(lines[i]))]
<1> DEFINE rest == IF count = 0 THEN whole ELSE Rest(lines, count)
<1> DEFINE read == Reading(whole)
<1>1. PICK done \in (IF count > 0 THEN 1..count ELSE {0}) :
        /\ messages' = [messages EXCEPT ![a] = @ \o SubSeq(new, 1, done)]
        /\ lossless' = IF done = count THEN lossless ELSE lossless \ {a}
    BY DEF Receive
<1>2. text' = [text EXCEPT ![a] = @ \o data] /\ buffer' = [buffer EXCEPT ![a] = rest]
    BY DEF Receive
<1>3. /\ t \in Seq(Byte) /\ buffer[a] \in Seq(Byte) /\ messages[a] \in Seq(Message)
      /\ text \in [Address -> Seq(Byte)] /\ buffer \in [Address -> Seq(Byte)]
      /\ messages \in [Address -> Seq(Message)]
    BY DEF LineInv, LineTypes
<1>4. t \o data \in Seq(Byte) /\ whole \in Seq(Byte)
    BY <1>3, ConcatProperties
<1>5. Buffers(buffer[a], Reading(t).line)
    BY DEF LineInv, Buffered
<1>6. /\ WellFormed(whole)
      /\ Reading(t \o data).line = read.line
      /\ Reading(t \o data).messages = Reading(t).messages \o read.messages
    BY <1>3, <1>5, PacketRead
<1>7. /\ count \in Nat /\ new = read.messages
      /\ rest \in Seq(Byte) /\ Buffers(rest, read.line)
    BY <1>4, <1>6, PacketSplit
<1>8. read.messages \in Seq(Message) /\ Reading(t).messages \in Seq(Message)
    BY <1>3, <1>4, ReadingTyped DEF ReadState
<1>9. IF a \in lossless THEN messages[a] = Reading(t).messages
       ELSE Thinned(messages[a], Reading(t).messages)
    BY DEF LineInv, MessagesAreLines
<1> HIDE DEF t, whole, count, lines, new, rest, read
<1>10. Len(new) = count
    BY <1>7 DEF new
<1>11. done \in 0..Len(new) /\ new \in Seq(Message) /\ SubSeq(new, 1, done) \in Seq(Message)
    BY <1>1, <1>7, <1>8, <1>10
<1>12. /\ text'[a] = t \o data /\ buffer'[a] = rest
       /\ messages'[a] = messages[a] \o SubSeq(new, 1, done)
    BY <1>1, <1>2, <1>3 DEF t
<1>13. \A b \in Address \ {a} :
         /\ text'[b] = text[b] /\ buffer'[b] = buffer[b] /\ messages'[b] = messages[b]
         /\ b \in lossless' <=> b \in lossless
    BY <1>1, <1>2, <1>3
<1>14. LineTypes'
    <2>1. messages[a] \o SubSeq(new, 1, done) \in Seq(Message)
        BY <1>3, <1>11, ConcatProperties
    <2> QED
        BY <1>1, <1>2, <1>3, <1>4, <1>7, <2>1 DEF LineTypes, t
<1>15. Buffered'
    <2> SUFFICES ASSUME NEW b \in Address
                 PROVE  Buffers(buffer'[b], Reading(text'[b]).line)
        BY DEF Buffered
    <2>1. CASE b = a
        BY <1>6, <1>7, <1>12, <2>1
    <2>2. CASE b # a
        BY <1>13, <2>2 DEF LineInv, Buffered
    <2> QED
        BY <2>1, <2>2
<1>16. MessagesAreLines'
    <2> SUFFICES ASSUME NEW b \in Address
                 PROVE  IF b \in lossless' THEN messages'[b] = Reading(text'[b]).messages
                        ELSE Thinned(messages'[b], Reading(text'[b]).messages)
        BY DEF MessagesAreLines
    <2>1. CASE b # a
        BY <1>13, <2>1 DEF LineInv, MessagesAreLines
    <2>2. CASE b = a /\ a \in lossless'
        <3>1. a \in lossless /\ done = count
            BY <1>1, <2>2
        <3>2. SubSeq(new, 1, done) = new
            BY <1>10, <1>11, <3>1
        <3> QED
            BY <1>6, <1>7, <1>9, <1>12, <2>2, <3>1, <3>2
    <2>3. CASE b = a /\ a \notin lossless'
        <3>1. Thinned(messages[a], Reading(t).messages)
            BY <1>8, <1>9, ThinnedAll
        <3>2. Thinned(messages[a] \o SubSeq(new, 1, done), Reading(t).messages \o new)
            BY <1>3, <1>8, <1>11, <3>1, ThinnedMore
        <3> QED
            BY <1>6, <1>7, <1>12, <2>3, <3>2
    <2> QED
        BY <2>1, <2>2, <2>3
<1> QED
    BY <1>14, <1>15, <1>16 DEF LineInv

LEMMA LineAlways == Spec => []LineInv
<1>1. LineInv /\ [Next]_vars => LineInv'
    <2> SUFFICES ASSUME LineInv, [Next]_vars PROVE LineInv'
        OBVIOUS
    <2>1. CASE Next
        <3>1. PICK a \in Address, n \in 1..MaxChunk :
                \E data \in [1..n -> Byte] : WellFormed(text[a] \o data) /\ Receive(a, data)
            BY <2>1 DEF Next
        <3>2. PICK data \in [1..n -> Byte] : WellFormed(text[a] \o data) /\ Receive(a, data)
            BY <3>1
        <3>3. data \in Seq(Byte) /\ data # <<>>
            BY LineBufferAssumption
        <3> QED
            BY <3>2, <3>3, ReceiveKeeps
    <2>2. CASE UNCHANGED vars
        BY <2>2 DEF vars, LineInv, LineTypes, Buffered, MessagesAreLines
    <2> QED
        BY <2>1, <2>2
<1> QED
    BY <1>1, LineInit, PTL DEF Spec

\* The messages of a radio are the lines it sent, however they were cut into
\* packets, less the ones an exception in on_message lost.
THEOREM MessagesCorrect == Spec => []MessagesAreLines
<1>1. LineInv => MessagesAreLines
    BY DEF LineInv
<1> QED
    BY <1>1, LineAlways, PTL

\* What is kept of a radio is its unfinished line, but for its last "\r".
THEOREM BufferCorrect == Spec => []BufferIsUnfinishedLine
<1>1. LineInv => BufferIsUnfinishedLine
    <2> SUFFICES ASSUME LineInv, NEW a \in Address
                 PROVE  /\ "\n" \notin Range(buffer[a])
                        /\ Stripped(buffer[a]) = Stripped(Reading(text[a]).line)
        BY DEF BufferIsUnfinishedLine
    <2> DEFINE b == buffer[a]
    <2> DEFINE l == Reading(text[a]).line
    <2>1. b \in Seq(Byte) /\ text[a] \in Seq(Byte) /\ (l = b \/ l = Append(b, "\r"))
        BY DEF LineInv, LineTypes, Buffered, Buffers
    <2>2. \A i \in 1..Len(l) : l[i] # "\n"
        BY <2>1, LineUnfinished
    <2> HIDE DEF b, l
    <2>3. \A i \in 1..Len(b) : b[i] # "\n"
        BY <2>1, <2>2, LineBufferAssumption, AppendProperties
    <2>4. "\n" \notin Range(b)
        BY <2>1, <2>3 DEF Range
    <2>5. Stripped(b) = Stripped(l)
        BY <2>1, StrippedAppend
    <2> QED
        BY <2>4, <2>5 DEF b, l
<1> QED
    BY <1>1, LineAlways, PTL
=============================================================================
