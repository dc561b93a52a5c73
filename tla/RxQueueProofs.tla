---------------------------- MODULE RxQueueProofs ----------------------------
(***************************************************************************)
(* The safety of the queue of received messages, for any number of         *)
(* threads, hardware and messages, and that it implements RxFifo.          *)
(***************************************************************************)
EXTENDS RxQueue, SequenceTheorems, WellFoundedInduction, TLAPS

-----------------------------------------------------------------------------
(* Types *)

\* A set of numbers that is not empty has a least element.
LEMMA LeastNumber ==
    ASSUME NEW S, S \subseteq Nat, S # {}
    PROVE  \E n \in S : \A m \in S : ~(m < n)
<1> DEFINE R == {p \in Nat \X Nat : p[1] < p[2]}
<1>1. IsWellFoundedOn(R, Nat)
    BY NatLessThanWellFounded, Zenon DEF OpToRel
<1> HIDE DEF R
<1>2. \E n \in S : \A m \in S : ~(<<m, n>> \in R)
    BY <1>1, WFMin, Zenon
<1> QED
    BY <1>2 DEF R

\* A hardware that is listed is found, at the first of its positions.
LEMMA PositionTyped ==
    ASSUME m_hardwaredevices \in Seq(Hw), NEW h
    PROVE  /\ Position(h) \in Nat
           /\ Listed(h) => /\ Position(h) \in DOMAIN m_hardwaredevices
                           /\ m_hardwaredevices[Position(h)] = h
<1>1. CASE ~Listed(h)
    BY <1>1 DEF Position
<1>2. CASE Listed(h)
  <2> DEFINE S == {n \in DOMAIN m_hardwaredevices : m_hardwaredevices[n] = h}
  <2>1. S \subseteq Nat /\ S # {}
      BY <1>2 DEF Listed
  <2>2. PICK k \in S : \A m \in S : ~(m < k)
      BY <2>1, LeastNumber
  <2>3. \A m \in 1 .. k - 1 : m_hardwaredevices[m] # h
      BY <2>1, <2>2
  <2>4. /\ Position(h) \in DOMAIN m_hardwaredevices
        /\ m_hardwaredevices[Position(h)] = h
      BY <1>2, <2>2, <2>3 DEF Position
  <2> QED
      BY <2>4
<1> QED
    BY <1>1, <1>2

LEMMA MessageTyped ==
    ASSUME NEW i \in Nat, NEW h \in Hw \cup {Dummy}, NEW w \in BOOLEAN
    PROVE  [id |-> i, hw |-> h, waited |-> w] \in RxMessage
BY DEF RxMessage

LEMMA DummyTyped == DummyMessage \in RxMessage
BY DEF DummyMessage, RxMessage

Ops == {"decode", "update", "switch", "remove", "restart", "replace"}

LEMMA JobTyped ==
    /\ NoJob \in Job
    /\ \A o \in Ops, h \in Hw : Asked(o, h) \in Job
    /\ \A o \in Ops, h \in Hw, i, n \in Nat :
          [op |-> o, hw |-> h, index |-> i, seen |-> n] \in Job
BY DEF NoJob, Job, Asked, Ops

\* A thread that goes on does so with its own variables only.
LEMMA ContinueTyped ==
    ASSUME pc \in [Callers -> CallerSteps], job \in [Callers -> Job],
           NEW c \in Callers, NEW where \in CallerSteps, NEW j \in Job,
           Continue(c, where, j)
    PROVE  /\ pc' \in [Callers -> CallerSteps]
           /\ job' \in [Callers -> Job]
           /\ pc'[c] = where
           /\ job'[c] = IF where = "idle" THEN NoJob ELSE j
           /\ \A d \in Callers \ {c} : pc'[d] = pc[d] /\ job'[d] = job[d]
BY JobTyped DEF Continue

\* What is found is a position and the count of erasures.
LEMMA FoundTyped ==
    ASSUME TypeOK, NEW o \in Ops, NEW h \in Hw
    PROVE  Found(o, h) \in Job
<1>1. Position(h) \in Nat /\ erased \in Nat
    BY PositionTyped DEF TypeOK
<1> QED
    BY <1>1, JobTyped DEF Found

\* Taking one element out of a list leaves a list.
LEMMA WithoutTyped ==
    ASSUME NEW s \in Seq(Hw), NEW n \in DOMAIN s
    PROVE  Without(s, n) \in Seq(Hw)
<1>1. n \in 1 .. Len(s) /\ Len(s) \in Nat
    OBVIOUS
<1>2. SubSeq(s, 1, n - 1) \in Seq(Hw) /\ SubSeq(s, n + 1, Len(s)) \in Seq(Hw)
    BY <1>1, SubSeqProperties
<1> QED
    BY <1>2, ConcatProperties DEF Without

-----------------------------------------------------------------------------
(* The invariant *)

\* The worker has a message in its hands only while it works on it, points at
\* hardware only while it processes one, and has ended when Stop() goes on.
\* Stop() holds the mutex while it stops hardware.
WorkerInv ==
    /\ worker \notin {"lookup", "process"} => rxQItem = DummyMessage
    /\ worker \in {"lookup", "process"} => rxQItem.hw \in Hw /\ rxQItem.id > 0
    /\ worker # "process" => pHardware = None
    /\ stop \notin {"up", "flagged"} => worker = "ended"
    /\ m_stopRxMessageThread => stop # "up"
    /\ stop = "hardware" => m_devicemutex = Stopper

\* The messages of the queue are numbered in their order, dummies aside.
QueueInv ==
    /\ rxQItem.id \in 0 .. pushed
    /\ \A n \in DOMAIN m_rxMessageQueue :
          /\ m_rxMessageQueue[n].id \in 0 .. pushed
          /\ m_rxMessageQueue[n].hw = Dummy => m_rxMessageQueue[n] = DummyMessage
          /\ m_rxMessageQueue[n].hw # Dummy => m_rxMessageQueue[n].id > rxQItem.id
    /\ \A m, n \in DOMAIN m_rxMessageQueue :
          m < n /\ m_rxMessageQueue[n].hw # Dummy
          => m_rxMessageQueue[m].id < m_rxMessageQueue[n].id

\* Neither in the queue nor in the hands of the worker.
DoneWith(i) ==
    /\ rxQItem.id # i
    /\ \A n \in DOMAIN m_rxMessageQueue : m_rxMessageQueue[n].id # i

\* Who waits has a trigger of its own, set once its message is done with.
WaitInv ==
    /\ \A c \in Callers :
          /\ trigger[c] \in 0 .. pushed
          /\ trigger[c] # 0 <=> pc[c] = "wait"
          /\ elementPopped[c] => pc[c] = "wait" /\ DoneWith(trigger[c])
    /\ \A c, d \in Callers : trigger[c] # 0 /\ trigger[c] = trigger[d] => c = d

\* A thread works on some hardware; a removal keeps the mutex, and the position
\* of what it removes; nothing is found later than it is erased.
ListInv ==
    \A c \in Callers :
        /\ pc[c] # "idle" => job[c].hw \in Hw
        /\ pc[c] = "join" => /\ m_devicemutex = c
                             /\ job[c].index \in DOMAIN m_hardwaredevices
        /\ job[c].seen <= erased

IInv == TypeOK /\ WorkerInv /\ QueueInv /\ WaitInv /\ ListInv

-----------------------------------------------------------------------------
(* Types are kept *)

\* The steps of a thread up to the queue, and those that only look for hardware.
Looking(c) ==
    \/ Decode(c) \/ Lookup(c) \/ CheckRxMessage(c) \/ FindForAddition(c)
    \/ \E o \in {"update", "switch"}, h \in Hw : Request(c, o, h)
    \/ \E o \in {"remove", "restart"}, h \in Hw : FindForRemoval(c, o, h)

LEMMA StepCases ==
    ASSUME [Next]_vars
    PROVE  \/ \E c \in Callers :
                 \/ Looking(c) \/ PushRxMessage(c) \/ EndWait(c)
                 \/ BeginRemoval(c) \/ EndRemoval(c) \/ AddHardware(c)
           \/ WorkerStep \/ RaiseFlag \/ StopStep
           \/ UNCHANGED vars
BY Zenon DEF Next, Environment, CallerStep, Looking

\* The hardware a position without the mutex leads to.
LEMMA AtIndexTyped ==
    ASSUME m_hardwaredevices \in Seq(Hw), NEW n
    PROVE  AtIndex(n) \subseteq Hw
BY DEF AtIndex

\* Looking for hardware changes nothing but the thread that does.
LEMMA LookingTyped ==
    ASSUME IInv, NEW c \in Callers, Looking(c)
    PROVE  /\ UNCHANGED <<queueVars, m_stopRxMessageThread, workerVars, pHardware,
                          listVars, waitVars, stop>>
           /\ pc[c] # "wait" /\ pc[c] # "join"
           /\ \E where \in CallerSteps \ {"wait", "join"}, j \in Job :
                 /\ j.hw \in Hw
                 /\ j.seen = 0 \/ j.seen = erased
                 /\ Continue(c, where, j)
<1> USE DEF IInv
<1>0. TypeOK /\ pc[c] # "idle" => job[c].hw \in Hw /\ job[c].op \in Ops
    BY DEF TypeOK, Job, Ops, ListInv
<1>1. CASE Decode(c)
  <2>1. Owner[c] \in Hw /\ "decode" \in Ops
      BY <1>1 DEF Decode, Ops
  <2>2. Asked("decode", Owner[c]) \in Job
      BY <2>1, JobTyped
  <2> QED
      BY <1>1, <2>1, <2>2 DEF Decode, Asked, CallerSteps
<1>2. CASE Lookup(c)
  <2>1. Found(job[c].op, job[c].hw) \in Job
      BY <1>0, <1>2, FoundTyped DEF Lookup, ListInv, TypeOK, Job, Ops
  <2> QED
      BY <1>0, <1>2, <2>1 DEF Lookup, Found, CallerSteps
<1>3. CASE CheckRxMessage(c)
  <2>1. PICK h \in (IF Waits(c) THEN AtIndex(job[c].index) ELSE {job[c].hw}) :
          Continue(c, IF m_stopRxMessageThread THEN "idle" ELSE "push", Asked(job[c].op, h))
      BY <1>3 DEF CheckRxMessage
  <2>2. h \in Hw
      BY <1>0, <1>3, <2>1, AtIndexTyped DEF TypeOK, CheckRxMessage
  <2>3. Asked(job[c].op, h) \in Job
      BY <1>0, <1>3, <2>2, JobTyped DEF CheckRxMessage, TypeOK, Job, Ops
  <2> QED
      BY <1>3, <2>1, <2>2, <2>3 DEF CheckRxMessage, Asked, CallerSteps
<1>4. CASE FindForAddition(c)
  <2>1. Found("replace", job[c].hw) \in Job
      BY <1>0, <1>4, FoundTyped DEF FindForAddition, Ops
  <2> QED
      BY <1>0, <1>4, <2>1 DEF FindForAddition, Found, CallerSteps
<1>5. ASSUME NEW o \in {"update", "switch"}, NEW h \in Hw, Request(c, o, h)
      PROVE  /\ UNCHANGED <<queueVars, m_stopRxMessageThread, workerVars, pHardware,
                            listVars, waitVars, stop>>
             /\ pc[c] # "wait" /\ pc[c] # "join"
             /\ \E where \in CallerSteps \ {"wait", "join"}, j \in Job :
                   /\ j.hw \in Hw
                   /\ j.seen = 0 \/ j.seen = erased
                   /\ Continue(c, where, j)
    BY <1>5, JobTyped DEF Request, Asked, CallerSteps, Ops
<1>6. ASSUME NEW o \in {"remove", "restart"}, NEW h \in Hw, FindForRemoval(c, o, h)
      PROVE  /\ UNCHANGED <<queueVars, m_stopRxMessageThread, workerVars, pHardware,
                            listVars, waitVars, stop>>
             /\ pc[c] # "wait" /\ pc[c] # "join"
             /\ \E where \in CallerSteps \ {"wait", "join"}, j \in Job :
                   /\ j.hw \in Hw
                   /\ j.seen = 0 \/ j.seen = erased
                   /\ Continue(c, where, j)
  <2>1. Found(o, h) \in Job
      BY FoundTyped DEF Ops
  <2> QED
      BY <1>6, <2>1 DEF FindForRemoval, Found, CallerSteps
<1> QED
    BY <1>1, <1>2, <1>3, <1>4, <1>5, <1>6 DEF Looking

\* What a step of the worker, or of Stop(), may do.
LEMMA WorkerCases ==
    ASSUME IInv, WorkerStep
    PROVE  /\ UNCHANGED <<pushed, listVars, pc, job, trigger, stop>>
           /\ m_stopRxMessageThread' \in {m_stopRxMessageThread, FALSE}
           /\ stop \in {"up", "flagged"}
           /\ worker' \in WorkerSteps
           /\ \/ /\ UNCHANGED <<m_rxMessageQueue, rxQItem, pHardware, elementPopped>>
                 /\ worker' \in {"check", "ended", "pop"}
                 /\ worker \notin {"lookup", "process"}
              \/ /\ worker = "pop" /\ m_rxMessageQueue # <<>>
                 /\ m_rxMessageQueue' = Tail(m_rxMessageQueue)
                 /\ rxQItem' = Head(m_rxMessageQueue)
                 /\ worker' = IF rxQItem'.hw = Dummy THEN "check" ELSE "lookup"
                 /\ UNCHANGED <<pHardware, elementPopped>>
              \/ /\ worker = "lookup" /\ worker' = "process"
                 /\ pHardware' = rxQItem.hw
                 /\ UNCHANGED <<m_rxMessageQueue, rxQItem, elementPopped>>
              \/ /\ worker \in {"lookup", "process"}
                 /\ UNCHANGED m_rxMessageQueue
                 /\ Popped
<1> USE DEF IInv, TypeOK, WorkerInv, StopSteps, WorkerSteps, WorkerGoto,
            queueVars, listVars, waitVars, workerVars
<1>1. CASE StartWorker
    BY <1>1 DEF StartWorker
<1>2. CASE CheckStop
    BY <1>2 DEF CheckStop
<1>3. CASE Pop
    BY <1>3 DEF Pop
<1>4. CASE PopTimesOut
    BY <1>4 DEF PopTimesOut
<1>5. CASE LookupHardware
    BY <1>5 DEF LookupHardware, Refuse, Popped
<1>6. CASE ProcessRXMessage
    BY <1>6 DEF ProcessRXMessage, Popped
<1> QED
    BY <1>1, <1>2, <1>3, <1>4, <1>5, <1>6 DEF WorkerStep

LEMMA StopCases ==
    ASSUME IInv, StopStep
    PROVE  /\ UNCHANGED <<queueVars, m_stopRxMessageThread, workerVars, pHardware,
                          pc, job, waitVars>>
           /\ stop # "up" /\ stop' \in StopSteps \ {"up", "flagged"}
           /\ worker = "ended"
           /\ stop' = "hardware" => m_devicemutex' = Stopper
           /\ \/ UNCHANGED listVars
              \/ /\ m_devicemutex = None /\ m_devicemutex' = Stopper
                 /\ UNCHANGED <<m_hardwaredevices, stopping, erased>>
              \/ /\ stopping' \subseteq Hw
                 /\ UNCHANGED <<m_hardwaredevices, m_devicemutex, erased>>
              \/ /\ stop = "hardware" /\ m_hardwaredevices' = <<>> /\ stopping' = {}
                 /\ m_devicemutex' = None /\ erased' = erased + 1
<1> USE DEF IInv, TypeOK, WorkerInv, StopSteps, StopGoto, queueVars, listVars,
            waitVars, workerVars
<1>1. CASE JoinWorker
    BY <1>1 DEF JoinWorker, WorkerJoined
<1>2. CASE StopServers
    BY <1>2 DEF StopServers
<1>3. CASE BeginStopHardware
    BY <1>3 DEF BeginStopHardware
<1>4. CASE AskNextToStop
    BY <1>4 DEF AskNextToStop
<1>5. CASE EndStopHardware
  <2>1. pHardware = None /\ ~Listed(None)
      BY <1>5, RxAssumption DEF EndStopHardware, Listed
  <2> QED
      BY <1>5, <2>1 DEF EndStopHardware
<1>6. CASE JoinMain
    BY <1>6 DEF JoinMain
<1> QED
    BY <1>1, <1>2, <1>3, <1>4, <1>5, <1>6 DEF StopStep

\* A thread that removes hardware.
LEMMA RemovalCases ==
    ASSUME IInv, NEW c \in Callers, BeginRemoval(c) \/ EndRemoval(c)
    PROVE  /\ UNCHANGED <<queueVars, m_stopRxMessageThread, workerVars, waitVars, stop>>
           /\ pc[c] \in {"remove", "join"}
           /\ m_devicemutex \in {None, c}
           /\ m_devicemutex' \in {None, c}
           /\ m_hardwaredevices' \in Seq(Hw) /\ stopping' \subseteq Hw
           /\ erased' \in {erased, erased + 1}
           /\ pHardware' = pHardware \/ (pHardware \in Hw /\ pHardware' = Freed)
           /\ \/ /\ Goto(c, "join")
                 /\ m_devicemutex' = c
                 /\ job[c].index \in DOMAIN m_hardwaredevices'
              \/ \E where \in {"add", "append", "idle"} : Goto(c, where)
<1> USE DEF IInv, TypeOK, queueVars, listVars, waitVars, workerVars, AfterRemoval
<1>1. CASE BeginRemoval(c)
  <2>1. job[c].index \in DOMAIN m_hardwaredevices => m_hardwaredevices[job[c].index] \in Hw
      OBVIOUS
  <2>2. CASE job[c].index \in DOMAIN m_hardwaredevices
      BY <1>1, <2>1, <2>2 DEF BeginRemoval
  <2>3. CASE job[c].index \notin DOMAIN m_hardwaredevices
    <3>1. \E where \in {"add", "append", "idle"} : Goto(c, where)
        BY <1>1, <2>3, Zenon DEF BeginRemoval
    <3> QED
        BY <1>1, <2>3, <3>1 DEF BeginRemoval
  <2> QED
      BY <2>2, <2>3
<1>2. CASE EndRemoval(c)
  <2>1. job[c].index \in DOMAIN m_hardwaredevices /\ m_devicemutex = c
      BY <1>2 DEF EndRemoval, ListInv
  <2>2. m_hardwaredevices[job[c].index] \in Hw
      BY <2>1
  <2>3. Without(m_hardwaredevices, job[c].index) \in Seq(Hw)
      BY <2>1, WithoutTyped
  <2>4. erased' = erased + 1 /\ m_devicemutex' = None
      BY <1>2 DEF EndRemoval
  <2>5. \E where \in {"add", "append", "idle"} : Goto(c, where)
      BY <1>2 DEF EndRemoval
  <2>6. UNCHANGED <<queueVars, m_stopRxMessageThread, workerVars, waitVars, stop>>
      BY <1>2 DEF EndRemoval
  <2>7. stopping' \subseteq Hw /\ m_hardwaredevices' \in Seq(Hw)
      BY <1>2, <2>3 DEF EndRemoval
  <2>8. pHardware' = pHardware \/ (pHardware \in Hw /\ pHardware' = Freed)
      BY <1>2, <2>2 DEF EndRemoval, Deleted
  <2> QED
      BY <1>2, <2>1, <2>4, <2>5, <2>6, <2>7, <2>8 DEF EndRemoval
<1> QED
    BY <1>1, <1>2

LEMMA TypeKept ==
    ASSUME IInv, [Next]_vars
    PROVE  TypeOK'
<1> USE DEF IInv, queueVars, listVars, waitVars, workerVars
<1>1. ASSUME NEW c \in Callers, Looking(c)
      PROVE  TypeOK'
    BY <1>1, LookingTyped, ContinueTyped DEF TypeOK
<1>2. ASSUME NEW c \in Callers, PushRxMessage(c)
      PROVE  TypeOK'
  <2> DEFINE m == [id |-> pushed + 1, hw |-> job[c].hw, waited |-> Waits(c)]
  <2>1. m \in RxMessage
    <3>1. pushed + 1 \in Nat /\ job[c].hw \in Hw \cup {Dummy} /\ Waits(c) \in BOOLEAN
        BY <1>2 DEF PushRxMessage, TypeOK, ListInv, Waits
    <3> QED
        BY <3>1 DEF RxMessage
  <2>2. m_rxMessageQueue' \in Seq(RxMessage)
      BY <1>2, <2>1, AppendProperties DEF PushRxMessage, TypeOK
  <2>3. pc' \in [Callers -> CallerSteps] /\ job' \in [Callers -> Job]
      BY <1>2, ContinueTyped DEF PushRxMessage, TypeOK, Goto, CallerSteps
  <2>4. pushed' \in Nat /\ trigger' \in [Callers -> Nat]
      BY <1>2 DEF PushRxMessage, TypeOK
  <2> QED
      BY <1>2, <2>2, <2>3, <2>4 DEF PushRxMessage, TypeOK
<1>3. ASSUME NEW c \in Callers, EndWait(c)
      PROVE  TypeOK'
  <2>1. pc' \in [Callers -> CallerSteps] /\ job' \in [Callers -> Job]
      BY <1>3, ContinueTyped DEF EndWait, TypeOK, Goto, CallerSteps
  <2> QED
      BY <1>3, <2>1 DEF EndWait, TypeOK
<1>4. ASSUME NEW c \in Callers, BeginRemoval(c) \/ EndRemoval(c)
      PROVE  TypeOK'
  <2>1. pc' \in [Callers -> CallerSteps] /\ job' \in [Callers -> Job]
      BY <1>4, RemovalCases, ContinueTyped DEF TypeOK, Goto, CallerSteps
  <2>2. UNCHANGED <<queueVars, m_stopRxMessageThread, workerVars, waitVars, stop>>
      BY <1>4, RemovalCases
  <2>3. m_hardwaredevices' \in Seq(Hw) /\ stopping' \subseteq Hw
      BY <1>4, RemovalCases
  <2>4. m_devicemutex' \in Callers \cup {None, Stopper}
      BY <1>4, RemovalCases
  <2>5. erased' \in Nat
    <3>1. erased' \in {erased, erased + 1} /\ erased \in Nat
        BY <1>4, RemovalCases DEF TypeOK
    <3> QED
        BY <3>1
  <2>6. pHardware' \in Hw \cup {None, Freed}
    <3>1. pHardware' = pHardware \/ pHardware' = Freed
        BY <1>4, RemovalCases
    <3> QED
        BY <3>1 DEF TypeOK
  <2> QED
      BY <2>1, <2>2, <2>3, <2>4, <2>5, <2>6 DEF TypeOK
<1>5. ASSUME NEW c \in Callers, AddHardware(c)
      PROVE  TypeOK'
  <2>1. pc' \in [Callers -> CallerSteps] /\ job' \in [Callers -> Job]
      BY <1>5, ContinueTyped DEF AddHardware, TypeOK, Goto, CallerSteps
  <2>2. m_hardwaredevices' \in Seq(Hw)
      BY <1>5, AppendProperties DEF AddHardware, Added, TypeOK, ListInv
  <2> QED
      BY <1>5, <2>1, <2>2 DEF AddHardware, TypeOK
<1>6. CASE WorkerStep
  <2>1. m_rxMessageQueue # <<>> =>
           /\ Head(m_rxMessageQueue) \in RxMessage
           /\ Tail(m_rxMessageQueue) \in Seq(RxMessage)
      BY HeadTailProperties DEF TypeOK
  <2>2. m_rxMessageQueue' \in Seq(RxMessage) /\ rxQItem' \in RxMessage
      BY <1>6, <2>1, WorkerCases, DummyTyped DEF TypeOK, Popped
  <2>3. pHardware' \in Hw \cup {None, Freed}
      BY <1>6, WorkerCases DEF TypeOK, WorkerInv, Popped
  <2>4. elementPopped' \in [Callers -> BOOLEAN]
    <3>1. CASE Popped
        BY <3>1 DEF Popped, TypeOK
    <3> QED
        BY <1>6, <3>1, WorkerCases DEF TypeOK
  <2> QED
      BY <1>6, <2>2, <2>3, <2>4, WorkerCases DEF TypeOK
<1>7. CASE RaiseFlag
    BY <1>7, DummyTyped, AppendProperties DEF RaiseFlag, StopGoto, StopSteps, TypeOK
<1>8. CASE StopStep
  <2>1. <<>> \in Seq(Hw)
      OBVIOUS
  <2>2. /\ UNCHANGED <<queueVars, m_stopRxMessageThread, workerVars, pHardware,
                       pc, job, waitVars>>
        /\ stop' \in StopSteps
      BY <1>8, StopCases
  <2>3. m_hardwaredevices' \in Seq(Hw) /\ stopping' \subseteq Hw
      BY <1>8, <2>1, StopCases DEF TypeOK
  <2>4. m_devicemutex' \in Callers \cup {None, Stopper}
      BY <1>8, StopCases DEF TypeOK
  <2>5. erased' \in Nat
    <3>1. (erased' = erased \/ erased' = erased + 1) /\ erased \in Nat
        BY <1>8, StopCases DEF TypeOK
    <3> QED
        BY <3>1
  <2> QED
      BY <2>2, <2>3, <2>4, <2>5 DEF TypeOK
<1>9. CASE UNCHANGED vars
    BY <1>9 DEF vars, TypeOK
<1> QED
    BY <1>1, <1>2, <1>3, <1>4, <1>5, <1>6, <1>7, <1>8, <1>9, StepCases

LEMMA WorkerKept ==
    ASSUME IInv, [Next]_vars
    PROVE  WorkerInv'
<1> USE DEF IInv, queueVars, listVars, waitVars, workerVars
<1>1. ASSUME NEW c \in Callers, Looking(c)
      PROVE  WorkerInv'
    BY <1>1, LookingTyped DEF WorkerInv
<1>2. ASSUME NEW c \in Callers, PushRxMessage(c) \/ EndWait(c) \/ AddHardware(c)
      PROVE  WorkerInv'
    BY <1>2 DEF PushRxMessage, EndWait, AddHardware, WorkerInv
<1>3. ASSUME NEW c \in Callers, BeginRemoval(c) \/ EndRemoval(c)
      PROVE  WorkerInv'
    BY <1>3, RemovalCases, RxAssumption DEF WorkerInv
<1>4. CASE WorkerStep
  <2>0. stop' = stop /\ stop \in {"up", "flagged"}
      BY <1>4, WorkerCases
  <2>1. stop' = stop /\ stop \in {"up", "flagged"}
        /\ (m_stopRxMessageThread' => stop' # "up")
    <3>1. m_stopRxMessageThread' = m_stopRxMessageThread \/ m_stopRxMessageThread' = FALSE
        BY <1>4, WorkerCases
    <3> QED
        BY <2>0, <3>1 DEF WorkerInv
  <2>2. CASE worker = "pop" /\ m_rxMessageQueue # <<>>
             /\ rxQItem' = Head(m_rxMessageQueue)
             /\ worker' = (IF rxQItem'.hw = Dummy THEN "check" ELSE "lookup")
             /\ UNCHANGED pHardware
    <3>1. 1 \in DOMAIN m_rxMessageQueue /\ Head(m_rxMessageQueue) = m_rxMessageQueue[1]
          /\ m_rxMessageQueue[1] \in RxMessage
        BY <2>2 DEF TypeOK
    <3>2. rxQItem'.hw = Dummy => rxQItem' = DummyMessage
        BY <2>2, <3>1 DEF QueueInv
    <3>3. rxQItem'.hw # Dummy => rxQItem'.hw \in Hw /\ rxQItem'.id > 0
      <4>1. rxQItem'.hw # Dummy => m_rxMessageQueue[1].id > rxQItem.id
          BY <2>2, <3>1 DEF QueueInv
      <4>2. m_rxMessageQueue[1].id \in Nat /\ rxQItem.id \in Nat
            /\ m_rxMessageQueue[1].hw \in Hw \cup {Dummy}
          BY <3>1 DEF RxMessage, TypeOK
      <4> QED
          BY <2>2, <3>1, <4>1, <4>2
    <3> QED
        BY <2>1, <2>2, <3>2, <3>3 DEF WorkerInv
  <2>3. CASE /\ UNCHANGED <<rxQItem, pHardware>>
             /\ worker' \in {"check", "ended", "pop"}
             /\ worker \notin {"lookup", "process"}
      BY <2>1, <2>3 DEF WorkerInv
  <2>4. CASE worker = "lookup" /\ worker' = "process" /\ UNCHANGED rxQItem
      BY <2>1, <2>4 DEF WorkerInv
  <2>5. CASE Popped
      BY <2>1, <2>5 DEF WorkerInv, Popped, WorkerGoto
  <2> QED
      BY <1>4, <2>2, <2>3, <2>4, <2>5, WorkerCases
<1>5. CASE RaiseFlag
    BY <1>5 DEF RaiseFlag, StopGoto, WorkerInv
<1>6. CASE StopStep
    BY <1>6, StopCases DEF WorkerInv
<1>7. CASE UNCHANGED vars
    BY <1>7 DEF vars, WorkerInv
<1> QED
    BY <1>1, <1>2, <1>3, <1>4, <1>5, <1>6, <1>7, StepCases

-----------------------------------------------------------------------------
(* The queue, the waiters and the list are kept *)

\* What a push adds comes last, and what a pop leaves moves up.
LEMMA AppendIndex ==
    ASSUME NEW s \in Seq(RxMessage), NEW e \in RxMessage
    PROVE  /\ DOMAIN s = 1 .. Len(s) /\ Len(s) \in Nat
           /\ DOMAIN Append(s, e) = 1 .. Len(s) + 1
           /\ \A n \in 1 .. Len(s) : Append(s, e)[n] = s[n]
           /\ Append(s, e)[Len(s) + 1] = e
OBVIOUS

LEMMA TailIndex ==
    ASSUME NEW s \in Seq(RxMessage), s # <<>>
    PROVE  /\ 1 \in DOMAIN s /\ Head(s) = s[1]
           /\ \A n \in DOMAIN Tail(s) : n \in Nat /\ n + 1 \in DOMAIN s /\ Tail(s)[n] = s[n + 1]
OBVIOUS

\* Who pushes while it waits for an answer, and the only ones who push.
LEMMA PushTyped ==
    ASSUME IInv, NEW c \in Callers, PushRxMessage(c)
    PROVE  /\ pushed \in Nat /\ pushed' = pushed + 1
           /\ \E m \in RxMessage :
                 /\ m = [id |-> pushed + 1, hw |-> job[c].hw, waited |-> Waits(c)]
                 /\ m.id = pushed + 1 /\ m.hw \in Hw /\ m.hw # Dummy
                 /\ m_rxMessageQueue' = Append(m_rxMessageQueue, m)
                 /\ m.waited => pc'[c] = "wait" /\ trigger'[c] = pushed + 1
                 /\ ~m.waited => pc'[c] = "idle" /\ trigger'[c] = 0
           /\ \A d \in Callers \ {c} :
                 pc'[d] = pc[d] /\ job'[d] = job[d] /\ trigger'[d] = trigger[d]
           /\ pc'[c] # "idle" => job'[c] = job[c]
           /\ pc'[c] \in {"wait", "idle"}
           /\ pc[c] = "push"
           /\ UNCHANGED <<m_stopRxMessageThread, workerVars, pHardware, listVars,
                          elementPopped, stop>>
<1> DEFINE m == [id |-> pushed + 1, hw |-> job[c].hw, waited |-> Waits(c)]
<1>1. pushed \in Nat /\ job[c].hw \in Hw /\ Waits(c) \in BOOLEAN /\ job[c] \in Job
    BY DEF PushRxMessage, IInv, TypeOK, ListInv, Waits
<1>2. m \in RxMessage
    BY <1>1 DEF RxMessage
<1>3. Continue(c, IF Waits(c) THEN "wait" ELSE "idle", job[c])
    BY DEF PushRxMessage, Goto
<1>4. /\ pc'[c] = IF Waits(c) THEN "wait" ELSE "idle"
      /\ job'[c] = IF pc'[c] = "idle" THEN NoJob ELSE job[c]
      /\ \A d \in Callers \ {c} : pc'[d] = pc[d] /\ job'[d] = job[d]
    BY <1>3 DEF Continue, IInv, TypeOK
<1>5. /\ trigger'[c] = IF Waits(c) THEN pushed + 1 ELSE 0
      /\ \A d \in Callers \ {c} : trigger'[d] = trigger[d]
    BY DEF PushRxMessage, IInv, TypeOK
<1>6. m.hw # Dummy /\ m.hw \in Hw /\ m.id = pushed + 1 /\ m.waited = Waits(c)
    BY <1>1, RxAssumption
<1>7. m_rxMessageQueue' = Append(m_rxMessageQueue, m)
    BY DEF PushRxMessage
<1> HIDE DEF m
<1>8. \E x \in RxMessage :
          /\ x = [id |-> pushed + 1, hw |-> job[c].hw, waited |-> Waits(c)]
          /\ x.id = pushed + 1 /\ x.hw \in Hw /\ x.hw # Dummy
          /\ m_rxMessageQueue' = Append(m_rxMessageQueue, x)
          /\ x.waited => pc'[c] = "wait" /\ trigger'[c] = pushed + 1
          /\ ~x.waited => pc'[c] = "idle" /\ trigger'[c] = 0
  <2> WITNESS m \in RxMessage
  <2> QED
      BY <1>4, <1>5, <1>6, <1>7 DEF m
<1> QED
    BY <1>1, <1>4, <1>5, <1>8 DEF PushRxMessage

LEMMA QueueKept ==
    ASSUME IInv, [Next]_vars
    PROVE  QueueInv'
<1>0. TypeOK /\ TypeOK'
    BY TypeKept DEF IInv
<1> DEFINE q == m_rxMessageQueue
<1>1. ASSUME UNCHANGED <<m_rxMessageQueue, pushed, rxQItem>>
      PROVE  QueueInv'
    BY <1>1 DEF IInv, QueueInv, DummyMessage
<1>2. ASSUME NEW c \in Callers, PushRxMessage(c)
      PROVE  QueueInv'
  <2>1. PICK m \in RxMessage :
          m.id = pushed + 1 /\ m.hw # Dummy /\ q' = Append(q, m)
      BY <1>2, PushTyped
  <2>2. UNCHANGED rxQItem /\ pushed \in Nat /\ pushed' = pushed + 1
      BY <1>2, PushTyped DEF workerVars
  <2>3. /\ DOMAIN q = 1 .. Len(q) /\ Len(q) \in Nat /\ DOMAIN q' = 1 .. Len(q) + 1
        /\ \A n \in 1 .. Len(q) : q'[n] = q[n] /\ q[n] \in RxMessage
        /\ q'[Len(q) + 1] = m
      BY <1>0, <2>1, AppendIndex DEF TypeOK
  <2>4. rxQItem.id \in 0 .. pushed /\ \A n \in 1 .. Len(q) : q[n].id \in 0 .. pushed
      BY <2>3 DEF IInv, QueueInv
  <2>5. rxQItem'.id \in 0 .. pushed'
      BY <2>2, <2>4
  <2>6. \A n \in DOMAIN q' :
          /\ q'[n].id \in 0 .. pushed'
          /\ q'[n].hw = Dummy => q'[n] = DummyMessage
          /\ q'[n].hw # Dummy => q'[n].id > rxQItem'.id
      BY <2>1, <2>2, <2>3, <2>4 DEF IInv, QueueInv
  <2>7. \A i, n \in DOMAIN q' : i < n /\ q'[n].hw # Dummy => q'[i].id < q'[n].id
    <3> TAKE i, n \in DOMAIN q'
    <3> HAVE i < n /\ q'[n].hw # Dummy
    <3>1. i \in 1 .. Len(q) /\ q'[i] = q[i]
        BY <2>3
    <3>2. CASE n = Len(q) + 1
        BY <2>1, <2>2, <2>3, <2>4, <3>1, <3>2
    <3>3. CASE n \in 1 .. Len(q)
        BY <2>3, <3>1, <3>3 DEF IInv, QueueInv
    <3> QED
        BY <2>3, <3>2, <3>3
  <2> QED
      BY <2>5, <2>6, <2>7 DEF QueueInv, DummyMessage
<1>3. CASE q' = Append(q, DummyMessage) /\ UNCHANGED <<pushed, rxQItem>>
  <2>3. /\ DOMAIN q = 1 .. Len(q) /\ Len(q) \in Nat /\ DOMAIN q' = 1 .. Len(q) + 1
        /\ \A n \in 1 .. Len(q) : q'[n] = q[n] /\ q[n] \in RxMessage
        /\ q'[Len(q) + 1] = DummyMessage
      BY <1>0, <1>3, AppendIndex, DummyTyped DEF TypeOK
  <2>4. pushed \in Nat /\ DummyMessage.id = 0 /\ DummyMessage.hw = Dummy
      BY <1>0 DEF TypeOK, DummyMessage
  <2>5. \A n \in DOMAIN q' :
          /\ q'[n].id \in 0 .. pushed'
          /\ q'[n].hw = Dummy => q'[n] = DummyMessage
          /\ q'[n].hw # Dummy => q'[n].id > rxQItem'.id
      BY <1>3, <2>3, <2>4 DEF IInv, QueueInv
  <2>6. \A i, n \in DOMAIN q' : i < n /\ q'[n].hw # Dummy => q'[i].id < q'[n].id
      BY <2>3, <2>4 DEF IInv, QueueInv
  <2> QED
      BY <1>3, <2>5, <2>6 DEF IInv, QueueInv, DummyMessage
<1>4. CASE WorkerStep
  <2>1. CASE q # <<>> /\ q' = Tail(q) /\ rxQItem' = Head(q) /\ UNCHANGED pushed
             /\ worker = "pop"
    <3>1. /\ 1 \in DOMAIN q /\ rxQItem' = q[1] /\ q[1] \in RxMessage
          /\ \A n \in DOMAIN q' : n \in Nat /\ n + 1 \in DOMAIN q /\ q'[n] = q[n + 1]
        BY <1>0, <2>1, TailIndex DEF TypeOK
    <3>2. rxQItem'.id \in 0 .. pushed'
        BY <2>1, <3>1 DEF IInv, QueueInv
    <3>3. \A n \in DOMAIN q' :
            /\ q'[n].id \in 0 .. pushed'
            /\ q'[n].hw = Dummy => q'[n] = DummyMessage
        BY <2>1, <3>1 DEF IInv, QueueInv
    <3>4. \A n \in DOMAIN q' : q'[n].hw # Dummy => q'[n].id > rxQItem'.id
      <4> TAKE n \in DOMAIN q'
      <4>1. n + 1 \in DOMAIN q /\ 1 \in DOMAIN q /\ 1 < n + 1 /\ q'[n] = q[n + 1]
            /\ q[n + 1] \in RxMessage
          BY <1>0, <3>1 DEF TypeOK
      <4>2. q'[n].hw # Dummy => q[1].id < q[n + 1].id
          BY <4>1 DEF IInv, QueueInv
      <4> QED
          BY <3>1, <4>1, <4>2 DEF RxMessage
    <3>5. \A i, n \in DOMAIN q' : i < n /\ q'[n].hw # Dummy => q'[i].id < q'[n].id
      <4> TAKE i, n \in DOMAIN q'
      <4>1. i < n => i + 1 < n + 1
          BY <3>1
      <4> QED
          BY <3>1, <4>1 DEF IInv, QueueInv
    <3> QED
        BY <3>2, <3>3, <3>4, <3>5 DEF QueueInv, DummyMessage
  <2>2. CASE Popped /\ UNCHANGED <<m_rxMessageQueue, pushed>>
    <3>1. rxQItem'.id = 0 /\ pushed \in Nat
        BY <1>0, <2>2 DEF Popped, DummyMessage, TypeOK
    <3>2. \A n \in DOMAIN q : q[n].hw # Dummy => q[n].id > 0
        BY <1>0 DEF IInv, QueueInv, TypeOK
    <3> QED
        BY <2>2, <3>1, <3>2 DEF IInv, QueueInv, DummyMessage
  <2> QED
      BY <1>1, <1>4, <2>1, <2>2, WorkerCases
<1> QED
  <2>1. CASE RaiseFlag
      BY <1>3, <2>1 DEF RaiseFlag, workerVars
  <2>2. CASE StopStep
      BY <1>1, <2>2, StopCases DEF queueVars, workerVars
  <2>3. ASSUME NEW c \in Callers, Looking(c)
        PROVE  QueueInv'
      BY <1>1, <2>3, LookingTyped DEF queueVars, workerVars
  <2>4. ASSUME NEW c \in Callers, EndWait(c) \/ AddHardware(c)
        PROVE  QueueInv'
      BY <1>1, <2>4 DEF EndWait, AddHardware, queueVars, workerVars
  <2>5. ASSUME NEW c \in Callers, BeginRemoval(c) \/ EndRemoval(c)
        PROVE  QueueInv'
      BY <1>1, <2>5, RemovalCases DEF queueVars, workerVars
  <2>6. CASE UNCHANGED vars
      BY <1>1, <2>6 DEF vars, queueVars, workerVars
  <2> QED
      BY <1>2, <1>4, <2>1, <2>2, <2>3, <2>4, <2>5, <2>6, StepCases

\* A message that is not in the queue does not get into it but by a push.
LEMMA DoneWithKept ==
    ASSUME IInv, [Next]_vars, NEW i \in 1 .. pushed, DoneWith(i)
    PROVE  DoneWith(i)'
<1> DEFINE q == m_rxMessageQueue
<1>0. TypeOK
    BY DEF IInv
<1>1. ASSUME UNCHANGED <<m_rxMessageQueue, rxQItem>>
      PROVE  DoneWith(i)'
    BY <1>1 DEF DoneWith
<1>2. ASSUME NEW c \in Callers, PushRxMessage(c)
      PROVE  DoneWith(i)'
  <2>1. PICK m \in RxMessage : m.id = pushed + 1 /\ q' = Append(q, m)
      BY <1>2, PushTyped
  <2>2. UNCHANGED rxQItem /\ pushed \in Nat
      BY <1>2, PushTyped DEF workerVars
  <2> QED
      BY <1>0, <2>1, <2>2, AppendIndex DEF DoneWith, TypeOK
<1>3. CASE RaiseFlag
    BY <1>0, <1>3, AppendIndex, DummyTyped DEF RaiseFlag, DoneWith, TypeOK, DummyMessage, workerVars
<1>4. CASE WorkerStep
  <2>1. CASE q # <<>> /\ q' = Tail(q) /\ rxQItem' = Head(q)
      BY <1>0, <2>1, TailIndex DEF DoneWith, TypeOK
  <2>2. CASE Popped /\ UNCHANGED m_rxMessageQueue
      BY <1>0, <2>2 DEF DoneWith, Popped, DummyMessage, TypeOK
  <2> QED
      BY <1>1, <1>4, <2>1, <2>2, WorkerCases
<1>5. ASSUME NEW c \in Callers, Looking(c)
      PROVE  DoneWith(i)'
    BY <1>1, <1>5, LookingTyped DEF queueVars, workerVars
<1>6. ASSUME NEW c \in Callers, EndWait(c) \/ AddHardware(c)
      PROVE  DoneWith(i)'
    BY <1>1, <1>6 DEF EndWait, AddHardware, queueVars, workerVars
<1>7. ASSUME NEW c \in Callers, BeginRemoval(c) \/ EndRemoval(c)
      PROVE  DoneWith(i)'
    BY <1>1, <1>7, RemovalCases DEF queueVars, workerVars
<1>8. CASE StopStep
    BY <1>1, <1>8, StopCases DEF queueVars, workerVars
<1>9. CASE UNCHANGED vars
    BY <1>1, <1>9 DEF vars, queueVars, workerVars
<1> QED
    BY <1>2, <1>3, <1>4, <1>5, <1>6, <1>7, <1>8, <1>9, StepCases

\* A message the worker has just answered is in the queue no more.
LEMMA PoppedIsDone ==
    ASSUME IInv, Popped, UNCHANGED m_rxMessageQueue,
           NEW i, i = rxQItem.id, i > 0, i \in Nat
    PROVE  DoneWith(i)'
<1> DEFINE q == m_rxMessageQueue
<1>1. \A n \in DOMAIN q : q[n].id # rxQItem.id
  <2> TAKE n \in DOMAIN q
  <2>1. CASE q[n].hw = Dummy
      BY <2>1 DEF IInv, QueueInv, DummyMessage
  <2>2. CASE q[n].hw # Dummy
      BY <2>2 DEF IInv, QueueInv
  <2> QED
      BY <2>1, <2>2
<1> QED
    BY <1>1 DEF Popped, DummyMessage, DoneWith

\* A step that leaves a thread where it is, other than its answer.
LEMMA OthersGoOn ==
    ASSUME IInv, NEW c \in Callers, NEW where, NEW j, Continue(c, where, j)
    PROVE  /\ pc'[c] = where /\ job'[c] = (IF where = "idle" THEN NoJob ELSE j)
           /\ \A d \in Callers \ {c} : pc'[d] = pc[d] /\ job'[d] = job[d]
BY DEF IInv, TypeOK, Continue

LEMMA WaitKept ==
    ASSUME IInv, [Next]_vars
    PROVE  WaitInv'
<1>0. TypeOK /\ TypeOK' /\ WaitInv
    BY TypeKept DEF IInv
<1> DEFINE Same(c) == /\ trigger'[c] = trigger[c] /\ pc'[c] = pc[c]
                      /\ elementPopped'[c] = elementPopped[c]
           Rest(c) == /\ trigger[c] = 0 /\ trigger'[c] = 0
                      /\ pc'[c] # "wait" /\ ~elementPopped'[c]
\* Each thread waits on as it did, or did not wait and does not.
<1>1. ASSUME \A c \in Callers : Same(c) \/ Rest(c), pushed' = pushed
      PROVE  WaitInv'
  <2>1. \A c \in Callers :
          /\ trigger'[c] \in 0 .. pushed'
          /\ trigger'[c] # 0 <=> pc'[c] = "wait"
      BY <1>0, <1>1 DEF WaitInv, TypeOK
  <2>2. ASSUME NEW c \in Callers, elementPopped'[c]
        PROVE  pc'[c] = "wait" /\ DoneWith(trigger[c])' /\ trigger'[c] = trigger[c]
    <3>1. Same(c)
        BY <1>1, <2>2
    <3>2. elementPopped[c] /\ pc[c] = "wait"
        BY <1>0, <2>2, <3>1 DEF WaitInv
    <3>3. trigger[c] \in 1 .. pushed /\ DoneWith(trigger[c])
        BY <1>0, <3>2 DEF WaitInv, TypeOK
    <3>4. DoneWith(trigger[c])'
        BY <3>3, DoneWithKept, <3>1 DEF DoneWith
    <3> QED
        BY <3>1, <3>2, <3>4
  <2>3. \A c, d \in Callers : trigger'[c] # 0 /\ trigger'[c] = trigger'[d] => c = d
      BY <1>0, <1>1 DEF WaitInv
  <2> QED
      BY <2>1, <2>2, <2>3 DEF WaitInv, DoneWith
<1>2. ASSUME NEW c \in Callers, Looking(c)
      PROVE  WaitInv'
  <2>1. PICK where \in CallerSteps \ {"wait", "join"}, j \in Job : Continue(c, where, j)
      BY <1>2, LookingTyped
  <2>2. UNCHANGED <<pushed, trigger, elementPopped>> /\ pc[c] # "wait"
      BY <1>2, LookingTyped DEF queueVars, waitVars
  <2>3. Rest(c) /\ \A d \in Callers \ {c} : Same(d)
      BY <1>0, <2>1, <2>2, OthersGoOn DEF WaitInv
  <2> QED
      BY <1>1, <2>2, <2>3
<1>3. ASSUME NEW c \in Callers, PushRxMessage(c)
      PROVE  WaitInv'
  <2>1. /\ pushed \in Nat /\ pushed' = pushed + 1
        /\ \/ pc'[c] = "wait" /\ trigger'[c] = pushed + 1
           \/ pc'[c] = "idle" /\ trigger'[c] = 0
        /\ \A d \in Callers \ {c} : pc'[d] = pc[d] /\ trigger'[d] = trigger[d]
        /\ elementPopped' = elementPopped
        /\ pc[c] = "push"
      BY <1>3, PushTyped
  <2>2. ~elementPopped[c]
      BY <1>0, <2>1 DEF WaitInv
  <2>3. \A d \in Callers :
          /\ trigger'[d] \in 0 .. pushed'
          /\ trigger'[d] # 0 <=> pc'[d] = "wait"
      BY <1>0, <2>1 DEF WaitInv
  <2>4. ASSUME NEW d \in Callers, elementPopped'[d]
        PROVE  pc'[d] = "wait" /\ DoneWith(trigger[d])' /\ trigger'[d] = trigger[d]
    <3>1. d # c /\ elementPopped[d]
        BY <2>1, <2>2, <2>4
    <3>2. trigger[d] \in 1 .. pushed /\ DoneWith(trigger[d]) /\ pc[d] = "wait"
        BY <1>0, <3>1 DEF WaitInv, TypeOK
    <3>3. trigger'[d] = trigger[d] /\ pc'[d] = "wait"
        BY <2>1, <3>1, <3>2
    <3>4. DoneWith(trigger[d])'
        BY <3>2, <3>3, DoneWithKept DEF DoneWith
    <3> QED
        BY <3>3, <3>4
  <2>5. \A d, e \in Callers : trigger'[d] # 0 /\ trigger'[d] = trigger'[e] => d = e
    <3>1. \A d \in Callers : trigger[d] \in 0 .. pushed
        BY <1>0 DEF WaitInv
    <3> QED
        BY <1>0, <2>1, <3>1 DEF WaitInv
  <2> QED
      BY <2>3, <2>4, <2>5 DEF WaitInv, DoneWith
<1>4. ASSUME NEW c \in Callers, EndWait(c)
      PROVE  WaitInv'
  <2>1. pc'[c] = "idle" /\ \A d \in Callers \ {c} : pc'[d] = pc[d]
      BY <1>4, OthersGoOn DEF EndWait, Goto
  <2>2. \A d \in Callers \ {c} : Same(d)
      BY <1>0, <1>4, <2>1 DEF EndWait, TypeOK
  <2>3. trigger'[c] = 0 /\ ~elementPopped'[c] /\ pushed' = pushed
      BY <1>0, <1>4 DEF EndWait, TypeOK, queueVars
  <2>4. ASSUME NEW d \in Callers, elementPopped'[d]
        PROVE  pc'[d] = "wait" /\ DoneWith(trigger[d])' /\ trigger'[d] = trigger[d]
    <3>1. d # c /\ Same(d)
        BY <2>2, <2>3, <2>4
    <3>2. trigger[d] \in 1 .. pushed /\ DoneWith(trigger[d]) /\ pc[d] = "wait"
        BY <1>0, <2>4, <3>1 DEF WaitInv, TypeOK
    <3>3. DoneWith(trigger[d])'
        BY <3>2, <3>1, DoneWithKept DEF DoneWith
    <3> QED
        BY <3>1, <3>2, <3>3
  <2>5. /\ \A d \in Callers : /\ trigger'[d] \in 0 .. pushed'
                              /\ trigger'[d] # 0 <=> pc'[d] = "wait"
        /\ \A d, e \in Callers : trigger'[d] # 0 /\ trigger'[d] = trigger'[e] => d = e
    <3>1. 0 \in 0 .. pushed
        BY <1>0 DEF TypeOK
    <3>2. \A d \in Callers : d = c \/ Same(d)
        BY <2>2
    <3> QED
        BY <1>0, <2>1, <2>3, <3>1, <3>2 DEF WaitInv
  <2> QED
      BY <2>4, <2>5 DEF WaitInv, DoneWith
<1>5. ASSUME NEW c \in Callers, BeginRemoval(c) \/ EndRemoval(c)
      PROVE  WaitInv'
  <2>1. UNCHANGED <<pushed, trigger, elementPopped>> /\ pc[c] \in {"remove", "join"}
      BY <1>5, RemovalCases DEF queueVars, waitVars
  <2>2. PICK where \in {"join", "add", "append", "idle"} : Goto(c, where)
      BY <1>5, RemovalCases
  <2>3. Rest(c) /\ \A d \in Callers \ {c} : Same(d)
      BY <1>0, <2>1, <2>2, OthersGoOn DEF WaitInv, Goto
  <2> QED
      BY <1>1, <2>1, <2>3
<1>6. ASSUME NEW c \in Callers, AddHardware(c)
      PROVE  WaitInv'
  <2>1. UNCHANGED <<pushed, trigger, elementPopped>> /\ pc[c] = "append"
      BY <1>6 DEF AddHardware, queueVars, waitVars
  <2>2. Rest(c) /\ \A d \in Callers \ {c} : Same(d)
      BY <1>0, <1>6, <2>1, OthersGoOn DEF WaitInv, Goto, AddHardware
  <2> QED
      BY <1>1, <2>1, <2>2
<1>7. CASE WorkerStep
  <2>1. UNCHANGED <<pushed, trigger, pc>>
      BY <1>7, WorkerCases
  <2>2. CASE UNCHANGED elementPopped
      BY <1>1, <2>1, <2>2
  <2>3. CASE Popped /\ UNCHANGED m_rxMessageQueue /\ worker \in {"lookup", "process"}
    <3>1. rxQItem.id \in Nat /\ rxQItem.id > 0
        BY <1>0, <2>3 DEF IInv, WorkerInv, TypeOK, RxMessage
    <3>2. ASSUME NEW c \in Callers, elementPopped'[c]
          PROVE  pc'[c] = "wait" /\ DoneWith(trigger[c])'
      <4>1. CASE elementPopped[c]
        <5>1. trigger[c] \in 1 .. pushed /\ DoneWith(trigger[c]) /\ pc[c] = "wait"
            BY <1>0, <4>1 DEF WaitInv, TypeOK
        <5> QED
            BY <2>1, <5>1, DoneWithKept DEF DoneWith
      <4>2. CASE trigger[c] = rxQItem.id
        <5>1. pc[c] = "wait"
            BY <1>0, <3>1, <4>2 DEF WaitInv
        <5>2. DoneWith(trigger[c])'
            BY <2>1, <2>3, <3>1, <4>2, PoppedIsDone DEF DoneWith
        <5> QED
            BY <2>1, <5>1, <5>2
      <4> QED
          BY <1>0, <2>3, <3>2, <4>1, <4>2 DEF Popped, TypeOK
    <3> QED
        BY <1>0, <2>1, <3>2 DEF WaitInv, DoneWith
  <2> QED
      BY <1>7, <2>2, <2>3, WorkerCases
<1>8. CASE RaiseFlag
    BY <1>1, <1>8 DEF RaiseFlag, waitVars
<1>9. CASE StopStep
    BY <1>1, <1>9, StopCases DEF queueVars, waitVars
<1>10. CASE UNCHANGED vars
    BY <1>1, <1>10 DEF vars, queueVars, waitVars
<1> QED
    BY <1>2, <1>3, <1>4, <1>5, <1>6, <1>7, <1>8, <1>9, <1>10, StepCases

LEMMA ListKept ==
    ASSUME IInv, [Next]_vars
    PROVE  ListInv'
<1>0. TypeOK /\ TypeOK' /\ ListInv
    BY TypeKept DEF IInv
<1>n. erased \in Nat /\ NoJob.seen = 0 /\ \A c \in Callers : job[c].seen \in Nat
    BY <1>0 DEF TypeOK, NoJob, Job
\* One thread goes on, and the list stays as it is.
<1>1. ASSUME NEW c \in Callers, NEW where \in CallerSteps \ {"join"}, NEW j \in Job,
             j.hw \in Hw, j.seen <= erased, Continue(c, where, j),
             UNCHANGED <<m_devicemutex, erased>>,
             m_hardwaredevices' = m_hardwaredevices \/ m_devicemutex = None
      PROVE  ListInv'
  <2>1. /\ pc'[c] = where /\ job'[c] = (IF where = "idle" THEN NoJob ELSE j)
        /\ \A d \in Callers \ {c} : pc'[d] = pc[d] /\ job'[d] = job[d]
      BY <1>1, OthersGoOn
  <2>2. /\ pc'[c] # "idle" => job'[c].hw \in Hw
        /\ pc'[c] # "join" /\ job'[c].seen <= erased'
      BY <1>1, <1>n, <2>1
  <2>3. ASSUME NEW d \in Callers \ {c}
        PROVE  /\ pc'[d] # "idle" => job'[d].hw \in Hw
               /\ pc'[d] = "join" => /\ m_devicemutex' = d
                                     /\ job'[d].index \in DOMAIN m_hardwaredevices'
               /\ job'[d].seen <= erased'
    <3>1. d # None
        BY RxAssumption
    <3> QED
        BY <1>0, <1>1, <2>1, <3>1 DEF ListInv
  <2> QED
      BY <2>2, <2>3 DEF ListInv
<1>2. ASSUME UNCHANGED <<listVars, pc, job>>
      PROVE  ListInv'
    BY <1>0, <1>2 DEF ListInv, listVars
<1>3. ASSUME NEW c \in Callers, Looking(c)
      PROVE  ListInv'
  <2>1. PICK where \in CallerSteps \ {"wait", "join"}, j \in Job :
          j.hw \in Hw /\ (j.seen = 0 \/ j.seen = erased) /\ Continue(c, where, j)
      BY <1>3, LookingTyped
  <2>2. UNCHANGED listVars
      BY <1>3, LookingTyped
  <2>3. j.seen <= erased
      BY <1>n, <2>1
  <2> QED
      BY <1>1, <2>1, <2>2, <2>3 DEF listVars
<1>4. ASSUME NEW c \in Callers, PushRxMessage(c) \/ EndWait(c) \/ AddHardware(c)
      PROVE  ListInv'
  <2>1. /\ pc[c] # "idle" /\ job[c] \in Job /\ job[c].hw \in Hw /\ job[c].seen <= erased
        /\ \E where \in {"wait", "idle"} : Continue(c, where, job[c])
        /\ UNCHANGED <<m_devicemutex, erased>>
        /\ m_hardwaredevices' = m_hardwaredevices \/ m_devicemutex = None
      BY <1>0, <1>4 DEF PushRxMessage, EndWait, AddHardware, ListInv, TypeOK, Goto, listVars
  <2> QED
      BY <1>1, <2>1 DEF CallerSteps
<1>5. ASSUME NEW c \in Callers, BeginRemoval(c) \/ EndRemoval(c)
      PROVE  ListInv'
  <2>1. /\ m_devicemutex \in {None, c} /\ erased' \in {erased, erased + 1}
        /\ pc[c] # "idle"
      BY <1>5, RemovalCases
  <2>2. \A d \in Callers \ {c} : pc[d] # "join"
      BY <1>0, <2>1, RxAssumption DEF ListInv
  <2>3. PICK where \in {"join", "add", "append", "idle"} :
          /\ Goto(c, where)
          /\ where = "join" => /\ m_devicemutex' = c
                               /\ job[c].index \in DOMAIN m_hardwaredevices'
      BY <1>5, RemovalCases
  <2>4. /\ pc'[c] = where /\ job'[c] = (IF where = "idle" THEN NoJob ELSE job[c])
        /\ \A d \in Callers \ {c} : pc'[d] = pc[d] /\ job'[d] = job[d]
      BY <2>3, OthersGoOn DEF Goto
  <2>5. \A d \in Callers : job'[d].seen <= erased'
      BY <1>0, <1>n, <2>1, <2>4 DEF ListInv
  <2> QED
      BY <1>0, <2>1, <2>2, <2>3, <2>4, <2>5 DEF ListInv
<1>6. CASE WorkerStep
    BY <1>2, <1>6, WorkerCases
<1>7. CASE RaiseFlag
    BY <1>2, <1>7 DEF RaiseFlag
<1>8. CASE StopStep
  <2>1. UNCHANGED <<pc, job>>
      BY <1>8, StopCases
  <2>2. CASE UNCHANGED listVars
      BY <1>2, <2>1, <2>2
  <2>3. CASE m_devicemutex = None /\ UNCHANGED <<m_hardwaredevices, stopping, erased>>
      BY <1>0, <2>1, <2>3, RxAssumption DEF ListInv
  <2>4. CASE UNCHANGED <<m_hardwaredevices, m_devicemutex, erased>>
      BY <1>0, <2>1, <2>4 DEF ListInv
  <2>5. CASE stop = "hardware" /\ erased' = erased + 1
    <3>1. m_devicemutex = Stopper
        BY <1>0, <2>5 DEF IInv, WorkerInv
    <3> QED
        BY <1>0, <1>n, <2>1, <2>5, <3>1, RxAssumption DEF ListInv
  <2> QED
      BY <1>8, <2>2, <2>3, <2>4, <2>5, StopCases
<1>9. CASE UNCHANGED vars
    BY <1>2, <1>9 DEF vars
<1> QED
    BY <1>3, <1>4, <1>5, <1>6, <1>7, <1>8, <1>9, StepCases

-----------------------------------------------------------------------------
(* Who waits is there, and what was found is where it was *)

InHands(m) == m = rxQItem \/ \E n \in DOMAIN m_rxMessageQueue : m = m_rxMessageQueue[n]

LEMMA AliveKept ==
    ASSUME IInv, TriggersAreAlive, [Next]_vars
    PROVE  TriggersAreAlive'
<1> DEFINE q == m_rxMessageQueue
           Waiter(m) == \E c \in Callers : pc[c] = "wait" /\ trigger[c] = m.id
           Alive == \A m : InHands(m) /\ m.waited => Waiter(m)
<1>0. TypeOK /\ WaitInv /\ (stop = "up" => Alive)
    BY DEF IInv, TriggersAreAlive, InHands
<1>g. SUFFICES ASSUME stop = "up", stop' = "up"
               PROVE  Alive'
  <2>1. CASE stop = "up"
      BY <1>g, <2>1 DEF TriggersAreAlive, InHands
  <2>2. CASE stop # "up"
    <3>1. stop' # "up"
      <4>1. ASSUME NEW c \in Callers, Looking(c)
            PROVE  stop' = stop
          BY <4>1, LookingTyped
      <4>2. ASSUME NEW c \in Callers, PushRxMessage(c) \/ EndWait(c) \/ AddHardware(c)
            PROVE  stop' = stop
          BY <4>2 DEF PushRxMessage, EndWait, AddHardware
      <4>3. ASSUME NEW c \in Callers, BeginRemoval(c) \/ EndRemoval(c)
            PROVE  stop' = stop
          BY <4>3, RemovalCases
      <4>4. CASE WorkerStep
          BY <2>2, <4>4, WorkerCases
      <4>5. CASE RaiseFlag
          BY <4>5 DEF RaiseFlag, StopGoto
      <4>6. CASE StopStep
          BY <4>6, StopCases
      <4> QED
          BY <2>2, <4>1, <4>2, <4>3, <4>4, <4>5, <4>6, StepCases DEF vars
    <3> QED
        BY <3>1 DEF TriggersAreAlive
  <2> QED
      BY <2>1, <2>2
<1>a. Alive
    BY <1>0, <1>g
<1> HIDE DEF Alive
\* Nobody who waits ends its wait, and no message appears.
<1>1. ASSUME \A m : InHands(m)' => InHands(m) \/ m = DummyMessage,
             \A c \in Callers : pc[c] = "wait" => pc'[c] = "wait" /\ trigger'[c] = trigger[c]
      PROVE  Alive'
  <2>1. ASSUME NEW m, InHands(m)', m.waited
        PROVE  Waiter(m)'
    <3>1. m # DummyMessage
        BY <2>1 DEF DummyMessage
    <3>2. InHands(m)
        BY <1>1, <2>1, <3>1
    <3>3. PICK c \in Callers : pc[c] = "wait" /\ trigger[c] = m.id
        BY <1>a, <2>1, <3>2 DEF Alive
    <3> QED
        BY <1>1, <3>3
  <2> QED
      BY <2>1 DEF Alive
<1>2. ASSUME NEW c \in Callers, Looking(c)
      PROVE  Alive'
  <2>1. PICK where, j : Continue(c, where, j)
      BY <1>2, LookingTyped
  <2>2. pc[c] # "wait" /\ UNCHANGED <<m_rxMessageQueue, rxQItem, trigger>>
      BY <1>2, LookingTyped DEF queueVars, workerVars, waitVars
  <2>3. \A d \in Callers : pc[d] = "wait" => pc'[d] = "wait" /\ trigger'[d] = trigger[d]
      BY <2>1, <2>2, OthersGoOn
  <2>4. \A m : InHands(m)' => InHands(m)
      BY <2>2 DEF InHands
  <2> QED
      BY <1>1, <2>3, <2>4
<1>3. ASSUME NEW c \in Callers, PushRxMessage(c)
      PROVE  Alive'
  <2>1. PICK m \in RxMessage :
          /\ m.id = pushed + 1 /\ q' = Append(q, m)
          /\ m.waited => pc'[c] = "wait" /\ trigger'[c] = pushed + 1
      BY <1>3, PushTyped
  <2>2. /\ \A d \in Callers \ {c} : pc'[d] = pc[d] /\ trigger'[d] = trigger[d]
        /\ pc[c] = "push" /\ UNCHANGED rxQItem
      BY <1>3, PushTyped DEF workerVars
  <2>3. \A x : InHands(x)' => InHands(x) \/ x = m
      BY <1>0, <2>1, <2>2, AppendIndex DEF InHands, TypeOK
  <2>4. ASSUME NEW x, InHands(x)', x.waited
        PROVE  Waiter(x)'
    <3>1. CASE x = m
        BY <2>1, <2>4, <3>1
    <3>2. CASE InHands(x)
      <4>1. PICK d \in Callers : pc[d] = "wait" /\ trigger[d] = x.id
          BY <1>a, <2>4, <3>2 DEF Alive
      <4> QED
          BY <2>2, <4>1
    <3> QED
        BY <2>3, <2>4, <3>1, <3>2
  <2> QED
      BY <2>4 DEF Alive
\* Before Stop(), who returns has been answered: its message is done with.
<1>4. ASSUME NEW c \in Callers, EndWait(c)
      PROVE  Alive'
  <2>1. elementPopped[c] /\ DoneWith(trigger[c])
      BY <1>0, <1>4, <1>g DEF EndWait, Returns, WaitInv, IInv, WorkerInv
  <2>2. \A d \in Callers \ {c} : pc'[d] = pc[d] /\ trigger'[d] = trigger[d]
      BY <1>0, <1>4, OthersGoOn DEF EndWait, Goto, TypeOK
  <2>3. \A m : InHands(m)' => InHands(m)
      BY <1>4 DEF EndWait, InHands, queueVars, workerVars
  <2>4. ASSUME NEW m, InHands(m)', m.waited
        PROVE  Waiter(m)'
    <3>1. PICK d \in Callers : pc[d] = "wait" /\ trigger[d] = m.id
        BY <1>a, <2>3, <2>4 DEF Alive
    <3>2. m.id # trigger[c]
        BY <2>1, <2>3, <2>4 DEF DoneWith, InHands
    <3> QED
        BY <2>2, <3>1, <3>2
  <2> QED
      BY <2>4 DEF Alive
<1>5. ASSUME NEW c \in Callers, BeginRemoval(c) \/ EndRemoval(c)
      PROVE  Alive'
  <2>1. PICK where : Goto(c, where)
      BY <1>5, RemovalCases
  <2>2. pc[c] # "wait" /\ UNCHANGED <<m_rxMessageQueue, rxQItem, trigger>>
      BY <1>5, RemovalCases DEF queueVars, workerVars, waitVars
  <2>3. \A d \in Callers : pc[d] = "wait" => pc'[d] = "wait" /\ trigger'[d] = trigger[d]
      BY <2>1, <2>2, OthersGoOn DEF Goto
  <2> QED
      BY <1>1, <2>2, <2>3 DEF InHands
<1>6. ASSUME NEW c \in Callers, AddHardware(c)
      PROVE  Alive'
  <2>1. pc[c] = "append" /\ UNCHANGED <<m_rxMessageQueue, rxQItem, trigger>>
      BY <1>6 DEF AddHardware, queueVars, workerVars, waitVars
  <2>2. \A d \in Callers : pc[d] = "wait" => pc'[d] = "wait" /\ trigger'[d] = trigger[d]
      BY <1>6, <2>1, OthersGoOn DEF Goto, AddHardware
  <2> QED
      BY <1>1, <2>1, <2>2 DEF InHands
<1>7. CASE WorkerStep
  <2>1. \A m : InHands(m)' => InHands(m) \/ m = DummyMessage
    <3>1. CASE UNCHANGED <<m_rxMessageQueue, rxQItem>>
        BY <3>1 DEF InHands
    <3>2. CASE q # <<>> /\ q' = Tail(q) /\ rxQItem' = Head(q)
        BY <1>0, <3>2, TailIndex DEF InHands, TypeOK
    <3>3. CASE Popped /\ UNCHANGED m_rxMessageQueue
        BY <3>3 DEF InHands, Popped
    <3> QED
        BY <1>7, <3>1, <3>2, <3>3, WorkerCases
  <2> QED
      BY <1>1, <1>7, <2>1, WorkerCases
<1>8. CASE RaiseFlag
    BY <1>8, <1>g DEF RaiseFlag, StopGoto
<1>9. CASE StopStep
    BY <1>9, <1>g, StopCases
<1>10. CASE UNCHANGED vars
    BY <1>1, <1>10 DEF vars, queueVars, workerVars, waitVars, InHands
<1> QED
    BY <1>2, <1>3, <1>4, <1>5, <1>6, <1>7, <1>8, <1>9, <1>10, StepCases

LEMMA FreshKept ==
    ASSUME IInv, IndexIsFresh, [Next]_vars
    PROVE  IndexIsFresh'
<1> DEFINE Fresh(c) ==
             pc[c] \in {"check", "remove"} /\ job[c].op # "decode" /\ job[c].seen = erased
             => /\ job[c].index \in DOMAIN m_hardwaredevices
                /\ m_hardwaredevices[job[c].index] = job[c].hw
<1>0. TypeOK /\ ListInv /\ \A c \in Callers : Fresh(c)
    BY DEF IInv, IndexIsFresh
<1>n. erased \in Nat /\ \A c \in Callers : job[c].seen \in Nat /\ job[c].seen <= erased
    BY <1>0 DEF TypeOK, Job, ListInv
<1>s. (\A c \in Callers : Fresh(c)') => IndexIsFresh'
    BY DEF IndexIsFresh
\* The list has lost nothing, and this thread has not been looking since.
<1>1. ASSUME NEW c \in Callers, pc'[c] = pc[c], job'[c] = job[c],
             \/ UNCHANGED <<m_hardwaredevices, erased>>
             \/ erased' = erased + 1
             \/ erased' = erased /\ \E h \in Hw : m_hardwaredevices' = Append(m_hardwaredevices, h)
      PROVE  Fresh(c)'
  <2>1. CASE UNCHANGED <<m_hardwaredevices, erased>>
      BY <1>0, <1>1, <2>1
  <2>2. CASE erased' = erased + 1
      BY <1>n, <1>1, <2>2
  <2>3. ASSUME NEW h \in Hw, m_hardwaredevices' = Append(m_hardwaredevices, h), erased' = erased
        PROVE  Fresh(c)'
    <3>1. m_hardwaredevices \in Seq(Hw)
        BY <1>0 DEF TypeOK
    <3>2. \A n \in DOMAIN m_hardwaredevices :
             n \in DOMAIN m_hardwaredevices' /\ m_hardwaredevices'[n] = m_hardwaredevices[n]
        BY <2>3, <3>1
    <3> QED
        BY <1>0, <1>1, <2>3, <3>2
  <2> QED
      BY <1>1, <2>1, <2>2, <2>3
\* A thread that has just looked has found it.
<1>2. ASSUME NEW c \in Callers, Looking(c)
      PROVE  IndexIsFresh'
  <2>1. UNCHANGED <<m_hardwaredevices, erased>>
      BY <1>2, LookingTyped DEF listVars
  <2>2. PICK where, j : Continue(c, where, j)
      BY <1>2, LookingTyped
  <2>3. \A d \in Callers \ {c} : Fresh(d)'
      BY <1>1, <2>1, <2>2, OthersGoOn
  <2>4. \A o, h : Found(o, h).index = Position(h) /\ Found(o, h).hw = h
      BY DEF Found
  <2>5. \A h : Listed(h) => /\ Position(h) \in DOMAIN m_hardwaredevices
                            /\ m_hardwaredevices[Position(h)] = h
      BY <1>0, PositionTyped DEF TypeOK
  <2>6. Fresh(c)'
    <3>1. CASE Decode(c)
      <4>1. pc'[c] = "check" /\ job'[c] = Asked("decode", Owner[c])
          BY <3>1, OthersGoOn DEF Decode
      <4> QED
          BY <4>1 DEF Asked
    <3>2. CASE Lookup(c)
      <4>1. CASE Listed(job[c].hw)
        <5>1. Continue(c, "check", Found(job[c].op, job[c].hw))
            BY <3>2, <4>1 DEF Lookup
        <5>2. job'[c] = Found(job[c].op, job[c].hw)
            BY <5>1, OthersGoOn
        <5> QED
            BY <2>1, <2>4, <2>5, <4>1, <5>2
      <4>2. CASE ~Listed(job[c].hw)
        <5>1. Continue(c, "idle", Found(job[c].op, job[c].hw))
            BY <3>2, <4>2 DEF Lookup
        <5>2. pc'[c] = "idle"
            BY <5>1, OthersGoOn
        <5> QED
            BY <5>2
      <4> QED
          BY <4>1, <4>2
    <3>3. CASE CheckRxMessage(c)
      <4>1. PICK h : Continue(c, IF m_stopRxMessageThread THEN "idle" ELSE "push", Asked(job[c].op, h))
          BY <3>3 DEF CheckRxMessage
      <4>2. pc'[c] \in {"idle", "push"}
          BY <4>1, OthersGoOn
      <4> QED
          BY <4>2
    <3>4. CASE FindForAddition(c)
      <4>1. CASE Listed(job[c].hw)
        <5>1. Continue(c, "remove", Found("replace", job[c].hw))
            BY <3>4, <4>1 DEF FindForAddition
        <5>2. job'[c] = Found("replace", job[c].hw)
            BY <5>1, OthersGoOn
        <5> QED
            BY <2>1, <2>4, <2>5, <4>1, <5>2
      <4>2. CASE ~Listed(job[c].hw)
        <5>1. Continue(c, "append", Found("replace", job[c].hw))
            BY <3>4, <4>2 DEF FindForAddition
        <5>2. pc'[c] = "append"
            BY <5>1, OthersGoOn
        <5> QED
            BY <5>2
      <4> QED
          BY <4>1, <4>2
    <3>5. ASSUME NEW o \in {"update", "switch"}, NEW h \in Hw, Request(c, o, h)
          PROVE  Fresh(c)'
      <4>1. pc'[c] = "lookup"
          BY <3>5, OthersGoOn DEF Request
      <4> QED
          BY <4>1
    <3>6. ASSUME NEW o \in {"remove", "restart"}, NEW h \in Hw, FindForRemoval(c, o, h)
          PROVE  Fresh(c)'
      <4>1. CASE Listed(h)
        <5>1. Continue(c, "remove", Found(o, h))
            BY <3>6, <4>1 DEF FindForRemoval
        <5>2. job'[c] = Found(o, h)
            BY <5>1, OthersGoOn
        <5> QED
            BY <2>1, <2>4, <2>5, <4>1, <5>2
      <4>2. CASE ~Listed(h)
        <5>1. Continue(c, IF o = "restart" THEN "add" ELSE "idle", Found(o, h))
            BY <3>6, <4>2 DEF FindForRemoval
        <5>2. pc'[c] \in {"add", "idle"}
            BY <5>1, OthersGoOn
        <5> QED
            BY <5>2
      <4> QED
          BY <4>1, <4>2
    <3> QED
        BY <1>2, <3>1, <3>2, <3>3, <3>4, <3>5, <3>6 DEF Looking
  <2> QED
      BY <1>s, <2>3, <2>6
<1>3. ASSUME NEW c \in Callers, PushRxMessage(c) \/ EndWait(c) \/ AddHardware(c)
      PROVE  IndexIsFresh'
  <2>1. PICK where \in {"wait", "idle"} : Continue(c, where, job[c])
      BY <1>3 DEF PushRxMessage, EndWait, AddHardware, Goto
  <2>2. pc'[c] \in {"wait", "idle"}
      BY <2>1, OthersGoOn
  <2>3. /\ erased' = erased
        /\ \/ m_hardwaredevices' = m_hardwaredevices
           \/ \E h \in Hw : m_hardwaredevices' = Append(m_hardwaredevices, h)
      BY <1>0, <1>3 DEF PushRxMessage, EndWait, AddHardware, Added, ListInv, listVars
  <2>4. \A d \in Callers \ {c} : Fresh(d)'
      BY <1>1, <2>1, <2>3, OthersGoOn
  <2> QED
      BY <1>s, <2>2, <2>4
<1>4. ASSUME NEW c \in Callers, BeginRemoval(c) \/ EndRemoval(c)
      PROVE  IndexIsFresh'
  <2>1. PICK where \in {"join", "add", "append", "idle"} : Goto(c, where)
      BY <1>4, RemovalCases
  <2>2. pc'[c] \notin {"check", "remove"}
      BY <2>1, OthersGoOn DEF Goto
  <2>3. UNCHANGED <<m_hardwaredevices, erased>> \/ erased' = erased + 1
      BY <1>4 DEF BeginRemoval, EndRemoval
  <2>4. \A d \in Callers \ {c} : Fresh(d)'
      BY <1>1, <2>1, <2>3, OthersGoOn DEF Goto
  <2> QED
      BY <1>s, <2>2, <2>4
<1>5. ASSUME UNCHANGED <<pc, job>>,
             UNCHANGED <<m_hardwaredevices, erased>> \/ erased' = erased + 1
      PROVE  IndexIsFresh'
    BY <1>1, <1>5, <1>s
<1>6. CASE WorkerStep
    BY <1>5, <1>6, WorkerCases DEF listVars
<1>7. CASE RaiseFlag
    BY <1>5, <1>7 DEF RaiseFlag, listVars
<1>8. CASE StopStep
    BY <1>5, <1>8, StopCases DEF listVars
<1>9. CASE UNCHANGED vars
    BY <1>5, <1>9 DEF vars, listVars
<1> QED
    BY <1>2, <1>3, <1>4, <1>6, <1>7, <1>8, <1>9, StepCases

-----------------------------------------------------------------------------
(* The steps of RxQueue are steps of RxFifo *)

Awaited == {trigger[c] : c \in {d \in Callers : trigger[d] # 0}}

LEMMA AwaitedSame ==
    ASSUME \A c \in Callers : trigger'[c] = trigger[c]
    PROVE  Awaited' = Awaited
BY DEF Awaited

LEMMA FifoStep ==
    ASSUME IInv, [Next]_vars
    PROVE  [Fifo!Next]_Fifo!vars
<1> USE DEF Fifo!vars, Fifo!Next
<1>0. TypeOK /\ WaitInv /\ WorkerInv
    BY DEF IInv
<1>1. ASSUME UNCHANGED <<queueVars, rxQItem, trigger, stop>>
      PROVE  UNCHANGED Fifo!vars
  <2>1. Awaited' = Awaited
      BY <1>1 DEF Awaited
  <2> QED
      BY <1>1, <2>1 DEF queueVars, Awaited
<1>2. ASSUME NEW c \in Callers, PushRxMessage(c)
      PROVE  Fifo!Next
  <2>1. /\ pushed \in Nat /\ pushed' = pushed + 1 /\ UNCHANGED <<rxQItem, stop>>
        /\ job[c].hw \in Hw /\ Waits(c) \in BOOLEAN
        /\ trigger[c] = 0
        /\ \A d \in Callers \ {c} : trigger'[d] = trigger[d]
        /\ trigger'[c] = IF Waits(c) THEN pushed + 1 ELSE 0
        /\ m_rxMessageQueue' = Append(m_rxMessageQueue,
               [id |-> pushed + 1, hw |-> job[c].hw, waited |-> Waits(c)])
      BY <1>0, <1>2 DEF PushRxMessage, IInv, ListInv, WaitInv, TypeOK, Waits, workerVars
  <2>2. Awaited' = IF Waits(c) THEN Awaited \cup {pushed + 1} ELSE Awaited
    <3>1. CASE Waits(c)
      <4>1. \A i : i \in Awaited' <=> i \in Awaited \cup {pushed + 1}
          BY <2>1, <3>1 DEF Awaited
      <4> QED
          BY <3>1, <4>1
    <3>2. CASE ~Waits(c)
      <4>1. \A d \in Callers : trigger'[d] = trigger[d]
          BY <2>1, <3>2
      <4> QED
          BY <3>2, <4>1, AwaitedSame
    <3> QED
        BY <3>1, <3>2
  <2>3. PICK h \in Hw, wait \in BOOLEAN : h = job[c].hw /\ wait = Waits(c)
      BY <2>1
  <2>4. Fifo!Submit(h, wait)
      BY <2>1, <2>2, <2>3 DEF Fifo!Submit, Awaited
  <2> QED
      BY <2>4
<1>3. ASSUME NEW c \in Callers, EndWait(c)
      PROVE  Fifo!Next
  <2>1. /\ trigger[c] # 0 /\ trigger'[c] = 0
        /\ \A d \in Callers \ {c} : trigger'[d] = trigger[d]
        /\ UNCHANGED <<queueVars, rxQItem, stop>>
      BY <1>0, <1>3 DEF EndWait, WaitInv, TypeOK, workerVars
  <2>2. \A d \in Callers \ {c} : trigger[d] # trigger[c]
      BY <1>0, <2>1 DEF WaitInv
  <2>3. trigger[c] \in Awaited
      BY <2>1 DEF Awaited
  <2>4. Awaited' = Awaited \ {trigger[c]}
    <3>1. \A i : i \in Awaited' <=> i \in Awaited \ {trigger[c]}
        BY <2>1, <2>2 DEF Awaited
    <3> QED
        BY <3>1
  <2>5. stop # "up" \/ DoneWith(trigger[c])
      BY <1>0, <1>3 DEF EndWait, Returns, WaitInv, WorkerInv
  <2>6. PICK i \in Awaited : i = trigger[c]
      BY <2>3
  <2>7. Fifo!Return(i)
      BY <2>1, <2>4, <2>5, <2>6 DEF Fifo!Return, Fifo!DoneWith, DoneWith, Awaited, queueVars
  <2> QED
      BY <2>7 DEF Awaited
<1>4. CASE WorkerStep
  <2>1. UNCHANGED <<pushed, trigger, stop>>
      BY <1>4, WorkerCases
  <2>2. CASE worker = "pop" /\ m_rxMessageQueue # <<>>
             /\ m_rxMessageQueue' = Tail(m_rxMessageQueue)
             /\ rxQItem' = Head(m_rxMessageQueue)
      BY <1>0, <2>1, <2>2 DEF Fifo!Take, Fifo!WakeUp, WorkerInv, DummyMessage
  <2>3. CASE worker \in {"lookup", "process"} /\ UNCHANGED m_rxMessageQueue /\ Popped
    <3>1. rxQItem # DummyMessage
        BY <1>0, <2>3, RxAssumption DEF WorkerInv, DummyMessage
    <3> QED
        BY <2>1, <2>3, <3>1 DEF Fifo!Finish, Fifo!WakeUp, DummyMessage, Popped
  <2>4. CASE UNCHANGED <<m_rxMessageQueue, rxQItem>>
      BY <1>1, <2>1, <2>4 DEF queueVars
  <2> QED
      BY <1>4, <2>2, <2>3, <2>4, WorkerCases
<1>5. CASE RaiseFlag
  <2>1. UNCHANGED <<pushed, rxQItem, trigger>> /\ stop' # "up"
        /\ m_rxMessageQueue' = Append(m_rxMessageQueue, DummyMessage)
      BY <1>5 DEF RaiseFlag, StopGoto, workerVars, waitVars
  <2>2. Fifo!Close
      BY <2>1 DEF Fifo!Close, Fifo!WakeUp, DummyMessage
  <2> QED
      BY <2>2
<1>6. CASE StopStep
  <2>1. UNCHANGED <<m_rxMessageQueue, pushed, rxQItem, trigger>>
        /\ stop # "up" /\ stop' # "up"
      BY <1>6, StopCases DEF queueVars, workerVars, waitVars
  <2> QED
      BY <2>1
<1>7. ASSUME NEW c \in Callers, Looking(c)
      PROVE  UNCHANGED Fifo!vars
    BY <1>1, <1>7, LookingTyped DEF workerVars, waitVars
<1>8. ASSUME NEW c \in Callers, AddHardware(c)
      PROVE  UNCHANGED Fifo!vars
    BY <1>1, <1>8 DEF AddHardware, workerVars, waitVars
<1>9. ASSUME NEW c \in Callers, BeginRemoval(c) \/ EndRemoval(c)
      PROVE  UNCHANGED Fifo!vars
    BY <1>1, <1>9, RemovalCases DEF workerVars, waitVars
<1>10. CASE UNCHANGED vars
    BY <1>1, <1>10 DEF vars, workerVars, waitVars
<1> QED
    BY <1>2, <1>3, <1>4, <1>5, <1>6, <1>7, <1>8, <1>9, <1>10, StepCases

-----------------------------------------------------------------------------
(* Theorems *)

LEMMA InitInv == Init => IInv /\ TriggersAreAlive /\ IndexIsFresh /\ Fifo!Init
<1> SUFFICES ASSUME Init
             PROVE  IInv /\ TriggersAreAlive /\ IndexIsFresh /\ Fifo!Init
    OBVIOUS
<1>1. TypeOK
  <2>1. <<>> \in Seq(RxMessage) /\ Stored \in Seq(Hw)
      BY RxAssumption
  <2>2. /\ [c \in Callers |-> "idle"] \in [Callers -> CallerSteps]
        /\ [c \in Callers |-> NoJob] \in [Callers -> Job]
        /\ [c \in Callers |-> 0] \in [Callers -> Nat]
        /\ [c \in Callers |-> FALSE] \in [Callers -> BOOLEAN]
      BY JobTyped DEF CallerSteps
  <2> QED
      BY <2>1, <2>2, DummyTyped DEF Init, TypeOK, WorkerSteps, StopSteps
<1>2. WorkerInv /\ QueueInv /\ ListInv
    BY <1>1 DEF Init, WorkerInv, QueueInv, ListInv, DummyMessage, NoJob, TypeOK
<1>3. WaitInv /\ TriggersAreAlive /\ IndexIsFresh
    BY <1>1 DEF Init, WaitInv, TriggersAreAlive, IndexIsFresh, DummyMessage, NoJob, TypeOK
<1>4. Fifo!Init
    BY DEF Init, Fifo!Init, Fifo!WakeUp, DummyMessage
<1> QED
    BY <1>1, <1>2, <1>3, <1>4 DEF IInv

LEMMA InvKept ==
    IInv /\ TriggersAreAlive /\ IndexIsFresh /\ [Next]_vars
    => (IInv /\ TriggersAreAlive /\ IndexIsFresh)'
BY TypeKept, WorkerKept, QueueKept, WaitKept, ListKept, AliveKept, FreshKept DEF IInv

\* Every variable keeps its type: in particular the list holds hardware only,
\* whatever position RemoveDomoticzHardware erases (mainworker.cpp:365).
THEOREM TypesHold == Spec => []TypeOK
<1>1. IInv => TypeOK
    BY DEF IInv
<1> QED
    BY <1>1, InitInv, InvKept, PTL DEF Spec

\* Until Stop() is called, the worker finds the trigger of every message it
\* takes alive: PushAndWaitRxMessage deletes its own only after popped().
THEOREM TriggersLive == Spec => []TriggersAreAlive
BY InitInv, InvKept, PTL DEF Spec

\* The position found under m_devicemutex and used without it is right for as
\* long as no hardware is removed: AddDomoticzHardware appends.
THEOREM IndexHolds == Spec => []IndexIsFresh
BY InitInv, InvKept, PTL DEF Spec

\* The worker's pointer to hardware is freed under its feet by a removal only,
\* never by Stop(), that waits for the worker first.
THEOREM StopFreesNothing == Spec => FreedOnlyByRemoval
<1> DEFINE A == pHardware # Freed /\ pHardware' = Freed => \E c \in Callers : EndRemoval(c)
<1>1. ASSUME IInv, [Next]_vars
      PROVE  [A]_vars
  <2>1. ASSUME NEW c \in Callers, Looking(c)
        PROVE  A
      BY <2>1, <1>1, LookingTyped
  <2>2. ASSUME NEW c \in Callers, PushRxMessage(c) \/ EndWait(c) \/ AddHardware(c) \/ BeginRemoval(c)
        PROVE  A
      BY <2>2 DEF PushRxMessage, EndWait, AddHardware, BeginRemoval
  <2>3. CASE WorkerStep
      BY <1>1, <2>3, WorkerCases, RxAssumption DEF Popped, IInv, WorkerInv
  <2>4. CASE RaiseFlag
      BY <2>4 DEF RaiseFlag
  <2>5. CASE StopStep
      BY <1>1, <2>5, StopCases
  <2> QED
      BY <1>1, <2>1, <2>2, <2>3, <2>4, <2>5, StepCases
<1> QED
    BY <1>1, InitInv, InvKept, PTL DEF Spec, FreedOnlyByRemoval

\* The queue, the worker and the waiters do what RxFifo promises: messages are
\* taken in their order, and who waits returns when its message is done with.
THEOREM RxQueueIsFifo == Spec => ImplementsFifo
BY InitInv, InvKept, FifoStep, PTL DEF Spec, ImplementsFifo, Fifo!Spec

-----------------------------------------------------------------------------
(* Who changes the list once Stop() has cleared it *)

Changing == {"remove", "join", "add", "append"}

\* Only the web servers and the main worker change the list, and they are at
\* rest once Stop() has joined their threads.
OwnerInv ==
    /\ \A c \in Callers : pc[c] \in Changing => Owner[c] \in {Web, Work}
    /\ stop \in {"servers", "hardware", "rest", "stopped"} => AtRest(Web)
    /\ stop = "stopped" => AtRest(Work)

\* A thread that begins something still takes work, and so has not been joined;
\* the others stay with what they do.
LEMMA LookingOwner ==
    ASSUME IInv, OwnerInv, NEW c \in Callers, Looking(c)
    PROVE  /\ \A d \in Callers \ {c} : pc'[d] = pc[d]
           /\ pc'[c] \in Changing => Owner[c] \in {Web, Work}
           /\ pc[c] # "idle" \/ TakesWork(c)
           /\ stop' = stop
<1> USE DEF IInv, TypeOK
<1>1. /\ \A d \in Callers \ {c} : pc'[d] = pc[d]
      /\ stop' = stop
    BY LookingTyped DEF Continue
<1>2. CASE Decode(c)
    BY <1>1, <1>2 DEF Decode, Continue, Changing
<1>3. CASE Lookup(c)
    BY <1>1, <1>3 DEF Lookup, Continue, Changing
<1>4. CASE CheckRxMessage(c)
    BY <1>1, <1>4 DEF CheckRxMessage, Continue, Changing
<1>5. CASE FindForAddition(c)
    BY <1>1, <1>5 DEF FindForAddition, OwnerInv, Changing
<1>6. ASSUME NEW o \in {"update", "switch"}, NEW h \in Hw, Request(c, o, h)
      PROVE  (pc'[c] \in Changing => Owner[c] \in {Web, Work}) /\ TakesWork(c)
    BY <1>6 DEF Request, Continue, Changing
<1>7. ASSUME NEW o \in {"remove", "restart"}, NEW h \in Hw, FindForRemoval(c, o, h)
      PROVE  Owner[c] \in {Web, Work} /\ TakesWork(c)
    BY <1>7 DEF FindForRemoval
<1> QED
    BY <1>1, <1>2, <1>3, <1>4, <1>5, <1>6, <1>7 DEF Looking

\* A step of a thread that is not idle, and goes on with what it does.
LEMMA GoingOnOwner ==
    ASSUME OwnerInv, NEW c \in Callers, stop' = stop, pc[c] # "idle",
           \A d \in Callers \ {c} : pc'[d] = pc[d],
           pc'[c] \in Changing => Owner[c] \in {Web, Work}
    PROVE  OwnerInv'
BY DEF OwnerInv, AtRest

\* No hardware belongs to the web servers or to the main worker.
LEMMA NoHardware ==
    ASSUME IInv, NEW c \in Callers, TakesWork(c), Owner[c] \in {Web, Work}
    PROVE  \/ Owner[c] = Web /\ stop \in {"up", "flagged"}
           \/ Owner[c] = Work /\ stop # "stopped"
<1>1. ~Listed(Owner[c])
    BY RxAssumption DEF IInv, TypeOK, Listed
<1> QED
    BY <1>1 DEF TakesWork

LEMMA OwnerKept ==
    ASSUME IInv, OwnerInv, [Next]_vars
    PROVE  OwnerInv'
<1> USE DEF IInv, TypeOK
<1>1. ASSUME NEW c \in Callers, Looking(c)
      PROVE  OwnerInv'
  <2>1. /\ \A d \in Callers \ {c} : pc'[d] = pc[d]
        /\ pc'[c] \in Changing => Owner[c] \in {Web, Work}
        /\ stop' = stop
      BY <1>1, LookingOwner
  <2>2. CASE pc[c] # "idle"
      BY <2>1, <2>2, GoingOnOwner
  <2>3. CASE pc[c] = "idle"
    <3>1. TakesWork(c)
        BY <1>1, <2>3, LookingOwner
    <3>2. Owner[c] = Web => stop \in {"up", "flagged"}
        BY <3>1, NoHardware, RxAssumption
    <3>3. Owner[c] = Work => stop # "stopped"
        BY <3>1, NoHardware, RxAssumption
    <3> QED
        BY <2>1, <3>2, <3>3 DEF OwnerInv, AtRest
  <2> QED
      BY <2>2, <2>3
<1>2. ASSUME NEW c \in Callers, PushRxMessage(c) \/ EndWait(c) \/ AddHardware(c)
      PROVE  OwnerInv'
  <2>1. /\ \A d \in Callers \ {c} : pc'[d] = pc[d]
        /\ pc[c] # "idle" /\ pc'[c] \notin Changing /\ stop' = stop
      BY <1>2 DEF PushRxMessage, EndWait, AddHardware, Goto, Continue, Changing
  <2> QED
      BY <2>1, GoingOnOwner
<1>3. ASSUME NEW c \in Callers, BeginRemoval(c) \/ EndRemoval(c)
      PROVE  OwnerInv'
  <2>1. /\ pc[c] \in {"remove", "join"} /\ stop' = stop
        /\ \A d \in Callers \ {c} : pc'[d] = pc[d]
      BY <1>3, RemovalCases DEF Goto, Continue
  <2>2. Owner[c] \in {Web, Work}
      BY <2>1 DEF OwnerInv, Changing
  <2> QED
      BY <2>1, <2>2, GoingOnOwner
<1>4. CASE WorkerStep
    BY <1>4, WorkerCases DEF OwnerInv, AtRest
<1>5. CASE RaiseFlag
    BY <1>5 DEF RaiseFlag, StopGoto, OwnerInv, AtRest
<1>6. CASE StopStep
  <2>1. pc' = pc
      BY <1>6, StopCases
  <2> QED
      BY <1>6, <2>1
         DEF StopStep, JoinWorker, StopServers, BeginStopHardware, AskNextToStop,
             EndStopHardware, JoinMain, StopGoto, OwnerInv, AtRest
<1>7. CASE UNCHANGED vars
    BY <1>7 DEF vars, OwnerInv, AtRest
<1> QED
    BY <1>1, <1>2, <1>3, <1>4, <1>5, <1>6, <1>7, StepCases

\* After Stop() has cleared the list only the main worker changes it, by
\* restarting hardware, and nobody once Stop() has joined that thread too.
THEOREM RestartRevives == Spec => OnlyARestartRevives
<1> DEFINE A == stop \in {"rest", "stopped"} /\ m_hardwaredevices' # m_hardwaredevices
                  => /\ stop = "rest"
                     /\ \E c \in Callers :
                           Owner[c] = Work /\ (EndRemoval(c) \/ AddHardware(c))
<1>1. ASSUME IInv, OwnerInv, [Next]_vars
      PROVE  [A]_vars
  <2>1. ASSUME NEW c \in Callers, Looking(c)
        PROVE  A
      BY <1>1, <2>1, LookingTyped DEF listVars
  <2>2. ASSUME NEW c \in Callers, PushRxMessage(c) \/ EndWait(c) \/ BeginRemoval(c)
        PROVE  A
      BY <2>2 DEF PushRxMessage, EndWait, BeginRemoval, listVars
  <2>3. ASSUME NEW c \in Callers, EndRemoval(c) \/ AddHardware(c)
        PROVE  A
    <3>1. pc[c] \in Changing /\ pc[c] # "idle"
        BY <2>3 DEF EndRemoval, AddHardware, Changing
    <3>2. Owner[c] \in {Web, Work}
        BY <1>1, <3>1 DEF OwnerInv
    <3>3. stop \in {"rest", "stopped"} => Owner[c] # Web
        BY <1>1, <3>1 DEF OwnerInv, AtRest
    <3>4. stop = "stopped" => Owner[c] # Work
        BY <1>1, <3>1 DEF OwnerInv, AtRest
    <3> QED
        BY <2>3, <3>2, <3>3, <3>4
  <2>4. CASE WorkerStep
      BY <1>1, <2>4, WorkerCases DEF listVars
  <2>5. CASE RaiseFlag
      BY <2>5 DEF RaiseFlag, listVars
  <2>6. CASE StopStep
    <3>1. m_hardwaredevices' = m_hardwaredevices \/ stop = "hardware"
        BY <1>1, <2>6, StopCases DEF listVars
    <3> QED
        BY <3>1
  <2> QED
      BY <1>1, <2>1, <2>2, <2>3, <2>4, <2>5, <2>6, StepCases
<1>2. Init => OwnerInv
    BY DEF Init, OwnerInv, AtRest, Changing
<1>3. IInv /\ OwnerInv /\ [Next]_vars => OwnerInv'
    BY OwnerKept
<1> QED
    BY <1>1, <1>2, <1>3, InitInv, InvKept, PTL DEF Spec, OnlyARestartRevives
=============================================================================
