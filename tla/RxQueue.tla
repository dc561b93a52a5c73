------------------------------- MODULE RxQueue -------------------------------
(***************************************************************************)
(* The queue of received messages of Domoticz, the list of its hardware    *)
(* and the order in which both are stopped (src/domoticz/main:             *)
(* mainworker.cpp, concurrent_queue.h).                                    *)
(*                                                                         *)
(* A caller is a thread that hands messages over: the thread of a hardware *)
(* (the MQTT client, say), a thread of the web server, or the main worker, *)
(* that restarts hardware which has gone quiet.  One worker takes the      *)
(* messages.  Every access to m_hardwaredevices under m_devicemutex, and   *)
(* every access without it, is a step.                                     *)
(***************************************************************************)
EXTENDS Integers, Sequences

CONSTANTS
    Callers, Hw,
    Owner,        \* the hardware a thread belongs to, or Web, or Work
    Web, Work,
    Asks,         \* what each thread is asked for: an operation, a hardware
    Dummy,        \* hardwareId -1
    None,         \* no hardware; a free mutex
    Freed,        \* a deleted hardware
    Stopper,      \* the thread that runs MainWorker::Stop
    Stored,       \* the hardware of the database, in the order of their id
    MaxPushed,    \* bound: messages handed over
    MaxErased     \* bound: hardware removed or restarted

ASSUME RxAssumption ==
    /\ Owner \in [Callers -> Hw \cup {Web, Work}]
    /\ Asks \in [Callers -> SUBSET ({"update", "switch", "remove", "restart"} \X Hw)]
    /\ Hw \cap {Web, Work, Dummy, None, Freed} = {}
    /\ Callers \cap {None, Stopper} = {} /\ None # Stopper
    /\ Web # Work /\ Dummy # None /\ Freed # None
    /\ Stored \in Seq(Hw)
    /\ \A m, n \in DOMAIN Stored : m # n => Stored[m] # Stored[n]
    /\ MaxPushed \in Nat /\ MaxErased \in Nat

VARIABLES
    m_rxMessageQueue,
    m_stopRxMessageThread,
    pushed,             \* messages handed over so far
    worker,             \* where Do_Work_On_Rx_Messages is
    rxQItem,            \* the message it has popped
    pHardware,          \* the hardware it has looked up
    m_hardwaredevices,
    m_devicemutex,      \* who holds it
    stopping,           \* hardware whose Stop() waits for its thread
    erased,             \* hardware taken from the list so far
    pc,                 \* where each caller is
    job,                \* its local variables
    trigger,            \* the message it waits for, or 0
    elementPopped,      \* that trigger has been set
    stop                \* where MainWorker::Stop is

queueVars == <<m_rxMessageQueue, pushed>>
workerVars == <<worker, rxQItem>>
listVars == <<m_hardwaredevices, m_devicemutex, stopping, erased>>
waitVars == <<trigger, elementPopped>>
vars == <<queueVars, m_stopRxMessageThread, workerVars, pHardware, listVars,
          pc, job, waitVars, stop>>

\* What a thread is doing, with which hardware, the position at which it found
\* it and how many had been erased at that moment.
NoJob == [op |-> "decode", hw |-> None, index |-> 0, seen |-> 0]

DummyMessage == [id |-> 0, hw |-> Dummy, waited |-> FALSE]

\* The steps of Stop(), in their order: the flag and the dummy message, the end
\* of the worker, the web servers, the hardware under m_devicemutex, the rest.
StopSteps == {"up", "flagged", "joined", "servers", "hardware", "rest", "stopped"}

WorkerSteps == {"created", "check", "pop", "lookup", "process", "ended"}

Listed(h) == \E n \in DOMAIN m_hardwaredevices : m_hardwaredevices[n] = h

\* The first position of a hardware in the list, 0 when it is not there.
Position(h) ==
    IF Listed(h)
    THEN CHOOSE n \in DOMAIN m_hardwaredevices :
            /\ m_hardwaredevices[n] = h
            /\ \A m \in 1 .. n - 1 : m_hardwaredevices[m] # h
    ELSE 0

Without(s, n) == SubSeq(s, 1, n - 1) \o SubSeq(s, n + 1, Len(s))

\* The threads of a hardware are between two messages.
AtRest(h) == \A c \in Callers : Owner[c] = h => pc[c] = "idle"

\* A thread that still takes work: its hardware runs, its server is up, or
\* it is the main worker, that Stop() ends last.
MutantTakesWork(c) == TRUE
TakesWork(c) ==
    \/ Listed(Owner[c]) /\ Owner[c] \notin stopping
    \/ Owner[c] = Web /\ stop \in {"up", "flagged"}
    \/ Owner[c] = Work /\ stop # "stopped"

\* A thread goes on with its job, or is done with it.
Continue(c, where, j) ==
    /\ pc' = [pc EXCEPT ![c] = where]
    /\ job' = [job EXCEPT ![c] = IF where = "idle" THEN NoJob ELSE j]

Goto(c, where) == Continue(c, where, job[c])

Init ==
    /\ m_rxMessageQueue = <<>> /\ pushed = 0
    /\ m_stopRxMessageThread = FALSE
    /\ worker = "created" /\ rxQItem = DummyMessage /\ pHardware = None
    /\ m_hardwaredevices = Stored
    /\ m_devicemutex = None /\ stopping = {} /\ erased = 0
    /\ pc = [c \in Callers |-> "idle"]
    /\ job = [c \in Callers |-> NoJob]
    /\ trigger = [c \in Callers |-> 0]
    /\ elementPopped = [c \in Callers |-> FALSE]
    /\ stop = "up"

-----------------------------------------------------------------------------
(* Handing a message over *)

Asked(o, h) == [op |-> o, hw |-> h, index |-> 0, seen |-> 0]

\* The hardware is looked for under the mutex, and its position kept.
Found(o, h) == [op |-> o, hw |-> h, index |-> Position(h), seen |-> erased]

\* sDecodeRXMessage: a hardware has received a message of its own.
Decode(c) ==
    /\ Owner[c] \in Hw /\ pushed < MaxPushed
    /\ pc[c] = "idle" /\ TakesWork(c)
    /\ Continue(c, "check", Asked("decode", Owner[c]))
    /\ UNCHANGED <<queueVars, m_stopRxMessageThread, workerVars, pHardware,
                   listVars, waitVars, stop>>

\* UpdateDevice or SwitchLight is called, for a device of any hardware.
Request(c, o, h) ==
    /\ Owner[c] # Work /\ pushed < MaxPushed
    /\ pc[c] = "idle" /\ TakesWork(c)
    /\ Continue(c, "lookup", Asked(o, h))
    /\ UNCHANGED <<queueVars, m_stopRxMessageThread, workerVars, pHardware,
                   listVars, waitVars, stop>>

\* GetHardware in UpdateDevice, FindDomoticzHardware in SwitchLightInt.
Lookup(c) ==
    /\ pc[c] = "lookup" /\ m_devicemutex = None
    /\ Continue(c, IF Listed(job[c].hw) THEN "check" ELSE "idle",
                Found(job[c].op, job[c].hw))
    /\ UNCHANGED <<queueVars, m_stopRxMessageThread, workerVars, pHardware,
                   listVars, waitVars, stop>>

\* What m_hardwaredevices[hindex] may be: past the end, whatever is there.
AtIndex(n) ==
    IF n \in DOMAIN m_hardwaredevices THEN {m_hardwaredevices[n]} ELSE Hw

Waits(c) == job[c].op = "switch"

\* CheckAndPushRxMessage up to the flag.  SwitchLightInt passes it the
\* hardware that is now at the position it has found.
CheckRxMessage(c) ==
    /\ pc[c] = "check"
    /\ \E h \in (IF Waits(c) THEN AtIndex(job[c].index) ELSE {job[c].hw}) :
          Continue(c, IF m_stopRxMessageThread THEN "idle" ELSE "push",
                   Asked(job[c].op, h))
    /\ UNCHANGED <<queueVars, m_stopRxMessageThread, workerVars, pHardware,
                   listVars, waitVars, stop>>

\* concurrent_queue::push, with a new trigger when the caller will wait.
PushRxMessage(c) ==
    /\ pc[c] = "push"
    /\ pushed' = pushed + 1
    /\ m_rxMessageQueue' = Append(m_rxMessageQueue,
           [id |-> pushed + 1, hw |-> job[c].hw, waited |-> Waits(c)])
    /\ trigger' = [trigger EXCEPT ![c] = IF Waits(c) THEN pushed + 1 ELSE 0]
    /\ Goto(c, IF Waits(c) THEN "wait" ELSE "idle")
    /\ UNCHANGED <<m_stopRxMessageThread, workerVars, pHardware, listVars,
                   elementPopped, stop>>

\* The trigger is deleted as the caller returns: timed_wait has seen it set,
\* or has timed out while the worker is being stopped.
MutantReturns(c) == TRUE
Returns(c) == elementPopped[c] \/ m_stopRxMessageThread

EndWait(c) ==
    /\ pc[c] = "wait" /\ Returns(c)
    /\ trigger' = [trigger EXCEPT ![c] = 0]
    /\ elementPopped' = [elementPopped EXCEPT ![c] = FALSE]
    /\ Goto(c, "idle")
    /\ UNCHANGED <<queueVars, m_stopRxMessageThread, workerVars, pHardware,
                   listVars, stop>>

-----------------------------------------------------------------------------
(* Do_Work_On_Rx_Messages *)

WorkerGoto(where) == worker' = where

\* The flag is cleared here, by the worker, whenever it gets to run.
StartWorker ==
    /\ worker = "created"
    /\ WorkerGoto("check")
    /\ m_stopRxMessageThread' = FALSE
    /\ UNCHANGED <<queueVars, rxQItem, pHardware, listVars, pc, job, waitVars, stop>>

\* Mutant: the worker never looks at the flag.
MutantStopSeen == FALSE
StopSeen == m_stopRxMessageThread

CheckStop ==
    /\ worker = "check"
    /\ WorkerGoto(IF StopSeen THEN "ended" ELSE "pop")
    /\ UNCHANGED <<queueVars, m_stopRxMessageThread, rxQItem, pHardware, listVars,
                   pc, job, waitVars, stop>>

\* timed_wait_and_pop: the dummy message is popped and forgotten.
Pop ==
    /\ worker = "pop" /\ m_rxMessageQueue # <<>>
    /\ rxQItem' = Head(m_rxMessageQueue)
    /\ m_rxMessageQueue' = Tail(m_rxMessageQueue)
    /\ WorkerGoto(IF Head(m_rxMessageQueue).hw = Dummy THEN "check" ELSE "lookup")
    /\ UNCHANGED <<pushed, m_stopRxMessageThread, pHardware, listVars, pc,
                   job, waitVars, stop>>

PopTimesOut ==
    /\ worker = "pop" /\ m_rxMessageQueue = <<>>
    /\ WorkerGoto("check")
    /\ UNCHANGED <<queueVars, m_stopRxMessageThread, rxQItem, pHardware, listVars,
                   pc, job, waitVars, stop>>

\* trigger->popped(), and the end of the turn.  A trigger nobody waits for any
\* more is deleted memory.
Popped ==
    /\ WorkerGoto("check")
    /\ rxQItem' = DummyMessage
    /\ pHardware' = None
    /\ elementPopped' = [c \in Callers |->
            elementPopped[c] \/ (rxQItem.waited /\ trigger[c] = rxQItem.id)]

\* Mutant: a message of a hardware that is gone is dropped without an answer.
MutantRefuse ==
    WorkerGoto("check") /\ rxQItem' = DummyMessage /\ UNCHANGED <<pHardware, elementPopped>>

\* A message of a hardware that is gone is answered without being processed.
Refuse == Popped

\* GetHardware: the pointer outlives the mutex.
LookupHardware ==
    /\ worker = "lookup" /\ m_devicemutex = None
    /\ IF Listed(rxQItem.hw)
       THEN /\ WorkerGoto("process")
            /\ pHardware' = rxQItem.hw
            /\ UNCHANGED <<rxQItem, elementPopped>>
       ELSE Refuse
    /\ UNCHANGED <<queueVars, m_stopRxMessageThread, listVars, pc, job, trigger, stop>>

ProcessRXMessage ==
    /\ worker = "process"
    /\ Popped
    /\ UNCHANGED <<queueVars, m_stopRxMessageThread, listVars, pc, job, trigger, stop>>

-----------------------------------------------------------------------------
(* The list of hardware *)

\* RemoveDomoticzHardware(id), alone or first in AddHardwareFromParams: the
\* position is found under the mutex and the mutex given back.
FindForRemoval(c, o, h) ==
    /\ Owner[c] = Web \/ (Owner[c] = Work /\ o = "restart")
    /\ erased < MaxErased /\ m_devicemutex = None
    /\ pc[c] = "idle" /\ TakesWork(c)
    /\ Continue(c, IF Listed(h) THEN "remove" ELSE IF o = "restart" THEN "add" ELSE "idle",
                Found(o, h))
    /\ UNCHANGED <<queueVars, m_stopRxMessageThread, workerVars, pHardware,
                   listVars, waitVars, stop>>

AfterRemoval(c) ==
    CASE job[c].op = "restart" -> "add"
      [] job[c].op = "replace" -> "append"
      [] OTHER -> "idle"

\* RemoveDomoticzHardware(m_hardwaredevices[dpos]) takes the mutex and keeps
\* it while Stop() joins the thread of the hardware.
BeginRemoval(c) ==
    /\ pc[c] = "remove" /\ m_devicemutex = None
    /\ IF job[c].index \in DOMAIN m_hardwaredevices
       THEN /\ Goto(c, "join")
            /\ m_devicemutex' = c
            /\ stopping' = stopping \cup {m_hardwaredevices[job[c].index]}
       ELSE Goto(c, AfterRemoval(c)) /\ UNCHANGED <<m_devicemutex, stopping>>
    /\ UNCHANGED <<queueVars, m_stopRxMessageThread, workerVars, pHardware,
                   m_hardwaredevices, erased, waitVars, stop>>

Deleted(h) == pHardware' = IF pHardware = h THEN Freed ELSE pHardware

\* The thread has ended: the hardware is deleted and taken from the list.
EndRemoval(c) ==
    LET h == m_hardwaredevices[job[c].index] IN
    /\ pc[c] = "join" /\ AtRest(h)
    /\ m_hardwaredevices' = Without(m_hardwaredevices, job[c].index)
    /\ stopping' = stopping \ {h}
    /\ Deleted(h)
    /\ m_devicemutex' = None
    /\ erased' = erased + 1
    /\ Goto(c, AfterRemoval(c))
    /\ UNCHANGED <<queueVars, m_stopRxMessageThread, workerVars, waitVars, stop>>

\* AddDomoticzHardware: one that is listed again is removed first; the test
\* and the push_back hold the mutex one after the other.
FindForAddition(c) ==
    /\ pc[c] = "add" /\ m_devicemutex = None
    /\ Continue(c, IF Listed(job[c].hw) THEN "remove" ELSE "append",
                Found("replace", job[c].hw))
    /\ UNCHANGED <<queueVars, m_stopRxMessageThread, workerVars, pHardware,
                   listVars, waitVars, stop>>

\* Mutant: the list is kept with the newest hardware first.
MutantAdded(h) == <<h>> \o m_hardwaredevices
Added(h) == Append(m_hardwaredevices, h)

AddHardware(c) ==
    /\ pc[c] = "append" /\ m_devicemutex = None
    /\ m_hardwaredevices' = Added(job[c].hw)
    /\ Goto(c, "idle")
    /\ UNCHANGED <<queueVars, m_stopRxMessageThread, workerVars, pHardware,
                   m_devicemutex, stopping, erased, waitVars, stop>>

-----------------------------------------------------------------------------
(* MainWorker::Stop *)

StopGoto(from, to) == stop = from /\ stop' = to

\* m_stopRxMessageThread, then UnlockRxMessageQueue.
RaiseFlag ==
    /\ StopGoto("up", "flagged")
    /\ m_stopRxMessageThread' = TRUE
    /\ m_rxMessageQueue' = Append(m_rxMessageQueue, DummyMessage)
    /\ UNCHANGED <<pushed, workerVars, pHardware, listVars, pc, job, waitVars>>

\* Mutant: the hardware is stopped without waiting for the worker.
MutantWorkerJoined == TRUE
WorkerJoined == worker = "ended"

JoinWorker ==
    /\ StopGoto("flagged", "joined") /\ WorkerJoined
    /\ UNCHANGED <<queueVars, m_stopRxMessageThread, workerVars, pHardware, listVars,
                   pc, job, waitVars>>

\* StopServers joins the threads of the web servers.
StopServers ==
    /\ StopGoto("joined", "servers") /\ AtRest(Web)
    /\ UNCHANGED <<queueVars, m_stopRxMessageThread, workerVars, pHardware, listVars,
                   pc, job, waitVars>>

\* StopDomoticzHardware keeps the mutex from its beginning to its end.
BeginStopHardware ==
    /\ StopGoto("servers", "hardware") /\ m_devicemutex = None
    /\ m_devicemutex' = Stopper
    /\ UNCHANGED <<queueVars, m_stopRxMessageThread, workerVars, pHardware,
                   m_hardwaredevices, stopping, erased, pc, job, waitVars>>

AskNextToStop ==
    \E n \in DOMAIN m_hardwaredevices :
        /\ stop = "hardware"
        /\ \A m \in 1 .. n - 1 : m_hardwaredevices[m] \in stopping /\ AtRest(m_hardwaredevices[m])
        /\ m_hardwaredevices[n] \notin stopping
        /\ stopping' = stopping \cup {m_hardwaredevices[n]}
        /\ UNCHANGED <<queueVars, m_stopRxMessageThread, workerVars, pHardware,
                       m_hardwaredevices, m_devicemutex, erased, pc, job, waitVars, stop>>

\* Every Stop() has returned, each hardware has been deleted after its own.
EndStopHardware ==
    /\ StopGoto("hardware", "rest")
    /\ \A n \in DOMAIN m_hardwaredevices :
          m_hardwaredevices[n] \in stopping /\ AtRest(m_hardwaredevices[n])
    /\ m_hardwaredevices' = <<>> /\ stopping' = {}
    /\ pHardware' = IF Listed(pHardware) THEN Freed ELSE pHardware
    /\ m_devicemutex' = None
    /\ erased' = erased + 1
    /\ UNCHANGED <<queueVars, m_stopRxMessageThread, workerVars, pc, job, waitVars>>

\* m_stoprequested, and the join of the main worker.
JoinMain ==
    /\ StopGoto("rest", "stopped") /\ AtRest(Work)
    /\ UNCHANGED <<queueVars, m_stopRxMessageThread, workerVars, pHardware, listVars,
                   pc, job, waitVars>>

-----------------------------------------------------------------------------
(* The system *)

CallerStep(c) ==
    \/ Lookup(c) \/ CheckRxMessage(c) \/ PushRxMessage(c) \/ EndWait(c)
    \/ BeginRemoval(c) \/ EndRemoval(c) \/ FindForAddition(c) \/ AddHardware(c)

WorkerStep ==
    \/ StartWorker \/ CheckStop \/ Pop \/ PopTimesOut \/ LookupHardware
    \/ ProcessRXMessage

StopStep ==
    \/ JoinWorker \/ StopServers \/ BeginStopHardware
    \/ AskNextToStop \/ EndStopHardware \/ JoinMain

\* What comes from outside: messages, requests, and the signal to stop.
Environment ==
    \/ \E c \in Callers : Decode(c)
    \/ \E c \in Callers, o \in {"update", "switch"}, h \in Hw :
          <<o, h>> \in Asks[c] /\ Request(c, o, h)
    \/ \E c \in Callers, o \in {"remove", "restart"}, h \in Hw :
          <<o, h>> \in Asks[c] /\ FindForRemoval(c, o, h)
    \/ RaiseFlag

Next ==
    \/ Environment \/ WorkerStep \/ StopStep
    \/ \E c \in Callers : CallerStep(c)

Spec == Init /\ [][Next]_vars

\* Every thread goes on when it can: the scheduler runs them all, and the
\* timed waits wake up of themselves.
RxFairness ==
    /\ WF_vars(WorkerStep)
    /\ WF_vars(StopStep)
    /\ \A c \in Callers : WF_vars(CallerStep(c))

FairSpec == Spec /\ RxFairness

-----------------------------------------------------------------------------
(* Properties *)

RxMessage == [id : Nat, hw : Hw \cup {Dummy}, waited : BOOLEAN]

CallerSteps == {"idle", "lookup", "check", "push", "wait", "remove", "join", "add", "append"}

Job == [op : {"decode", "update", "switch", "remove", "restart", "replace"},
        hw : Hw \cup {None}, index : Nat, seen : Nat]

TypeOK ==
    /\ m_rxMessageQueue \in Seq(RxMessage)
    /\ m_stopRxMessageThread \in BOOLEAN
    /\ pushed \in Nat /\ erased \in Nat
    /\ worker \in WorkerSteps
    /\ rxQItem \in RxMessage
    /\ pHardware \in Hw \cup {None, Freed}
    /\ m_hardwaredevices \in Seq(Hw)
    /\ m_devicemutex \in Callers \cup {None, Stopper}
    /\ stopping \subseteq Hw
    /\ pc \in [Callers -> CallerSteps]
    /\ job \in [Callers -> Job]
    /\ trigger \in [Callers -> Nat]
    /\ elementPopped \in [Callers -> BOOLEAN]
    /\ stop \in StopSteps

Fifo == INSTANCE RxFifo WITH
    submitted <- pushed,
    pending <- m_rxMessageQueue,
    busy <- rxQItem,
    waiting <- {trigger[c] : c \in {d \in Callers : trigger[d] # 0}},
    closing <- stop # "up"

\* The queue keeps what RxFifo promises: messages are taken in the order of
\* push(), and PushAndWaitRxMessage returns before its message has been
\* processed or refused only while Domoticz stops ("submit it and wait for
\* it to be processed", mainworker.cpp:1747).
ImplementsFifo == Fifo!Spec

\* Until Stop() is called, the trigger of a message the worker has in its
\* hands, or will find in the queue, has not been deleted by its waiter.
TriggersAreAlive ==
    stop = "up" =>
        \A m \in {m_rxMessageQueue[n] : n \in DOMAIN m_rxMessageQueue}
                    \cup {rxQItem} :
            m.waited => \E c \in Callers : pc[c] = "wait" /\ trigger[c] = m.id

\* The position a thread keeps without the mutex is still that of the
\* hardware it looked for, unless hardware has been removed since.
IndexIsFresh ==
    \A c \in Callers :
        /\ pc[c] \in {"check", "remove"} /\ job[c].op # "decode"
        /\ job[c].seen = erased
        => /\ job[c].index \in DOMAIN m_hardwaredevices
           /\ m_hardwaredevices[job[c].index] = job[c].hw

\* Stop() never deletes the hardware whose message is being processed ("Stop
\* RxMessage thread before hardware", mainworker.cpp:953): a removal may.
FreedOnlyByRemoval ==
    [][pHardware # Freed /\ pHardware' = Freed => \E c \in Callers : EndRemoval(c)]_vars

\* Once Stop() has cleared the list, only a restart of the main worker changes
\* it: hardware that appears then outlives Stop().  The web servers are down
\* before the list is cleared; and with the main worker joined, nobody does.
OnlyARestartRevives ==
    [][(stop \in {"rest", "stopped"} /\ m_hardwaredevices' # m_hardwaredevices)
       => /\ stop = "rest"
          /\ \E c \in Callers : Owner[c] = Work /\ (EndRemoval(c) \/ AddHardware(c))]_vars

\* A thread joins a hardware, holding m_devicemutex, whose own thread wants
\* the mutex, or waits for a worker that wants it.
Circle ==
    \E c \in Callers :
        /\ Owner[c] \in stopping
        /\ \/ pc[c] = "lookup"
           \/ pc[c] = "wait" /\ worker = "lookup"

\* The worker came to life after Stop() and has cleared its flag.
FlagLost == stop # "up" /\ ~m_stopRxMessageThread

\* Every call ends, a push-and-wait and a removal among them, but for the
\* circle of a removal with the thread it waits for.
CallsEnd == \A c \in Callers : pc[c] # "idle" ~> (pc[c] = "idle" \/ Circle)

\* Stop() returns, but for that circle, and for a worker that began late.
StopEnds == stop # "up" ~> (stop = "stopped" \/ Circle \/ FlagLost)
=============================================================================
