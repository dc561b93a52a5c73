-------------------------- MODULE SwitchTasksProofs --------------------------
(***************************************************************************)
(* The types, OneOffPerDevice, NotTooSoon and EventsInOrder, for any       *)
(* devices, delays and scene.                                              *)
(*                                                                         *)
(* The invariant is about the queue, what has left it, the last number and *)
(* the loops counted since each device went on, QueueOK below: each way of *)
(* changing the queue keeps it.                                            *)
(***************************************************************************)
EXTENDS SwitchTasks, TLAPS

TaskOK(t, p) == t \in Tasks /\ t.n \in 1 .. p /\ (t.type = "scene" <=> t.idx = Scene)

\* An Off in the queue and the loops since its device went on add up to the delay.
CountsUp(t, s) == t.type = "off" => s[t.idx] + t.delay >= OffDelay[t.idx]

Waited(t, s) == t.type = "off" => s[t.idx] = 0 \/ s[t.idx] >= OffDelay[t.idx]

SameEvents(t, u) == t.type = "event" /\ u.type = "event" /\ t.idx = u.idx

\* Of two events of a device in the queue, the younger has 3 loops more to go.
Apart(t, u) == SameEvents(t, u) /\ t.n < u.n => u.delay >= t.delay + 3

QueueOK(q, i, p, s) ==
    /\ \A t \in q : TaskOK(t, p) /\ t.delay >= 0 /\ CountsUp(t, s)
    /\ \A t \in i : TaskOK(t, p) /\ Waited(t, s)
    /\ \A t, u \in q : t.n = u.n => t = u
    /\ \A t, u \in q : t.type = "off" /\ u.type = "off" /\ t.idx = u.idx => t = u
    /\ \A t, u \in q : Apart(t, u)
    /\ \A t, u \in i : SameEvents(t, u) => t = u
    /\ \A t \in i, u \in q : SameEvents(t, u) => t.n < u.n

-----------------------------------------------------------------------------
(* What changes the queue *)

\* AddTaskItem keeps it: a new event is the youngest, and what it leaves of its
\* device is 3 loops ahead.
LEMMA AddTaskItemKeeps ==
    ASSUME NEW q, NEW i, NEW p \in Nat, NEW s, QueueOK(q, i, p, s),
           NEW t, TaskOK(t, p + 1), t.n = p + 1, t.delay >= 0, t.type # "off"
    PROVE  QueueOK(AddTaskItem(q, t), i, p + 1, s)
  <1>. DEFINE r == AddTaskItem(q, t)
  <1>1. \A u \in r : u = t \/ (u \in q /\ ~Replaces(t, u))
    BY DEF AddTaskItem
  <1>2. \A u \in q \cup i : TaskOK(u, p + 1) /\ u.n < t.n
    BY DEF QueueOK, TaskOK
  <1>3. \A u \in r : TaskOK(u, p + 1) /\ u.delay >= 0 /\ CountsUp(u, s)
    BY <1>1, <1>2 DEF QueueOK, CountsUp
  <1>4. \A u \in i : TaskOK(u, p + 1) /\ Waited(u, s)
    BY <1>2 DEF QueueOK
  <1>5. \A u, v \in r : u.n = v.n => u = v
    BY <1>1, <1>2 DEF QueueOK, TaskOK
  <1>6. \A u, v \in r : u.type = "off" /\ v.type = "off" /\ u.idx = v.idx => u = v
    BY <1>1 DEF QueueOK
  <1>7. \A u, v \in r : Apart(u, v)
    <2>. SUFFICES ASSUME NEW u \in r, NEW v \in r, SameEvents(u, v), u.n < v.n
                  PROVE  v.delay >= u.delay + 3
      BY DEF Apart
    <2>1. u.n \in Nat /\ v.n \in Nat /\ u.delay \in Int /\ v.delay \in Int /\ t.delay \in Int
      BY <1>3 DEF TaskOK, Tasks
    <2>2. CASE v = t
      <3>1. u # t
        BY <2>1, <2>2
      <3>2. ~Replaces(t, u)
        BY <1>1, <3>1
      <3>. QED
        BY <2>1, <2>2, <3>2 DEF Replaces, SameEvents
    <2>3. CASE v # t
      <3>1. v \in q /\ v.n < t.n
        BY <1>1, <1>2, <2>3
      <3>2. u # t
        BY <2>1, <3>1
      <3>. QED
        BY <1>1, <3>1, <3>2 DEF QueueOK, Apart
    <2>. QED
      BY <2>2, <2>3
  <1>8. \A u, v \in i : SameEvents(u, v) => u = v
    BY DEF QueueOK
  <1>9. \A u \in i, v \in r : SameEvents(u, v) => u.n < v.n
    BY <1>1, <1>2 DEF QueueOK
  <1>. QED
    BY <1>3, <1>4, <1>5, <1>6, <1>7, <1>8, <1>9 DEF QueueOK

\* UpdateValueInt keeps it: the Off of the device that goes on counts from 0.
LEMMA AddOffKeeps ==
    ASSUME NEW q, NEW i, NEW p \in Nat, NEW s \in [Devices -> Nat], QueueOK(q, i, p, s),
           NEW d \in Devices
    PROVE  QueueOK(AddOff(q, d, p + 1), i, p + 1, [s EXCEPT ![d] = 0])
  <1>. DEFINE t == Task("off", d, OffDelay[d], FALSE, p + 1)
  <1>. DEFINE r == AddOff(q, d, p + 1)
  <1>. DEFINE z == [s EXCEPT ![d] = 0]
  <1>1. /\ t.type = "off" /\ t.idx = d /\ t.delay = OffDelay[d] /\ t.n = p + 1
        /\ TaskOK(t, p + 1) /\ OffDelay[d] \in Nat
    BY TasksAssumption DEF Task, TaskOK, Tasks
  <1>2. \A u \in r : u = t \/ (u \in q /\ ~IsOffOf(d, u))
    BY DEF AddOff
  <1>. HIDE DEF t, r
  <1>3. \A u \in q \cup i : TaskOK(u, p + 1) /\ u.n < t.n
    <2>1. \A u \in q \cup i : TaskOK(u, p)
      BY DEF QueueOK
    <2>. QED
      BY <1>1, <2>1 DEF TaskOK
  <1>4. \A u \in r : TaskOK(u, p + 1) /\ u.delay >= 0 /\ CountsUp(u, z)
    <2>1. CountsUp(t, z)
      BY <1>1 DEF CountsUp
    <2>2. ASSUME NEW u \in q, ~IsOffOf(d, u) PROVE u.delay >= 0 /\ CountsUp(u, z)
      BY <2>2 DEF QueueOK, CountsUp, IsOffOf, TaskOK
    <2>3. t.delay >= 0
      BY <1>1
    <2>. QED
      BY <1>1, <1>2, <1>3, <2>1, <2>2, <2>3
  <1>5. \A u \in i : TaskOK(u, p + 1) /\ Waited(u, z)
    <2>1. ASSUME NEW u \in i PROVE Waited(u, z)
      BY DEF QueueOK, Waited, TaskOK, Tasks
    <2>. QED
      BY <1>3, <2>1
  <1>6. \A u, v \in r : u.n = v.n => u = v
    BY <1>1, <1>2, <1>3 DEF QueueOK, TaskOK
  <1>7. \A u, v \in r : u.type = "off" /\ v.type = "off" /\ u.idx = v.idx => u = v
    BY <1>1, <1>2 DEF QueueOK, IsOffOf
  <1>8. \A u, v \in r : Apart(u, v)
    BY <1>1, <1>2 DEF QueueOK, Apart, SameEvents
  <1>9. \A u, v \in i : SameEvents(u, v) => u = v
    BY DEF QueueOK
  <1>10. \A u \in i, v \in r : SameEvents(u, v) => u.n < v.n
    BY <1>1, <1>2 DEF QueueOK, SameEvents
  <1>. QED
    BY <1>4, <1>5, <1>6, <1>7, <1>8, <1>9, <1>10 DEF QueueOK, r, z

\* What is done is no longer waited for.
LEMMA DoneKeeps ==
    ASSUME NEW q, NEW i, NEW p, NEW s, NEW j, j \subseteq i, QueueOK(q, i, p, s)
    PROVE  QueueOK(q, j, p, s)
  BY DEF QueueOK

\* A loop keeps it: no two events of a device leave the queue together, and the
\* one that leaves is the oldest.
LEMMA CountDownKeeps ==
    ASSUME NEW q, NEW p \in Nat, NEW s \in [Devices -> Nat], QueueOK(q, {}, p, s)
    PROVE  QueueOK({CountedDown(t) : t \in {u \in q : ~Expired(u)}},
                   {CountedDown(t) : t \in {u \in q : Expired(u)}},
                   p, [d \in Devices |-> IF s[d] < OffDelay[d] THEN s[d] + 1 ELSE s[d]])
  <1>. DEFINE r == {CountedDown(t) : t \in {u \in q : ~Expired(u)}}
  <1>. DEFINE i == {CountedDown(t) : t \in {u \in q : Expired(u)}}
  <1>. DEFINE z == [d \in Devices |-> IF s[d] < OffDelay[d] THEN s[d] + 1 ELSE s[d]]
  <1>1. ASSUME NEW t \in q
        PROVE  /\ t.delay \in Int /\ t.n \in Nat
               /\ CountedDown(t) \in Tasks /\ TaskOK(CountedDown(t), p)
               /\ CountedDown(t).type = t.type /\ CountedDown(t).idx = t.idx
               /\ CountedDown(t).n = t.n /\ CountedDown(t).delay = t.delay - 1
    BY DEF QueueOK, TaskOK, Tasks, CountedDown
  <1>2. ASSUME NEW t \in q, t.type = "off"
        PROVE  /\ t.idx \in Devices /\ OffDelay[t.idx] \in Nat
               /\ s[t.idx] \in Nat /\ s[t.idx] + t.delay >= OffDelay[t.idx]
               /\ z[t.idx] = IF s[t.idx] < OffDelay[t.idx] THEN s[t.idx] + 1 ELSE s[t.idx]
    <2>1. t.idx \in Devices
      BY <1>2 DEF QueueOK, TaskOK, Tasks
    <2>2. CountsUp(t, s)
      BY DEF QueueOK
    <2>. QED
      BY <1>2, <2>1, <2>2, TasksAssumption DEF CountsUp
  <1>. HIDE DEF z
  <1>3. \A a \in r : \E t \in q : a = CountedDown(t) /\ t.delay > 1
    BY <1>1 DEF Expired
  <1>4. \A a \in i : \E t \in q : a = CountedDown(t) /\ t.delay <= 1
    BY <1>1 DEF Expired
  <1>. HIDE DEF r, i
  <1>5. \A a \in r : TaskOK(a, p) /\ a.delay >= 0 /\ CountsUp(a, z)
    <2>. SUFFICES ASSUME NEW a \in r, NEW t \in q, a = CountedDown(t), t.delay > 1
                  PROVE  TaskOK(a, p) /\ a.delay >= 0 /\ CountsUp(a, z)
      BY <1>3
    <2>1. t.type = "off" => z[t.idx] + t.delay - 1 >= OffDelay[t.idx]
      BY <1>1, <1>2
    <2>. QED
      BY <1>1, <1>2, <2>1 DEF CountsUp
  <1>6. \A a \in i : TaskOK(a, p) /\ Waited(a, z)
    <2>. SUFFICES ASSUME NEW a \in i, NEW t \in q, a = CountedDown(t), t.delay <= 1
                  PROVE  TaskOK(a, p) /\ Waited(a, z)
      BY <1>4
    <2>1. t.type = "off" => z[t.idx] >= OffDelay[t.idx]
      BY <1>1, <1>2
    <2>. QED
      BY <1>1, <2>1 DEF Waited
  <1>7. \A a, b \in r : a.n = b.n => a = b
    BY <1>1, <1>3 DEF QueueOK
  <1>8. \A a, b \in r : a.type = "off" /\ b.type = "off" /\ a.idx = b.idx => a = b
    BY <1>1, <1>3 DEF QueueOK
  <1>9. \A a, b \in r : Apart(a, b)
    <2>. SUFFICES ASSUME NEW a \in r, NEW b \in r, NEW t \in q, NEW u \in q,
                         a = CountedDown(t), b = CountedDown(u)
                  PROVE  Apart(a, b)
      BY <1>3
    <2>1. Apart(t, u)
      BY DEF QueueOK
    <2>. QED
      BY <1>1, <2>1 DEF Apart, SameEvents
  <1>10. \A a, b \in i : SameEvents(a, b) => a = b
    <2>. SUFFICES ASSUME NEW a \in i, NEW b \in i, NEW t \in q, NEW u \in q,
                         a = CountedDown(t), b = CountedDown(u), t.delay <= 1, u.delay <= 1,
                         SameEvents(a, b)
                  PROVE  a = b
      BY <1>4
    <2>1. t.delay >= 0 /\ u.delay >= 0 /\ Apart(t, u) /\ Apart(u, t) /\ (t.n = u.n => t = u)
      BY DEF QueueOK
    <2>. QED
      BY <1>1, <2>1 DEF Apart, SameEvents
  <1>11. \A a \in i, b \in r : SameEvents(a, b) => a.n < b.n
    <2>. SUFFICES ASSUME NEW a \in i, NEW b \in r, NEW t \in q, NEW u \in q,
                         a = CountedDown(t), b = CountedDown(u), t.delay <= 1, u.delay > 1,
                         SameEvents(a, b)
                  PROVE  a.n < b.n
      BY <1>3, <1>4
    <2>1. t.delay >= 0 /\ u.delay >= 0 /\ Apart(u, t) /\ (t.n = u.n => t = u)
      BY DEF QueueOK
    <2>. QED
      BY <1>1, <2>1 DEF Apart, SameEvents
  <1>. QED
    BY <1>5, <1>6, <1>7, <1>8, <1>9, <1>10, <1>11 DEF QueueOK, r, i, z

-----------------------------------------------------------------------------
(* The steps *)

Types ==
    /\ pushed \in Nat /\ nValue \in [Devices -> BOOLEAN]
    /\ scene \in [Threads -> SceneCall]
    /\ requests \in 0 .. MaxRequests /\ faults \in 0 .. MaxFaults
    /\ since \in [Devices -> Nat] /\ lost \subseteq Devices /\ adopted \subseteq Devices

IInv == Types /\ QueueOK(m_background_task_queue, items2do, pushed, since)

\* What a change of a device or a request may do.
Kept(i) ==
    /\ pushed' \in Nat /\ nValue' \in [Devices -> BOOLEAN]
    /\ since' \in [Devices -> Nat] /\ lost' \subseteq Devices /\ adopted' \subseteq Devices
    /\ faults' \in 0 .. MaxFaults
    /\ QueueOK(m_background_task_queue', i, pushed', since')

LEMMA EventTyped ==
    ASSUME NEW d \in Devices, NEW delay \in Int, NEW on \in BOOLEAN, NEW n \in Nat \ {0}
    PROVE  LET t == Task("event", d, delay, on, n)
           IN  TaskOK(t, n) /\ t.delay = delay /\ t.n = n /\ t.type = "event"
  BY TasksAssumption DEF TaskOK, Task, Tasks

LEMMA SceneTyped ==
    ASSUME NEW delay \in Int, NEW n \in Nat \ {0}
    PROVE  LET t == SceneTask(delay, n)
           IN  TaskOK(t, n) /\ t.delay = delay /\ t.n = n /\ t.type = "scene"
  BY TasksAssumption DEF TaskOK, Task, SceneTask, Tasks

LEMMA EventKeeps ==
    ASSUME NEW q, NEW i, NEW p \in Nat, NEW s, QueueOK(q, i, p, s),
           NEW d \in Devices, NEW delay \in Nat, NEW on \in BOOLEAN
    PROVE  QueueOK(AddTaskItem(q, Task("event", d, delay, on, p + 1)), i, p + 1, s)
  <1>. DEFINE t == Task("event", d, delay, on, p + 1)
  <1>1. TaskOK(t, p + 1) /\ t.n = p + 1 /\ t.delay >= 0 /\ t.type # "off"
    BY EventTyped
  <1>. HIDE DEF t
  <1>2. QueueOK(AddTaskItem(q, t), i, p + 1, s)
    BY <1>1, AddTaskItemKeeps
  <1>. QED
    BY <1>2 DEF t

LEMMA SceneKeeps ==
    ASSUME NEW q, NEW i, NEW p \in Nat, NEW s, QueueOK(q, i, p, s),
           NEW delay \in Nat
    PROVE  QueueOK(AddTaskItem(q, SceneTask(delay, p + 1)), i, p + 1, s)
  <1>. DEFINE t == SceneTask(delay, p + 1)
  <1>1. TaskOK(t, p + 1) /\ t.n = p + 1 /\ t.delay >= 0 /\ t.type # "off"
    BY SceneTyped
  <1>. HIDE DEF t
  <1>2. QueueOK(AddTaskItem(q, t), i, p + 1, s)
    BY <1>1, AddTaskItemKeeps
  <1>. QED
    BY <1>2 DEF t

LEMMA SwitchedKeeps ==
    ASSUME Types, NEW i, QueueOK(m_background_task_queue, i, pushed, since),
           NEW d \in Devices, NEW on \in BOOLEAN, Switched(d, on), UNCHANGED <<faults, lost>>
    PROVE  Kept(i)
  <1>. DEFINE goesOn == on /\ OffDelay[d] # 0 /\ ~Same(d, on)
  <1>. DEFINE q == IF goesOn THEN AddOff(m_background_task_queue, d, pushed + 1)
                   ELSE m_background_task_queue
  <1>. DEFINE p == pushed + (IF goesOn THEN 1 ELSE 0)
  <1>1. QueueOK(q, i, p, since') /\ p \in Nat
    <2>1. CASE goesOn
      <3>1. since' = [since EXCEPT ![d] = 0]
        BY <2>1 DEF Switched
      <3>2. q = AddOff(m_background_task_queue, d, pushed + 1) /\ p = pushed + 1
        BY <2>1
      <3>3. QueueOK(AddOff(m_background_task_queue, d, pushed + 1), i, pushed + 1,
                    [since EXCEPT ![d] = 0])
        BY AddOffKeeps DEF Types
      <3>. HIDE DEF p, q
      <3>. QED
        BY <3>1, <3>2, <3>3 DEF Types
    <2>2. CASE ~goesOn
      BY <2>2 DEF Switched, Types
    <2>. QED
      BY <2>1, <2>2
  <1>2. /\ pushed' = p + (IF d \in Activators THEN 1 ELSE 0)
        /\ m_background_task_queue' =
              IF d \in Activators THEN AddTaskItem(q, SceneTask(1, pushed')) ELSE q
    BY DEF Switched, Types
  <1>3. /\ nValue' \in [Devices -> BOOLEAN] /\ since' \in [Devices -> Nat]
        /\ lost' \subseteq Devices /\ adopted' \subseteq Devices /\ faults' \in 0 .. MaxFaults
    BY DEF Switched, Types
  <1>. HIDE DEF p, q
  <1>4. QueueOK(m_background_task_queue', i, pushed', since') /\ pushed' \in Nat
    <2>1. CASE d \in Activators
      <3>1. pushed' = p + 1 /\ m_background_task_queue' = AddTaskItem(q, SceneTask(1, p + 1))
        BY <1>2, <2>1
      <3>. QED
        BY <1>1, <3>1, SceneKeeps
    <2>2. CASE d \notin Activators
      BY <1>1, <1>2, <2>2
    <2>. QED
      BY <2>1, <2>2
  <1>. QED
    BY <1>3, <1>4 DEF Kept

LEMMA SwitchLightIntKeeps ==
    ASSUME Types, NEW i, QueueOK(m_background_task_queue, i, pushed, since),
           NEW d \in Devices, NEW on \in BOOLEAN, SwitchLightInt(d, on)
    PROVE  Kept(i)
  <1>1. CASE Switched(d, on) /\ UNCHANGED <<faults, lost>>
    BY <1>1, SwitchedKeeps
  <1>2. CASE ~(Switched(d, on) /\ UNCHANGED <<faults, lost>>)
    BY <1>2, TasksAssumption DEF SwitchLightInt, Kept, Types, taskVars
  <1>. QED
    BY <1>1, <1>2

LEMMA SwitchLightKeeps ==
    ASSUME Types, NEW i, QueueOK(m_background_task_queue, i, pushed, since),
           NEW d \in Devices, NEW on \in BOOLEAN, NEW extra \in Nat, SwitchLight(d, on, extra)
    PROVE  Kept(i)
  <1>1. CASE (on /\ OnDelay[d] # 0) \/ extra # 0
    <2>1. OnDelay[d] + extra \in Nat /\ pushed \in Nat
      BY TasksAssumption DEF Types
    <2>2. QueueOK(m_background_task_queue', i, pushed', since')
      BY <1>1, <2>1, EventKeeps DEF SwitchLight, historyVars
    <2>. QED
      BY <1>1, <2>1, <2>2 DEF SwitchLight, Kept, Types, historyVars
  <1>2. CASE ~((on /\ OnDelay[d] # 0) \/ extra # 0)
    BY <1>2, SwitchLightIntKeeps DEF SwitchLight
  <1>. QED
    BY <1>1, <1>2

LEMMA UnchangedKeeps ==
    ASSUME Types, NEW i, QueueOK(m_background_task_queue, i, pushed, since),
           UNCHANGED <<taskVars, nValue, faults, historyVars>>
    PROVE  Kept(i)
  BY DEF Kept, Types, taskVars, historyVars

\* Who keeps the queue, the scenes and the bound keeps the invariant.
LEMMA KeptIsEnough ==
    ASSUME Kept(items2do'), scene' \in [Threads -> SceneCall], requests' \in 0 .. MaxRequests
    PROVE  IInv'
  BY DEF Kept, IInv, Types

LEMMA EnterTyped ==
    ASSUME Types, NEW t \in Threads, EnterScene(t)
    PROVE  scene' \in [Threads -> SceneCall]
  <1>1. Len(SceneDevices) \in Nat /\ (SceneDevices # <<>> => Len(SceneDevices) > 0)
    BY TasksAssumption
  <1>2. (IF SceneDevices = <<>> THEN 0 ELSE 1) \in SceneCall
    BY <1>1 DEF SceneCall
  <1>. QED
    BY <1>2 DEF EnterScene, Types

LEMMA RequestedTyped ==
    ASSUME Types, Requested
    PROVE  requests' \in 0 .. MaxRequests
  BY TasksAssumption DEF Types, Requested

LEMMA RequestStep ==
    ASSUME IInv, Request
    PROVE  IInv'
  <1>. USE DEF IInv
  <1>1. ASSUME NEW d \in Devices, NEW on \in BOOLEAN, Report(d, on) PROVE IInv'
    <2>1. Kept(items2do')
      BY <1>1, SwitchedKeeps DEF Report
    <2>. QED
      BY <1>1, <2>1, KeptIsEnough, RequestedTyped DEF Report, Types
  <1>2. ASSUME NEW d \in Devices, NEW on \in BOOLEAN, NEW ooc \in BOOLEAN,
               Command(d, on, ooc)
        PROVE  IInv'
    <2>1. Kept(items2do')
      <3>1. CASE ooc /\ nValue[d] = on
        BY <1>2, <3>1, UnchangedKeeps DEF Command
      <3>2. CASE ~(ooc /\ nValue[d] = on)
        BY <1>2, <3>2, SwitchLightKeeps DEF Command
      <3>. QED
        BY <3>1, <3>2
    <2>. QED
      BY <1>2, <2>1, KeptIsEnough, RequestedTyped DEF Command, Types
  <1>3. ASSUME NEW d \in Devices, NEW on \in BOOLEAN, NEW delay \in EventDelays,
               NEW suspend \in {0} \cup EventDelays, ScheduleEvent(d, on, delay, suspend)
        PROVE  IInv'
    <2>. DEFINE wait == delay + IF on THEN OnDelay[d] ELSE 0
    <2>. DEFINE q == AddTaskItem(m_background_task_queue, Task("event", d, wait, on, pushed + 1))
    <2>1. wait \in Nat /\ suspend \in Nat /\ pushed \in Nat /\ nValue[d] \in BOOLEAN
      BY TasksAssumption DEF Types
    <2>2. QueueOK(q, items2do, pushed + 1, since)
      BY <2>1, EventKeeps
    <2>3. /\ pushed' = pushed + (IF suspend = 0 THEN 1 ELSE 2)
          /\ m_background_task_queue' =
                IF suspend = 0 THEN q
                ELSE AddTaskItem(q, Task("event", d, suspend, nValue[d], pushed'))
          /\ UNCHANGED <<items2do, nValue, scene, faults, since, lost, adopted>>
      BY <1>3 DEF ScheduleEvent, historyVars
    <2>. HIDE DEF q, wait
    <2>4. QueueOK(m_background_task_queue', items2do', pushed', since') /\ pushed' \in Nat
      <3>1. CASE suspend = 0
        BY <2>1, <2>2, <2>3, <3>1
      <3>2. CASE suspend # 0
        <4>1. /\ pushed' = (pushed + 1) + 1 /\ pushed + 1 \in Nat
              /\ m_background_task_queue' =
                    AddTaskItem(q, Task("event", d, suspend, nValue[d], (pushed + 1) + 1))
          BY <2>1, <2>3, <3>2
        <4>2. QueueOK(AddTaskItem(q, Task("event", d, suspend, nValue[d], (pushed + 1) + 1)),
                      items2do, (pushed + 1) + 1, since)
          BY <2>1, <2>2, <4>1, EventKeeps
        <4>. QED
          BY <2>3, <4>1, <4>2
      <3>. QED
        BY <3>1, <3>2
    <2>5. Kept(items2do')
      BY <2>3, <2>4 DEF Kept, Types
    <2>. QED
      BY <1>3, <2>3, <2>5, KeptIsEnough, RequestedTyped DEF ScheduleEvent, Types
  <1>4. ASSUME NEW delay \in EventDelays, ScheduleScene(delay) PROVE IInv'
    <2>1. delay \in Nat /\ pushed \in Nat
      BY TasksAssumption DEF Types
    <2>2. QueueOK(m_background_task_queue', items2do', pushed', since')
      BY <1>4, <2>1, SceneKeeps DEF ScheduleScene, historyVars
    <2>3. Kept(items2do')
      BY <1>4, <2>1, <2>2 DEF ScheduleScene, Kept, Types, historyVars
    <2>. QED
      BY <1>4, <2>3, KeptIsEnough, RequestedTyped DEF ScheduleScene, Types
  <1>5. ASSUME NEW t \in Callers, CommandScene(t) PROVE IInv'
    <2>1. Kept(items2do')
      BY <1>5, UnchangedKeeps DEF CommandScene, historyVars
    <2>2. scene' \in [Threads -> SceneCall]
      BY <1>5, EnterTyped DEF CommandScene, Threads
    <2>. QED
      BY <1>5, <2>1, <2>2, KeptIsEnough, RequestedTyped DEF CommandScene
  <1>. QED
    BY <1>1, <1>2, <1>3, <1>4, <1>5 DEF Request

LEMMA SceneStepKeeps ==
    ASSUME IInv, NEW t \in Threads, SceneStep(t)
    PROVE  IInv'
  <1>. USE DEF IInv
  <1>. DEFINE k == (scene[t] + 1) \div 2
  <1>. DEFINE e == SceneDevices[k]
  <1>. DEFINE Entry == [idx : Devices, on : BOOLEAN, ondelay : Nat, offdelay : Nat]
  <1>0. SceneDevices \in Seq(Entry)
    BY TasksAssumption
  <1>. HIDE DEF Entry
  <1>1. Len(SceneDevices) \in Nat /\ scene[t] \in 1 .. 2 * Len(SceneDevices)
    <2>1. Len(SceneDevices) \in Nat
      BY <1>0
    <2>2. scene[t] \in SceneCall /\ scene[t] # 0
      BY DEF SceneStep, Types
    <2>. QED
      BY <2>1, <2>2 DEF SceneCall
  <1>2. k \in 1 .. Len(SceneDevices)
    BY <1>1
  <1>. HIDE DEF k
  <1>3. e \in [idx : Devices, on : BOOLEAN, ondelay : Nat, offdelay : Nat]
    <2>1. e \in Entry
      BY <1>0, <1>2
    <2>. QED
      BY <2>1 DEF Entry
  <1>4. Kept(items2do)
    <2>1. CASE UNCHANGED <<taskVars, nValue, faults, historyVars>>
      BY <2>1, UnchangedKeeps
    <2>2. CASE FirstCall(e)
      <3>1. (IF e.on THEN e.ondelay ELSE e.offdelay) \in Nat /\ e.idx \in Devices
        BY <1>3
      <3>2. e.on \in BOOLEAN
        BY <1>3
      <3>. HIDE DEF e
      <3>. QED
        BY <2>2, <3>1, <3>2, SwitchLightKeeps DEF FirstCall
    <2>3. CASE SecondCall(e) /\ ~UNCHANGED <<taskVars, nValue, faults, historyVars>>
      <3>1. e.ondelay + e.offdelay \in Nat /\ e.idx \in Devices
        BY <1>3
      <3>. HIDE DEF e
      <3>. QED
        BY <2>3, <3>1, SwitchLightKeeps DEF SecondCall
    <2>. QED
      BY <2>1, <2>2, <2>3 DEF SceneStep, k
  <1>5. scene' \in [Threads -> SceneCall]
    <2>1. (IF LastCall(t) THEN 0 ELSE scene[t] + 1) \in SceneCall
      BY <1>1 DEF LastCall, SceneCall
    <2>. QED
      BY <2>1 DEF SceneStep, Types
  <1>. QED
    BY <1>4, <1>5, KeptIsEnough DEF SceneStep, Types

LEMMA TickStep ==
    ASSUME IInv, Tick
    PROVE  IInv'
  <1>. USE DEF IInv
  <1>1. QueueOK(m_background_task_queue', items2do', pushed, since')
    BY CountDownKeeps DEF Tick, Idle, Types
  <1>2. QueueOK(m_background_task_queue', items2do', pushed', since') /\ pushed' \in Nat
    <2>1. CASE m_background_task_queue = {}
      <3>1. m_background_task_queue' = {} /\ items2do' = {}
        BY <2>1 DEF Tick
      <3>2. QueueOK({}, {}, pushed', since')
        BY DEF QueueOK
      <3>. QED
        BY <2>1, <3>1, <3>2 DEF Tick
    <2>2. CASE m_background_task_queue # {}
      BY <1>1, <2>2 DEF Tick, Types
    <2>. QED
      BY <2>1, <2>2
  <1>3. since' \in [Devices -> Nat]
    BY TasksAssumption DEF Tick, Types
  <1>. QED
    BY <1>2, <1>3 DEF Tick, Types, boundVars

LEMMA RunStep ==
    ASSUME IInv, Run
    PROVE  IInv'
  <1>. USE DEF IInv
  <1>1. ASSUME NEW t \in items2do, Done(t), t.type \in {"off", "event"},
               NEW on \in BOOLEAN, SwitchLightInt(t.idx, on),
               UNCHANGED <<scene, requests>>
        PROVE  IInv'
    <2>1. t.idx \in Devices
      BY <1>1 DEF QueueOK, TaskOK, Tasks
    <2>2. QueueOK(m_background_task_queue, items2do', pushed, since)
      BY <1>1, DoneKeeps DEF Done
    <2>3. Kept(items2do')
      BY <1>1, <2>1, <2>2, SwitchLightIntKeeps
    <2>. QED
      BY <1>1, <2>3, KeptIsEnough DEF Types
  <1>2. CASE RunOff
    BY <1>1, <1>2 DEF RunOff
  <1>3. CASE RunEvent
    <2>1. PICK t \in items2do : t.type = "event" /\ Done(t) /\ SwitchLightInt(t.idx, t.on)
      BY <1>3 DEF RunEvent
    <2>2. t.on \in BOOLEAN
      BY DEF QueueOK, TaskOK, Tasks
    <2>. QED
      BY <1>1, <1>3, <2>1, <2>2 DEF RunEvent
  <1>4. CASE RunScene
    <2>1. PICK t \in items2do : Done(t)
      BY <1>4 DEF RunScene
    <2>2. QueueOK(m_background_task_queue, items2do', pushed, since)
      BY <2>1, DoneKeeps DEF Done
    <2>3. scene' \in [Threads -> SceneCall]
      BY <1>4, EnterTyped DEF RunScene, Threads
    <2>. QED
      BY <1>4, <2>2, <2>3 DEF RunScene, Types, taskVars, boundVars, historyVars
  <1>. QED
    BY <1>2, <1>3, <1>4 DEF Run

LEMMA RestartStep ==
    ASSUME IInv, Restart
    PROVE  IInv'
  <1>. USE DEF IInv
  <1>1. QueueOK(m_background_task_queue', items2do', pushed', since')
    BY DEF Restart, QueueOK
  <1>2. scene' \in [Threads -> SceneCall]
    BY TasksAssumption DEF Restart, SceneCall
  <1>. QED
    BY <1>1, <1>2, TasksAssumption DEF Restart, Types

-----------------------------------------------------------------------------
(* The theorems *)

LEMMA InitHolds == Init => IInv
  BY TasksAssumption DEF Init, IInv, Types, QueueOK, SceneCall

LEMMA IInvHolds == Spec => []IInv
  <1>1. IInv /\ UNCHANGED vars => IInv'
    BY DEF IInv, Types, vars, taskVars, boundVars, historyVars
  <1>2. IInv /\ [Next]_vars => IInv'
    BY <1>1, RequestStep, SceneStepKeeps, TickStep, RunStep, RestartStep DEF Next
  <1>. QED
    BY <1>2, InitHolds, PTL DEF Spec

\* The tasks are numbered and counted, and each thread is at a call of the scene.
THEOREM TypesHold == Spec => []TypeOK
  <1>1. IInv => TypeOK
    BY DEF IInv, Types, QueueOK, TaskOK, TypeOK
  <1>. QED
    BY <1>1, IInvHolds, PTL

\* A device that goes on again starts its delay again: it waits for one Off.
THEOREM OneOff == Spec => []OneOffPerDevice
  <1>1. IInv => OneOffPerDevice
    BY DEF IInv, QueueOK, OneOffPerDevice
  <1>. QED
    BY <1>1, IInvHolds, PTL

\* An Off is not sent before the delay of the device is over.
THEOREM OffsWait == Spec => []NotTooSoon
  <1>1. IInv => NotTooSoon
    BY DEF IInv, QueueOK, Waited, NotTooSoon
  <1>. QED
    BY <1>1, IInvHolds, PTL

\* The delayed commands of a device are run in the order they were asked for.
THEOREM InOrder == Spec => []EventsInOrder
  <1>1. IInv => EventsInOrder
    BY DEF IInv, QueueOK, SameEvents, EventsInOrder
  <1>. QED
    BY <1>1, IInvHolds, PTL
=============================================================================
