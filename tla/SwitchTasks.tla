----------------------------- MODULE SwitchTasks -----------------------------
(***************************************************************************)
(* The delayed switch commands of Domoticz: the queue of background tasks  *)
(* of src/domoticz/main/SQLHelper.cpp, the thread Do_Work that counts them *)
(* down and runs them, and what puts them there: a device that goes on     *)
(* (UpdateValueInt), a command with a delay (SwitchLight), an event script *)
(* (ScheduleEvent) and a scene (SwitchScene).                              *)
(*                                                                         *)
(* A task is a record; its number n is its place in the queue.  Time is    *)
(* the loop of Do_Work, a second or longer.  The tasks that switch nothing *)
(* (scripts, mails, pages) are left out: they only make the loop longer.   *)
(***************************************************************************)
EXTENDS Integers, Sequences

CONSTANTS
    Devices,
    SubDevices,    \* LightSubDevices: pairs of a sub device and its main device
    DoorLock,      \* the devices that ignore the state they already have
    OffDelay,      \* AddjValue of each device
    OnDelay,       \* AddjValue2
    Scene,         \* the scene, as the idx of a task
    SceneDevices,  \* its devices: a sequence of [idx, on, ondelay, offdelay]
    Activators,    \* the devices that activate it
    Callers,       \* the other threads that switch lights and scenes
    Tasker,        \* the thread of Do_Work
    EventDelays,   \* the delays that event scripts ask for
    MaxRequests,   \* bound: commands from outside
    MaxFaults      \* bound: failed writes and restarts

SceneCall == 0 .. 2 * Len(SceneDevices)

ASSUME TasksAssumption ==
    /\ SubDevices \subseteq Devices \X Devices
    /\ DoorLock \subseteq Devices /\ Activators \subseteq Devices /\ Scene \notin Devices
    /\ OffDelay \in [Devices -> Nat] /\ OnDelay \in [Devices -> Nat]
    /\ SceneDevices \in Seq([idx : Devices, on : BOOLEAN, ondelay : Nat, offdelay : Nat])
    /\ Tasker \notin Callers
    /\ EventDelays \subseteq Nat /\ MaxRequests \in Nat /\ MaxFaults \in Nat

VARIABLES
    m_background_task_queue,
    items2do,      \* what has left the queue and is not done
    pushed,        \* the number of the last task, 0 when none is left
    nValue,        \* the state of each device, in the database
    scene,         \* the call of SwitchScene that each thread is at, 0 outside
    requests, faults,
    since,         \* history: loops of Do_Work since the device last went on
    lost,          \* history: the devices whose Off failed or was forgotten
    adopted        \* history: the devices that are on since a sub device went on

taskVars == <<m_background_task_queue, pushed>>
boundVars == <<requests, faults>>
historyVars == <<since, lost, adopted>>
vars == <<taskVars, items2do, nValue, scene, boundVars, historyVars>>

Threads == Callers \cup {Tasker}

Init ==
    /\ m_background_task_queue = {} /\ items2do = {} /\ pushed = 0
    /\ nValue = [d \in Devices |-> FALSE]
    /\ scene = [t \in Threads |-> 0]
    /\ requests = 0 /\ faults = 0
    /\ since = [d \in Devices |-> 0] /\ lost = {} /\ adopted = {}

-----------------------------------------------------------------------------
(* The queue *)

Task(type, idx, delay, on, n) ==
    [type |-> type, idx |-> idx, delay |-> delay, on |-> on, n |-> n]

\* A scene (SGTYPE_SCENE) does the same whether it is switched on or off.
SceneTask(delay, n) == Task("scene", Scene, delay, TRUE, n)

\* The task t takes the place of u.  Mutant: only a later task does not.
MutantReplaces(t, u) == u.idx = t.idx /\ u.type = t.type /\ u.delay < t.delay
Replaces(t, u) == u.idx = t.idx /\ u.type = t.type /\ t.delay - u.delay < 3

\* Of the tasks, AddTaskItem is given the events and the scenes.
AddTaskItem(queue, t) == {u \in queue : ~Replaces(t, u)} \cup {t}

\* Mutant: the Off that counts already stays.
MutantIsOffOf(d, t) == FALSE
IsOffOf(d, t) == t.type = "off" /\ t.idx = d


\* UpdateValueInt: the Off of a device that goes on starts its delay again.
AddOff(queue, d, n) ==
    {t \in queue : ~IsOffOf(d, t)} \cup {Task("off", d, OffDelay[d], FALSE, n)}

-----------------------------------------------------------------------------
(* Devices *)

\* UpdateValueInt and CheckSceneCode: the device d is known to be on or off.
Same(d, on) == d \in DoorLock /\ nValue[d] = on

Mains(d) == {e \in Devices \ {d} : <<d, e>> \in SubDevices}
Subs(d) == {e \in Devices \ {d} : <<e, d>> \in SubDevices}
Siblings(d) == UNION {Subs(e) : e \in Mains(d)} \ {d}

\* UpdateValue writes more than the state of d: its main devices take the
\* state, their other sub devices and those of d go off.  (A main device that
\* is one of these too has what the row that came last wrote.)
MayBecome(d, on, e) ==
    CASE e = d -> {on}
      [] e \in Subs(d) -> {FALSE}
      [] e \in (Mains(d) \cup Siblings(d)) \ Subs(d) ->
            {v \in BOOLEAN : (e \in Mains(d) /\ v = on) \/ (e \in Siblings(d) /\ ~v)}
      [] OTHER -> {nValue[e]}

\* Only for d itself an Off is put into the queue.
Switched(d, on) ==
    LET goesOn == on /\ OffDelay[d] # 0 /\ ~Same(d, on)
        withOff == IF goesOn THEN AddOff(m_background_task_queue, d, pushed + 1)
                   ELSE m_background_task_queue
    IN
    /\ nValue' \in {f \in [Devices -> BOOLEAN] : \A e \in Devices : f[e] \in MayBecome(d, on, e)}
    /\ adopted' = {e \in Devices : nValue'[e] /\ IF e = d THEN e \in adopted /\ ~goesOn
                                                  ELSE e \in adopted \/ ~nValue[e]}
    /\ since' = IF goesOn THEN [since EXCEPT ![d] = 0] ELSE since
    /\ pushed' = pushed + (IF goesOn THEN 1 ELSE 0) + (IF d \in Activators THEN 1 ELSE 0)
    /\ m_background_task_queue' =
          IF d \in Activators
          THEN AddTaskItem(withOff, SceneTask(1, pushed'))
          ELSE withOff

\* SwitchLightInt returns when the message has been received, or fails: nobody
\* looks at what it returns.
SwitchLightInt(d, on) ==
    \/ Switched(d, on) /\ UNCHANGED <<faults, lost>>
    \/ /\ faults < MaxFaults /\ faults' = faults + 1
       /\ lost' = IF on THEN lost ELSE lost \cup {d}
       /\ UNCHANGED <<taskVars, nValue, since, adopted>>

SwitchLight(d, on, extra) ==
    IF (on /\ OnDelay[d] # 0) \/ extra # 0
    THEN /\ m_background_task_queue' =
               AddTaskItem(m_background_task_queue,
                           Task("event", d, OnDelay[d] + extra, on, pushed + 1))
         /\ pushed' = pushed + 1
         /\ UNCHANGED <<nValue, faults, historyVars>>
    ELSE SwitchLightInt(d, on)

-----------------------------------------------------------------------------
(* Requests *)

Requested == requests < MaxRequests /\ requests' = requests + 1

\* The hardware reports a device.
Report(d, on) ==
    /\ Requested /\ Switched(d, on)
    /\ UNCHANGED <<items2do, scene, faults, lost>>

\* The switch command of a client; "ooc" asks for it on a change only.
Command(d, on, ooc) ==
    /\ Requested
    /\ IF ooc /\ nValue[d] = on
       THEN UNCHANGED <<taskVars, nValue, faults, historyVars>>
       ELSE SwitchLight(d, on, 0)
    /\ UNCHANGED <<items2do, scene>>

\* ScheduleEvent for a device; "FOR" schedules the former state as well.
ScheduleEvent(d, on, delay, suspend) ==
    LET q == AddTaskItem(m_background_task_queue,
                         Task("event", d, delay + IF on THEN OnDelay[d] ELSE 0, on, pushed + 1))
    IN
    /\ Requested
    /\ pushed' = pushed + (IF suspend = 0 THEN 1 ELSE 2)
    /\ m_background_task_queue' =
          IF suspend = 0 THEN q
          ELSE AddTaskItem(q, Task("event", d, suspend, nValue[d], pushed'))
    /\ UNCHANGED <<items2do, nValue, scene, faults, historyVars>>

ScheduleScene(delay) ==
    /\ Requested
    /\ m_background_task_queue' =
          AddTaskItem(m_background_task_queue, SceneTask(delay, pushed + 1))
    /\ pushed' = pushed + 1
    /\ UNCHANGED <<items2do, nValue, scene, faults, historyVars>>

-----------------------------------------------------------------------------
(* SwitchScene, by any thread: the devices one after the other *)

EnterScene(t) == scene' = [scene EXCEPT ![t] = IF SceneDevices = <<>> THEN 0 ELSE 1]

CommandScene(t) ==
    /\ Requested
    /\ t \in Callers /\ scene[t] = 0
    /\ EnterScene(t)
    /\ UNCHANGED <<taskVars, items2do, nValue, faults, historyVars>>

\* The two calls of SwitchLight for a device of the scene.
FirstCall(e) == SwitchLight(e.idx, e.on, IF e.on THEN e.ondelay ELSE e.offdelay)

SecondCall(e) ==
    IF e.on /\ e.offdelay > 0 THEN SwitchLight(e.idx, FALSE, e.ondelay + e.offdelay)
    ELSE UNCHANGED <<taskVars, nValue, faults, historyVars>>

\* Every device of the scene has been switched.
LastCall(t) == scene[t] = 2 * Len(SceneDevices)

SceneStep(t) ==
    /\ scene[t] # 0
    /\ LET e == SceneDevices[(scene[t] + 1) \div 2] IN
          IF e.idx \in Activators THEN UNCHANGED <<taskVars, nValue, faults, historyVars>>
          ELSE IF scene[t] % 2 = 1 THEN FirstCall(e) ELSE SecondCall(e)
    /\ scene' = [scene EXCEPT ![t] = IF LastCall(t) THEN 0 ELSE @ + 1]
    /\ UNCHANGED <<items2do, requests>>

-----------------------------------------------------------------------------
(* Do_Work *)

Idle == items2do = {} /\ scene[Tasker] = 0

CountedDown(t) == [t EXCEPT !.delay = @ - 1]

\* Mutant: a task leaves the queue one loop too early.
MutantExpired(t) == t.delay <= 2
Expired(t) == t.delay <= 1

\* The loop wakes: what has counted down leaves the queue.
Tick ==
    /\ Idle
    /\ items2do' = {CountedDown(t) : t \in {u \in m_background_task_queue : Expired(u)}}
    /\ m_background_task_queue' =
          {CountedDown(t) : t \in {u \in m_background_task_queue : ~Expired(u)}}
    /\ since' = [d \in Devices |-> IF since[d] < OffDelay[d] THEN since[d] + 1 ELSE since[d]]
    /\ pushed' = IF m_background_task_queue = {} THEN 0 ELSE pushed
    /\ UNCHANGED <<nValue, scene, boundVars, lost, adopted>>

\* The next task is done; the queue may be used meanwhile.
First(t) == t \in items2do /\ \A u \in items2do : t.n <= u.n

Done(t) == items2do' = items2do \ {t}

RunOff ==
    /\ scene[Tasker] = 0
    /\ \E t \in items2do :
          /\ t.type = "off" /\ First(t) /\ Done(t)
          /\ SwitchLightInt(t.idx, FALSE)
    /\ UNCHANGED <<scene, requests>>

RunEvent ==
    /\ scene[Tasker] = 0
    /\ \E t \in items2do :
          /\ t.type = "event" /\ First(t) /\ Done(t)
          /\ SwitchLightInt(t.idx, t.on)
    /\ UNCHANGED <<scene, requests>>

RunScene ==
    /\ scene[Tasker] = 0
    /\ \E t \in items2do :
          /\ t.type = "scene" /\ First(t) /\ Done(t)
    /\ EnterScene(Tasker)
    /\ UNCHANGED <<taskVars, nValue, boundVars, historyVars>>

\* The queue is in memory only: a device that waits for its Off stays on.
Restart ==
    /\ faults < MaxFaults /\ faults' = faults + 1
    /\ m_background_task_queue' = {} /\ items2do' = {}
    /\ scene' = [t \in Threads |-> 0]
    /\ lost' = lost \cup {d \in Devices : nValue[d]}
    /\ pushed' = 0
    /\ UNCHANGED <<nValue, requests, since, adopted>>

-----------------------------------------------------------------------------
(* The system *)

Request ==
    \/ \E d \in Devices, on \in BOOLEAN :
          \/ Report(d, on)
          \/ \E ooc \in BOOLEAN : Command(d, on, ooc)
          \/ \E delay \in EventDelays, suspend \in {0} \cup EventDelays :
                ScheduleEvent(d, on, delay, suspend)
    \/ \E delay \in EventDelays : ScheduleScene(delay)
    \/ \E t \in Callers : CommandScene(t)

Run == RunOff \/ RunEvent \/ RunScene

Next == Tick \/ Run \/ (\E t \in Threads : SceneStep(t)) \/ Request \/ Restart

Spec == Init /\ [][Next]_vars

\* Do_Work goes round, and runs what it has taken.
FairSpec == Spec /\ WF_vars(Tick) /\ WF_vars(Run) /\ WF_vars(SceneStep(Tasker))

-----------------------------------------------------------------------------
(* Properties *)

Tasks == [type : {"off", "event", "scene"}, idx : Devices \cup {Scene}, delay : Int,
          on : BOOLEAN, n : Nat]

TypeOK ==
    /\ m_background_task_queue \subseteq Tasks /\ items2do \subseteq Tasks
    /\ \A t \in m_background_task_queue : t.delay >= 0
    /\ \A t \in m_background_task_queue \cup items2do :
          /\ t.n \in 1 .. pushed
          /\ t.type = "scene" <=> t.idx = Scene
    /\ pushed \in Nat
    /\ nValue \in [Devices -> BOOLEAN]
    /\ scene \in [Threads -> SceneCall]
    /\ requests \in 0 .. MaxRequests /\ faults \in 0 .. MaxFaults
    /\ since \in [Devices -> Nat] /\ lost \subseteq Devices /\ adopted \subseteq Devices

\* "Remove all instances with this device from the queue first otherwise command
\* will be send twice" (SQLHelper.cpp:3466): a device waits for one Off.
OneOffPerDevice ==
    \A t, u \in m_background_task_queue : t.type = "off" /\ u.type = "off" /\ t.idx = u.idx => t = u

\* "... and first one will be to soon": an Off that is about to be sent has
\* waited for the whole delay, since the device last went on.  The code does not
\* reach an Off that has already left the queue.
NotTooSoon ==
    \A t \in items2do :
        t.type = "off" => since[t.idx] = 0 \/ since[t.idx] >= OffDelay[t.idx]

\* A delayed command never overtakes one of the same device that was asked for
\* before it: what leaves the queue leaves nothing older behind.
EventsInOrder ==
    \A t \in items2do, u \in m_background_task_queue \cup items2do :
        t.type = "event" /\ u.type = "event" /\ t.idx = u.idx /\ t # u => t.n < u.n

=============================================================================
