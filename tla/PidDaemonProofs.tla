--------------------------- MODULE PidDaemonProofs ---------------------------
(***************************************************************************)
(* What the pidfile guarantees to whom waits for one command to settle     *)
(* before giving the next, for any number of processes.  The argument: as  *)
(* long as no command was hasty, at most one process is under way, so      *)
(* nothing changes the pidfile between two steps of it.                    *)
(***************************************************************************)
EXTENDS PidDaemon, FiniteSetTheorems, TLAPS

\* A command or a daemon that is not up yet.
Busy(p) == pc[p] \in Cli \cup StartingUp

\* What the pidfile is where each process stands: nothing can have changed it
\* since the process looked.
Knows(p) ==
    /\ pc[p] = "running" => pidfile = p
    /\ pc[p] \in {"fork", "open"} => pidfile = None
    /\ pc[p] = "write" => pidfile = Empty
    /\ pc[p] \in {"hook", "connect", "selfRead"} => pidfile = p
    /\ pc[p] \in {"selfKill", "selfRemove"} => pidfile = p /\ target[p] = p
    /\ pc[p] # "selfRemove"
    /\ pc[p] \in {"kill", "signal"} => pidfile = target[p]
    /\ pc[p] = "remove" => \A q \in Process : pc[q] # "running"
    /\ pc[p] = "startRead" /\ command[p] = "restart" => pidfile = None
    /\ pc[p] \in {"reloadRead", "signal"} => command[p] = "reload"

Patient ==
    /\ \A p, q \in Process : Busy(p) /\ Busy(q) => p = q
    /\ \A p \in Process : Knows(p)

IInv == TypeOK /\ (hasty \/ Patient)

-----------------------------------------------------------------------------
LEMMA InitTyped == Init => TypeOK
BY PidDaemonAssumption DEF Init, TypeOK, Idle, Others, Cli, Daemon, StartingUp

LEMMA StepTyped == TypeOK /\ [Next]_vars => TypeOK'
<1> SUFFICES ASSUME TypeOK, [Next]_vars PROVE TypeOK'
    OBVIOUS
<1> USE PidDaemonAssumption DEF TypeOK, Cli, Daemon, StartingUp, Idle, Others, Goto
<1>0. CASE UNCHANGED vars
    BY <1>0 DEF vars
<1>1. ASSUME NEW p \in Process, Invoke(p) PROVE TypeOK'
    BY <1>1 DEF Invoke, Commands
<1>2. ASSUME NEW p \in Process, Proceed(p) PROVE TypeOK'
    <2>1. CASE CheckPidfile(p) \/ Fork(p) \/ OpenPidfile(p) \/ WritePidfile(p)
               \/ InstallHandler(p)
        BY <2>1 DEF CheckPidfile, Fork, OpenPidfile, WritePidfile, InstallHandler
    <2>2. CASE Run(p)
        BY <2>2 DEF Run
    <2>3. CASE ReadForStop(p)
        BY <2>3 DEF ReadForStop, InStop, AfterStop, Self
    <2>4. CASE Kill(p)
        <3>1. target[p] \in Process
            BY <2>4 DEF Kill, InStop
        <3> QED BY <2>4, <3>1 DEF Kill, InStop, Self
    <2>5. CASE RemovePidfile(p)
        BY <2>5 DEF RemovePidfile, InStop, AfterStop, Self
    <2>6. CASE ReadForReload(p)
        BY <2>6 DEF ReadForReload
    <2>7. CASE SignalReload(p)
        <3>1. target[p] \in Process
            BY <2>7 DEF SignalReload
        <3> QED BY <2>7, <3>1 DEF SignalReload
    <2> QED BY <1>2, <2>1, <2>2, <2>3, <2>4, <2>5, <2>6, <2>7 DEF Proceed
<1>3. ASSUME NEW p \in Process, Crash(p) \/ Reuse(p) \/ OtherEnds(p) PROVE TypeOK'
    BY <1>3 DEF Crash, Reuse, OtherEnds
<1> QED BY <1>0, <1>1, <1>2, <1>3 DEF Next

\* Types hold at every step, for any number of processes.
THEOREM TypeCorrect == Spec => []TypeOK
<1>1. Init => TypeOK
    BY InitTyped
<1>2. TypeOK /\ [Next]_vars => TypeOK'
    BY StepTyped
<1> QED BY <1>1, <1>2, PTL DEF Spec

-----------------------------------------------------------------------------
LEMMA InitPatient == Init => Patient
BY DEF Init, Patient, Knows, Busy, Cli, StartingUp

\* What a step of one process leaves as it was: enough for the others.
LEMMA OthersPatient ==
    ASSUME TypeOK, Patient, NEW p \in Process, Busy(p),
           \A q \in Process \ {p} :
              /\ pc'[q] = pc[q] \/ pc'[q] \in Idle
              /\ command'[q] = command[q] /\ target'[q] = target[q],
           \A q \in Process \ {p} : pc'[q] = "running" => pidfile' = q,
           Knows(p)'
    PROVE  Patient'
<1> USE DEF TypeOK, Patient, Busy, Cli, Daemon, StartingUp, Idle, Others
<1>1. ASSUME NEW q \in Process, NEW r \in Process, Busy(q)', Busy(r)'
      PROVE  q = r
    BY <1>1
<1>2. ASSUME NEW q \in Process, q # p
      PROVE  Knows(q)'
    <2>1. pc[q] \notin Cli \cup StartingUp
        BY <1>2
    <2>2. pc'[q] \notin Cli \cup StartingUp
        BY <1>2, <2>1
    <2> QED BY <1>2, <2>2 DEF Knows
<1> QED BY <1>1, <1>2

\* A command given in a quiet moment is the only one under way.
LEMMA InvokePatient ==
    ASSUME TypeOK, Patient, NEW p \in Process, Invoke(p), ~hasty'
    PROVE  Patient'
<1> USE DEF TypeOK, Patient, Busy, Cli, Daemon, StartingUp, Idle, Others
<1>1. Quiet
    BY DEF Invoke
<1>2. \A q \in Process : ~Busy(q)
    BY <1>1 DEF Quiet
<1>3. \A q \in Process \ {p} : pc'[q] = pc[q]
    BY DEF Invoke, Goto
<1>4. pc'[p] \in {"startRead", "reloadRead", "stopRead"}
    BY DEF Invoke, Goto
<1>5. /\ pidfile' = pidfile /\ target' = target
      /\ pc'[p] = "reloadRead" => command'[p] = "reload"
      /\ pc'[p] = "startRead" => command'[p] = "start"
    BY DEF Invoke, Goto, Commands
<1>6. ASSUME NEW q \in Process PROVE Knows(q)'
    <2>1. CASE q = p
        BY <2>1, <1>4, <1>5 DEF Knows
    <2>2. CASE q # p
        BY <2>2, <1>2, <1>3, <1>5 DEF Knows
    <2> QED BY <2>1, <2>2
<1>7. ASSUME NEW q \in Process, NEW r \in Process, Busy(q)', Busy(r)'
      PROVE  q = r
    BY <1>7, <1>2, <1>3
<1> QED BY <1>6, <1>7

LEMMA ProceedPatient ==
    ASSUME TypeOK, Patient, NEW p \in Process, Proceed(p)
    PROVE  Patient'
<1> USE PidDaemonAssumption
<1>0. Busy(p) /\ Knows(p) /\ pc[p] # "running"
    BY DEF Proceed, Patient, Busy, Cli, StartingUp, CheckPidfile, Fork, OpenPidfile,
           WritePidfile, InstallHandler, Run, ReadForStop, Kill, RemovePidfile,
           ReadForReload, SignalReload, InStop
<1>a. pc \in [Process -> Cli \cup Daemon \cup Idle] /\ p \in DOMAIN pc
    BY DEF TypeOK
<1>b. \A q \in Process : pc[q] = "running" => pidfile = q
    BY DEF Patient, Knows
<1>1. CASE CheckPidfile(p) \/ Fork(p) \/ OpenPidfile(p) \/ WritePidfile(p)
           \/ InstallHandler(p) \/ Run(p)
    BY <1>0, <1>1, <1>a, <1>b, OthersPatient
       DEF CheckPidfile, Fork, OpenPidfile, WritePidfile, InstallHandler, Run, Goto, Knows,
           TypeOK
<1>2. CASE ReadForStop(p)
    BY <1>0, <1>2, <1>a, <1>b, OthersPatient
       DEF ReadForStop, InStop, AfterStop, Self, Goto, Knows, TypeOK, Daemon, StartingUp
<1>3. CASE Kill(p)
    <2>1. target[p] \in Process /\ pidfile = target[p]
        BY <1>0, <1>3 DEF Kill, InStop, TypeOK, Knows
    <2>2. CASE pc[target[p]] \in Daemon \cup {"other"}
        BY <1>0, <1>3, <2>1, <2>2, <1>a, <1>b, OthersPatient
           DEF Kill, InStop, Goto, Knows, TypeOK, Idle, Others, Daemon, StartingUp, Alive
    <2>3. CASE ~Alive(target[p])
        BY <1>0, <1>3, <2>1, <2>3, <1>a, <1>b, OthersPatient
           DEF Kill, InStop, Goto, Knows, TypeOK, Self, Alive, Daemon, StartingUp, Others
    <2>4. CASE pc[target[p]] = "stubborn"
        BY <1>0, <1>3, <2>1, <2>4, <1>a, <1>b, OthersPatient
           DEF Kill, InStop, Goto, Knows, TypeOK, Alive, Daemon, StartingUp, Others
    <2>5. CASE pc[target[p]] = "foreign"
        BY <1>0, <1>3, <2>1, <2>5, <1>a, <1>b, OthersPatient
           DEF Kill, InStop, Goto, Knows, TypeOK, Self, Alive, Daemon, StartingUp, Others
    <2> QED BY <2>2, <2>3, <2>4, <2>5 DEF Alive, Others
<1>4. CASE RemovePidfile(p)
    BY <1>0, <1>4, <1>a, <1>b, OthersPatient
       DEF RemovePidfile, InStop, AfterStop, Self, Goto, Knows, TypeOK, Daemon, StartingUp
<1>5. CASE ReadForReload(p)
    BY <1>0, <1>5, <1>a, <1>b, OthersPatient
       DEF ReadForReload, Goto, Knows, TypeOK
<1>6. CASE SignalReload(p)
    <2>1. target[p] \in Process
        BY <1>6 DEF SignalReload, TypeOK
    <2> QED
        BY <1>0, <1>6, <2>1, <1>a, <1>b, OthersPatient
           DEF SignalReload, Knows, TypeOK, Idle, Others, Alive, Daemon, StartingUp, HandlesReload
<1> QED BY <1>1, <1>2, <1>3, <1>4, <1>5, <1>6 DEF Proceed

\* A daemon that ends leaves the pidfile to the others.
LEMMA EnvironmentPatient ==
    ASSUME TypeOK, Patient, NEW p \in Process, Crash(p) \/ Reuse(p) \/ OtherEnds(p)
    PROVE  Patient'
<1> USE DEF TypeOK, Patient, Busy, Cli, Daemon, StartingUp, Idle, Others
<1>1. /\ pc'[p] \in {"dead", "gone"} \cup Others /\ \A q \in Process \ {p} : pc'[q] = pc[q]
      /\ UNCHANGED <<pidfile, command, target>>
    BY DEF Crash, Reuse, OtherEnds, Goto
<1>2. \A q \in Process : Knows(q)'
    <2> TAKE q \in Process
    <2>1. CASE q = p
        BY <2>1, <1>1 DEF Knows
    <2>2. CASE q # p
        BY <2>2, <1>1 DEF Knows
    <2> QED BY <2>1, <2>2
<1> QED BY <1>1, <1>2

LEMMA StepIInv == IInv /\ [Next]_vars => IInv'
<1> SUFFICES ASSUME IInv, [Next]_vars, ~hasty' PROVE Patient'
    BY StepTyped DEF IInv
<1>0. CASE UNCHANGED vars
    BY <1>0 DEF vars, IInv, Patient, Knows, Busy
<1>1. CASE Next
    <2>1. ~hasty /\ Patient /\ TypeOK
        BY <1>1 DEF Next, Invoke, Proceed, Crash, Reuse, OtherEnds, CheckPidfile, Fork, OpenPidfile,
           WritePidfile, InstallHandler, Run, ReadForStop, Kill, RemovePidfile,
           ReadForReload, SignalReload, IInv, TypeOK
    <2> QED
        BY <1>1, <2>1, InvokePatient, ProceedPatient, EnvironmentPatient DEF Next
<1> QED BY <1>0, <1>1

LEMMA InvariantHolds == Spec => []IInv
<1>1. Init => IInv
    BY InitTyped, InitPatient DEF IInv
<1> QED BY <1>1, StepIInv, PTL DEF Spec

-----------------------------------------------------------------------------
\* Two daemons never run at a time, if every command waits for the last.
THEOREM OneDaemon == Spec => []OneDaemonIfPatient
<1>1. ASSUME IInv, ~hasty PROVE AtMostOneDaemon
    <2> DEFINE S == {p \in Process : pc[p] \in Daemon}
    <2>1. \A p, q \in S : p = q
        BY <1>1, PidDaemonAssumption
           DEF IInv, TypeOK, Patient, Knows, Busy, Daemon, Cli, StartingUp
    <2>2. CASE S = {}
        BY <2>2, FS_EmptySet DEF AtMostOneDaemon
    <2>3. ASSUME NEW p \in S PROVE AtMostOneDaemon
        <3>1. S = {p}
            BY <2>1, <2>3
        <3>2. Cardinality(S) = 1
            BY <3>1, FS_Singleton
        <3> QED BY <3>2 DEF AtMostOneDaemon
    <2> QED BY <2>2, <2>3
<1>2. IInv => OneDaemonIfPatient
    BY <1>1 DEF OneDaemonIfPatient
<1> QED BY <1>2, InvariantHolds, PTL

\* The pidfile names the daemon that is up.
THEOREM NamedDaemon == Spec => []DaemonIsNamed
<1>1. IInv => DaemonIsNamed
    BY DEF IInv, DaemonIsNamed, Patient, Knows
<1> QED BY <1>1, InvariantHolds, PTL

\* A process comes to "done" by a step of its own.
LEMMA DoneByItself ==
    ASSUME TypeOK, Next, NEW p \in Process, pc[p] # "done", pc'[p] = "done"
    PROVE  ReadForStop(p) \/ RemovePidfile(p) \/ ReadForReload(p) \/ SignalReload(p)
<1> USE DEF TypeOK, Goto
<1>1. ASSUME NEW q \in Process, Invoke(q) PROVE FALSE
    BY <1>1 DEF Invoke
<1>2. ASSUME NEW q \in Process, Crash(q) \/ Reuse(q) \/ OtherEnds(q) PROVE FALSE
    BY <1>2 DEF Crash, Reuse, OtherEnds, Others
<1>3. ASSUME NEW q \in Process, Kill(q) PROVE FALSE
    BY <1>3 DEF Kill
<1>4. ASSUME NEW q \in Process, Proceed(q), q # p PROVE FALSE
    BY <1>3, <1>4 DEF Proceed, CheckPidfile, Fork, OpenPidfile, WritePidfile,
        InstallHandler, Run, ReadForStop, RemovePidfile, ReadForReload, SignalReload
<1>5. ASSUME Proceed(p)
      PROVE ReadForStop(p) \/ RemovePidfile(p) \/ ReadForReload(p) \/ SignalReload(p)
    BY <1>3, <1>5 DEF Proceed, CheckPidfile, Fork, OpenPidfile, WritePidfile,
        InstallHandler, Run
<1> QED BY <1>1, <1>2, <1>4, <1>5 DEF Next

\* stop leaves no daemon when it returns.
THEOREM StopCorrect == Spec => StopLeavesNoDaemon
<1> DEFINE Returned ==
    \A p \in Process :
        /\ ~hasty /\ command[p] = "stop" /\ pc[p] # "done" /\ pc'[p] = "done"
        => \A q \in Process : pc'[q] \notin Daemon
<1>1. IInv /\ [Next]_vars => [Returned]_vars
    <2> SUFFICES ASSUME IInv, Next, NEW p \in Process, NEW q \in Process,
                        ~hasty, command[p] = "stop", pc[p] # "done", pc'[p] = "done"
                 PROVE  pc'[q] \notin Daemon
        OBVIOUS
    <2> USE DEF IInv, TypeOK, Patient, Daemon, StartingUp, Cli, Goto
    <2>1. pc[q] = "running" => pidfile = q
        BY DEF Knows
    <2>2. CASE ReadForStop(p)
        <3>1. pc[p] = "stopRead" /\ pidfile = None
            BY <2>2 DEF ReadForStop, InStop, AfterStop, Self
        <3>2. pc'[q] = pc[q] \/ pc'[q] = "done"
            BY <2>2 DEF ReadForStop
        <3>3. pc[q] = "running" \/ pc[q] \notin Daemon
            BY <3>1 DEF Busy
        <3> QED BY <2>1, <3>1, <3>2, <3>3, PidDaemonAssumption
    <2>3. CASE RemovePidfile(p)
        <3>1. pc[p] = "remove"
            BY <2>3 DEF RemovePidfile, InStop, AfterStop, Self
        <3>2. pc'[q] = pc[q] \/ pc'[q] = "done"
            BY <2>3 DEF RemovePidfile
        <3>3. pc[q] # "running"
            BY <3>1 DEF Knows
        <3> QED BY <3>1, <3>2, <3>3 DEF Busy
    <2>4. ~ReadForReload(p) /\ ~SignalReload(p)
        BY DEF ReadForReload, SignalReload, Knows
    <2> QED BY <2>2, <2>3, <2>4, DoneByItself
<1> QED BY <1>1, InvariantHolds, PTL DEF Spec, StopLeavesNoDaemon

\* restart fails for no pidfile but one that was just truncated or that names
\* a process of another user.
THEOREM RestartCorrect == Spec => RestartStarts
<1> DEFINE Starts ==
    \A p \in Process :
        /\ ~hasty /\ command[p] = "restart"
        /\ pc[p] # pc'[p] /\ pc'[p] \in {"refused", "failed"}
        => Impassable
<1>1. IInv /\ [Next]_vars => [Starts]_vars
    <2> SUFFICES ASSUME IInv, Next, NEW p \in Process,
                        ~hasty, command[p] = "restart", ~Impassable,
                        pc'[p] \in {"refused", "failed"}, pc[p] # pc'[p]
                 PROVE  FALSE
        OBVIOUS
    <2> USE DEF IInv, TypeOK, Patient, Goto
    <2>1. ASSUME NEW q \in Process, Invoke(q) \/ Crash(q) \/ Reuse(q) \/ OtherEnds(q) PROVE FALSE
        BY <2>1 DEF Invoke, Crash, Reuse, OtherEnds, Others
    <2>2. ASSUME NEW q \in Process, Proceed(q)
          PROVE  CheckPidfile(p) \/ ReadForStop(p) \/ Kill(p) \/ ReadForReload(p) \/ SignalReload(p)
        BY <2>2 DEF Proceed, CheckPidfile, Fork, OpenPidfile, WritePidfile, InstallHandler,
            Run, ReadForStop, Kill, RemovePidfile, ReadForReload, SignalReload,
            AfterStop, Self
    <2>3. ~CheckPidfile(p)
        BY PidDaemonAssumption DEF CheckPidfile, Knows, Impassable
    <2>4. ~ReadForStop(p)
        BY DEF ReadForStop, Impassable, AfterStop, Self
    <2>5. ~Kill(p)
        <3>1. ASSUME Kill(p) PROVE pidfile = target[p] /\ target[p] \in Process
            BY <3>1 DEF Kill, InStop, Knows
        <3>2. ASSUME Kill(p) PROVE pc[target[p]] = "foreign"
            BY <3>1, <3>2 DEF Kill, InStop, Self
        <3> QED BY <3>1, <3>2 DEF Impassable
    <2>6. ~ReadForReload(p) /\ ~SignalReload(p)
        BY DEF ReadForReload, SignalReload, Knows
    <2> QED BY <2>1, <2>2, <2>3, <2>4, <2>5, <2>6 DEF Next
<1> QED BY <1>1, InvariantHolds, PTL DEF Spec, RestartStarts

-----------------------------------------------------------------------------
(* Reload, hasty commands included *)

\* Where a process may be that has written its pid.
Later == (Daemon \ {"open", "write"}) \cup {"dead", "gone"} \cup Others

\* A pid that the pidfile holds, or that was read from it, has been written.
Written ==
    \A q \in Process : (pidfile = q \/ \E p \in Process : target[p] = q) => pc[q] \in Later

\* A process that has written its pid is never again where it had not.
LEMMA StaysLater ==
    ASSUME TypeOK, Next, NEW q \in Process, pc[q] \in Later
    PROVE  pc'[q] \in Later
<1> USE DEF TypeOK, Later, Cli, Daemon, StartingUp, Idle, Others, Goto
<1>1. ASSUME NEW p \in Process, Invoke(p) \/ Crash(p) \/ Reuse(p) \/ OtherEnds(p)
      PROVE  pc'[q] \in Later
    BY <1>1 DEF Invoke, Crash, Reuse, OtherEnds
<1>2. ASSUME NEW p \in Process, Proceed(p)
      PROVE  pc'[q] \in Later
    <2>1. CASE CheckPidfile(p) \/ Fork(p) \/ OpenPidfile(p) \/ WritePidfile(p)
               \/ InstallHandler(p) \/ Run(p)
        BY <2>1 DEF CheckPidfile, Fork, OpenPidfile, WritePidfile, InstallHandler, Run
    <2>2. CASE ReadForStop(p) \/ RemovePidfile(p) \/ ReadForReload(p)
        BY <2>2 DEF ReadForStop, RemovePidfile, ReadForReload, InStop, AfterStop, Self
    <2>3. CASE Kill(p)
        <3>1. target[p] \in Process
            BY <2>3 DEF Kill, InStop
        <3> QED BY <2>3, <3>1 DEF Kill, InStop, Self
    <2>4. CASE SignalReload(p)
        BY <2>4 DEF SignalReload
    <2> QED BY <1>2, <2>1, <2>2, <2>3, <2>4 DEF Proceed
<1> QED BY <1>1, <1>2 DEF Next

\* Only a process that writes its pid comes to be named.
LEMMA NewlyNamed ==
    ASSUME TypeOK, Next, NEW q \in Process,
           pidfile' = q \/ \E p \in Process : target'[p] = q
    PROVE  (pidfile = q \/ \E p \in Process : target[p] = q) \/ pc'[q] = "hook"
<1> USE PidDaemonAssumption DEF TypeOK, Goto
<1>1. ASSUME NEW p \in Process, Invoke(p) \/ Crash(p) \/ Reuse(p) \/ OtherEnds(p)
      PROVE  pidfile' = pidfile /\ target' = target
    BY <1>1 DEF Invoke, Crash, Reuse, OtherEnds
<1>2. ASSUME NEW p \in Process, Proceed(p), ~WritePidfile(p)
      PROVE  /\ pidfile' \in {pidfile, None, Empty}
             /\ \A r \in Process : target'[r] \in {target[r], None, pidfile}
    BY <1>2 DEF Proceed, CheckPidfile, Fork, OpenPidfile, InstallHandler, Run,
        ReadForStop, Kill, RemovePidfile, ReadForReload, SignalReload
<1>3. ASSUME NEW p \in Process, WritePidfile(p)
      PROVE  pidfile' = p /\ target' = target /\ pc'[p] = "hook"
    BY <1>3 DEF WritePidfile
<1> QED BY <1>1, <1>2, <1>3 DEF Next

LEMMA WrittenHolds == Spec => []Written
<1>1. Init => Written
    BY PidDaemonAssumption DEF Init, Written
<1>2. TypeOK /\ Written /\ [Next]_vars => Written'
    <2> SUFFICES ASSUME TypeOK, Written, [Next]_vars, NEW q \in Process,
                        pidfile' = q \/ \E p \in Process : target'[p] = q
                 PROVE  pc'[q] \in Later
        BY DEF Written
    <2>1. CASE UNCHANGED vars
        BY <2>1 DEF vars, Written
    <2>2. CASE Next
        <3>1. pc'[q] = "hook" => pc'[q] \in Later
            BY DEF Later, Daemon, StartingUp
        <3> QED BY <2>2, <3>1, NewlyNamed, StaysLater DEF Written
    <2> QED BY <2>1, <2>2
<1> QED BY <1>1, <1>2, TypeCorrect, PTL DEF Spec

\* reload ends a daemon only in the window before the handler is there, and
\* nobody's who waited: no process that is starting up can be the target of a
\* reload given after it settled, and none is named before it wrote its pid.
THEOREM ReloadCorrect == Spec => ReloadKeepsDaemon
<1> DEFINE Kept ==
    \A p, q \in Process :
        SignalReload(p) /\ pc[q] \in Daemon /\ pc'[q] \notin Daemon
        => hasty /\ pc[q] = "hook"
<1>1. IInv /\ Written => Kept
    <2> SUFFICES ASSUME IInv, Written, NEW p \in Process, NEW q \in Process,
                        SignalReload(p), pc[q] \in Daemon, pc'[q] \notin Daemon
                 PROVE  hasty /\ pc[q] = "hook"
        OBVIOUS
    <2>1. Busy(p) /\ pc[p] = "signal" /\ p # q
        BY DEF SignalReload, Busy, Cli, Daemon, StartingUp
    <2>2. q = target[p] /\ ~HandlesReload(q)
        <3>1. pc'[q] = CASE q = p -> IF pc[target[p]] = "foreign" THEN "failed" ELSE "done"
                         [] q = target[p] /\ (\/ pc[target[p]] = "other"
                                             \/ /\ pc[target[p]] \in Daemon
                                                /\ ~HandlesReload(target[p])) ->
                            IF pc[target[p]] = "other" THEN "gone" ELSE "dead"
                         [] OTHER -> pc[q]
            BY DEF SignalReload
        <3>2. pc[q] # "other"
            BY DEF Daemon, StartingUp
        <3> QED BY <2>1, <3>1, <3>2
    <2>3. pc[q] = "hook"
        BY <2>2 DEF Written, HandlesReload, Later, Daemon, StartingUp, Others
    <2>4. hasty
        BY <2>1, <2>3 DEF IInv, Patient, Busy, StartingUp
    <2> QED BY <2>3, <2>4
<1> QED BY <1>1, InvariantHolds, WrittenHolds, PTL DEF Spec, ReloadKeepsDaemon
=============================================================================
