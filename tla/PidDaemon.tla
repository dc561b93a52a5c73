------------------------------ MODULE PidDaemon ------------------------------
(***************************************************************************)
(* The commands start, stop, restart and reload of the gateway and its     *)
(* pidfile: Daemon (src/xbee2mqtt/libs/daemon.py), with the cleanup and    *)
(* the beginning of run of Xbee2MQTT (src/xbee2mqtt/xbee2mqtt.py).         *)
(*                                                                         *)
(* A process is one invocation of the program; the daemon it forks goes on *)
(* under the same name (the pid of the double fork is the one it writes).  *)
(* The pidfile is read, truncated, written and removed with no lock.       *)
(***************************************************************************)
EXTENDS Naturals, FiniteSets

CONSTANTS
    Process,
    None,       \* no pidfile; no target
    Empty,      \* a pidfile opened for writing and not yet written
    Sequential, \* environment: a command is given when the last has returned
    MayCrash,   \* environment: a daemon may end at any moment
    PidReuse    \* environment: the pid of a dead daemon may go to another program

ASSUME PidDaemonAssumption ==
    /\ None \notin Process /\ Empty \notin Process
    /\ Sequential \in BOOLEAN /\ MayCrash \in BOOLEAN /\ PidReuse \in BOOLEAN

VARIABLES
    pidfile,
    pc,         \* where each process is
    command,    \* the command each process was given
    target,     \* the pid each process has read from the pidfile
    hasty       \* history: a command was given before the last had settled

vars == <<pidfile, pc, command, target, hasty>>

Commands == {"start", "stop", "restart", "reload"}

\* A command that has not returned to the shell.
Cli == {"startRead", "fork", "stopRead", "kill", "remove", "reloadRead", "signal"}

\* What a forked daemon does, its own stop() in run() included.
StartingUp == {"open", "write", "hook", "connect", "selfRead", "selfKill", "selfRemove"}

Daemon == StartingUp \cup {"running"}

\* What another program with the pid of a daemon that ended is: one that a
\* signal ends ("other"), that handles or ignores it ("stubborn"), or that is
\* another user's ("foreign").
Others == {"other", "stubborn", "foreign"}

\* Not run yet; a command that returned; a daemon that ended; the pid of
\* another program, or of one that has ended ("gone").
Idle == {"new", "done", "refused", "failed", "dead", "gone"} \cup Others

Alive(p) == pc[p] \in Daemon \cup Others

\* Mutant: the handler is installed by the process that exits.
MutantHandlesReload(p) == FALSE

\* The SIGUSR1 handler is the last thing daemonize() sets up.
HandlesReload(p) == pc[p] \in Daemon \ {"open", "write", "hook"}

Goto(p, where) == pc' = [pc EXCEPT ![p] = where]

\* No command is under way, and the daemon they started, if any, is up.
Quiet == \A p \in Process : pc[p] \in Idle \cup {"running"}

Invoke(p) ==
    /\ pc[p] = "new"
    /\ Sequential => \A q \in Process : pc[q] \notin Cli
    /\ hasty' = (hasty \/ ~Quiet)
    /\ \E c \in Commands :
        /\ command' = [command EXCEPT ![p] = c]
        /\ Goto(p, CASE c = "start" -> "startRead"
                     [] c = "reload" -> "reloadRead"
                     [] OTHER -> "stopRead")
    /\ UNCHANGED <<pidfile, target>>

-----------------------------------------------------------------------------
(* start() and daemonize() *)

\* Mutant: any pidfile, or none, lets the daemon start.
MutantCheckPidfile(p) ==
    /\ pc[p] = "startRead"
    /\ Goto(p, "fork")
    /\ UNCHANGED <<pidfile, command, target, hasty>>

\* An empty pidfile is no number: int() raises and start() ends.
CheckPidfile(p) ==
    /\ pc[p] = "startRead"
    /\ Goto(p, CASE pidfile = None -> "fork"
                 [] pidfile = Empty -> "failed"
                 [] OTHER -> "refused")
    /\ UNCHANGED <<pidfile, command, target, hasty>>

\* The parent exits here: the command has returned before a pidfile exists.
Fork(p) ==
    /\ pc[p] = "fork"
    /\ Goto(p, "open")
    /\ UNCHANGED <<pidfile, command, target, hasty>>

OpenPidfile(p) ==
    /\ pc[p] = "open"
    /\ pidfile' = Empty
    /\ Goto(p, "write")
    /\ UNCHANGED <<command, target, hasty>>

\* Mutant: the pid is left in the buffer of a file that is never closed.
MutantWritePidfile(p) ==
    /\ pc[p] = "write"
    /\ Goto(p, "hook")
    /\ UNCHANGED <<pidfile, command, target, hasty>>

WritePidfile(p) ==
    /\ pc[p] = "write"
    /\ pidfile' = p
    /\ Goto(p, "hook")
    /\ UNCHANGED <<command, target, hasty>>

InstallHandler(p) ==
    /\ pc[p] = "hook"
    /\ Goto(p, "connect")
    /\ UNCHANGED <<pidfile, command, target, hasty>>

\* run(): an unreachable broker raises and ends the daemon, and the cleanup
\* registered with atexit leaves the pidfile (it was overridden); a radio
\* that does not answer makes the daemon call stop().
Run(p) ==
    /\ pc[p] = "connect"
    /\ \E where \in {"running", "dead", "selfRead"} : Goto(p, where)
    /\ UNCHANGED <<pidfile, command, target, hasty>>

-----------------------------------------------------------------------------
(* stop(), called by the commands stop and restart, and by the daemon *)

InStop(p, cli, self) == pc[p] \in {cli, self}

Self(p) == pc[p] \in Daemon

\* Where stop() returns to: restart() starts, the daemon runs on.
AfterStop(p) ==
    IF Self(p) THEN "running"
    ELSE IF command[p] = "restart" THEN "startRead" ELSE "done"

ReadForStop(p) ==
    /\ InStop(p, "stopRead", "selfRead")
    /\ Goto(p, CASE pidfile = None -> AfterStop(p)
                 [] pidfile = Empty -> IF Self(p) THEN "dead" ELSE "failed"
                 [] OTHER -> IF Self(p) THEN "selfKill" ELSE "kill")
    /\ target' = [target EXCEPT ![p] = IF pidfile \in Process THEN pidfile ELSE None]
    /\ UNCHANGED <<pidfile, command, hasty>>

\* Mutants: the pidfile is removed when the signal was sent; the signal does
\* not end the daemon.
MutantKill(p) ==
    /\ InStop(p, "kill", "selfKill")
    /\ Goto(p, IF Self(p) THEN "selfRemove" ELSE "remove")
    /\ UNCHANGED <<pidfile, command, target, hasty>>

MutantKillIgnored(p) ==
    /\ InStop(p, "kill", "selfKill")
    /\ IF Alive(target[p])
       THEN UNCHANGED pc
       ELSE Goto(p, IF Self(p) THEN "selfRemove" ELSE "remove")
    /\ UNCHANGED <<pidfile, command, target, hasty>>

\* SIGTERM, again and again until there is no such process.  Nothing in the
\* daemon handles the signal: it ends it at once and atexit is not run.  A
\* process of another user may not be signalled: the error is printed, and
\* sys.exit(1).
Kill(p) ==
    /\ InStop(p, "kill", "selfKill")
    /\ LET t == target[p] IN
       \/ /\ pc[t] \in Daemon \cup {"other"}
          /\ Goto(t, IF pc[t] = "other" THEN "gone" ELSE "dead")
       \/ /\ pc[t] = "stubborn"
          /\ UNCHANGED pc
       \/ /\ pc[t] = "foreign"
          /\ Goto(p, IF Self(p) THEN "dead" ELSE "failed")
       \/ /\ ~Alive(t)
          /\ Goto(p, IF Self(p) THEN "selfRemove" ELSE "remove")
    /\ UNCHANGED <<pidfile, command, target, hasty>>

\* Mutant: the pidfile is left to the daemon to remove.
MutantRemovePidfile(p) ==
    /\ InStop(p, "remove", "selfRemove")
    /\ Goto(p, AfterStop(p))
    /\ UNCHANGED <<pidfile, command, target, hasty>>

\* Whatever the pidfile holds by now.
RemovePidfile(p) ==
    /\ InStop(p, "remove", "selfRemove")
    /\ pidfile' = None
    /\ Goto(p, AfterStop(p))
    /\ target' = [target EXCEPT ![p] = None]
    /\ UNCHANGED <<command, hasty>>

-----------------------------------------------------------------------------
(* reload() *)

ReadForReload(p) ==
    /\ pc[p] = "reloadRead"
    /\ Goto(p, CASE pidfile = None -> "done"
                 [] pidfile = Empty -> "failed"
                 [] OTHER -> "signal")
    /\ target' = [target EXCEPT ![p] = IF pidfile \in Process THEN pidfile ELSE None]
    /\ UNCHANGED <<pidfile, command, hasty>>

\* SIGUSR1 ends a process that has no handler for it, but not one of another
\* user: the error is printed, and sys.exit(1).
SignalReload(p) ==
    /\ pc[p] = "signal"
    /\ LET t == target[p]
           ends == pc[t] = "other" \/ (pc[t] \in Daemon /\ ~HandlesReload(t)) IN
       /\ pc' = [q \in Process |->
                    CASE q = p -> IF pc[t] = "foreign" THEN "failed" ELSE "done"
                      [] q = t /\ ends -> IF pc[t] = "other" THEN "gone" ELSE "dead"
                      [] OTHER -> pc[q]]
       /\ pidfile' = IF Alive(t) THEN pidfile ELSE None
    /\ target' = [target EXCEPT ![p] = None]
    /\ UNCHANGED <<command, hasty>>

-----------------------------------------------------------------------------
\* A power cut, a kill, an exception that leaves the loop.
Crash(p) ==
    /\ MayCrash
    /\ pc[p] \in Daemon
    /\ Goto(p, "dead")
    /\ UNCHANGED <<pidfile, command, target, hasty>>

Reuse(p) ==
    /\ PidReuse
    /\ pc[p] = "dead"
    /\ \E kind \in Others : Goto(p, kind)
    /\ UNCHANGED <<pidfile, command, target, hasty>>

\* The other program may end by itself, or never.
OtherEnds(p) ==
    /\ pc[p] \in Others
    /\ Goto(p, "gone")
    /\ UNCHANGED <<pidfile, command, target, hasty>>

Init ==
    /\ pidfile = None
    /\ pc = [p \in Process |-> "new"]
    /\ command = [p \in Process |-> None]
    /\ target = [p \in Process |-> None]
    /\ hasty = FALSE

\* What a process does by itself.
Proceed(p) ==
    \/ CheckPidfile(p) \/ Fork(p) \/ OpenPidfile(p) \/ WritePidfile(p)
    \/ InstallHandler(p) \/ Run(p)
    \/ ReadForStop(p) \/ Kill(p) \/ RemovePidfile(p)
    \/ ReadForReload(p) \/ SignalReload(p)

Next == \E p \in Process : Invoke(p) \/ Proceed(p) \/ Crash(p) \/ Reuse(p) \/ OtherEnds(p)

\* Every process runs; commands and crashes may never come.
Spec == Init /\ [][Next]_vars /\ \A p \in Process : WF_vars(Proceed(p))

-----------------------------------------------------------------------------
TypeOK ==
    /\ pidfile \in Process \cup {None, Empty}
    /\ pc \in [Process -> Cli \cup Daemon \cup Idle]
    /\ command \in [Process -> Commands \cup {None}]
    /\ target \in [Process -> Process \cup {None}]
    /\ hasty \in BOOLEAN
    /\ \A p \in Process : pc[p] \in {"kill", "selfKill", "signal"} => target[p] # None

\* "Check for a pidfile to see if the daemon already runs": two daemons never
\* share the radio's serial port.
AtMostOneDaemon == Cardinality({p \in Process : pc[p] \in Daemon}) <= 1

\* That holds if no command is given before the last one has settled.
OneDaemonIfPatient == hasty \/ AtMostOneDaemon

\* A daemon that is up can be stopped and reloaded: the pidfile names it.
DaemonIsNamed ==
    Quiet /\ ~hasty => \A p \in Process : pc[p] = "running" => pidfile = p

\* When stop has returned no daemon is left, whether it was up, had crashed
\* or had never connected.
StopLeavesNoDaemon ==
    [][\A p \in Process :
        /\ ~hasty /\ command[p] = "stop" /\ pc[p] # "done" /\ pc'[p] = "done"
        => \A q \in Process : pc'[q] \notin Daemon]_vars

\* What restart cannot get past: a pidfile that a daemon had just truncated when
\* it ended, or one whose pid now is a process of another user.
Impassable == pidfile = Empty \/ \E q \in Process : pidfile = q /\ pc[q] = "foreign"

\* restart fails for nothing else a daemon that ended left behind.
RestartStarts ==
    [][\A p \in Process :
        /\ ~hasty /\ command[p] = "restart"
        /\ pc[p] # pc'[p] /\ pc'[p] \in {"refused", "failed"}
        => Impassable]_vars

\* "Send USR1 signal to reload config": the signal ends no daemon but one that
\* has written its pid and not yet installed the handler, and that only if the
\* reload was not given after the start had settled: waiting for start to return
\* is not enough.
ReloadKeepsDaemon ==
    [][\A p, q \in Process :
        SignalReload(p) /\ pc[q] \in Daemon /\ pc'[q] \notin Daemon
        => hasty /\ pc[q] = "hook"]_vars

\* Every command returns, whatever runs at the same time, but a stop() that
\* signals a program no SIGTERM ends: that goes on for as long as it lives.
CommandsReturn ==
    \A p \in Process :
        pc[p] \in Cli ~> \/ pc[p] \notin Cli
                         \/ pc[p] = "kill" /\ pc[target[p]] = "stubborn"
=============================================================================
