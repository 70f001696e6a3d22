-------------------------- MODULE ServiceLifecycle --------------------------
(***************************************************************************)
(* Commands of service.py and the health monitor cfzt_monitor.py acting    *)
(* on ONE connection at the same time.                                     *)
(*                                                                         *)
(* configd runs every request in a process of its own and service.py takes *)
(* no lock: commands overlap.  Slots is the set of commands that may run   *)
(* side by side.  The GUI, the plugin hooks (bootup, newwanip, firmware    *)
(* upgrade) and the monitor all act through such commands.                 *)
(*                                                                         *)
(* Starts that overlap with another command can go wrong in many ways.     *)
(* What holds nevertheless is said of the daemons that no such start has   *)
(* spawned; two history variables, which no guard reads, tell them apart.  *)
(*                                                                         *)
(* The daemon is reduced to what the commands see of it: its process, its  *)
(* PID file, and the interface with its state file, which an orderly exit  *)
(* removes (runWireGuard; WarpDaemon has the details, and what runMASQUE   *)
(* does instead).  cloudflared has no interface.  A command that sleeps    *)
(* for a daemon to write its PID file is taken to sleep long enough.       *)
(***************************************************************************)
EXTENDS Integers

CONSTANTS
  Slots,       \* commands that may run at the same time
  Protocol,    \* "warp" (registered) or "cloudflared" (never registered)
  MaxDaemons,  \* bound: daemons spawned
  MaxEdits     \* bound: configuration changes

ASSUME ProtocolAssumption == Protocol \in {"warp", "cloudflared"}
ASSUME LifecycleBounds == MaxDaemons \in Nat /\ MaxEdits \in Nat

Daemons == 1..MaxDaemons

VARIABLES
  conf,       \* config.xml: general.enabled and the connection's enabled
  edits,      \* configuration changes so far
  cmd,        \* cmd[s]: the command slot s runs ("start" is startconn as well)
  at,         \* at[s]: where it is
  pid,        \* pid[s]: the process id it has read
  daemon,     \* daemon[d]: where daemon d is
  term,       \* live daemons that were sent SIGTERM
  pidFile,    \* process id in the PID file, 0 if absent
  iface,      \* the daemon that created the interface, 0 if absent
  stateFile,  \* /var/run/cfzt-iface-<uuid> exists
  mon,        \* where the monitor is
  monSlot,    \* the slot that runs the monitor's startconn
  was,        \* last_status of the connection
  notice,     \* the last notification that this monitor has sent
  company,    \* history: starts beside which another command has acted
  raced       \* history: daemons that such starts have spawned

cmdVars == <<cmd, at, pid, company, raced>>
runVars == <<daemon, term, pidFile, iface, stateFile>>
monVars == <<mon, monSlot, was, notice>>
vars == <<conf, edits, cmd, at, pid, daemon, term, pidFile, iface, stateFile, mon,
          monSlot, was, notice, company, raced>>

NoSlot == "none"
Config == [general: BOOLEAN, enabled: BOOLEAN]

CommandTypes ==
  /\ conf \in Config
  /\ edits \in 0..MaxEdits
  /\ cmd \in [Slots -> {"none", "start", "stop", "restart"}]
  /\ at \in [Slots -> {"idle", "config", "readPid", "cleanup", "spawn", "confirm",
                       "stopRead", "stopWait", "stopUnlink", "stopCleanup"}]
  /\ pid \in [Slots -> 0..MaxDaemons]
  /\ company \subseteq Slots /\ raced \subseteq 0..MaxDaemons

DaemonTypes ==
  /\ daemon \in [Daemons -> {"unborn", "init", "ready", "up", "unstate", "unpid", "dead"}]
  /\ term \subseteq Daemons
  /\ pidFile \in 0..MaxDaemons /\ iface \in 0..MaxDaemons
  /\ stateFile \in BOOLEAN

MonitorTypes ==
  /\ mon \in {"off", "sleep", "check", "restart", "waiting"}
  /\ monSlot \in Slots \cup {NoSlot}
  /\ was \in {"none", "up", "down"}
  /\ notice \in {"none", "failure", "recovery"}

TypeOK == CommandTypes /\ DaemonTypes /\ MonitorTypes

Init ==
  /\ conf = [general |-> TRUE, enabled |-> TRUE]
  /\ edits = 0
  /\ cmd = [s \in Slots |-> "none"]
  /\ at = [s \in Slots |-> "idle"]
  /\ pid = [s \in Slots |-> 0]
  /\ company = {} /\ raced = {}
  /\ daemon = [d \in Daemons |-> "unborn"]
  /\ term = {}
  /\ pidFile = 0 /\ iface = 0 /\ stateFile = FALSE
  /\ mon = "off" /\ monSlot = NoSlot /\ was = "none" /\ notice = "none"

-----------------------------------------------------------------------------
Alive(d) == daemon[d] \notin {"unborn", "dead"}
Unborn == {d \in Daemons : daemon[d] = "unborn"}

\* _is_running(pid)
IsRunning(p) == p # 0 /\ Alive(p)

\* The connection would be started by "start" and watched by the monitor.
Wanted(c) == c.general /\ c.enabled

\* _cleanup_stale_iface
CleanupStaleIface ==
  /\ stateFile' = FALSE
  /\ iface' = IF stateFile THEN 0 ELSE iface

\* Where a start counts on what it has seen, and where any command acts on it.
Starting == {"cleanup", "spawn", "confirm"}
Acting == Starting \cup {"stopRead", "stopWait", "stopUnlink", "stopCleanup"}

\* Slot s goes on at "to".  History: a start and whatever acts beside it are company.
Goto(s, to) ==
  LET others == {t \in Slots \ {s} : at[t] \in Acting}
  IN /\ at' = [at EXCEPT ![s] = to]
     /\ company' = IF to \notin Acting THEN company \ {s}
                   ELSE company \cup {t \in others : at[t] \in Starting}
                                \cup {t \in {s} : to \in Starting /\ others # {}}
     /\ raced' = raced \cup {p \in {pid[s]} : at[s] = "confirm" /\ s \in company}

\* The command of slot s ends.  The monitor waits for its own one.
Done(s) ==
  /\ Goto(s, "idle")
  /\ cmd' = [cmd EXCEPT ![s] = "none"]
  /\ pid' = [pid EXCEPT ![s] = 0]
  /\ IF monSlot = s THEN mon' = "sleep" /\ monSlot' = NoSlot
                    ELSE UNCHANGED <<mon, monSlot>>
  /\ UNCHANGED <<was, notice>>

-----------------------------------------------------------------------------
(* Requests: GUI buttons, the API, the plugin hooks, command line *)

Begin(s, c, to) ==
  /\ at[s] = "idle"
  /\ Goto(s, to)
  /\ cmd' = [cmd EXCEPT ![s] = c]
  /\ UNCHANGED <<pid, runVars>>

RequestStart(s) ==
  /\ Unborn # {}
  /\ \/ Begin(s, "start", "config") \/ Begin(s, "start", "readPid")
     \/ Begin(s, "restart", "stopRead")
  /\ UNCHANGED <<conf, edits, monVars>>

RequestStop(s) ==
  /\ Begin(s, "stop", "stopRead")
  /\ UNCHANGED <<conf, edits, monVars>>

\* setAction, toggleAction: the settings are saved; no command is given.
SaveSettings ==
  /\ edits < MaxEdits
  /\ edits' = edits + 1
  /\ conf' \in Config \ {conf}
  /\ UNCHANGED <<cmdVars, runVars, monVars>>

\* reconfigureAction, the "Apply" button: restart if the service is enabled, else stop
Reconfigure(s) ==
  /\ IF conf.general
     THEN Unborn # {} /\ Begin(s, "restart", "stopRead")
     ELSE Begin(s, "stop", "stopRead")
  /\ UNCHANGED <<conf, edits, monVars>>

-----------------------------------------------------------------------------
(* start_connection, one action for each access to shared state *)

\* cmd_start: get_config; only enabled connections of an enabled service.  The
\* connection's record is read here and may be out of date afterwards.
StartConfig(s) ==
  /\ at[s] = "config"
  /\ IF Wanted(conf) THEN Goto(s, "readPid") /\ UNCHANGED <<cmd, pid, monVars>>
                     ELSE Done(s)
  /\ UNCHANGED <<conf, edits, runVars>>

\* mutant: does not look for a running daemon
StartReadPidBlind(s) ==
  /\ at[s] = "readPid"
  /\ Goto(s, "cleanup") /\ UNCHANGED <<cmd, pid, monVars>>
  /\ UNCHANGED <<conf, edits, runVars>>

\* _read_pid, _is_running: already_running, or go on
StartReadPid(s) ==
  /\ at[s] = "readPid"
  /\ IF IsRunning(pidFile) THEN Done(s)
                           ELSE Goto(s, "cleanup") /\ UNCHANGED <<cmd, pid, monVars>>
  /\ UNCHANGED <<conf, edits, runVars>>

StartCleanup(s) ==
  /\ at[s] = "cleanup"
  /\ CleanupStaleIface
  /\ Goto(s, "spawn")
  /\ UNCHANGED <<conf, edits, cmd, pid, daemon, term, pidFile, monVars>>

\* write the configuration, Popen
StartSpawn(s) ==
  /\ at[s] = "spawn"
  /\ \E d \in Unborn :
       /\ \A e \in Unborn : d <= e
       /\ daemon' = [daemon EXCEPT ![d] = "init"]
       /\ pid' = [pid EXCEPT ![s] = d]
  /\ Goto(s, "confirm")
  /\ UNCHANGED <<conf, edits, cmd, term, pidFile, iface, stateFile, monVars>>

\* time.sleep(0.5); proc.poll()
StartConfirm(s) ==
  /\ at[s] = "confirm"
  /\ daemon[pid[s]] # "init"
  /\ Done(s)
  /\ UNCHANGED <<conf, edits, runVars>>

-----------------------------------------------------------------------------
(* stop_connection *)

\* After the stop part a restart goes on with cmd_start.
StopDone(s) ==
  IF cmd[s] = "restart"
  THEN /\ Goto(s, "config")
       /\ cmd' = [cmd EXCEPT ![s] = "start"]
       /\ pid' = [pid EXCEPT ![s] = 0]
       /\ UNCHANGED monVars
  ELSE Done(s)

\* _read_pid, _is_running, SIGTERM
StopRead(s) ==
  /\ at[s] = "stopRead"
  /\ IF IsRunning(pidFile)
     THEN /\ pid' = [pid EXCEPT ![s] = pidFile]
          /\ term' = term \cup {pidFile}
          /\ Goto(s, "stopWait")
          /\ UNCHANGED <<cmd, monVars>>
     ELSE StopDone(s) /\ UNCHANGED term
  /\ UNCHANGED <<conf, edits, daemon, pidFile, iface, stateFile>>

\* The process is gone within five seconds.
StopSeenGone(s) ==
  /\ at[s] = "stopWait" /\ ~Alive(pid[s])
  /\ Goto(s, "stopUnlink")
  /\ UNCHANGED <<conf, edits, cmd, pid, runVars, monVars>>

\* mutant: gives up after five seconds
StopGivesUp(s) ==
  /\ at[s] = "stopWait" /\ Alive(pid[s])
  /\ Goto(s, "stopUnlink")
  /\ UNCHANGED <<conf, edits, cmd, pid, runVars, monVars>>

\* It is not: SIGKILL
StopKill(s) ==
  /\ at[s] = "stopWait" /\ Alive(pid[s])
  /\ daemon' = [daemon EXCEPT ![pid[s]] = "dead"]
  /\ term' = term \ {pid[s]}
  /\ Goto(s, "stopUnlink")
  /\ UNCHANGED <<conf, edits, cmd, pid, pidFile, iface, stateFile, monVars>>

\* os.unlink(pid_file), whatever it holds by now
StopUnlink(s) ==
  /\ at[s] = "stopUnlink"
  /\ pidFile' = 0
  /\ Goto(s, "stopCleanup")
  /\ UNCHANGED <<conf, edits, cmd, pid, daemon, term, iface, stateFile, monVars>>

StopCleanup(s) ==
  /\ at[s] = "stopCleanup"
  /\ CleanupStaleIface
  /\ StopDone(s)
  /\ UNCHANGED <<conf, edits, daemon, term, pidFile>>

Command(s) ==
  \/ StartConfig(s) \/ StartReadPid(s) \/ StartCleanup(s) \/ StartSpawn(s)
  \/ StartConfirm(s) \/ StopRead(s) \/ StopSeenGone(s) \/ StopKill(s)
  \/ StopUnlink(s) \/ StopCleanup(s)

-----------------------------------------------------------------------------
(* The daemon *)

Daemon(d, from, to) ==
  /\ daemon[d] = from
  /\ daemon' = [daemon EXCEPT ![d] = to]
  /\ term' = IF to = "dead" THEN term \ {d} ELSE term
  /\ UNCHANGED <<conf, edits, cmdVars, monVars>>

\* mutant: the id of another process is written
WritePidForeign(d) ==
  /\ Daemon(d, "init", "ready")
  /\ pidFile' = d + MaxDaemons
  /\ UNCHANGED <<iface, stateFile>>

\* daemonize writes the PID file, whatever it held.
WritePid(d) ==
  /\ Daemon(d, "init", "ready")
  /\ pidFile' = d
  /\ UNCHANGED <<iface, stateFile>>

\* The interface is created, which needs the name to be free; the state file is written.
BringUp(d) ==
  /\ Daemon(d, "ready", "up")
  /\ IF Protocol = "warp" THEN iface = 0 /\ iface' = d /\ stateFile' = TRUE
                          ELSE UNCHANGED <<iface, stateFile>>
  /\ UNCHANGED pidFile

\* log.Fatal: the name is taken, another error, SIGTERM during the set-up
SetupFails(d) ==
  /\ \/ Daemon(d, "init", "dead") \/ Daemon(d, "ready", "dead")
  /\ UNCHANGED <<pidFile, iface, stateFile>>

\* An orderly exit, in the order of runWireGuard and main: destroy the interface
\* of that name, remove the state file, remove the PID file.
ExitDestroy(d) ==
  /\ d \in term
  /\ Daemon(d, "up", "unstate")
  /\ iface' = 0
  /\ UNCHANGED <<pidFile, stateFile>>

ExitState(d) ==
  /\ Daemon(d, "unstate", "unpid")
  /\ stateFile' = FALSE
  /\ UNCHANGED <<pidFile, iface>>

ExitPid(d) ==
  /\ Daemon(d, "unpid", "dead")
  /\ pidFile' = 0
  /\ UNCHANGED <<iface, stateFile>>

\* The daemon dies while it serves or on its way out (SetupFails covers the way in).
Crash(d) ==
  /\ \E from \in {"up", "unstate", "unpid"} : Daemon(d, from, "dead")
  /\ UNCHANGED <<pidFile, iface, stateFile>>

DaemonStep(d) ==
  WritePid(d) \/ BringUp(d) \/ SetupFails(d) \/ ExitDestroy(d) \/ ExitState(d) \/ ExitPid(d)

-----------------------------------------------------------------------------
(* The monitor *)

MonitorStart ==
  /\ mon = "off"
  /\ mon' = "sleep"
  /\ was' = "none" /\ notice' = "none"
  /\ UNCHANGED <<conf, edits, cmdVars, runVars, monSlot>>

\* stopmonitor: SIGTERM is acted on at the head of the loop and in the sleep.
MonitorStop ==
  /\ mon = "sleep"
  /\ mon' = "off"
  /\ UNCHANGED <<conf, edits, cmdVars, runVars, monSlot, was, notice>>

\* get_config; an interval in which the service is disabled is slept through, a
\* connection that is disabled is passed over.  What was read may be out of date
\* when the body of the loop acts on it.
MonitorReadConfig ==
  /\ mon = "sleep"
  /\ mon' = IF Wanted(conf) THEN "check" ELSE "sleep"
  /\ UNCHANGED <<conf, edits, cmdVars, runVars, monSlot, was, notice>>

Registered == Protocol = "warp"

\* mutant: the status is not remembered when the connection is down
MonitorCheckForgets ==
  /\ mon = "check"
  /\ LET running == IsRunning(pidFile)
         down == ~running /\ Registered
     IN /\ mon' = IF down /\ was \in {"up", "none"} THEN "restart" ELSE "sleep"
        /\ notice' = IF down /\ was = "up" THEN "failure"
                     ELSE IF running /\ was = "down" THEN "recovery"
                     ELSE notice
        /\ was' = IF running THEN "up" ELSE was
  /\ UNCHANGED <<conf, edits, cmdVars, runVars, monSlot>>

\* mutant: a connection that went down is reported but not restarted
MonitorCheckReportsOnly ==
  /\ mon = "check"
  /\ LET running == IsRunning(pidFile)
         down == ~running /\ Registered
     IN /\ mon' = IF down /\ was = "none" THEN "restart" ELSE "sleep"
        /\ notice' = IF down /\ was = "up" THEN "failure"
                     ELSE IF running /\ was = "down" THEN "recovery"
                     ELSE notice
        /\ was' = IF running THEN "up" ELSE "down"
  /\ UNCHANGED <<conf, edits, cmdVars, runVars, monSlot>>

\* The body of the loop: compare with the last status, notify, decide to restart.
MonitorCheck ==
  /\ mon = "check"
  /\ LET running == IsRunning(pidFile)
         down == ~running /\ Registered
     IN /\ mon' = IF down /\ was \in {"up", "none"} THEN "restart" ELSE "sleep"
        /\ notice' = IF down /\ was = "up" THEN "failure"
                     ELSE IF running /\ was = "down" THEN "recovery"
                     ELSE notice
        /\ was' = IF running THEN "up" ELSE "down"
  /\ UNCHANGED <<conf, edits, cmdVars, runVars, monSlot>>

\* _restart_connection: configctl cloudflarezt startconn, which ignores "enabled"
MonitorRestart(s) ==
  /\ mon = "restart" /\ Unborn # {}
  /\ Begin(s, "start", "readPid")
  /\ mon' = "waiting" /\ monSlot' = s
  /\ UNCHANGED <<conf, edits, was, notice>>

Monitor ==
  MonitorReadConfig \/ MonitorCheck \/ \E s \in Slots : MonitorRestart(s)

-----------------------------------------------------------------------------
Next ==
  \/ SaveSettings
  \/ \E s \in Slots : RequestStart(s) \/ RequestStop(s) \/ Reconfigure(s) \/ Command(s)
  \/ \E d \in Daemons : DaemonStep(d) \/ Crash(d)
  \/ MonitorStart \/ MonitorStop \/ Monitor

Spec == Init /\ [][Next]_vars

\* Every process is scheduled.  The monitor's request competes with others for a
\* slot and gets one in the end.
Fairness ==
  /\ \A s \in Slots : WF_vars(Command(s))
  /\ \A d \in Daemons : WF_vars(DaemonStep(d))
  /\ WF_vars(MonitorReadConfig) /\ WF_vars(MonitorCheck)
  /\ \A s \in Slots : SF_vars(MonitorRestart(s))

FairSpec == Spec /\ Fairness

-----------------------------------------------------------------------------
(* Overlaps *)

\* A start beside which another command acted has spawned d.
Disturbed(d) ==
  \/ d \in raced
  \/ \E s \in company : at[s] = "confirm" /\ pid[s] = d

Undisturbed(d) == Alive(d) /\ ~Disturbed(d)

\* What the PID file says of the others.
KnownPid == IF Disturbed(pidFile) THEN 0 ELSE pidFile

-----------------------------------------------------------------------------
(* The contract with whoever looks at the PID file *)

Contract == INSTANCE DaemonContract
              WITH live <- {d \in Daemons : Undisturbed(d)}, pidFile <- KnownPid

\* Commands and daemons keep the contract for the daemons whose start had no company:
\* whatever overlaps went before, whatever the exits and crashes, such a daemon is
\* spawned only where no other one lives, and its PID file is written by itself and
\* removed by it or when it is gone.
ImplementsContract == Contract!Spec

-----------------------------------------------------------------------------
(* Safety *)

\* DESIGN.md:164: "one instance per WARP connection".  Two daemons contend for the
\* interface, the PID file and the device's registration.  Of two that live one at
\* least comes from a start that had company.
OneInstance ==
  \A d, e \in Daemons : Alive(d) /\ Alive(e) /\ d # e => Disturbed(d) \/ Disturbed(e)

\* A daemon that serves is the one the PID file names: it can be seen by status
\* and ended by stop.  Only a daemon whose own start had company can be orphaned,
\* never one that was there before or came after an overlap.
NoOrphan == \A d \in Daemons : daemon[d] = "up" /\ ~Disturbed(d) => pidFile = d

\* service.py:147: "Destroy any orphaned interface from a previous crashed run".
\* No cleanup and no exit of another daemon destroys the interface of a daemon that
\* is alive, unless the start of that daemon had company.
OnlyOrphansDestroyed ==
  [][\A d \in Daemons : iface = d /\ iface' = 0 /\ daemon'[d] = daemon[d]
                           => ~Undisturbed(d)]_vars

\* When a command is done with stopping the connection, no daemon is left, but for
\* those whose start had company: a stop beside a start may miss its daemon, a stop
\* after it never does.
StopLeavesNone ==
  [][\A s \in Slots : at[s] \in {"stopRead", "stopCleanup"} /\ at'[s] \in {"idle", "config"}
                        => \A d \in Daemons : ~Undisturbed(d)]_vars

\* last_status of run_monitor: two failure notifications are never sent without
\* the connection having been seen running, and reported as recovered, in between,
\* whatever stops, starts, crashes and disabled intervals came between them.
FailureReportedOnce ==
  [][mon = "check" /\ mon' = "restart" /\ notice' = "failure" => notice # "failure"]_vars

(* Liveness, of FairSpec *)

\* A connection that the monitor has seen running and that dies is restarted:
\* the monitor asks for it, unless it comes back, is disabled or the monitor is
\* stopped first.
CrashIsNoticed ==
  (mon # "off" /\ was = "up" /\ Wanted(conf) /\ \A d \in Daemons : ~Alive(d))
    ~> (mon \in {"restart", "off"} \/ ~Wanted(conf) \/ \E d \in Daemons : Alive(d))

=============================================================================
