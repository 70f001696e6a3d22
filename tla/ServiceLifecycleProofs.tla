----------------------- MODULE ServiceLifecycleProofs -----------------------
(***************************************************************************)
(* Proofs about ServiceLifecycle for any number of commands side by side,  *)
(* daemons, configuration changes, crashes and monitor restarts.           *)
(* No condition is put on how commands overlap: what the theorems say of   *)
(* the daemons they say of every daemon whose own start had no company,    *)
(* whatever disturbed daemons live beside it.                              *)
(***************************************************************************)
EXTENDS ServiceLifecycle, TLAPS

USE DEF Daemons, Config, NoSlot

\* A start beside which another command acts knows it by now.
CompanyKept ==
  \A s, t \in Slots : s # t /\ at[s] \in Starting /\ at[t] \in Acting => s \in company

\* An undisturbed daemon that has written the PID file is the one the file names.
LiveKnown ==
  \A d \in Daemons : Undisturbed(d) /\ daemon[d] # "init" => pidFile = d

\* Disturbed or not: a daemon that has not yet written the PID file has a command
\* that waits for it, and one that was sent SIGTERM has one that waits for its end.
WaitedFor ==
  /\ \A d \in Daemons : daemon[d] = "init" => \E s \in Slots : at[s] = "confirm" /\ pid[s] = d
  /\ \A d \in term : Alive(d) /\ \E s \in Slots : at[s] = "stopWait" /\ pid[s] = d
  /\ \A d \in Daemons : daemon[d] \in {"unstate", "unpid"} => d \in term

\* Where a command counts on there being no daemon, or only the one it holds.
CommandKnows ==
  \A s \in Slots :
    /\ at[s] \in {"cleanup", "spawn", "stopUnlink", "stopCleanup"}
         => \A d \in Daemons : ~Undisturbed(d)
    /\ at[s] \in {"confirm", "stopWait"}
         => pid[s] \in Daemons /\ \A d \in Daemons : Undisturbed(d) => d = pid[s]

\* The monitor's memory: a connection last seen running has no failure pending.
NoticeShape ==
  /\ was = "up" => notice # "failure"
  /\ was = "none" => notice = "none"

DaemonInv == TypeOK /\ CompanyKept /\ LiveKnown /\ WaitedFor /\ CommandKnows

-----------------------------------------------------------------------------
(* Type correctness *)

\* The histories keep their types.
LEMMA GotoTypes ==
  ASSUME TypeOK, NEW s \in Slots, NEW to, Goto(s, to)
  PROVE  company' \subseteq Slots /\ raced' \subseteq 0..MaxDaemons
<1>1. company' \subseteq company \cup Slots
  BY DEF Goto
<1>2. raced' \subseteq raced \cup {pid[s]}
  BY DEF Goto
<1> QED BY <1>1, <1>2 DEF TypeOK, CommandTypes

\* Every step keeps every variable in its type.
LEMMA TypeStep == TypeOK /\ [Next]_vars => TypeOK'
<1> SUFFICES ASSUME TypeOK, [Next]_vars PROVE TypeOK'
  OBVIOUS
<1> USE LifecycleBounds DEF TypeOK, cmdVars, runVars, monVars
<1>1. CASE SaveSettings
  BY <1>1 DEF SaveSettings, CommandTypes, DaemonTypes, MonitorTypes
<1>2. ASSUME NEW s \in Slots, RequestStart(s) \/ RequestStop(s) \/ Reconfigure(s)
      PROVE TypeOK'
  <2> USE <1>2 DEF RequestStart, RequestStop, Reconfigure, Begin
  <2>1. /\ at' \in [Slots -> {"idle", "config", "readPid", "cleanup", "spawn", "confirm",
                            "stopRead", "stopWait", "stopUnlink", "stopCleanup"}]
        /\ cmd' \in [Slots -> {"none", "start", "stop", "restart"}]
    BY DEF Goto, CommandTypes
  <2>2. company' \subseteq Slots /\ raced' \subseteq 0..MaxDaemons
    BY GotoTypes
  <2> QED BY <2>1, <2>2 DEF CommandTypes, DaemonTypes, MonitorTypes
<1>3. ASSUME NEW s \in Slots, Command(s) PROVE TypeOK'
  <2> USE <1>3 DEF Command, StartConfig, StartReadPid, StartCleanup, StartSpawn, StartConfirm,
          StopRead, StopSeenGone, StopKill, StopUnlink, StopCleanup, StopDone
  <2>1. CommandTypes'
    <3> USE DEF CommandTypes
    <3>1. /\ conf' \in Config /\ edits' \in 0..MaxEdits
      OBVIOUS
    <3>2. cmd' \in [Slots -> {"none", "start", "stop", "restart"}]
      BY DEF Done
    <3>3. at' \in [Slots -> {"idle", "config", "readPid", "cleanup", "spawn", "confirm",
                             "stopRead", "stopWait", "stopUnlink", "stopCleanup"}]
      BY DEF Done, Goto
    <3>4. pid' \in [Slots -> 0..MaxDaemons]
      BY DEF Done, Unborn, DaemonTypes
    <3>5. \E to \in {"idle", "config", "readPid", "cleanup", "spawn", "confirm",
                      "stopRead", "stopWait", "stopUnlink", "stopCleanup"} : Goto(s, to)
      BY DEF Done
    <3>6. company' \subseteq Slots /\ raced' \subseteq 0..MaxDaemons
      BY <3>5, GotoTypes
    <3> QED BY <3>1, <3>2, <3>3, <3>4, <3>6
  <2>2. DaemonTypes'
    <3> USE DEF DaemonTypes
    <3>1. stateFile' \in BOOLEAN BY DEF CleanupStaleIface
    <3>2. daemon' \in [Daemons -> {"unborn", "init", "ready", "up", "unstate", "unpid", "dead"}]
      BY DEF Unborn
    <3>3. term' \subseteq Daemons
      <4>1. IsRunning(pidFile) => pidFile \in Daemons BY DEF IsRunning
      <4>2. \/ term' \subseteq term
            \/ IsRunning(pidFile) /\ term' = term \cup {pidFile}
        OBVIOUS
      <4> QED BY <4>1, <4>2, Zenon
    <3>4. pidFile' \in 0..MaxDaemons OBVIOUS
    <3>5. iface' \in 0..MaxDaemons BY DEF CleanupStaleIface
    <3> QED BY <3>1, <3>2, <3>3, <3>4, <3>5
  <2>3. MonitorTypes'
    BY DEF MonitorTypes, Done
  <2> QED BY <2>1, <2>2, <2>3
<1>4. ASSUME NEW d \in Daemons, DaemonStep(d) \/ Crash(d) PROVE TypeOK'
  <2> USE <1>4 DEF DaemonStep, WritePid, BringUp, SetupFails, ExitDestroy, ExitState, ExitPid,
          Crash, Daemon
  <2>1. CommandTypes' BY DEF CommandTypes
  <2>2. DaemonTypes'
    <3> USE DEF DaemonTypes
    <3>1. stateFile' \in BOOLEAN OBVIOUS
    <3>2. daemon' \in [Daemons -> {"unborn", "init", "ready", "up", "unstate", "unpid", "dead"}]
      OBVIOUS
    <3>3. term' \subseteq Daemons OBVIOUS
    <3>4. pidFile' \in 0..MaxDaemons /\ iface' \in 0..MaxDaemons OBVIOUS
    <3> QED BY <3>1, <3>2, <3>3, <3>4
  <2>3. MonitorTypes' BY DEF MonitorTypes
  <2> QED BY <2>1, <2>2, <2>3
<1>5. CASE MonitorStart \/ MonitorStop \/ MonitorReadConfig \/ MonitorCheck
  BY <1>5 DEF MonitorStart, MonitorStop, MonitorReadConfig, MonitorCheck,
     CommandTypes, DaemonTypes, MonitorTypes
<1>6. ASSUME NEW s \in Slots, MonitorRestart(s) PROVE TypeOK'
  <2> USE <1>6 DEF MonitorRestart, Begin
  <2>1. /\ at' \in [Slots -> {"idle", "config", "readPid", "cleanup", "spawn", "confirm",
                            "stopRead", "stopWait", "stopUnlink", "stopCleanup"}]
        /\ cmd' \in [Slots -> {"none", "start", "stop", "restart"}]
    BY DEF Goto, CommandTypes
  <2>2. company' \subseteq Slots /\ raced' \subseteq 0..MaxDaemons
    BY GotoTypes
  <2> QED BY <2>1, <2>2 DEF CommandTypes, DaemonTypes, MonitorTypes
<1>7. CASE UNCHANGED vars
  BY <1>7 DEF vars, CommandTypes, DaemonTypes, MonitorTypes
<1> QED
  BY <1>1, <1>2, <1>3, <1>4, <1>5, <1>6, <1>7 DEF Next, Monitor

\* The initial state is well-typed.
LEMMA InitTypes == Init => TypeOK
<1> SUFFICES ASSUME Init PROVE TypeOK
  OBVIOUS
<1>0. 0 \in 0..MaxDaemons /\ 0 \in 0..MaxEdits BY LifecycleBounds
<1>1. CommandTypes BY <1>0 DEF Init, CommandTypes
<1>2. DaemonTypes BY <1>0 DEF Init, DaemonTypes
<1>3. MonitorTypes BY DEF Init, MonitorTypes
<1> QED BY <1>1, <1>2, <1>3 DEF TypeOK

\* Every variable keeps its type.
THEOREM TypeCorrect == Spec => []TypeOK
BY InitTypes, TypeStep, PTL DEF Spec

-----------------------------------------------------------------------------
(* The two histories *)

\* No step of a command makes a disturbed daemon an undisturbed one.
LEMMA DisturbedStays ==
  ASSUME TypeOK, NEW s \in Slots, NEW to, Goto(s, to),
         \A t \in Slots : t # s => pid'[t] = pid[t],
         NEW d, Disturbed(d)
  PROVE  Disturbed(d)'
<1> USE DEF Goto, TypeOK, CommandTypes
<1>1. CASE d \in raced
  BY <1>1 DEF Disturbed
<1>2. ASSUME NEW t \in company, at[t] = "confirm", pid[t] = d PROVE Disturbed(d)'
  <2>1. CASE t = s
    BY <1>2, <2>1 DEF Disturbed
  <2>2. CASE t # s
    <3>1. t \in company' /\ at'[t] = "confirm" /\ pid'[t] = d
      BY <1>2, <2>2
    <3> QED BY <3>1 DEF Disturbed
  <2> QED BY <2>1, <2>2
<1> QED BY <1>1, <1>2 DEF Disturbed

\* Acting while another command waits for the daemon it has spawned disturbs it.
LEMMA WaiterJoined ==
  ASSUME TypeOK, NEW s \in Slots, NEW to \in Acting, Goto(s, to),
         NEW t \in Slots, t # s, at[t] = "confirm", pid'[t] = pid[t]
  PROVE  Disturbed(pid[t])'
<1>1. t \in company' /\ at'[t] = "confirm"
  BY DEF Goto, TypeOK, CommandTypes, Starting, Acting
<1> QED BY <1>1 DEF Disturbed

\* A daemon becomes disturbed in no other way.
LEMMA NewlyDisturbed ==
  ASSUME TypeOK, NEW s \in Slots, NEW to, to # "confirm", Goto(s, to),
         \A t \in Slots : t # s => pid'[t] = pid[t],
         NEW d, Disturbed(d)', ~Disturbed(d)
  PROVE  \E t \in Slots : at[t] = "confirm" /\ pid[t] = d
<1> USE DEF Goto, TypeOK, CommandTypes
<1>1. d \notin raced'
  BY DEF Disturbed
<1>2. PICK t \in company' : at'[t] = "confirm" /\ pid'[t] = d
  BY <1>1 DEF Disturbed
<1>3. t \in Slots /\ t # s
  BY <1>2, GotoTypes
<1> QED BY <1>2, <1>3

\* A start that is joined, or that joins, has company.
LEMMA CompanyStep ==
  ASSUME TypeOK, CompanyKept, NEW s \in Slots, NEW to, Goto(s, to)
  PROVE  CompanyKept'
<1> SUFFICES ASSUME NEW x \in Slots, NEW y \in Slots, x # y,
                    at'[x] \in Starting, at'[y] \in Acting
             PROVE  x \in company'
  BY DEF CompanyKept, Starting, Acting
<1> USE DEF Goto, TypeOK, CommandTypes
<1>1. CASE x = s
  <2>1. at[y] \in Acting /\ to \in Starting
    BY <1>1
  <2> QED BY <1>1, <2>1 DEF Acting
<1>2. CASE y = s
  <2>1. at[x] \in Starting /\ to \in Acting
    BY <1>2
  <2> QED BY <1>2, <2>1 DEF Acting
<1>3. CASE x # s /\ y # s
  <2>1. at[x] \in Starting /\ at[y] \in Acting
    BY <1>3
  <2>2. x \in company
    BY <2>1 DEF CompanyKept
  <2> QED BY <1>3, <2>2
<1> QED BY <1>1, <1>2, <1>3

-----------------------------------------------------------------------------
(* The daemons *)

Daemonic == LiveKnown /\ WaitedFor /\ CommandKnows

\* A command that leaves daemons and PID file alone, and waits for nothing before
\* or after.
LEMMA CommandPasses ==
  ASSUME DaemonInv, NEW s \in Slots, NEW to, Goto(s, to),
         at[s] \notin {"confirm", "stopWait"}, to \notin {"confirm", "stopWait"},
         to \in {"cleanup", "spawn", "stopUnlink", "stopCleanup"}
           => \A d \in Daemons : ~Undisturbed(d)',
         \A t \in Slots : t # s => pid'[t] = pid[t],
         UNCHANGED <<daemon, term>>,
         pidFile' = pidFile \/ \A d \in Daemons : ~Undisturbed(d)
  PROVE  Daemonic'
<1> USE DEF DaemonInv
<1>1. \A d : Undisturbed(d)' => Undisturbed(d)
  BY DisturbedStays DEF Undisturbed, Alive
<1>2. \A t \in Slots : t # s => at'[t] = at[t] /\ pid'[t] = pid[t]
  BY DEF Goto, TypeOK, CommandTypes
<1>3. at'[s] = to
  BY DEF Goto, TypeOK, CommandTypes
<1>4. LiveKnown'
  BY <1>1 DEF LiveKnown
<1>5. WaitedFor'
  BY <1>2 DEF WaitedFor, Alive
<1>6. CommandKnows'
  BY <1>1, <1>2, <1>3 DEF CommandKnows
<1> QED BY <1>4, <1>5, <1>6 DEF Daemonic

\* An undisturbed daemon that the PID file does not name is waited for by the command
\* that has spawned it.
LEMMA UnseenIsWaitedFor ==
  ASSUME DaemonInv, NEW d \in Daemons, Undisturbed(d), pidFile # d
  PROVE  \E t \in Slots : at[t] = "confirm" /\ pid[t] = d
BY DEF DaemonInv, LiveKnown, WaitedFor

\* The first look at the PID file, of a start and of a stop.
LEMMA ReadStep ==
  ASSUME DaemonInv, NEW s \in Slots, StartReadPid(s) \/ StopRead(s)
  PROVE  Daemonic'
<1> USE DEF DaemonInv, IsRunning
<1>r. ~IsRunning(pidFile) => \A d \in Daemons : Undisturbed(d) => pidFile # d
  BY LifecycleBounds DEF Undisturbed, Alive
<1>1. CASE StartReadPid(s)
  <2> USE <1>1 DEF StartReadPid, runVars
  <2>1. CASE IsRunning(pidFile)
    <3>1. Goto(s, "idle") /\ \A t \in Slots : t # s => pid'[t] = pid[t]
      BY <2>1 DEF Done, TypeOK, CommandTypes
    <3> QED BY <3>1, CommandPasses
  <2>2. CASE ~IsRunning(pidFile)
    <3>1. Goto(s, "cleanup") /\ UNCHANGED pid
      BY <2>2
    <3>2. ASSUME NEW d \in Daemons, Undisturbed(d)' PROVE FALSE
      <4>1. Undisturbed(d)
        BY <3>1, <3>2, DisturbedStays DEF Undisturbed, Alive
      <4>2. PICK t \in Slots : at[t] = "confirm" /\ pid[t] = d
        BY <1>r, <2>2, <4>1, UnseenIsWaitedFor
      <4>3. Disturbed(d)'
        BY <3>1, <4>2, WaiterJoined DEF Acting, Starting
      <4> QED BY <3>2, <4>3 DEF Undisturbed
    <3> QED BY <3>1, <3>2, CommandPasses
  <2> QED BY <2>1, <2>2
<1>2. CASE StopRead(s)
  <2> USE <1>2 DEF StopRead
  <2>1. CASE IsRunning(pidFile)
    <3> USE <2>1
    <3>1. /\ Goto(s, "stopWait") /\ pid' = [pid EXCEPT ![s] = pidFile]
          /\ term' = term \cup {pidFile} /\ UNCHANGED <<daemon, pidFile>>
      OBVIOUS
    <3>2. pidFile \in Daemons
      BY DEF TypeOK, DaemonTypes
    <3>3. /\ \A t \in Slots : t # s => at'[t] = at[t] /\ pid'[t] = pid[t]
          /\ at'[s] = "stopWait" /\ pid'[s] = pidFile
      BY <3>1 DEF Goto, TypeOK, CommandTypes
    <3>4. \A d : Undisturbed(d)' => Undisturbed(d)
      BY <3>1, <3>3, DisturbedStays DEF Undisturbed, Alive
    <3>5. ASSUME NEW d \in Daemons, Undisturbed(d)', d # pidFile PROVE FALSE
      <4>1. PICK t \in Slots : at[t] = "confirm" /\ pid[t] = d
        BY <3>4, <3>5, UnseenIsWaitedFor
      <4>2. Disturbed(d)'
        BY <3>1, <3>3, <4>1, WaiterJoined DEF Acting, Starting
      <4> QED BY <3>5, <4>2 DEF Undisturbed
    <3>6. LiveKnown'
      BY <3>5 DEF LiveKnown
    <3>7. WaitedFor'
      <4>1. \A d \in Daemons : daemon'[d] = "init"
              => \E t \in Slots : at'[t] = "confirm" /\ pid'[t] = d
        BY <3>1, <3>3 DEF WaitedFor
      <4>2. \A d \in term' : Alive(d)' /\ \E t \in Slots : at'[t] = "stopWait" /\ pid'[t] = d
        BY <3>1, <3>3 DEF WaitedFor, Alive
      <4>3. \A d \in Daemons : daemon'[d] \in {"unstate", "unpid"} => d \in term'
        BY <3>1 DEF WaitedFor
      <4> QED BY <4>1, <4>2, <4>3 DEF WaitedFor
    <3>8. CommandKnows'
      BY <3>2, <3>3, <3>4, <3>5 DEF CommandKnows
    <3> QED BY <3>6, <3>7, <3>8 DEF Daemonic
  <2>2. CASE ~IsRunning(pidFile)
    <3>1. PICK to \in {"idle", "config"} : Goto(s, to)
      BY <2>2 DEF StopDone, Done
    <3>2. \A t \in Slots : t # s => pid'[t] = pid[t]
      BY <2>2 DEF StopDone, Done, TypeOK, CommandTypes
    <3> QED BY <2>2, <3>1, <3>2, CommandPasses
  <2> QED BY <2>1, <2>2
<1> QED BY <1>1, <1>2

\* The spawn: whatever else acts has made the new daemon a disturbed one.
LEMMA SpawnStep ==
  ASSUME DaemonInv, NEW s \in Slots, StartSpawn(s)
  PROVE  Daemonic'
<1> USE DEF DaemonInv
<1>1. PICK d \in Daemons : /\ daemon[d] = "unborn" /\ daemon' = [daemon EXCEPT ![d] = "init"]
                           /\ pid' = [pid EXCEPT ![s] = d]
  BY DEF StartSpawn, Unborn
<1>2. at[s] = "spawn" /\ Goto(s, "confirm") /\ UNCHANGED <<term, pidFile>>
  BY DEF StartSpawn
<1>3. /\ \A t \in Slots : t # s => at'[t] = at[t] /\ pid'[t] = pid[t]
      /\ at'[s] = "confirm" /\ pid'[s] = d
  BY <1>1, <1>2 DEF Goto, TypeOK, CommandTypes
<1>4. daemon'[d] = "init" /\ \A e \in Daemons : e # d => daemon'[e] = daemon[e]
  BY <1>1 DEF TypeOK, DaemonTypes
<1>5. ASSUME NEW e \in Daemons, Undisturbed(e)' PROVE e = d
  <2>1. SUFFICES ASSUME e # d PROVE FALSE
    OBVIOUS
  <2>2. Undisturbed(e)
    BY <1>2, <1>3, <1>4, <1>5, <2>1, DisturbedStays DEF Undisturbed, Alive
  <2> QED BY <1>2, <2>2 DEF CommandKnows
<1>6. ASSUME NEW t \in Slots, t # s, at[t] \in Acting PROVE ~Undisturbed(d)'
  <2>1. s \in company
    BY <1>2, <1>6 DEF CompanyKept, Starting
  <2>2. s \in company'
    BY <1>2, <2>1 DEF Goto, Acting, Starting
  <2> QED BY <1>3, <2>2 DEF Undisturbed, Disturbed
<1>7. LiveKnown'
  BY <1>4, <1>5 DEF LiveKnown
<1>8. WaitedFor'
  <2>1. \A e \in Daemons : daemon'[e] = "init"
          => \E t \in Slots : at'[t] = "confirm" /\ pid'[t] = e
    BY <1>2, <1>3, <1>4 DEF WaitedFor
  <2>2. \A e \in term' : Alive(e)' /\ \E t \in Slots : at'[t] = "stopWait" /\ pid'[t] = e
    BY <1>1, <1>2, <1>3, <1>4 DEF WaitedFor, Alive, TypeOK, DaemonTypes
  <2>3. \A e \in Daemons : daemon'[e] \in {"unstate", "unpid"} => e \in term'
    BY <1>2, <1>4 DEF WaitedFor
  <2> QED BY <2>1, <2>2, <2>3 DEF WaitedFor
<1>9. CommandKnows'
  <2> SUFFICES ASSUME NEW t \in Slots
               PROVE  /\ at'[t] \in {"cleanup", "spawn", "stopUnlink", "stopCleanup"}
                           => \A e \in Daemons : ~Undisturbed(e)'
                      /\ at'[t] \in {"confirm", "stopWait"}
                           => /\ pid'[t] \in Daemons
                              /\ \A e \in Daemons : Undisturbed(e)' => e = pid'[t]
    BY DEF CommandKnows
  <2>1. CASE t = s
    BY <1>3, <1>5, <2>1
  <2>2. CASE t # s /\ at[t] \in Acting
    <3>1. \A e \in Daemons : ~Undisturbed(e)'
      BY <1>5, <1>6, <2>2
    <3> QED BY <1>3, <2>2, <3>1 DEF CommandKnows
  <2>3. CASE t # s /\ at[t] \notin Acting
    BY <1>3, <2>3 DEF Acting, Starting
  <2> QED BY <2>1, <2>2, <2>3
<1> QED BY <1>7, <1>8, <1>9 DEF Daemonic

\* The end of a wait: for the daemon to come up, or for it to go.
LEMMA WaitStep ==
  ASSUME DaemonInv, NEW s \in Slots, StartConfirm(s) \/ StopSeenGone(s) \/ StopKill(s)
  PROVE  Daemonic'
<1> USE DEF DaemonInv
<1>1. PICK to \in {"idle", "stopUnlink"} : Goto(s, to)
  BY DEF StartConfirm, StopSeenGone, StopKill, Done
<1>2. /\ \A t \in Slots : t # s => at'[t] = at[t] /\ pid'[t] = pid[t]
      /\ at'[s] = to
  BY <1>1 DEF Goto, StartConfirm, StopSeenGone, StopKill, Done, TypeOK, CommandTypes
<1>3. /\ pidFile' = pidFile /\ pid[s] \in Daemons
      /\ \A d \in Daemons : Undisturbed(d) => d = pid[s]
  BY DEF StartConfirm, StopSeenGone, StopKill, runVars, CommandKnows
<1>4. \A d \in Daemons : daemon'[d] = daemon[d] \/ (d = pid[s] /\ daemon'[d] = "dead")
  BY <1>3 DEF StartConfirm, StopSeenGone, StopKill, runVars, TypeOK, DaemonTypes
<1>5. \A d \in Daemons : Undisturbed(d)' => Undisturbed(d) /\ daemon'[d] = daemon[d]
  BY <1>1, <1>2, <1>4, DisturbedStays DEF Undisturbed, Alive
<1>6. to = "stopUnlink" => \A d \in Daemons : ~Undisturbed(d)'
  <2>1. to = "stopUnlink" => daemon'[pid[s]] \in {"unborn", "dead"}
    BY <1>1, <1>3 DEF StartConfirm, StopSeenGone, StopKill, Done, Goto, Alive, runVars,
       TypeOK, CommandTypes, DaemonTypes
  <2> QED BY <1>3, <1>5, <2>1 DEF Undisturbed, Alive
<1>7. LiveKnown'
  BY <1>3, <1>5 DEF LiveKnown
<1>8. WaitedFor'
  <2>1. ASSUME NEW d \in Daemons, daemon'[d] = "init"
        PROVE  \E t \in Slots : at'[t] = "confirm" /\ pid'[t] = d
    <3>1. PICK t \in Slots : at[t] = "confirm" /\ pid[t] = d
      BY <1>4, <2>1 DEF WaitedFor
    <3>2. t # s
      BY <1>4, <2>1, <3>1 DEF StartConfirm, StopSeenGone, StopKill
    <3> QED BY <1>2, <3>1, <3>2
  <2>2. ASSUME NEW d \in term'
        PROVE  Alive(d)' /\ \E t \in Slots : at'[t] = "stopWait" /\ pid'[t] = d
    <3>1. d \in term /\ d \in Daemons
      BY <2>2 DEF StartConfirm, StopSeenGone, StopKill, runVars, TypeOK, DaemonTypes
    <3>2. PICK t \in Slots : Alive(d) /\ at[t] = "stopWait" /\ pid[t] = d
      BY <3>1 DEF WaitedFor
    <3>3. t # s /\ daemon'[d] = daemon[d]
      BY <2>2, <3>1, <3>2 DEF StartConfirm, StopSeenGone, StopKill, runVars, TypeOK, DaemonTypes
    <3> QED BY <1>2, <3>2, <3>3 DEF Alive
  <2>3. ASSUME NEW d \in Daemons, daemon'[d] \in {"unstate", "unpid"} PROVE d \in term'
    <3>1. d \in term
      BY <1>4, <2>3 DEF WaitedFor
    <3>2. StopKill(s) => d # pid[s]
      BY <1>3, <2>3 DEF StopKill, TypeOK, DaemonTypes
    <3> QED BY <3>1, <3>2 DEF StartConfirm, StopSeenGone, StopKill, runVars
  <2> QED BY <2>1, <2>2, <2>3 DEF WaitedFor
<1>9. CommandKnows'
  BY <1>2, <1>5, <1>6 DEF CommandKnows
<1> QED BY <1>7, <1>8, <1>9 DEF Daemonic

\* Commands keep every undisturbed daemon known.
LEMMA CommandStep ==
  ASSUME DaemonInv, NEW s \in Slots, Command(s)
  PROVE  CompanyKept' /\ Daemonic'
<1> USE DEF DaemonInv
<1>1. CompanyKept'
  <2>1. \E to : Goto(s, to)
    BY DEF Command, StartConfig, StartReadPid, StartCleanup, StartSpawn, StartConfirm,
       StopRead, StopSeenGone, StopKill, StopUnlink, StopCleanup, StopDone, Done
  <2> QED BY <2>1, CompanyStep
<1>2. CASE StartConfig(s)
  <2>1. PICK to \in {"idle", "readPid"} : Goto(s, to)
    BY <1>2 DEF StartConfig, Done
  <2>2. \A t \in Slots : t # s => pid'[t] = pid[t]
    BY <1>2 DEF StartConfig, Done, TypeOK, CommandTypes
  <2> QED BY <1>1, <1>2, <2>1, <2>2, CommandPasses DEF StartConfig, runVars
<1>3. CASE StartCleanup(s)
  <2>1. \A d \in Daemons : ~Undisturbed(d)'
    BY <1>3, DisturbedStays DEF StartCleanup, CommandKnows, Undisturbed, Alive
  <2> QED BY <1>1, <1>3, <2>1, CommandPasses DEF StartCleanup
<1>4. CASE StopUnlink(s)
  <2>1. \A d \in Daemons : ~Undisturbed(d) /\ ~Undisturbed(d)'
    BY <1>4, DisturbedStays DEF StopUnlink, CommandKnows, Undisturbed, Alive
  <2> QED BY <1>1, <1>4, <2>1, CommandPasses DEF StopUnlink
<1>5. CASE StopCleanup(s)
  <2>1. PICK to \in {"idle", "config"} : Goto(s, to)
    BY <1>5 DEF StopCleanup, StopDone, Done
  <2>2. \A t \in Slots : t # s => pid'[t] = pid[t]
    BY <1>5 DEF StopCleanup, StopDone, Done, TypeOK, CommandTypes
  <2> QED BY <1>1, <1>5, <2>1, <2>2, CommandPasses DEF StopCleanup
<1> QED
  BY <1>1, <1>2, <1>3, <1>4, <1>5, ReadStep, SpawnStep, WaitStep DEF Command

\* Requests only begin a command, and the monitor leaves daemons and commands alone.
LEMMA RequestStep ==
  ASSUME DaemonInv,
         \/ SaveSettings \/ MonitorStart \/ MonitorStop \/ MonitorReadConfig \/ MonitorCheck
         \/ \E s \in Slots : RequestStart(s) \/ RequestStop(s) \/ Reconfigure(s)
                               \/ MonitorRestart(s)
         \/ UNCHANGED vars
  PROVE  CompanyKept' /\ Daemonic'
<1> USE DEF DaemonInv, cmdVars, runVars
<1>1. CASE UNCHANGED <<daemon, pidFile, at, pid, term, company, raced>>
  BY <1>1 DEF CompanyKept, Daemonic, LiveKnown, WaitedFor, CommandKnows, Undisturbed,
     Disturbed, Alive
<1>2. ASSUME NEW s \in Slots, NEW c, NEW to \in {"config", "readPid", "stopRead"},
             Begin(s, c, to)
      PROVE  CompanyKept' /\ Daemonic'
  BY <1>2, CompanyStep, CommandPasses DEF Begin
<1> QED
  BY <1>1, <1>2 DEF SaveSettings, MonitorStart, MonitorStop, MonitorReadConfig, MonitorCheck,
     RequestStart, RequestStop, Reconfigure, MonitorRestart, vars

\* The daemons' own steps.
LEMMA DaemonsStep ==
  ASSUME DaemonInv, NEW d \in Daemons, DaemonStep(d) \/ Crash(d)
  PROVE  CompanyKept' /\ Daemonic'
<1> USE DEF DaemonInv
<1>1. PICK from \in {"init", "ready", "up", "unstate", "unpid"},
           to \in {"ready", "up", "unstate", "unpid", "dead"} :
        Daemon(d, from, to) /\ from # to
  BY DEF DaemonStep, WritePid, BringUp, SetupFails, ExitDestroy, ExitState, ExitPid, Crash
<1>2. /\ daemon[d] = from /\ daemon'[d] = to
      /\ \A e \in Daemons : e # d => daemon'[e] = daemon[e]
      /\ term' = IF to = "dead" THEN term \ {d} ELSE term
      /\ UNCHANGED <<at, pid, company, raced>>
  BY <1>1 DEF Daemon, cmdVars, TypeOK, DaemonTypes
<1>3. \A e \in Daemons : Undisturbed(e)' => Undisturbed(e)
  BY <1>2 DEF Undisturbed, Disturbed, Alive
<1>4. CompanyKept' /\ CommandKnows'
  BY <1>2, <1>3 DEF CompanyKept, CommandKnows
<1>5. WaitedFor'
  <2>1. \A e \in Daemons : daemon'[e] = "init"
          => \E t \in Slots : at'[t] = "confirm" /\ pid'[t] = e
    BY <1>2 DEF WaitedFor
  <2>2. \A e \in term' : Alive(e)' /\ \E t \in Slots : at'[t] = "stopWait" /\ pid'[t] = e
    BY <1>2 DEF WaitedFor, Alive, TypeOK, DaemonTypes
  <2>3. \A e \in Daemons : daemon'[e] \in {"unstate", "unpid"} => e \in term'
    <3>1. to \in {"unstate", "unpid"} => d \in term
      <4>1. CASE ExitDestroy(d) BY <4>1 DEF ExitDestroy
      <4>2. CASE ExitState(d) BY <4>2 DEF ExitState, Daemon, WaitedFor
      <4>3. CASE WritePid(d) \/ BringUp(d)
        BY <1>2, <4>3 DEF WritePid, BringUp, Daemon, TypeOK, DaemonTypes
      <4>4. CASE SetupFails(d) \/ ExitPid(d) \/ Crash(d)
        BY <1>2, <4>4 DEF SetupFails, ExitPid, Crash, Daemon, TypeOK, DaemonTypes
      <4> QED BY <4>1, <4>2, <4>3, <4>4 DEF DaemonStep
    <3> QED BY <1>2, <3>1 DEF WaitedFor
  <2> QED BY <2>1, <2>2, <2>3 DEF WaitedFor
<1>6. ASSUME NEW e \in Daemons, Undisturbed(e), pidFile' # pidFile PROVE e = d
  <2>1. WritePid(d) \/ ExitPid(d)
    BY <1>6 DEF DaemonStep, BringUp, SetupFails, ExitDestroy, ExitState, Crash
  <2>2. PICK t \in Slots : at[t] \in {"confirm", "stopWait"} /\ pid[t] = d
    BY <2>1 DEF WritePid, ExitPid, Daemon, WaitedFor
  <2> QED BY <1>6, <2>2 DEF CommandKnows
<1>7. LiveKnown'
  <2> SUFFICES ASSUME NEW e \in Daemons, Undisturbed(e)', daemon'[e] # "init"
               PROVE  pidFile' = e
    BY DEF LiveKnown
  <2>1. CASE WritePid(d)
    BY <1>2, <1>3, <1>6, <2>1 DEF WritePid, LiveKnown
  <2>2. CASE ~WritePid(d)
    <3>1. e = d => daemon[e] # "init" /\ ~ExitPid(d)
      <4>1. e = d => to # "dead"
        BY <1>2 DEF Undisturbed, Alive
      <4>2. ~WritePid(d) /\ ~ExitPid(d) /\ to # "dead" => from # "init"
        BY <1>2 DEF DaemonStep, BringUp, SetupFails, ExitDestroy, ExitState, Crash, Daemon,
           TypeOK, DaemonTypes
      <4>3. ExitPid(d) => to = "dead"
        BY <1>2 DEF ExitPid, Daemon, TypeOK, DaemonTypes
      <4> QED BY <1>2, <2>2, <4>1, <4>2, <4>3
    <3>2. daemon[e] # "init"
      BY <1>2, <3>1
    <3>3. pidFile = e
      BY <1>3, <3>2 DEF LiveKnown
    <3>4. pidFile' = pidFile
      <4>1. pidFile' # pidFile => e = d /\ ExitPid(d)
        BY <1>3, <1>6, <2>2 DEF DaemonStep, BringUp, SetupFails, ExitDestroy, ExitState, Crash
      <4> QED BY <3>1, <4>1
    <3> QED BY <3>3, <3>4
  <2> QED BY <2>1, <2>2
<1> QED BY <1>4, <1>5, <1>7 DEF Daemonic

\* The inductive invariant.
LEMMA DaemonInvariant == Spec => []DaemonInv
<1>1. Init => CompanyKept /\ Daemonic
  BY DEF Init, CompanyKept, Daemonic, LiveKnown, WaitedFor, CommandKnows, Undisturbed,
     Alive, Starting
<1>2. ASSUME DaemonInv, [Next]_vars PROVE DaemonInv'
  <2>1. TypeOK' BY <1>2, TypeStep DEF DaemonInv
  <2>2. CompanyKept' /\ Daemonic'
    BY <1>2, CommandStep, RequestStep, DaemonsStep DEF Next, Monitor
  <2> QED BY <2>1, <2>2 DEF DaemonInv, Daemonic
<1>3. Init => DaemonInv
  BY <1>1, InitTypes DEF DaemonInv, Daemonic
<1> QED
  BY <1>2, <1>3, PTL DEF Spec

-----------------------------------------------------------------------------
(* What follows *)

\* Of two daemons that live at the same time one at least comes from a start that had
\* company.
LEMMA OneUndisturbed ==
  ASSUME DaemonInv, NEW d \in Daemons, NEW e \in Daemons, Undisturbed(d), Undisturbed(e)
  PROVE  d = e
BY DEF DaemonInv, LiveKnown, WaitedFor, CommandKnows

\* Two daemons of one connection are the work of overlapping commands: exits, crashes,
\* restarts and the monitor's answers to them never lead to a second one by themselves.
THEOREM SingleInstance == Spec => []OneInstance
<1>1. DaemonInv => OneInstance
  BY OneUndisturbed DEF OneInstance, Undisturbed
<1> QED BY <1>1, DaemonInvariant, PTL

\* A serving daemon whose start had no company is always in the reach of status and
\* stop, whatever overlaps there are before, beside and after it.
THEOREM NoDaemonOrphaned == Spec => []NoOrphan
<1>1. DaemonInv => NoOrphan
  BY DEF DaemonInv, LiveKnown, NoOrphan, Undisturbed, Alive
<1> QED BY <1>1, DaemonInvariant, PTL

\* No cleanup, and no exit of another daemon, takes the interface of such a daemon away.
THEOREM LiveInterfaceKept == Spec => OnlyOrphansDestroyed
<1> DEFINE Kept == \A d \in Daemons :
                     iface = d /\ iface' = 0 /\ daemon'[d] = daemon[d] => ~Undisturbed(d)
<1>1. ASSUME DaemonInv, [Next]_vars PROVE [Kept]_vars
  <2> USE LifecycleBounds
  <2>1. ASSUME NEW s \in Slots, Command(s) PROVE Kept
    <3>1. at[s] \in {"cleanup", "stopCleanup"} \/ iface' = iface
      BY <2>1 DEF Command, StartConfig, StartReadPid, StartCleanup, StartSpawn, StartConfirm,
         StopRead, StopSeenGone, StopKill, StopUnlink, StopCleanup, runVars
    <3> QED BY <1>1, <3>1 DEF DaemonInv, CommandKnows
  <2>2. ASSUME NEW d \in Daemons, DaemonStep(d) \/ Crash(d) PROVE Kept
    <3>1. CASE ExitDestroy(d)
      <4>1. PICK t \in Slots : at[t] = "stopWait" /\ pid[t] = d
        BY <1>1, <3>1 DEF ExitDestroy, DaemonInv, WaitedFor
      <4>2. \A e \in Daemons : Undisturbed(e) => e = d
        BY <1>1, <4>1 DEF DaemonInv, CommandKnows
      <4>3. daemon'[d] # daemon[d]
        BY <1>1, <3>1 DEF ExitDestroy, Daemon, DaemonInv, TypeOK, DaemonTypes
      <4> QED BY <4>2, <4>3
    <3>2. CASE BringUp(d)
      BY <3>2 DEF BringUp
    <3>3. CASE UNCHANGED iface
      BY <3>3
    <3> QED
      BY <2>2, <3>1, <3>2, <3>3 DEF DaemonStep, WritePid, SetupFails, ExitState, ExitPid, Crash
  <2>3. ASSUME \/ SaveSettings \/ MonitorStart \/ MonitorStop \/ MonitorReadConfig
               \/ MonitorCheck
               \/ \E s \in Slots : RequestStart(s) \/ RequestStop(s) \/ Reconfigure(s)
                                     \/ MonitorRestart(s)
        PROVE  Kept
    BY <2>3 DEF SaveSettings, MonitorStart, MonitorStop, MonitorReadConfig, MonitorCheck,
       RequestStart, RequestStop, Reconfigure, MonitorRestart, Begin, runVars
  <2> QED BY <1>1, <2>1, <2>2, <2>3 DEF Next, Monitor
<1> QED BY <1>1, DaemonInvariant, PTL DEF Spec, OnlyOrphansDestroyed

\* When the stop part of a command ends, whether or not it has found a process to end,
\* the only daemons left are of starts that had company.
THEOREM StopEndsDaemon == Spec => StopLeavesNone
<1> DEFINE None == \A s \in Slots :
                     at[s] \in {"stopRead", "stopCleanup"} /\ at'[s] \in {"idle", "config"}
                       => \A d \in Daemons : ~Undisturbed(d)
<1>1. ASSUME DaemonInv, [Next]_vars PROVE [None]_vars
  <2> SUFFICES ASSUME NEW s \in Slots, NEW d \in Daemons, Undisturbed(d),
                      at[s] \in {"stopRead", "stopCleanup"}, at'[s] \in {"idle", "config"}
               PROVE  FALSE
    OBVIOUS
  <2>1. at[s] = "stopRead"
    BY <1>1 DEF DaemonInv, CommandKnows
  <2>2. \A t \in Slots : at[t] = "confirm" => pid[t] # d
    <3> SUFFICES ASSUME NEW t \in Slots, at[t] = "confirm", pid[t] = d PROVE FALSE
      OBVIOUS
    <3>1. t \in company
      BY <1>1, <2>1 DEF DaemonInv, CompanyKept, Starting, Acting
    <3> QED BY <3>1 DEF Undisturbed, Disturbed
  <2>3. pidFile = d
    BY <1>1, <2>2, UnseenIsWaitedFor
  <2>4. StopRead(s)
    <3>1. ASSUME NEW t \in Slots, Command(t), t # s PROVE at'[s] = at[s]
      BY <1>1, <3>1 DEF Command, StartConfig, StartReadPid, StartCleanup, StartSpawn,
         StartConfirm, StopRead, StopSeenGone, StopKill, StopUnlink, StopCleanup, StopDone,
         Done, Goto, DaemonInv, TypeOK, CommandTypes
    <3>2. Command(s) => StopRead(s)
      BY <2>1 DEF Command, StartConfig, StartReadPid, StartCleanup, StartSpawn,
         StartConfirm, StopSeenGone, StopKill, StopUnlink, StopCleanup
    <3>3. ASSUME NEW t \in Slots, NEW c, NEW to, Begin(t, c, to) PROVE at'[s] = at[s]
      BY <1>1, <2>1, <3>3 DEF Begin, Goto, DaemonInv, TypeOK, CommandTypes
    <3>4. ASSUME NEW e \in Daemons, DaemonStep(e) \/ Crash(e) PROVE at' = at
      BY <3>4 DEF DaemonStep, WritePid, BringUp, SetupFails, ExitDestroy, ExitState,
         ExitPid, Crash, Daemon, cmdVars
    <3>5. at'[s] # at[s]
      BY <2>1
    <3> QED
      BY <1>1, <3>1, <3>2, <3>3, <3>4, <3>5 DEF Next, Monitor, SaveSettings, MonitorStart,
         MonitorStop, MonitorReadConfig, MonitorCheck, RequestStart, RequestStop,
         Reconfigure, MonitorRestart, cmdVars, vars
  <2>5. at'[s] = "stopWait"
    BY <1>1, <2>3, <2>4, LifecycleBounds DEF StopRead, IsRunning, Undisturbed, Goto,
       DaemonInv, TypeOK, CommandTypes
  <2> QED BY <2>5
<1> QED BY <1>1, DaemonInvariant, PTL DEF Spec, StopLeavesNone

\* The monitor never reports a failure twice in a row.  This needs no assumption
\* on the commands.
THEOREM FailureNotRepeated == Spec => FailureReportedOnce
<1>1. Init => NoticeShape
  BY DEF Init, NoticeShape
<1>2. ASSUME TypeOK, NoticeShape, [Next]_vars
      PROVE  NoticeShape' /\ [mon = "check" /\ mon' = "restart" /\ notice' = "failure"
                                => notice # "failure"]_vars
  <2> USE DEF NoticeShape
  <2>1. CASE MonitorCheck
    <3>1. was \in {"none", "up", "down"}
      BY <1>2 DEF TypeOK, MonitorTypes
    <3>2. was' = "up" => notice' # "failure"
      BY <1>2, <2>1, <3>1 DEF MonitorCheck
    <3>3. was' = "none" => notice' = "none"
      BY <1>2, <2>1 DEF MonitorCheck
    <3>4. mon' = "restart" /\ notice' = "failure" => notice # "failure"
      BY <1>2, <2>1 DEF MonitorCheck
    <3> QED BY <3>2, <3>3, <3>4
  <2>2. CASE MonitorStart BY <2>2 DEF MonitorStart
  <2>3. CASE UNCHANGED <<was, notice>> /\ ~(mon = "check" /\ mon' = "restart")
    BY <1>2, <2>3
  <2>4. ASSUME NEW s \in Slots, Command(s) PROVE UNCHANGED <<was, notice>> /\ mon' \in {mon, "sleep"}
    BY <2>4 DEF Command, StartConfig, StartReadPid, StartCleanup, StartSpawn, StartConfirm,
       StopRead, StopSeenGone, StopKill, StopUnlink, StopCleanup, StopDone, Done, monVars
  <2>5. ASSUME NEW d \in Daemons, DaemonStep(d) \/ Crash(d) PROVE UNCHANGED <<was, notice, mon>>
    BY <2>5 DEF DaemonStep, WritePid, BringUp, SetupFails, ExitDestroy, ExitState,
       ExitPid, Crash, Daemon, monVars
  <2>6. ASSUME \/ SaveSettings \/ MonitorStop \/ MonitorReadConfig \/ UNCHANGED vars
               \/ \E s \in Slots : RequestStart(s) \/ RequestStop(s) \/ Reconfigure(s)
                                     \/ MonitorRestart(s)
        PROVE  UNCHANGED <<was, notice>> /\ ~(mon = "check" /\ mon' = "restart")
    BY <2>6 DEF SaveSettings, MonitorStop, MonitorReadConfig, RequestStart, RequestStop,
       Reconfigure, MonitorRestart, Begin, monVars, vars
  <2> QED BY <1>2, <2>1, <2>2, <2>3, <2>4, <2>5, <2>6 DEF Next, Monitor
<1> QED BY <1>1, <1>2, TypeCorrect, PTL DEF Spec, FailureReportedOnce

-----------------------------------------------------------------------------
(* Refinement of DaemonContract *)

Live == {d \in Daemons : Undisturbed(d)}

\* Where no undisturbed daemon is left, the contract allows the step.
LEMMA Fade ==
  ASSUME Live' = {}, KnownPid' \in {KnownPid, 0}
  PROVE  Contract!Next \/ UNCHANGED <<Live, KnownPid>>
<1>1. CASE Live = {}
  BY <1>1 DEF Live, Contract!Next, Contract!Forget
<1>2. CASE Live # {}
  <2>1. Contract!End
    BY <1>2 DEF Live, Contract!End
  <2> QED BY <2>1 DEF Contract!Next
<1> QED BY <1>1, <1>2

\* A command that goes on, with daemons and PID file as they are: either nothing changes
\* or the daemon that it meets becomes a disturbed one.
LEMMA GotoRefines ==
  ASSUME DaemonInv, NEW s \in Slots, NEW to, to # "confirm", Goto(s, to),
         \A t \in Slots : t # s => pid'[t] = pid[t], UNCHANGED <<daemon, pidFile>>
  PROVE  Contract!Next \/ UNCHANGED <<Live, KnownPid>>
<1>1. \A d : Disturbed(d) => Disturbed(d)'
  BY DisturbedStays DEF DaemonInv
<1>2. KnownPid' \in {KnownPid, 0} /\ Live' \subseteq Live
  BY <1>1 DEF KnownPid, Live, Undisturbed, Alive
<1>3. CASE \A d : Disturbed(d)' => Disturbed(d)
  BY <1>1, <1>3 DEF KnownPid, Live, Undisturbed, Alive
<1>4. ASSUME NEW d, Disturbed(d)', ~Disturbed(d) PROVE Live' = {}
  <2>1. PICK t \in Slots : at[t] = "confirm" /\ pid[t] = d
    BY <1>4, NewlyDisturbed DEF DaemonInv
  <2>2. \A e \in Daemons : Undisturbed(e) => e = d
    BY <2>1 DEF DaemonInv, CommandKnows
  <2> QED BY <1>2, <1>4, <2>2 DEF Live, Undisturbed
<1> QED BY <1>2, <1>3, <1>4, Fade

\* The spawn: of a daemon that has company, or where no other one lives.
LEMMA SpawnRefines ==
  ASSUME DaemonInv, NEW s \in Slots, StartSpawn(s)
  PROVE  Contract!Next \/ UNCHANGED <<Live, KnownPid>>
<1> USE DEF DaemonInv
<1>1. PICK d \in Daemons : /\ daemon' = [daemon EXCEPT ![d] = "init"]
                           /\ pid' = [pid EXCEPT ![s] = d]
  BY DEF StartSpawn, Unborn
<1>2. at[s] = "spawn" /\ Goto(s, "confirm") /\ UNCHANGED pidFile
  BY DEF StartSpawn
<1>3. /\ \A t \in Slots : t # s => at'[t] = at[t] /\ pid'[t] = pid[t]
      /\ at'[s] = "confirm" /\ pid'[s] = d /\ daemon'[d] = "init"
      /\ \A e \in Daemons : e # d => daemon'[e] = daemon[e]
  BY <1>1, <1>2 DEF Goto, TypeOK, CommandTypes, DaemonTypes
<1>4. \A e : Disturbed(e) => Disturbed(e)'
  BY <1>2, <1>3, DisturbedStays
<1>5. Live = {} /\ KnownPid' \in {KnownPid, 0}
  BY <1>2, <1>4 DEF Live, KnownPid, CommandKnows
<1>6. ASSUME NEW e \in Live' PROVE e = d
  <2>1. e \in Daemons /\ Undisturbed(e)'
    BY <1>6 DEF Live
  <2>2. e # d => Undisturbed(e)
    BY <1>3, <1>4, <2>1 DEF Undisturbed, Alive
  <2> QED BY <1>5, <2>1, <2>2 DEF Live
<1>7. CASE Live' = {}
  BY <1>5, <1>7, Fade
<1>8. CASE Live' # {}
  <2>1. Live' = {d} /\ ~Disturbed(d)'
    BY <1>6, <1>8 DEF Live, Undisturbed
  <2>2. s \notin company'
    BY <1>3, <2>1 DEF Disturbed
  <2>3. s \notin company
    BY <1>2, <2>2 DEF Goto, Acting, Starting
  <2>4. \A t \in Slots : t # s => at[t] # "confirm"
    BY <1>2, <2>3 DEF CompanyKept, Starting, Acting
  <2>5. \A e : Disturbed(e)' => Disturbed(e)
    <3> SUFFICES ASSUME NEW e, Disturbed(e)' PROVE Disturbed(e)
      OBVIOUS
    <3>1. CASE e \in raced'
      BY <1>2, <3>1 DEF Goto, Disturbed
    <3>2. ASSUME NEW t \in company', at'[t] = "confirm", pid'[t] = e PROVE FALSE
      <4>1. t \in Slots /\ t # s
        BY <1>2, <2>2, <3>2, GotoTypes
      <4> QED BY <1>3, <2>4, <3>2, <4>1
    <3> QED BY <3>1, <3>2 DEF Disturbed
  <2>6. KnownPid' = KnownPid
    BY <1>2, <1>4, <2>5 DEF KnownPid
  <2>7. Contract!Spawn
    BY <1>5, <2>1, <2>6 DEF Live, Contract!Spawn
  <2> QED BY <2>7 DEF Contract!Next
<1> QED BY <1>7, <1>8

\* The commands.
LEMMA CommandRefines ==
  ASSUME DaemonInv, NEW s \in Slots, Command(s)
  PROVE  Contract!Next \/ UNCHANGED <<Live, KnownPid>>
<1> USE DEF DaemonInv
<1>1. CASE StopKill(s)
  <2>1. \A d : Disturbed(d) => Disturbed(d)'
    BY <1>1, DisturbedStays DEF StopKill
  <2>2. KnownPid' \in {KnownPid, 0}
    BY <1>1, <2>1 DEF KnownPid, StopKill
  <2>3. \A d \in Daemons : ~Undisturbed(d)'
    BY <1>1, <2>1 DEF StopKill, CommandKnows, Undisturbed, Alive, TypeOK, DaemonTypes
  <2> QED BY <2>2, <2>3, Fade DEF Live
<1>2. CASE StopUnlink(s)
  <2>1. KnownPid' = 0
    BY <1>2 DEF StopUnlink, KnownPid
  <2>2. \A d \in Daemons : ~Undisturbed(d)'
    BY <1>2, DisturbedStays DEF StopUnlink, CommandKnows, Undisturbed, Alive
  <2> QED BY <2>1, <2>2, Fade DEF Live
<1>3. CASE \/ StartConfig(s) \/ StartReadPid(s) \/ StartCleanup(s) \/ StartConfirm(s)
           \/ StopRead(s) \/ StopSeenGone(s) \/ StopCleanup(s)
  <2>1. PICK to : to # "confirm" /\ Goto(s, to)
    BY <1>3 DEF StartConfig, StartReadPid, StartCleanup, StartConfirm, StopRead,
       StopSeenGone, StopCleanup, StopDone, Done
  <2>2. \A t \in Slots : t # s => pid'[t] = pid[t]
    BY <1>3 DEF StartConfig, StartReadPid, StartCleanup, StartConfirm, StopRead,
       StopSeenGone, StopCleanup, StopDone, Done, TypeOK, CommandTypes
  <2>3. UNCHANGED <<daemon, pidFile>>
    BY <1>3 DEF StartConfig, StartReadPid, StartCleanup, StartConfirm, StopRead,
       StopSeenGone, StopCleanup, runVars
  <2> QED BY <2>1, <2>2, <2>3, GotoRefines
<1> QED
  BY <1>1, <1>2, <1>3, SpawnRefines DEF Command

\* The daemon.
LEMMA DaemonRefines ==
  ASSUME DaemonInv, NEW d \in Daemons, DaemonStep(d) \/ Crash(d)
  PROVE  Contract!Next \/ UNCHANGED <<Live, KnownPid>>
<1> USE DEF DaemonInv
<1>1. PICK from \in {"init", "ready", "up", "unstate", "unpid"},
           to \in {"ready", "up", "unstate", "unpid", "dead"} : Daemon(d, from, to)
  BY DEF DaemonStep, WritePid, BringUp, SetupFails, ExitDestroy, ExitState, ExitPid, Crash
<1>2. /\ daemon[d] = from /\ daemon'[d] = to
      /\ \A e \in Daemons : e # d => daemon'[e] = daemon[e]
      /\ UNCHANGED <<at, pid, company, raced>>
  BY <1>1 DEF Daemon, cmdVars, TypeOK, DaemonTypes
<1>3. \A e : Disturbed(e)' <=> Disturbed(e)
  BY <1>2 DEF Disturbed
<1>4. Live' = IF to = "dead" THEN Live \ {d} ELSE Live
  BY <1>2, <1>3 DEF Live, Undisturbed, Alive
<1>5. ASSUME NEW t \in Slots, at[t] \in {"confirm", "stopWait"}, pid[t] = d
      PROVE  Live \subseteq {d}
  BY <1>5 DEF CommandKnows, Live
<1>6. CASE WritePid(d)
  <2>1. daemon[d] = "init" /\ pidFile' = d /\ to = "ready"
    BY <1>2, <1>6 DEF WritePid, Daemon, TypeOK, DaemonTypes
  <2>2. Live \subseteq {d}
    BY <1>5, <2>1 DEF WaitedFor
  <2>3. CASE Disturbed(d)
    <3>1. Live' = {} /\ KnownPid' = 0
      BY <1>3, <1>4, <2>1, <2>2, <2>3 DEF Live, Undisturbed, KnownPid
    <3> QED BY <3>1, Fade
  <2>4. CASE ~Disturbed(d)
    <3>1. KnownPid' = d /\ d \in Live /\ Live' = Live
      BY <1>2, <1>3, <1>4, <2>1, <2>4 DEF KnownPid, Live, Undisturbed, Alive
    <3>2. Contract!Record
      BY <3>1 DEF Contract!Record, Live
    <3> QED BY <3>2 DEF Contract!Next
  <2> QED BY <2>3, <2>4
<1>7. CASE ExitPid(d)
  <2>1. Live \subseteq {d}
    BY <1>5, <1>7 DEF ExitPid, Daemon, WaitedFor
  <2>2. Live' = {} /\ KnownPid' = 0
    BY <1>2, <1>4, <1>7, <2>1 DEF ExitPid, Daemon, KnownPid, TypeOK, DaemonTypes
  <2> QED BY <2>2, Fade
<1>8. CASE pidFile' = pidFile
  <2>1. KnownPid' = KnownPid
    BY <1>3, <1>8 DEF KnownPid
  <2>2. Live' = Live \/ Live' = {}
    BY <1>4, OneUndisturbed DEF Live
  <2> QED BY <2>1, <2>2, Fade
<1> QED
  BY <1>6, <1>7, <1>8 DEF DaemonStep, Crash, BringUp, SetupFails, ExitDestroy, ExitState

\* Commands, daemons and monitor implement the contract for every daemon whose start
\* had no company, without any condition on how the commands overlap.
THEOREM Refinement == Spec => ImplementsContract
<1>1. Init => Contract!Init
  BY DEF Init, Contract!Init, Undisturbed, Alive, KnownPid
<1>2. ASSUME DaemonInv, [Next]_vars PROVE [Contract!Next]_<<Live, KnownPid>>
  <2>1. CASE UNCHANGED <<daemon, pidFile, at, pid, company, raced>>
    BY <2>1 DEF Live, KnownPid, Undisturbed, Disturbed, Alive
  <2>2. ASSUME NEW s \in Slots, Command(s)
        PROVE  Contract!Next \/ UNCHANGED <<Live, KnownPid>>
    BY <1>2, <2>2, CommandRefines
  <2>3. ASSUME NEW d \in Daemons, DaemonStep(d) \/ Crash(d)
        PROVE  Contract!Next \/ UNCHANGED <<Live, KnownPid>>
    BY <1>2, <2>3, DaemonRefines
  <2>4. ASSUME NEW s \in Slots, NEW c, NEW to \in {"config", "readPid", "stopRead"},
               Begin(s, c, to)
        PROVE  Contract!Next \/ UNCHANGED <<Live, KnownPid>>
    BY <1>2, <2>4, GotoRefines DEF Begin, runVars
  <2> QED
    BY <1>2, <2>1, <2>2, <2>3, <2>4 DEF Next, Monitor, SaveSettings, MonitorStart,
       MonitorStop, MonitorReadConfig, MonitorCheck, RequestStart, RequestStop,
       Reconfigure, MonitorRestart, cmdVars, runVars, vars
<1> QED
  BY <1>1, <1>2, DaemonInvariant, PTL
     DEF Spec, ImplementsContract, Contract!Spec, Live

=============================================================================
