--------------------------- MODULE DaemonContract ---------------------------
(***************************************************************************)
(* What the daemon processes of one connection and its PID file promise to *)
(* the commands, which know the daemon by that file alone (_read_pid,      *)
(* _is_running).  ServiceLifecycle and WarpDaemon, which look at the same  *)
(* processes with different eyes, both implement it.                       *)
(***************************************************************************)
EXTENDS Integers

VARIABLES
  live,    \* the processes that run
  pidFile  \* the process id in the PID file, 0 if there is none

Init == live = {} /\ pidFile = 0

\* A daemon is spawned only where none runs; a stale PID file may still be there.
Spawn ==
  /\ live = {}
  /\ \E d \in live' : live' = {d}
  /\ UNCHANGED pidFile

\* The daemon that runs writes its own id.
Record ==
  /\ pidFile' \in live
  /\ UNCHANGED live

\* It ends, in order, when it removes the file, or not.
End ==
  /\ live # {} /\ live' = {}
  /\ pidFile' \in {pidFile, 0}

\* A command removes the file of a daemon that is gone.
Forget ==
  /\ live = {}
  /\ pidFile' = 0
  /\ UNCHANGED live

Next == Spawn \/ Record \/ End \/ Forget

Spec == Init /\ [][Next]_<<live, pidFile>>

=============================================================================
