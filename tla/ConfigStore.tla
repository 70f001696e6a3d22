---------------------------- MODULE ConfigStore ----------------------------
(***************************************************************************)
(* What _update_config_xml and the web GUI promise of config.xml: a save   *)
(* takes effect at once, on top of all earlier ones, it is reported as     *)
(* done only after that, and a connection that a save deletes stays away.  *)
(* Only while processes work on config.xml that take no notice of each     *)
(* other (calm is FALSE) anything may become of it: what was on record is  *)
(* then off it.                                                            *)
(***************************************************************************)
CONSTANTS Saves, Conns

VARIABLES
  config,   \* the saves that config.xml shows, and the connections that it has
  acked,    \* the saves on record as done
  deleted,  \* the connections on record as deleted
  calm      \* no processes are at work that can undo each other

vars == <<config, acked, deleted, calm>>

Configs == [done : SUBSET Saves, conns : SUBSET Conns]

Init ==
  /\ config = [done |-> {}, conns |-> Conns]
  /\ acked = {} /\ deleted = {} /\ calm = TRUE

\* Save n, which deletes the connections D.  An update deletes none.
Save(n, D) ==
  /\ config \in Configs
  /\ config' = [done |-> config.done \cup {n}, conns |-> config.conns \ D]
  /\ UNCHANGED <<acked, deleted>>

Report(n) ==
  /\ config \in Configs
  /\ n \in config.done
  /\ acked' = acked \cup {n}
  /\ deleted' \in {deleted, Conns \ config.conns}
  /\ UNCHANGED config

\* Processes that overlap undo what they write, or leave what nobody can parse.
Scramble ==
  /\ ~calm
  /\ acked' = {} /\ deleted' = {}

Next ==
  /\ calm' \in BOOLEAN
  /\ \/ \E n \in Saves : Report(n) \/ \E D \in SUBSET Conns : Save(n, D)
     \/ Scramble
     \/ UNCHANGED <<config, acked, deleted>>

Spec == Init /\ [][Next]_vars

=============================================================================
