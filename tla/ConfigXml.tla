----------------------------- MODULE ConfigXml -----------------------------
(***************************************************************************)
(* _update_config_xml of warp.py and the saves of the web GUI, which share *)
(* config.xml.  An update opens config.xml, locks what it has opened,      *)
(* parses config.xml by its name, and replaces it by a temporary file.     *)
(* flock locks a file, not a name: after a replacement the lock of the old *)
(* file keeps nobody away from the new one.  Two processes that meet so    *)
(* between reading config.xml and writing it have crossed: each can undo,  *)
(* or tear, what the other writes.  History variables name the processes   *)
(* that have, and what no such process has written over.                   *)
(*                                                                         *)
(* A content of config.xml is the set of saves that it shows and the set   *)
(* of connections that it has.  The GUI is OPNsense's, not this plugin's,  *)
(* and is modelled at its best: it takes the lock of the file that is      *)
(* config.xml at that moment, reads and writes it in place, and does not   *)
(* die meanwhile.                                                          *)
(***************************************************************************)
EXTENDS TempFile, Integers

CONSTANTS
  Updaters, Gui,  \* processes
  Conns,          \* connections (their UUIDs)
  MaxSaves        \* bound: updates and GUI saves

Saves == 0..MaxSaves   \* 0 stands for no save
Configs == [done : SUBSET Saves, conns : SUBSET Conns]

ASSUME ConfigWriters == Writers = Updaters \cup {Gui} /\ Gui \notin Updaters
ASSUME ConfigContents == Contents = Configs
ASSUME ConfigBounds == MaxSaves \in Nat

VARIABLES
  gen,      \* how often config.xml has been replaced: which file it is by now
  opened,   \* opened[w]: the gen of the file that w has open as config.xml
  locked,   \* the processes that hold the lock of what they have open
  pc,       \* pc[w]: where process w is
  target,   \* target[u]: the connection that u updates
  id,       \* id[w]: the number of the save that w is at
  data,     \* data[w]: what w has parsed, with its own changes
  saves,    \* saves begun so far
  acked,    \* history: the saves that were reported as done
  deleted,  \* history: the connections that were reported as deleted
  crossed,  \* history: the processes that have crossed another one
  kept,     \* history: acked, but for what a process that crossed may have undone
  gone      \* history: deleted, but for the same

lockVars == <<gen, opened, locked>>
procVars == <<pc, target, id, data>>
histories == <<acked, deleted, crossed, kept, gone>>
vars == <<fileVars, lockVars, procVars, saves, histories>>

Whole == [done |-> {}, conns |-> Conns]

TypeOK ==
  /\ FileTypes
  /\ gen \in Nat /\ opened \in [Writers -> Nat] /\ locked \subseteq Writers
  /\ \A w \in locked : pc[w] # "idle"
  /\ pc \in [Writers -> {"idle", "open", "lock", "parse", "temp", "write", "replace", "unlock"}]
  /\ target \in [Updaters -> Conns]
  /\ id \in [Writers -> Saves] /\ saves \in Saves
  /\ data \in [Writers -> Configs]
  /\ acked \subseteq Saves /\ deleted \subseteq Conns /\ crossed \subseteq Writers
  /\ kept \subseteq Saves /\ gone \subseteq Conns

Init ==
  /\ file = Whole /\ tmp = Absent
  /\ handle = [w \in Writers |-> "none"]
  /\ gen = 0 /\ opened = [w \in Writers |-> 0] /\ locked = {}
  /\ pc = [w \in Writers |-> "idle"]
  /\ target \in [Updaters -> Conns]
  /\ id = [w \in Writers |-> 0] /\ saves = 0
  /\ data = [w \in Writers |-> Whole]
  /\ acked = {} /\ deleted = {} /\ crossed = {} /\ kept = {} /\ gone = {}

-----------------------------------------------------------------------------
Goto(w, to) == pc' = [pc EXCEPT ![w] = to]

\* A new save gets the next number.
Number(w) ==
  /\ saves < MaxSaves
  /\ saves' = saves + 1
  /\ id' = [id EXCEPT ![w] = saves + 1]

\* Nobody else holds the lock of file g.
Free(g) == \A q \in locked : opened[q] # g

\* The process closes what it has open, which releases its lock.
Leave(w) ==
  /\ Goto(w, "idle")
  /\ locked' = locked \ {w}
  /\ opened' = [opened EXCEPT ![w] = 0]
  /\ id' = [id EXCEPT ![w] = 0]
  /\ data' = [data EXCEPT ![w] = Whole]
  /\ crossed' = crossed \ {w}
  /\ UNCHANGED <<gen, target, saves>>

\* The processes that have read config.xml and not written it back.
Busy == {u \in Updaters : pc[u] \in {"temp", "write", "replace"}}
          \cup {w \in {Gui} : pc[w] # "idle"}

\* The updates that have replaced config.xml and not yet said so.
Unreported == {u \in Updaters : pc[u] = "unlock"}

\* History: w reads config.xml beside others, as the lock of one of them is not that
\* of config.xml.
Meet(w) ==
  crossed' = IF Busy # {} /\ \E v \in Busy \cup {w} : opened'[v] # gen
             THEN crossed \cup Busy \cup {w} ELSE crossed

\* History: w writes to config.xml.  If it has crossed another process, all that was
\* on record may be undone.
Overwrite(w) ==
  IF w \in crossed
  THEN crossed' = crossed \cup Unreported /\ kept' = {} /\ gone' = {}
  ELSE UNCHANGED <<crossed, kept, gone>>

\* w reports its save, which deletes the connections D.
Report(w, D) ==
  /\ acked' = acked \cup {id[w]} /\ deleted' = deleted \cup D
  /\ IF w \in crossed
     THEN UNCHANGED <<kept, gone>>
     ELSE kept' = kept \cup {id[w]} /\ gone' = gone \cup D

-----------------------------------------------------------------------------
(* _update_config_xml *)

Call(u, c) ==
  /\ pc[u] = "idle"
  /\ Number(u)
  /\ target' = [target EXCEPT ![u] = c]
  /\ Goto(u, "open")
  /\ UNCHANGED <<fileVars, lockVars, data, histories>>

Open(u) ==
  /\ pc[u] = "open"
  /\ opened' = [opened EXCEPT ![u] = gen]
  /\ Goto(u, "lock")
  /\ UNCHANGED <<fileVars, gen, locked, target, id, data, saves, histories>>

\* mutant: the lock is not waited for
LockNothing(u) ==
  /\ pc[u] = "lock"
  /\ Goto(u, "parse")
  /\ UNCHANGED <<fileVars, lockVars, target, id, data, saves, histories>>

Lock(u) ==
  /\ pc[u] = "lock"
  /\ Free(opened[u])
  /\ locked' = locked \cup {u}
  /\ Goto(u, "parse")
  /\ UNCHANGED <<fileVars, gen, opened, target, id, data, saves, histories>>

\* config.xml does not parse, or the connection is not in it: the update raises.
CanUpdate(u) == file \in Configs /\ target[u] \in file.conns

\* config.xml with the update of u
Updated(u) == [done |-> file.done \cup {id[u]}, conns |-> file.conns]

Parse(u) ==
  /\ pc[u] = "parse"
  /\ IF CanUpdate(u)
     THEN /\ data' = [data EXCEPT ![u] = Updated(u)]
          /\ Goto(u, "temp")
          /\ UNCHANGED <<lockVars, target, id, saves>>
          /\ Meet(u)
     ELSE Leave(u)
  /\ UNCHANGED <<fileVars, acked, deleted, kept, gone>>

OpenTemp(u) ==
  /\ pc[u] = "temp"
  /\ OpenTmp(u)
  /\ Goto(u, "write")
  /\ UNCHANGED <<lockVars, target, id, data, saves, histories>>

Write(u) ==
  /\ pc[u] = "write"
  /\ WriteRest(u, data[u])
  /\ Goto(u, "replace")
  /\ UNCHANGED <<lockVars, target, id, data, saves, histories>>

\* It raises if another process has renamed the temporary file.
Replace(u) ==
  /\ pc[u] = "replace"
  /\ IF tmp = Absent
     THEN Leave(u) /\ UNCHANGED <<fileVars, kept, gone>>
     ELSE /\ Rename /\ Overwrite(u)
          /\ gen' = gen + 1
          /\ Goto(u, "unlock")
          /\ UNCHANGED <<opened, locked, target, id, data, saves>>
  /\ UNCHANGED <<acked, deleted>>

\* mutant: the lock is not released
UnlockNothing(u) ==
  /\ pc[u] = "unlock"
  /\ Goto(u, "idle")
  /\ UNCHANGED <<fileVars, gen, opened, locked, target, id, data, saves, histories>>

Unlock(u) ==
  /\ pc[u] = "unlock"
  /\ Report(u, {})
  /\ Leave(u)
  /\ UNCHANGED fileVars

\* The command is killed, or a write fails and raises.
Crash(u) ==
  /\ pc[u] # "idle"
  /\ Hold(u, "none") /\ UNCHANGED <<file, tmp>>
  /\ Leave(u)
  /\ UNCHANGED <<acked, deleted, kept, gone>>

-----------------------------------------------------------------------------
(* The GUI: a save changes settings and may delete a connection. *)

GuiLock ==
  /\ pc[Gui] = "idle"
  /\ Free(gen)
  /\ file \in Configs
  /\ Number(Gui)
  /\ opened' = [opened EXCEPT ![Gui] = gen] /\ locked' = locked \cup {Gui}
  /\ Hold(Gui, "file")
  /\ \E D \in {{}} \cup {{c} : c \in file.conns} :
       data' = [data EXCEPT ![Gui] = [done  |-> file.done \cup {saves + 1},
                                      conns |-> file.conns \ D]]
  /\ Goto(Gui, "write") /\ Meet(Gui)
  /\ UNCHANGED <<file, tmp, gen, target, acked, deleted, kept, gone>>

GuiTruncate ==
  /\ pc[Gui] = "write"
  /\ Put(Gui, Torn) /\ UNCHANGED handle
  /\ Goto(Gui, "unlock") /\ Overwrite(Gui)
  /\ UNCHANGED <<lockVars, target, id, data, saves, acked, deleted>>

GuiSave ==
  /\ pc[Gui] = "unlock"
  /\ WriteRest(Gui, data[Gui])
  /\ Report(Gui, Conns \ data[Gui].conns)
  /\ Leave(Gui)

Update(u) ==
  \/ Open(u) \/ Lock(u) \/ Parse(u) \/ OpenTemp(u)
  \/ Write(u) \/ Replace(u) \/ Unlock(u)

GuiStep == GuiTruncate \/ GuiSave

Next ==
  \/ \E u \in Updaters : Update(u) \/ Crash(u) \/ \E c \in Conns : Call(u, c)
  \/ GuiLock \/ GuiStep

Spec == Init /\ [][Next]_vars

\* The operating system runs every process and grants a lock that stays free; the
\* GUI finishes the save that it has begun.
FairSpec == Spec /\ (\A u \in Updaters : WF_vars(Update(u))) /\ WF_vars(GuiStep)

-----------------------------------------------------------------------------
\* warp.py:35, "Exclusive lock around read-modify-write to avoid racing concurrent
\* GUI saves": every save that was reported as done is in config.xml, and a
\* connection that was deleted does not come back.
SavesAreKept ==
  file \in Configs => acked \subseteq file.done /\ deleted \cap file.conns = {}

\* What config.xml shows, and what the GUI is about to write to it again.
Shown == IF pc[Gui] = "unlock" THEN data[Gui] ELSE file

\* What was reported as done stays in config.xml, what was deleted stays away, and
\* config.xml can be parsed but for a moment of a GUI save: until a process writes to
\* it that has crossed another one, and again from the first save after such processes.
RecordIsShown ==
  kept # {} \/ gone # {} =>
    Shown \in Configs /\ kept \subseteq Shown.done /\ gone \cap Shown.conns = {}

\* config.xml is the store that its writers count on: each update and each save of the
\* GUI takes effect in one step, on top of all earlier ones, or not at all.  Processes
\* that read it beside one another may undo that, and do so only where one of them
\* has the lock of a file that another process has replaced.
Store == INSTANCE ConfigStore
         WITH config <- Shown, acked <- kept, deleted <- gone, calm <- crossed = {}
ImplementsStore == Store!Spec

\* The lock of config.xml itself keeps everybody else away: of two processes between
\* reading and writing, one has the lock of a file that has been replaced.
LockExcludes ==
  \A v, w \in Busy : opened[v] = gen /\ opened[w] = gen => v = w

\* An update that has crossed no other process works on what is config.xml until it
\* has replaced it: nobody else changes it meanwhile.
LockMeansOwner ==
  \A u \in Busy \ (crossed \cup {Gui}) : file \in Configs /\ data[u] = Updated(u)

\* Every update ends, and leaves no lock behind.
UpdateEnds == \A u \in Updaters : pc[u] # "idle" ~> pc[u] = "idle" /\ u \notin locked

=============================================================================
