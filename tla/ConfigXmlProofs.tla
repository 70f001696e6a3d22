-------------------------- MODULE ConfigXmlProofs --------------------------
(***************************************************************************)
(* Proofs about ConfigXml for any connections and numbers of saves and     *)
(* updaters.  Updates overlap in any way, and the GUI may save at any time.*)
(***************************************************************************)
EXTENDS ConfigXml, TLAPS

\* A lock has one holder, and nobody works on config.xml without one.
Locking ==
  /\ \A v, w \in locked : opened[v] = opened[w] => v = w
  /\ Busy \subseteq locked
  /\ \A u \in Updaters : pc[u] = "parse" => u \in locked
  /\ \A u \in Updaters : u \in locked => pc[u] \notin {"idle", "open", "lock"}
  /\ pc[Gui] \in {"idle", "write", "unlock"}

\* A process that has crossed no other is alone between reading and writing.
Apart == \A v, w \in Busy : v # w => v \in crossed

\* Only such processes have crossed, and only they have a file open for writing.
Shape ==
  /\ \A w \in crossed : w \in Busy \/ w \in Unreported
  /\ \A u \in Updaters : pc[u] # "write" => handle[u] = "none"
  /\ pc[Gui] = "idle" => handle[Gui] = "none"

\* The temporary file and config.xml are as a process left them that has crossed no
\* other.
Writing ==
  /\ \A u \in Updaters \ crossed :
       /\ pc[u] = "write" => handle[u] = "tmp" /\ tmp = Torn
       /\ pc[u] = "replace" => tmp = data[u]
  /\ Gui \notin crossed =>
       /\ pc[Gui] # "idle" => handle[Gui] = "file"
       /\ pc[Gui] = "write" => file \in Configs /\ data[Gui].conns \subseteq file.conns
                                               /\ data[Gui].done = file.done \cup {id[Gui]}
       /\ pc[Gui] = "unlock" => file = Torn /\ id[Gui] \in data[Gui].done

\* Something is on record, or is about to be.
Standing == kept # {} \/ gone # {} \/ \E u \in Updaters : u \in Unreported /\ u \notin crossed

\* What is on record, and is about to be, is shown; and no process that has crossed
\* another has written to config.xml, or can write to it but by replacing it.
Record ==
  Standing =>
    /\ Shown \in Configs
    /\ kept \subseteq Shown.done
    /\ gone \cap Shown.conns = {}
    /\ \A u \in Updaters : u \in Unreported /\ u \notin crossed => id[u] \in Shown.done
    /\ \A u \in Updaters : handle[u] # "file"
    /\ Gui \in crossed => pc[Gui] # "unlock"

Rest == Locking /\ Apart /\ Shape /\ Writing /\ LockMeansOwner /\ Record

Inv == TypeOK /\ Rest

\* Neither of the marks for a file that is missing or torn is a content.
LEMMA MarksAreNoConfigs == Absent \notin Configs /\ Torn \notin Configs /\ Absent # Torn
BY NotContents, ConfigContents

\* The first state satisfies the invariant.
LEMMA InitInv == Init => Inv
<1> SUFFICES ASSUME Init PROVE Inv OBVIOUS
<1> USE ConfigWriters, ConfigContents, ConfigBounds, MarksAreNoConfigs DEF Init
<1>1. Whole \in Configs BY DEF Whole, Configs
<1>2. TypeOK BY <1>1 DEF TypeOK, FileTypes, Saves
<1>3. Busy = {} /\ Unreported = {} BY DEF Busy, Unreported
<1>4. Locking /\ Apart /\ Shape BY <1>3 DEF Locking, Apart, Shape
<1>5. Writing /\ LockMeansOwner /\ Record
  BY <1>1, <1>3 DEF Writing, LockMeansOwner, Record, Standing
<1> QED BY <1>2, <1>4, <1>5 DEF Inv, Rest

-----------------------------------------------------------------------------
\* Every step keeps every variable in its type.
LEMMA TypeStep == TypeOK /\ [Next]_vars => TypeOK'
<1> SUFFICES ASSUME TypeOK, [Next]_vars PROVE TypeOK'
  OBVIOUS
<1> USE ConfigWriters, ConfigContents, ConfigBounds
    DEF TypeOK, FileTypes, fileVars, lockVars, procVars, histories, Goto, Hold, Busy
<1>1. Whole \in Configs /\ 0 \in Saves BY DEF Whole, Configs, Saves
<1> saves \in Nat /\ (saves < MaxSaves => saves + 1 \in Saves) BY DEF Saves
<1>2. ASSUME NEW u \in Updaters, NEW c \in Conns, Call(u, c) PROVE TypeOK'
  <2>1. UNCHANGED <<fileVars, lockVars, data, histories>> BY <1>2 DEF Call
  <2>2. pc' = [pc EXCEPT ![u] = "open"] /\ target' = [target EXCEPT ![u] = c]
    BY <1>2 DEF Call
  <2>3. id' = [id EXCEPT ![u] = saves + 1] /\ saves' = saves + 1 /\ saves + 1 \in Saves
    BY <1>2 DEF Call, Number
  <2>4. \A w \in locked' : pc'[w] # "idle" BY <2>1, <2>2
  <2>5. FileTypes' BY <2>1
  <2>6. id' \in [Writers -> Saves] /\ saves' \in Saves BY <2>3
  <2>7. UNCHANGED <<gen, opened, locked, data, acked, deleted, crossed, kept, gone>> BY <2>1
  <2>8. pc' \in [Writers -> {"idle", "open", "lock", "parse", "temp", "write", "replace", "unlock"}]
    BY <2>2
  <2>9. target' \in [Updaters -> Conns] BY <2>2
  <2> QED BY <2>4, <2>5, <2>6, <2>7, <2>8, <2>9, Zenon DEF TypeOK
<1>3. ASSUME NEW u \in Updaters, Open(u) \/ Lock(u) PROVE TypeOK'
  <2>1. CASE Open(u)
    BY <2>1 DEF Open
  <2>2. CASE Lock(u)
    BY <2>2 DEF Lock
  <2> QED BY <1>3, <2>1, <2>2
<1>4. ASSUME NEW u \in Updaters, Parse(u) PROVE TypeOK'
  <2>1. CASE CanUpdate(u)
    <3>1. Updated(u) \in Configs BY <2>1 DEF CanUpdate, Configs, Updated
    <3> QED BY <1>4, <2>1, <3>1 DEF Parse, Meet
  <2>2. CASE ~CanUpdate(u)
    BY <1>1, <1>4, <2>2 DEF Parse, Leave
  <2> QED BY <2>1, <2>2
<1>5. ASSUME NEW u \in Updaters, OpenTemp(u) PROVE TypeOK'
  BY <1>5 DEF OpenTemp, OpenTmp
<1>6. ASSUME NEW u \in Updaters, Write(u) PROVE TypeOK'
  <2>1. data[u] \in Configs OBVIOUS
  <2> QED BY <1>6, <2>1 DEF Write, WriteRest, Put
<1>7. ASSUME NEW u \in Updaters, Replace(u) PROVE TypeOK'
  <2>1. Renamed \in [Writers -> {"none", "tmp", "file", "gone"}] BY DEF Renamed
  <2>2. CASE tmp = Absent
    <3>1. Leave(u) /\ UNCHANGED <<fileVars, acked, deleted, kept, gone>>
      BY <1>7, <2>2 DEF Replace
    <3> QED BY <1>1, <3>1 DEF Leave
  <2>3. CASE tmp # Absent
    <3>1. crossed' \subseteq Writers /\ kept' \subseteq Saves /\ gone' \subseteq Conns
      BY <1>7, <2>3 DEF Replace, Overwrite, Unreported
    <3>2. FileTypes' BY <1>7, <2>1, <2>3 DEF Replace, Rename
    <3>3. /\ pc' = [pc EXCEPT ![u] = "unlock"] /\ gen' = gen + 1
          /\ UNCHANGED <<opened, locked, target, id, data, saves, acked, deleted>>
      BY <1>7, <2>3 DEF Replace
    <3> QED BY <3>1, <3>2, <3>3
  <2> QED BY <2>2, <2>3
<1>8. ASSUME NEW u \in Updaters, Unlock(u) PROVE TypeOK'
  <2>1. /\ acked' \subseteq Saves /\ deleted' \subseteq Conns
        /\ kept' \subseteq Saves /\ gone' \subseteq Conns
    <3>1. id[u] \in Saves OBVIOUS
    <3>2. acked' = acked \cup {id[u]} /\ deleted' = deleted \cup {}
      BY <1>8 DEF Unlock, Report
    <3>3. kept' \in {kept, kept \cup {id[u]}} /\ gone' \in {gone, gone \cup {}}
      BY <1>8 DEF Unlock, Report
    <3> QED BY <3>1, <3>2, <3>3
  <2>2. Leave(u) /\ UNCHANGED fileVars BY <1>8 DEF Unlock
  <2> QED BY <1>1, <2>1, <2>2 DEF Leave
<1>9. ASSUME NEW u \in Updaters, Crash(u) PROVE TypeOK'
  BY <1>1, <1>9 DEF Crash, Leave
<1>10. CASE GuiLock
  <2> PICK D \in {{}} \cup {{c} : c \in file.conns} :
        data' = [data EXCEPT ![Gui] = [done  |-> file.done \cup {saves + 1},
                                       conns |-> file.conns \ D]]
    BY <1>10 DEF GuiLock
  <2>1. [done |-> file.done \cup {saves + 1}, conns |-> file.conns \ D] \in Configs
    BY <1>10 DEF GuiLock, Number, Configs
  <2> QED BY <1>10, <2>1 DEF GuiLock, Number, Meet
<1>11. CASE GuiTruncate
  BY <1>11 DEF GuiTruncate, Put, Overwrite, Unreported
<1>12. CASE GuiSave
  <2>1. data[Gui] \in Configs OBVIOUS
  <2>2. FileTypes' BY <1>12, <2>1 DEF GuiSave, WriteRest, Put
  <2>3. /\ acked' \subseteq Saves /\ deleted' \subseteq Conns
        /\ kept' \subseteq Saves /\ gone' \subseteq Conns
    <3> DEFINE D == Conns \ data[Gui].conns
    <3>1. id[Gui] \in Saves /\ D \subseteq Conns OBVIOUS
    <3>2. acked' = acked \cup {id[Gui]} /\ deleted' = deleted \cup D
      BY <1>12 DEF GuiSave, Report
    <3>3. kept' \in {kept, kept \cup {id[Gui]}} /\ gone' \in {gone, gone \cup D}
      BY <1>12 DEF GuiSave, Report
    <3> QED BY <3>1, <3>2, <3>3
  <2>4. \A w \in locked' : pc'[w] # "idle" BY <1>12 DEF GuiSave, Leave
  <2> QED BY <1>1, <1>12, <2>2, <2>3, <2>4 DEF GuiSave, Leave
<1>13. CASE UNCHANGED vars
  BY <1>13 DEF vars
<1> QED BY <1>2, <1>3, <1>4, <1>5, <1>6, <1>7, <1>8, <1>9, <1>10, <1>11, <1>12, <1>13
        DEF Next, Update, GuiStep

-----------------------------------------------------------------------------
(* The invariant *)

\* A process at its end is in no call any more, and no other depends on it; what it
\* has put on record is shown.
LEMMA LeaveRest ==
  ASSUME Inv, NEW u \in Updaters, Leave(u), pc[u] # "idle", UNCHANGED <<file, tmp>>,
         \/ handle' = [handle EXCEPT ![u] = "none"]
         \/ handle' = handle /\ pc[u] # "write",
         \/ kept' = kept
         \/ kept' = kept \cup {id[u]} /\ u \in Unreported /\ u \notin crossed,
         gone' = gone
  PROVE  Rest'
<1> USE ConfigWriters DEF Inv, Rest
<1>1. /\ u # Gui /\ pc'[u] = "idle" /\ handle'[u] = "none" /\ locked' = locked \ {u}
      /\ \A w \in Writers \ {u} : /\ pc'[w] = pc[w] /\ opened'[w] = opened[w] /\ id'[w] = id[w]
                                  /\ data'[w] = data[w] /\ handle'[w] = handle[w]
      /\ crossed' = crossed \ {u} /\ UNCHANGED <<gen, target>>
  BY DEF TypeOK, FileTypes, Leave, Goto, Shape
<1>2. Busy' = Busy \ {u} /\ Unreported' = Unreported \ {u} /\ Busy \subseteq Writers
  BY <1>1 DEF Busy, Unreported
<1>3. Shown' = Shown BY <1>1 DEF Shown
<1>4. Locking' BY <1>1, <1>2 DEF Locking, TypeOK
<1>5. Apart' BY <1>1, <1>2 DEF Apart
<1>6. Shape' BY <1>1, <1>2 DEF Shape
<1>7. Writing' BY <1>1 DEF Writing
<1>8. LockMeansOwner' BY <1>1, <1>2 DEF LockMeansOwner, Updated
<1>9. Record'
  <2> SUFFICES ASSUME Standing' PROVE Record' BY DEF Record
  <2>1. Standing BY <1>1, <1>2 DEF Standing
  <2>2. kept' \subseteq Shown.done BY <2>1 DEF Record
  <2> QED BY <1>1, <1>2, <1>3, <2>1, <2>2 DEF Record
<1> QED BY <1>4, <1>5, <1>6, <1>7, <1>8, <1>9

\* A call that begins, opens config.xml or gets a lock disturbs nobody.
LEMMA EnterRest ==
  ASSUME Inv, NEW u \in Updaters, Open(u) \/ Lock(u) \/ \E c \in Conns : Call(u, c)
  PROVE  Rest'
<1> USE ConfigWriters DEF Inv, Rest
<1>1. /\ u # Gui /\ pc[u] \in {"idle", "open", "lock"} /\ pc'[u] \in {"open", "lock", "parse"}
      /\ \A w \in Writers \ {u} : pc'[w] = pc[w] /\ opened'[w] = opened[w] /\ id'[w] = id[w]
      /\ \A v \in Updaters \ {u} : target'[v] = target[v]
      /\ UNCHANGED <<file, tmp, handle, gen, data, crossed, kept, gone>>
  BY DEF Open, Lock, Call, Goto, Number, TypeOK, FileTypes, fileVars, lockVars, histories
<1>2. Busy' = Busy /\ Unreported' = Unreported /\ Busy \subseteq Writers /\ u \notin Busy
  BY <1>1 DEF Busy, Unreported
<1>3. u \notin locked BY <1>1 DEF Locking
<1>4. Locking'
  <2>1. CASE Lock(u)
    <3>1. opened' = opened /\ locked' = locked \cup {u} /\ Free(opened[u])
      BY <2>1 DEF Lock
    <3>2. pc'[u] = "parse" /\ locked \subseteq Writers BY <1>1, <2>1 DEF Lock, Goto, TypeOK
    <3>3. \A v, w \in locked' : opened'[v] = opened'[w] => v = w
      BY <3>1 DEF Locking, Free
    <3> QED BY <1>1, <1>2, <3>1, <3>2, <3>3 DEF Locking
  <2>2. CASE ~Lock(u)
    <3>1. locked' = locked /\ pc'[u] \in {"open", "lock"}
      BY <2>2 DEF Open, Call, lockVars, Goto, TypeOK
    <3> QED BY <1>1, <1>2, <1>3, <3>1 DEF Locking, TypeOK
  <2> QED BY <2>1, <2>2
<1>5. Apart' BY <1>1, <1>2 DEF Apart
<1>6. Shape' BY <1>1, <1>2 DEF Shape
<1>7. Writing' BY <1>1 DEF Writing
<1>8. LockMeansOwner' BY <1>1, <1>2 DEF LockMeansOwner, Updated
<1>9. Record'
  <2>1. Shown' = Shown BY <1>1 DEF Shown
  <2> QED BY <1>1, <1>2, <2>1 DEF Record, Standing, Unreported
<1> QED BY <1>4, <1>5, <1>6, <1>7, <1>8, <1>9

\* Who reads config.xml beside others has the lock of another file than they have, so
\* that all of them have crossed.
LEMMA MeetApart ==
  ASSUME Inv, NEW w \in Writers, w \notin Busy, Meet(w), Busy' = Busy \cup {w},
         Busy' \subseteq locked', \A v \in Busy \cup {w} : v \in locked',
         \A v, x \in locked' : opened'[v] = opened'[x] => v = x
  PROVE  /\ Apart'
         /\ crossed \subseteq crossed' /\ crossed' \subseteq crossed \cup Busy'
         /\ Busy # {} => crossed' = crossed \cup Busy \cup {w}
<1> USE DEF Inv, Rest, Meet
<1>1. ASSUME NEW v \in Busy PROVE opened'[v] # gen \/ opened'[w] # gen
  BY <1>1
<1>2. Busy # {} => crossed' = crossed \cup Busy \cup {w} BY <1>1
<1>3. Busy = {} => crossed' = crossed OBVIOUS
<1> QED BY <1>2, <1>3 DEF Apart

\* An update that parses config.xml has it to itself, or has crossed others.
LEMMA ParseRest ==
  ASSUME Inv, NEW u \in Updaters, Parse(u), CanUpdate(u)
  PROVE  Rest'
<1> USE ConfigWriters DEF Inv, Rest
<1>1. /\ u # Gui /\ pc[u] = "parse" /\ pc'[u] = "temp" /\ data'[u] = Updated(u)
      /\ \A w \in Writers \ {u} : pc'[w] = pc[w] /\ data'[w] = data[w]
      /\ UNCHANGED <<file, tmp, handle, gen, opened, locked, id, target, kept, gone>>
      /\ file \in Configs /\ Meet(u)
  BY DEF Parse, Goto, TypeOK, fileVars, lockVars, CanUpdate
<1>2. /\ Busy' = Busy \cup {u} /\ Unreported' = Unreported /\ u \notin Busy /\ u \in Writers
      /\ Busy \subseteq Writers
  BY <1>1 DEF Busy, Unreported
<1>3. Locking' BY <1>1, <1>2 DEF Locking
<1>4. /\ Apart'
      /\ crossed \subseteq crossed' /\ crossed' \subseteq crossed \cup Busy'
      /\ Busy # {} => crossed' = crossed \cup Busy \cup {u}
  <2>1. /\ Busy' \subseteq locked' /\ \A v \in Busy \cup {u} : v \in locked'
        /\ \A v, x \in locked' : opened'[v] = opened'[x] => v = x
    BY <1>2, <1>3 DEF Locking
  <2>2. Inv OBVIOUS
  <2> HIDE DEF Inv, Rest
  <2> QED BY <1>1, <1>2, <2>1, <2>2, MeetApart
<1>5. Shape' BY <1>1, <1>2, <1>4 DEF Shape
<1>6. Writing' BY <1>1, <1>4 DEF Writing
<1>7. LockMeansOwner'
  <2>1. \A v \in Busy : v \in crossed' BY <1>4
  <2>2. Updated(u)' = Updated(u) BY <1>1 DEF Updated
  <2> QED BY <1>1, <1>2, <2>1, <2>2 DEF LockMeansOwner
<1>8. Record'
  <2> SUFFICES ASSUME Standing' PROVE Record' BY DEF Record
  <2>1. Shown' = Shown BY <1>1 DEF Shown
  <2>2. \A v \in Updaters : v \in Unreported => v \notin Busy /\ v # u
    BY <1>1 DEF Unreported, Busy
  <2>3. \A v \in Updaters : v \in Unreported => (v \in crossed' <=> v \in crossed)
    BY <1>2, <1>4, <2>2
  <2>4. Standing BY <1>1, <1>2, <2>3 DEF Standing
  <2>5. Gui \in crossed' => pc[Gui] # "unlock"
    <3>1. Gui \notin crossed /\ pc[Gui] = "unlock" => file = Torn BY DEF Writing
    <3> QED BY <1>1, <2>4, <3>1, MarksAreNoConfigs DEF Record
  <2> QED BY <1>1, <1>2, <2>1, <2>3, <2>4, <2>5 DEF Record
<1> QED BY <1>3, <1>4, <1>5, <1>6, <1>7, <1>8

\* The temporary file is nobody's but that of the only update that is writing, or of
\* updates that have crossed.
LEMMA OpenTempRest ==
  ASSUME Inv, NEW u \in Updaters, OpenTemp(u)
  PROVE  Rest'
<1> USE ConfigWriters DEF Inv, Rest
<1>1. /\ u # Gui /\ pc[u] = "temp" /\ pc'[u] = "write" /\ handle'[u] = "tmp" /\ tmp' = Torn
      /\ \A w \in Writers \ {u} : pc'[w] = pc[w] /\ handle'[w] = handle[w]
      /\ UNCHANGED <<file, gen, opened, locked, id, target, data, crossed, kept, gone>>
  BY DEF OpenTemp, OpenTmp, Hold, Goto, TypeOK, FileTypes, lockVars, histories
<1>2. /\ Busy' = Busy /\ Unreported' = Unreported /\ u \in Busy /\ Busy \subseteq Writers
  BY <1>1 DEF Busy, Unreported
<1>3. \A w \in Busy \ {u} : w \in crossed BY <1>2 DEF Apart
<1>4. Locking' BY <1>1, <1>2 DEF Locking
<1>5. Apart' BY <1>1, <1>2 DEF Apart
<1>6. Shape' BY <1>1, <1>2 DEF Shape
<1>7. Writing' BY <1>1, <1>3 DEF Writing, Busy
<1>8. LockMeansOwner' BY <1>1, <1>2 DEF LockMeansOwner, Updated
<1>9. Record'
  <2>1. Shown' = Shown BY <1>1 DEF Shown
  <2> QED BY <1>1, <1>2, <2>1 DEF Record, Standing
<1> QED BY <1>4, <1>5, <1>6, <1>7, <1>8, <1>9

\* An update that has crossed no other writes its own temporary file, whole.
LEMMA AloneWrites ==
  ASSUME Inv, NEW u \in Updaters, u \notin crossed, Write(u)
  PROVE  tmp' = data[u] /\ file' = file
<1> USE ConfigWriters DEF Inv, Rest, Write, WriteRest
<1>1. u \in Busy BY DEF Busy
<1>2. handle[u] = "tmp" /\ tmp = Torn BY DEF Writing
<1>3. \A w \in Updaters \ {u} : handle[w] = "none" BY <1>1 DEF Apart, Shape, Busy, Unreported
<1>4. pc[Gui] = "idle" BY <1>1 DEF Apart, Busy
<1>5. handle[Gui] = "none" BY <1>4 DEF Shape
<1>6. ~Shared(u) BY <1>2, <1>3, <1>5 DEF Shared
<1> QED BY <1>2, <1>6 DEF Put

\* A write of an update changes config.xml only where nothing is on record.
LEMMA WriteRestInv ==
  ASSUME Inv, NEW u \in Updaters, Write(u)
  PROVE  Rest'
<1> USE ConfigWriters DEF Inv, Rest
<1>1. /\ u # Gui /\ pc[u] = "write" /\ pc'[u] = "replace" /\ handle'[u] = "none"
      /\ \A w \in Writers \ {u} : pc'[w] = pc[w] /\ handle'[w] = handle[w]
      /\ UNCHANGED <<gen, opened, locked, id, target, data, crossed, kept, gone>>
  BY DEF Write, WriteRest, Hold, Goto, TypeOK, FileTypes, lockVars, histories
<1>2. /\ Busy' = Busy /\ Unreported' = Unreported /\ u \in Busy /\ Busy \subseteq Writers
  BY <1>1 DEF Busy, Unreported
<1>3. \A w \in Busy \ {u} : w \in crossed BY <1>2 DEF Apart
<1>4. u \notin crossed => tmp' = data[u] /\ file' = file BY AloneWrites
<1>5. Locking' BY <1>1, <1>2 DEF Locking
<1>6. Apart' BY <1>1, <1>2 DEF Apart
<1>7. Shape' BY <1>1, <1>2 DEF Shape
<1>8. Writing' /\ LockMeansOwner'
  <2>1. \A w \in Updaters \ crossed : w # u => w \notin Busy BY <1>3
  <2>2. Gui \notin crossed => pc[Gui] = "idle" BY <1>1, <1>3 DEF Busy
  <2>3. Writing' BY <1>1, <1>4, <2>1, <2>2 DEF Writing, Busy
  <2>4. LockMeansOwner' BY <1>1, <1>2, <1>4, <2>1 DEF LockMeansOwner, Updated
  <2> QED BY <2>3, <2>4
<1>9. Record'
  <2> SUFFICES ASSUME Standing' PROVE Record' BY DEF Record
  <2>1. Standing BY <1>1, <1>2 DEF Standing
  <2>2. handle[u] # "file" BY <2>1 DEF Record
  <2>3. file' = file BY <2>2 DEF Write, WriteRest, Put
  <2>4. Shown' = Shown BY <1>1, <2>3 DEF Shown
  <2> QED BY <1>1, <1>2, <2>1, <2>4 DEF Record
<1> QED BY <1>5, <1>6, <1>7, <1>8, <1>9

\* An update that has crossed no other replaces config.xml by config.xml with its own
\* changes, while nobody else is at work on it.
LEMMA AloneReplaces ==
  ASSUME Inv, NEW u \in Updaters, u \notin crossed, Replace(u)
  PROVE  /\ tmp # Absent /\ file \in Configs /\ file' = Updated(u) /\ file' \in Configs
         /\ handle' = handle /\ pc[Gui] = "idle" /\ pc'[Gui] = "idle"
         /\ \A w \in Writers : handle[w] = "none"
         /\ UNCHANGED <<crossed, kept, gone>>
<1> USE ConfigWriters, ConfigContents, MarksAreNoConfigs DEF Inv, Rest, Replace
<1>1. u \in Busy /\ u # Gui BY DEF Busy
<1>2. tmp = data[u] /\ data[u] = Updated(u) /\ file \in Configs /\ data[u] \in Configs
  BY <1>1 DEF Writing, LockMeansOwner, TypeOK
<1>3. pc[Gui] = "idle" BY <1>1 DEF Apart, Busy
<1>4. \A w \in Writers : handle[w] = "none"
  BY <1>1, <1>3 DEF Apart, Shape, Busy
<1>5. handle' = Renamed /\ file' = tmp /\ UNCHANGED <<crossed, kept, gone>>
  BY <1>2 DEF Rename, Overwrite
<1>6. handle' = handle BY <1>4, <1>5 DEF Renamed, TypeOK, FileTypes
<1>7. pc'[Gui] = "idle" BY <1>1, <1>2, <1>3 DEF Goto, TypeOK
<1> QED BY <1>2, <1>3, <1>4, <1>5, <1>6, <1>7

\* A replacement is one save more, or takes everything off the record.
LEMMA ReplaceRest ==
  ASSUME Inv, NEW u \in Updaters, Replace(u), tmp # Absent
  PROVE  Rest'
<1> USE ConfigWriters DEF Inv, Rest
<1>1. /\ u # Gui /\ pc[u] = "replace" /\ pc'[u] = "unlock"
      /\ \A w \in Writers \ {u} : pc'[w] = pc[w]
      /\ UNCHANGED <<opened, locked, id, target, data>> /\ Overwrite(u)
  BY DEF Replace, Goto, TypeOK
<1>2. /\ Busy' = Busy \ {u} /\ Unreported' = Unreported \cup {u} /\ u \in Busy
      /\ Busy \subseteq Writers /\ u \notin Unreported
  BY <1>1 DEF Busy, Unreported
<1>3. \A w \in Busy \ {u} : w \in crossed BY <1>2 DEF Apart
<1>4. crossed \subseteq crossed' /\ crossed' \subseteq crossed \cup Unreported
  BY <1>1 DEF Overwrite
<1>5. \A w \in Writers : handle[w] = "none" => handle'[w] = "none"
  BY DEF Replace, Rename, Renamed
<1>6. Locking' BY <1>1, <1>2 DEF Locking
<1>7. Apart' BY <1>2, <1>4 DEF Apart
<1>8. Shape' BY <1>1, <1>2, <1>4, <1>5 DEF Shape
<1>9. Writing' /\ LockMeansOwner'
  <2>1. \A w \in Updaters \ crossed' : w \notin Busy' BY <1>2, <1>3, <1>4
  <2>2. Gui \notin crossed' => pc'[Gui] = "idle" BY <1>1, <1>3, <1>4 DEF Busy
  <2>3. Writing' BY <2>1, <2>2 DEF Writing, Busy
  <2>4. LockMeansOwner' BY <2>1 DEF LockMeansOwner, Busy
  <2> QED BY <2>3, <2>4
<1>10. Record'
  <2>1. CASE u \in crossed
    <3>1. ~Standing' BY <1>1, <1>2, <2>1 DEF Overwrite, Standing
    <3> QED BY <3>1 DEF Record
  <2>2. CASE u \notin crossed
    <3>1. /\ file \in Configs /\ file' = Updated(u) /\ file' \in Configs
          /\ handle' = handle /\ pc[Gui] = "idle" /\ pc'[Gui] = "idle"
          /\ \A w \in Writers : handle[w] = "none"
          /\ UNCHANGED <<crossed, kept, gone>>
      BY <2>2, AloneReplaces
    <3>2. Shown = file /\ Shown' = file' BY <3>1 DEF Shown
    <3>3. Shown'.done = Shown.done \cup {id[u]} /\ Shown'.conns = Shown.conns
      BY <3>1, <3>2 DEF Updated
    <3>4. Standing => /\ kept \subseteq Shown.done /\ gone \cap Shown.conns = {}
                      /\ \A v \in Updaters : v \in Unreported /\ v \notin crossed => id[v] \in Shown.done
      BY DEF Record
    <3>5. kept' \subseteq Shown'.done /\ gone' \cap Shown'.conns = {}
      <4>1. CASE Standing BY <3>1, <3>3, <3>4, <4>1
      <4>2. CASE ~Standing BY <3>1, <4>2 DEF Standing
      <4> QED BY <4>1, <4>2
    <3>6. \A v \in Updaters : v \in Unreported' /\ v \notin crossed' => id'[v] \in Shown'.done
      BY <1>1, <1>2, <3>1, <3>3, <3>4 DEF Standing
    <3> QED BY <3>1, <3>2, <3>5, <3>6 DEF Record
  <2> QED BY <2>1, <2>2
<1> QED BY <1>6, <1>7, <1>8, <1>9, <1>10

\* Every step of an update keeps the rest of the invariant.
LEMMA UpdateRest ==
  ASSUME Inv, NEW u \in Updaters, Update(u) \/ Crash(u)
  PROVE  Rest'
<1>1. CASE Parse(u) /\ ~CanUpdate(u)
  BY <1>1, LeaveRest DEF Parse, fileVars
<1>2. CASE Replace(u) /\ tmp = Absent
  BY <1>2, LeaveRest DEF Replace, fileVars
<1>3. CASE Unlock(u)
  <2>1. /\ Leave(u) /\ UNCHANGED <<file, tmp, handle>> /\ pc[u] = "unlock" /\ u \in Unreported
        /\ u \in crossed => kept' = kept
        /\ u \notin crossed => kept' = kept \cup {id[u]}
        /\ gone' = gone
    BY <1>3 DEF Unlock, fileVars, Unreported, Report
  <2> QED BY <2>1, LeaveRest
<1>4. CASE Crash(u)
  BY <1>4, LeaveRest DEF Crash, Hold
<1> QED BY <1>1, <1>2, <1>3, <1>4, EnterRest, ParseRest, OpenTempRest, WriteRestInv, ReplaceRest
        DEF Update

\* A save of the GUI begins on top of what config.xml shows, with the lock of it.
LEMMA GuiLockRest == ASSUME Inv, GuiLock PROVE Rest'
<1> USE ConfigWriters DEF Inv, Rest
<1>1. PICK D \in {{}} \cup {{c} : c \in file.conns} :
        data' = [data EXCEPT ![Gui] = [done  |-> file.done \cup {saves + 1},
                                       conns |-> file.conns \ D]]
  BY DEF GuiLock
<1>2. /\ \A u \in Updaters : /\ u # Gui /\ pc'[u] = pc[u] /\ data'[u] = data[u] /\ id'[u] = id[u]
                              /\ handle'[u] = handle[u] /\ opened'[u] = opened[u]
      /\ pc[Gui] = "idle" /\ pc'[Gui] = "write" /\ handle'[Gui] = "file"
      /\ opened'[Gui] = gen /\ id'[Gui] = saves + 1 /\ locked' = locked \cup {Gui}
      /\ UNCHANGED <<file, tmp, gen, target, kept, gone>>
      /\ file \in Configs /\ Meet(Gui) /\ Free(gen)
  BY DEF GuiLock, Goto, Number, Hold, TypeOK, FileTypes
<1>3. /\ Busy' = Busy \cup {Gui} /\ Unreported' = Unreported /\ Gui \notin Busy
      /\ Busy \subseteq Writers
  BY <1>2 DEF Busy, Unreported
<1>4. Gui \notin locked BY <1>2 DEF TypeOK
<1>5. Locking'
  <2>1. \A v, w \in locked' : opened'[v] = opened'[w] => v = w
    BY <1>2, <1>4 DEF Locking, Free, TypeOK
  <2> QED BY <1>2, <1>3, <2>1 DEF Locking
<1>6. /\ Apart'
      /\ crossed \subseteq crossed' /\ crossed' \subseteq crossed \cup Busy'
      /\ Busy # {} => crossed' = crossed \cup Busy \cup {Gui}
  <2>1. /\ Busy' \subseteq locked' /\ \A v \in Busy \cup {Gui} : v \in locked'
        /\ \A v, x \in locked' : opened'[v] = opened'[x] => v = x
        /\ Gui \in Writers
    BY <1>3, <1>5 DEF Locking
  <2>2. Inv OBVIOUS
  <2> HIDE DEF Inv, Rest
  <2> QED BY <1>2, <1>3, <2>1, <2>2, MeetApart
<1>7. Shape' BY <1>2, <1>3, <1>6 DEF Shape
<1>8. Writing' /\ LockMeansOwner'
  <2>1. \A u \in Updaters \ crossed' : u \notin Busy /\ u \notin crossed BY <1>6
  <2>2. data'[Gui].done = file.done \cup {saves + 1} /\ data'[Gui].conns \subseteq file.conns
    BY <1>1 DEF TypeOK
  <2>3. Writing' BY <1>2, <2>1, <2>2 DEF Writing, Busy
  <2>4. LockMeansOwner' BY <1>2, <1>3, <2>1 DEF LockMeansOwner
  <2> QED BY <2>3, <2>4
<1>9. Record'
  <2> SUFFICES ASSUME Standing' PROVE Record' BY DEF Record
  <2>1. Shown' = Shown BY <1>2 DEF Shown
  <2>2. \A v \in Updaters : v \in Unreported => v \notin Busy BY DEF Unreported, Busy
  <2>3. \A v \in Updaters : v \in Unreported => (v \in crossed' <=> v \in crossed)
    BY <1>2, <1>3, <1>6, <2>2
  <2>4. Standing BY <1>2, <1>3, <2>3 DEF Standing
  <2> QED BY <1>2, <1>3, <2>1, <2>3, <2>4 DEF Record
<1> QED BY <1>5, <1>6, <1>7, <1>8, <1>9

\* A save of the GUI takes effect when it empties config.xml, or takes everything off
\* the record.
LEMMA GuiTruncateRest == ASSUME Inv, GuiTruncate PROVE Rest'
<1> USE ConfigWriters DEF Inv, Rest
<1>1. /\ \A u \in Updaters : u # Gui /\ pc'[u] = pc[u]
      /\ pc[Gui] = "write" /\ pc'[Gui] = "unlock"
      /\ UNCHANGED <<handle, gen, opened, locked, target, id, data>> /\ Overwrite(Gui)
  BY DEF GuiTruncate, Goto, TypeOK, lockVars
<1>2. /\ Busy' = Busy /\ Unreported' = Unreported /\ Gui \in Busy /\ Busy \subseteq Writers
  BY <1>1 DEF Busy, Unreported
<1>3. \A w \in Busy \ {Gui} : w \in crossed BY <1>2 DEF Apart
<1>4. crossed \subseteq crossed' /\ crossed' \subseteq crossed \cup Unreported
  BY <1>1 DEF Overwrite
<1>5. Gui \notin crossed => file' = Torn /\ UNCHANGED <<crossed, kept, gone>>
  BY <1>1 DEF GuiTruncate, Put, Overwrite, Writing
<1>6. Locking' BY <1>1, <1>2 DEF Locking
<1>7. Apart' BY <1>2, <1>4 DEF Apart
<1>8. Shape' BY <1>1, <1>2, <1>4 DEF Shape
<1>9. Writing' /\ LockMeansOwner'
  <2>1. \A u \in Updaters \ crossed' : u \notin Busy' BY <1>1, <1>2, <1>3, <1>4
  <2>2. Gui \notin crossed' => Gui \notin crossed BY <1>4
  <2>3. Writing' BY <1>1, <1>5, <2>1, <2>2 DEF Writing, Busy
  <2>4. LockMeansOwner' BY <2>1 DEF LockMeansOwner, Busy
  <2> QED BY <2>3, <2>4
<1>10. Record'
  <2>1. CASE Gui \in crossed
    <3>1. ~Standing' BY <1>1, <1>2, <2>1 DEF Overwrite, Standing
    <3> QED BY <3>1 DEF Record
  <2>2. CASE Gui \notin crossed
    <3>1. Shown = file /\ Shown' = data[Gui] /\ data[Gui] \in Configs
      BY <1>1 DEF Shown, TypeOK
    <3>2. /\ data[Gui].conns \subseteq file.conns
          /\ data[Gui].done = file.done \cup {id[Gui]}
      BY <1>1, <2>2 DEF Writing
    <3>3. UNCHANGED <<crossed, kept, gone>> BY <1>5, <2>2
    <3> QED BY <1>1, <1>2, <2>2, <3>1, <3>2, <3>3 DEF Record, Standing
  <2> QED BY <2>1, <2>2
<1> QED BY <1>6, <1>7, <1>8, <1>9, <1>10

\* A save of the GUI that has crossed no update writes what it has, whole.
LEMMA AloneSaves ==
  ASSUME Inv, GuiSave, Gui \notin crossed
  PROVE  /\ file = Torn /\ file' = data[Gui] /\ Shown = data[Gui] /\ Shown' = data[Gui]
         /\ id[Gui] \in data[Gui].done /\ data[Gui] \in Configs
         /\ kept' = kept \cup {id[Gui]} /\ gone' = gone \cup (Conns \ data[Gui].conns)
<1> USE ConfigWriters DEF Inv, Rest, GuiSave, WriteRest
<1>1. Gui \in Busy BY DEF Busy
<1>2. handle[Gui] = "file" /\ file = Torn /\ id[Gui] \in data[Gui].done /\ data[Gui] \in Configs
  BY DEF Writing, TypeOK
<1>3. \A u \in Updaters : handle[u] = "none" BY <1>1 DEF Apart, Shape, Busy
<1>4. ~Shared(Gui) BY <1>2, <1>3 DEF Shared
<1>5. file' = data[Gui] BY <1>2, <1>4 DEF Put
<1>6. pc'[Gui] = "idle" BY DEF Leave, Goto, TypeOK
<1>7. Shown = data[Gui] /\ Shown' = data[Gui] BY <1>5, <1>6 DEF Shown
<1>8. kept' = kept \cup {id[Gui]} /\ gone' = gone \cup (Conns \ data[Gui].conns)
  BY DEF Report
<1> QED BY <1>2, <1>5, <1>7, <1>8

\* A save of the GUI is reported when it is shown.
LEMMA GuiSaveRest == ASSUME Inv, GuiSave PROVE Rest'
<1> USE ConfigWriters DEF Inv, Rest
<1>1. /\ \A u \in Updaters : /\ u # Gui /\ pc'[u] = pc[u] /\ data'[u] = data[u] /\ id'[u] = id[u]
                              /\ handle'[u] = handle[u] /\ opened'[u] = opened[u]
      /\ pc[Gui] = "unlock" /\ pc'[Gui] = "idle" /\ handle'[Gui] = "none"
      /\ locked' = locked \ {Gui} /\ crossed' = crossed \ {Gui}
      /\ UNCHANGED <<gen, target>>
  BY DEF GuiSave, WriteRest, Hold, Leave, Goto, TypeOK, FileTypes
<1>2. /\ Busy' = Busy \ {Gui} /\ Unreported' = Unreported /\ Gui \in Busy /\ Busy \subseteq Writers
  BY <1>1 DEF Busy, Unreported
<1>3. \A w \in Busy \ {Gui} : w \in crossed BY <1>2 DEF Apart
<1>4. Locking' BY <1>1, <1>2 DEF Locking, TypeOK
<1>5. Apart' BY <1>1, <1>2 DEF Apart
<1>6. Shape' BY <1>1, <1>2 DEF Shape, Unreported
<1>7. Writing' /\ LockMeansOwner'
  <2>1. \A u \in Updaters \ crossed' : u \notin Busy' BY <1>1, <1>2, <1>3
  <2>2. Writing' BY <1>1, <2>1 DEF Writing, Busy
  <2>3. LockMeansOwner' BY <2>1 DEF LockMeansOwner, Busy
  <2> QED BY <2>2, <2>3
<1>8. Record'
  <2>1. CASE Gui \in crossed
    <3>1. ~Standing BY <1>1, <2>1 DEF Record
    <3>2. UNCHANGED <<kept, gone>> BY <2>1 DEF GuiSave, Report
    <3>3. ~Standing' BY <1>1, <1>2, <3>1, <3>2 DEF Standing
    <3> QED BY <3>3 DEF Record
  <2>2. CASE Gui \notin crossed
    <3>1. /\ Shown = data[Gui] /\ Shown' = data[Gui]
          /\ id[Gui] \in data[Gui].done /\ data[Gui] \in Configs
          /\ kept' = kept \cup {id[Gui]} /\ gone' = gone \cup (Conns \ data[Gui].conns)
      BY <2>2, AloneSaves
    <3>2. \A u \in Updaters : handle[u] = "none" BY <1>2, <2>2 DEF Apart, Shape, Busy
    <3>3. Standing => kept \subseteq Shown.done /\ gone \cap Shown.conns = {} BY DEF Record
    <3>4. kept' \subseteq Shown'.done /\ gone' \cap Shown'.conns = {}
      BY <3>1, <3>3 DEF Standing
    <3>5. \A u \in Updaters : u \in Unreported' /\ u \notin crossed' => id'[u] \in Shown'.done
      BY <1>1, <1>2, <3>1 DEF Record, Standing
    <3> QED BY <1>1, <3>1, <3>2, <3>4, <3>5 DEF Record
  <2> QED BY <2>1, <2>2
<1> QED BY <1>4, <1>5, <1>6, <1>7, <1>8

\* Every step keeps the invariant.
LEMMA InvStep == ASSUME Inv, [Next]_vars PROVE Inv'
<1>1. TypeOK' BY TypeStep DEF Inv
<1>2. CASE Next
  BY <1>1, <1>2, UpdateRest, EnterRest, GuiLockRest, GuiTruncateRest, GuiSaveRest
     DEF Next, GuiStep, Inv
<1>3. CASE UNCHANGED vars
  <2>1. /\ UNCHANGED <<file, tmp, handle, gen, opened, locked, pc, target, id, data>>
        /\ UNCHANGED <<crossed, kept, gone>>
    BY <1>3 DEF vars, fileVars, lockVars, procVars, histories
  <2>2. Busy' = Busy /\ Unreported' = Unreported /\ Shown' = Shown
    BY <2>1 DEF Busy, Unreported, Shown
  <2> QED BY <1>1, <2>1, <2>2 DEF Inv, Rest, Locking, Apart, Shape, Writing, LockMeansOwner,
          Updated, Record, Standing
<1> QED BY <1>2, <1>3

\* The invariant holds.
LEMMA Invariance == Spec => []Inv
BY InitInv, InvStep, PTL DEF Spec

-----------------------------------------------------------------------------
\* Every state of every behaviour is well typed.
THEOREM TypeCorrect == Spec => []TypeOK
<1>1. Inv => TypeOK BY DEF Inv
<1> QED BY <1>1, Invariance, PTL

\* What was reported as done stays in config.xml, and what was deleted stays away,
\* until a process writes to it that has crossed another one.
THEOREM RecordIsShownCorrect == Spec => []RecordIsShown
<1>1. Inv => RecordIsShown
  BY DEF Inv, Rest, Record, Standing, RecordIsShown
<1> QED BY <1>1, Invariance, PTL

\* Of two processes at work on config.xml one has the lock of a file that has been
\* replaced: flock fails only those who had to wait for it.
THEOREM LockExcludesCorrect == Spec => []LockExcludes
<1>1. Inv => LockExcludes
  BY DEF Inv, Rest, Locking, LockExcludes
<1> QED BY <1>1, Invariance, PTL

\* An update that has crossed no other process works on what is config.xml.
THEOREM LockMeansOwnerCorrect == Spec => []LockMeansOwner
<1>1. Inv => LockMeansOwner BY DEF Inv, Rest
<1> QED BY <1>1, Invariance, PTL

-----------------------------------------------------------------------------
(* The refinement of ConfigStore *)

\* A content is put together from its two parts.
LEMMA Parts == \A c \in Configs : c = [done |-> c.done, conns |-> c.conns]
BY DEF Configs

\* A step of an update changes what is shown when it replaces config.xml, by adding
\* its own save, and puts the save on record when that is shown.
LEMMA UpdateRefines ==
  ASSUME Inv, NEW u \in Updaters, Update(u) \/ Crash(u)
  PROVE  Store!Next
<1> USE ConfigWriters, MarksAreNoConfigs DEF Inv, Rest
<1>1. u # Gui /\ pc'[Gui] = pc[Gui] /\ data'[Gui] = data[Gui] /\ id[u] \in Saves
  BY DEF Update, Crash, Open, Lock, Parse, OpenTemp, Write, Replace, Unlock, Leave, Goto, TypeOK
<1>2. ASSUME UNCHANGED <<file, kept, gone>> PROVE Store!Next
  BY <1>1, <1>2 DEF Shown, Store!Next
<1>3. ASSUME u \in crossed, kept' = {}, gone' = {} PROVE Store!Next
  BY <1>3 DEF Store!Next, Store!Scramble
<1>4. CASE Open(u) \/ Lock(u) \/ Parse(u) \/ OpenTemp(u) \/ Crash(u)
  BY <1>2, <1>4 DEF Open, Lock, Parse, OpenTemp, Crash, OpenTmp, fileVars, histories
<1>5. CASE Write(u)
  <2>1. UNCHANGED <<kept, gone>> BY <1>5 DEF Write, histories
  <2>2. CASE u \notin crossed BY <1>2, <1>5, <2>1, <2>2, AloneWrites
  <2>3. CASE u \in crossed /\ Standing
    <3>1. handle[u] # "file" BY <2>3 DEF Record
    <3> QED BY <1>2, <1>5, <2>1, <3>1 DEF Write, WriteRest, Put
  <2>4. CASE u \in crossed /\ ~Standing
    BY <1>3, <2>1, <2>4 DEF Standing
  <2> QED BY <2>2, <2>3, <2>4
<1>6. CASE Replace(u)
  <2>1. CASE tmp = Absent BY <1>2, <1>6, <2>1 DEF Replace, fileVars
  <2>2. CASE tmp # Absent /\ u \in crossed
    BY <1>3, <1>6, <2>2 DEF Replace, Overwrite
  <2>3. CASE u \notin crossed
    <3>1. /\ file \in Configs /\ file' = Updated(u)
          /\ pc[Gui] = "idle" /\ pc'[Gui] = "idle" /\ UNCHANGED <<kept, gone>>
      BY <1>6, <2>3, AloneReplaces
    <3>2. Shown = file /\ Shown' = Updated(u) BY <3>1 DEF Shown
    <3>3. Store!Save(id[u], {})
      BY <3>1, <3>2 DEF Store!Save, Store!Configs, Configs, Updated
    <3> QED BY <1>1, <3>3 DEF Store!Next
  <2> QED BY <2>1, <2>2, <2>3
<1>7. CASE Unlock(u)
  <2>1. Shown' = Shown /\ gone' = gone
    BY <1>1, <1>7 DEF Unlock, Report, fileVars, Shown
  <2>2. CASE u \in crossed BY <1>2, <1>7, <2>2 DEF Unlock, Report, fileVars
  <2>3. CASE u \notin crossed
    <3>1. u \in Unreported BY <1>7 DEF Unlock, Unreported
    <3>2. Shown \in Configs /\ id[u] \in Shown.done BY <2>3, <3>1 DEF Record, Standing
    <3>3. kept' = kept \cup {id[u]} BY <1>7, <2>3 DEF Unlock, Report
    <3>4. Store!Report(id[u])
      BY <2>1, <3>2, <3>3 DEF Store!Report, Store!Configs, Configs
    <3> QED BY <1>1, <3>4 DEF Store!Next
  <2> QED BY <2>2, <2>3
<1> QED BY <1>4, <1>5, <1>6, <1>7 DEF Update

\* A save of the GUI takes effect when it empties config.xml: from then on nobody but
\* the GUI can read it, and the GUI will write what it has.
LEMMA GuiRefines == ASSUME Inv, GuiLock \/ GuiStep PROVE Store!Next
<1> USE ConfigWriters, MarksAreNoConfigs DEF Inv, Rest
<1> Gui \in Writers /\ id[Gui] \in Saves /\ data[Gui] \in Configs BY DEF TypeOK
<1>1. ASSUME Gui \in crossed, kept' = {}, gone' = {} PROVE Store!Next
  BY <1>1 DEF Store!Next, Store!Scramble
<1>2. CASE GuiLock
  <2>1. pc[Gui] = "idle" /\ pc'[Gui] = "write" /\ UNCHANGED <<file, kept, gone>>
    BY <1>2 DEF GuiLock, Goto, TypeOK
  <2> QED BY <2>1 DEF Shown, Store!Next
<1>3. CASE GuiTruncate
  <2>1. CASE Gui \in crossed BY <1>1, <1>3, <2>1 DEF GuiTruncate, Overwrite
  <2>2. CASE Gui \notin crossed
    <3>1. /\ pc[Gui] = "write" /\ pc'[Gui] = "unlock"
          /\ UNCHANGED <<data, kept, gone>>
      BY <1>3, <2>2 DEF GuiTruncate, Goto, Overwrite, TypeOK
    <3>2. Shown = file /\ Shown' = data[Gui] BY <3>1 DEF Shown
    <3>3. /\ file \in Configs /\ data[Gui].conns \subseteq file.conns
          /\ data[Gui].done = file.done \cup {id[Gui]}
      BY <2>2, <3>1 DEF Writing
    <3> DEFINE D == file.conns \ data[Gui].conns
    <3>4. data[Gui].conns = file.conns \ D /\ D \in SUBSET Conns BY <3>3 DEF Configs
    <3>5. data[Gui] = [done |-> file.done \cup {id[Gui]}, conns |-> file.conns \ D]
      BY <3>3, <3>4, Parts
    <3>6. Store!Save(id[Gui], D)
      BY <3>1, <3>2, <3>3, <3>5 DEF Store!Save, Store!Configs, Configs
    <3> QED BY <3>4, <3>6 DEF Store!Next
  <2> QED BY <2>1, <2>2
<1>4. CASE GuiSave
  <2>1. CASE Gui \in crossed
    <3>1. pc[Gui] = "unlock" /\ UNCHANGED <<kept, gone>>
      BY <1>4, <2>1 DEF GuiSave, Report
    <3>2. ~Standing BY <2>1, <3>1 DEF Record
    <3> QED BY <1>1, <2>1, <3>1, <3>2 DEF Standing
  <2>2. CASE Gui \notin crossed
    <3>1. /\ Shown' = Shown /\ id[Gui] \in Shown.done /\ Shown \in Configs
          /\ kept' = kept \cup {id[Gui]} /\ gone' = gone \cup (Conns \ Shown.conns)
      BY <1>4, <2>2, AloneSaves
    <3>2. gone \subseteq Conns /\ gone \cap Shown.conns = {}
      BY DEF Record, Standing, TypeOK
    <3>3. gone' = Conns \ Shown.conns BY <3>1, <3>2
    <3>4. Store!Report(id[Gui])
      BY <3>1, <3>3 DEF Store!Report, Store!Configs, Configs
    <3> QED BY <3>4 DEF Store!Next
  <2> QED BY <2>1, <2>2
<1> QED BY <1>2, <1>3, <1>4 DEF GuiStep

\* With updates and GUI saves side by side in any way, config.xml is a ConfigStore, which
\* allows for processes that have crossed.
THEOREM Refinement == Spec => ImplementsStore
<1>1. Init => Store!Init
  BY ConfigWriters DEF Init, Store!Init, Shown, Whole
<1>2. Inv /\ [Next]_vars => [Store!Next]_(Store!vars)
  <2> SUFFICES ASSUME Inv, [Next]_vars PROVE [Store!Next]_(Store!vars)
    OBVIOUS
  <2>1. ASSUME NEW u \in Updaters, NEW c \in Conns, Call(u, c)
        PROVE  UNCHANGED Store!vars
    <3>1. pc'[Gui] = pc[Gui] /\ UNCHANGED <<file, data, crossed, kept, gone>>
      BY <2>1, ConfigWriters DEF Call, Goto, fileVars, histories, Inv, TypeOK
    <3> QED BY <3>1 DEF Shown, Store!vars
  <2>2. CASE UNCHANGED vars
    BY <2>2 DEF vars, fileVars, procVars, histories, Shown, Store!vars
  <2> QED BY <2>1, <2>2, UpdateRefines, GuiRefines DEF Next
<1> QED BY <1>1, <1>2, Invariance, PTL DEF Spec, ImplementsStore, Store!Spec

=============================================================================
