------------------------- MODULE DnsOverrideProofs -------------------------
(***************************************************************************)
(* Proofs about DnsOverride for any number of commands, any settings, and  *)
(* whatever overlaps or is killed.                                         *)
(***************************************************************************)
EXTENDS DnsOverride, TLAPS

\* A command knows settings from when it has read them until it ends.
SeenOK ==
  \A w \in Writers :
    /\ pc[w] \in {"disable", "compare", "open", "write", "replace"} => seen[w] \in Settings
    /\ pc[w] \in {"compare", "open", "write", "replace"} => ~IsDisabled(seen[w])
    /\ pc[w] = "disable" => IsDisabled(seen[w])

\* The lone command is the only one, and without an overlap there is at most one.
LoneOK ==
  \A w \in Writers :
    /\ lone = w => pc[w] # "idle" /\ \A v \in Writers \ {w} : pc[v] = "idle"
    /\ pc[w] # "idle" /\ ~mixed => lone = w

\* The work of a lone command: what it writes is what it replaces the file by.
LoneWork ==
  \A w \in Writers :
    /\ lone = w /\ pc[w] = "write" => handle[w] = "tmp" /\ tmp = Torn
    /\ lone = w /\ pc[w] = "replace" => tmp = Build(seen[w])
    /\ lone = w /\ pc[w] = "reload" =>
         \/ seen[w] = Unknown /\ file = Absent
         \/ /\ seen[w] \in Settings /\ ~IsDisabled(seen[w])
            /\ file = Build(seen[w])

\* Once settings are settled nothing runs.
SettledOK ==
  settled \in Settings =>
    file = Wanted(settled) /\ \A w \in Writers : pc[w] = "idle"

\* A command that has not read the settings knows none.
SeenNone ==
  \A w \in Writers : pc[w] \in {"idle", "read", "remove"} => seen[w] = Unknown

Inv ==
  /\ TypeOK /\ SeenOK /\ SeenNone
  /\ LoneOK /\ LoneWork
  /\ TornOnlyAfterOverlap
  /\ SettledOK
  /\ StaleOnlyAfterMiss

\* What is written is a content, and never one of the marks.
LEMMA BuildType ==
  \A s \in Settings : Build(s) \in Contents /\ Build(s) # Absent /\ Build(s) # Torn
<1> SUFFICES ASSUME NEW s \in Settings PROVE Build(s) \in Contents
  BY NotContents
<1>1. s.servers \in Servers /\ s.domains \in Domains BY DEF Settings
<1> QED BY <1>1, DnsContents DEF Build, Overrides

\* The first state satisfies the invariant.
LEMMA InitInv == Init => Inv
<1> SUFFICES ASSUME Init PROVE Inv OBVIOUS
<1> USE NotContents, NotSettings DEF Init
<1>1. TypeOK BY DEF TypeOK, FileTypes
<1>2. SeenOK /\ SeenNone BY DEF SeenOK, SeenNone
<1>3. LoneOK /\ LoneWork BY DEF LoneOK, LoneWork
<1>4. TornOnlyAfterOverlap /\ SettledOK /\ StaleOnlyAfterMiss
  BY DEF TornOnlyAfterOverlap, SettledOK, StaleOnlyAfterMiss
<1> QED BY <1>1, <1>2, <1>3, <1>4 DEF Inv

-----------------------------------------------------------------------------
\* A command begins.
LEMMA BeginStep ==
  ASSUME Inv, NEW w \in Writers, Begin(w, "read") \/ Begin(w, "remove"), conf' \in Settings
  PROVE  Inv'
<1> USE NotSettings DEF Inv, Begin, Goto, fileVars
<1>1. TypeOK' BY DEF TypeOK, FileTypes
<1>2. SeenOK' /\ SeenNone' BY DEF TypeOK, SeenOK, SeenNone
<1>3. LoneOK' BY DEF TypeOK, LoneOK
<1>4. LoneWork' BY DEF TypeOK, LoneWork
<1>5. SettledOK' BY DEF SettledOK
<1>6. TornOnlyAfterOverlap' BY DEF TornOnlyAfterOverlap
<1>7. StaleOnlyAfterMiss'
  BY DEF TypeOK, StaleOnlyAfterMiss
<1> QED BY <1>1, <1>2, <1>3, <1>4, <1>5, <1>6, <1>7

\* The settings are read.
LEMMA ReadStep == ASSUME Inv, NEW w \in Writers, Read(w) PROVE Inv'
<1> USE NotSettings DEF Inv, Read, Goto, fileVars, history
<1>1. TypeOK' BY DEF TypeOK, FileTypes
<1>2. SeenOK' /\ SeenNone' BY DEF TypeOK, SeenOK, SeenNone
<1>3. LoneOK' BY DEF TypeOK, LoneOK
<1>4. LoneWork' BY DEF TypeOK, LoneWork
<1>5. SettledOK' BY DEF TypeOK, SettledOK
<1>6. TornOnlyAfterOverlap' BY DEF TornOnlyAfterOverlap
<1>7. StaleOnlyAfterMiss' BY DEF TypeOK, StaleOnlyAfterMiss
<1> QED BY <1>1, <1>2, <1>3, <1>4, <1>5, <1>6, <1>7

\* The end of a command leaves a sound state if the rest of the step does.
LEMMA LeaveStep ==
  ASSUME Inv, NEW w \in Writers, pc[w] # "idle", Leave(w)
  PROVE  /\ pc' \in [Writers -> {"idle", "read", "disable", "compare", "open", "write",
                                 "replace", "reload", "remove"}]
         /\ pc'[w] = "idle" /\ \A v \in Writers \ {w} : pc'[v] = pc[v] /\ seen'[v] = seen[v]
         /\ seen' \in [Writers -> Settings \cup {Unknown}] /\ seen'[w] = Unknown
         /\ lone' \in Writers \cup {NoOne} /\ lone' # w
         /\ SeenOK' /\ SeenNone'
         /\ mixed' \in BOOLEAN /\ (mixed' = mixed \/ lone = w) => LoneOK'
         /\ settled = Unknown
<1> USE NotSettings DEF Inv, Leave, Goto
<1>1. settled = Unknown BY DEF SettledOK, TypeOK
<1>2. SeenOK' /\ SeenNone' BY DEF TypeOK, SeenOK, SeenNone
<1>3. mixed' \in BOOLEAN /\ (mixed' = mixed \/ lone = w) => LoneOK'
  BY DEF TypeOK, LoneOK
<1> QED BY <1>1, <1>2, <1>3 DEF TypeOK

\* After a lone command has ended there is nothing that LoneWork speaks of.
LEMMA LoneWorkLeaves ==
  ASSUME Inv, NEW w \in Writers, pc[w] # "idle", Leave(w),
         UNCHANGED tmp, UNCHANGED file \/ lone \in {w, NoOne},
         \A v \in Writers \ {w} : handle'[v] = handle[v] \/ lone \in {w, NoOne}
  PROVE  LoneWork'
<1>1. lone \in Writers \cup {NoOne} BY DEF Inv, TypeOK
<1>2. CASE lone \in Writers \ {w}
  BY <1>2 DEF Inv, LoneOK
<1>3. CASE lone \in {w, NoOne}
  BY <1>3, NotSettings DEF Leave, LoneWork
<1> QED BY <1>1, <1>2, <1>3

-----------------------------------------------------------------------------
\* The override is removed, without a reload.
LEMMA DisableStep == ASSUME Inv, NEW w \in Writers, Disable(w) PROVE Inv'
<1> USE DEF Disable, RemoveConf
<1>1. pc[w] # "idle" /\ Leave(w) BY DEF Return
<1>2. lone \in {w, NoOne} BY <1>1 DEF Inv, LoneOK, TypeOK
<1>3. settled' = IF lone = w THEN seen[w] ELSE Unknown BY DEF Return
<1>4. TypeOK'
  <2>1. \A v \in Writers : handle[v] = "none" => handle'[v] = "none"
    BY DEF Inv, TypeOK, FileTypes
  <2>2. handle[w] = "none" BY DEF Inv, TypeOK, FileTypes
  <2>3. seen[w] \in Settings \cup {Unknown} BY DEF Inv, TypeOK
  <2> QED BY <1>1, <1>3, <2>1, <2>2, <2>3, LeaveStep DEF Inv, TypeOK, FileTypes
<1>5. SeenOK' /\ SeenNone' /\ LoneOK'
  BY <1>1, LeaveStep DEF Inv, TypeOK
<1>6. LoneWork' BY <1>1, <1>2, LoneWorkLeaves
<1>7. SettledOK'
  <2>1. CASE lone = w
    <3>1. IsDisabled(seen[w]) /\ \A v \in Writers : pc'[v] = "idle"
      BY <1>1, <2>1, LeaveStep DEF Inv, SeenOK, LoneOK
    <3> QED BY <1>3, <2>1, <3>1 DEF SettledOK, Wanted
  <2> QED BY <1>3, <2>1, NotSettings DEF SettledOK
<1>8. TornOnlyAfterOverlap'
  BY NotContents DEF Inv, TornOnlyAfterOverlap
<1>9. StaleOnlyAfterMiss'
  BY <1>1, LeaveStep DEF Inv, StaleOnlyAfterMiss, TypeOK
<1> QED BY <1>4, <1>5, <1>6, <1>7, <1>8, <1>9 DEF Inv

\* The file is compared with what it should be.
LEMMA CompareStep == ASSUME Inv, NEW w \in Writers, Compare(w) PROVE Inv'
<1> USE DEF Compare, fileVars
<1>1. CASE file = Build(seen[w])
  <2>1. pc[w] # "idle" /\ Leave(w) BY <1>1 DEF Return
  <2>2. settled' = IF lone = w THEN seen[w] ELSE Unknown BY <1>1 DEF Return
  <2>3. TypeOK'
    <3>1. handle[w] = "none" /\ seen[w] \in Settings \cup {Unknown}
      BY DEF Inv, TypeOK, FileTypes
    <3> QED BY <2>1, <2>2, <3>1, LeaveStep DEF Inv, TypeOK, FileTypes
  <2>4. SeenOK' /\ SeenNone' /\ LoneOK' BY <2>1, LeaveStep DEF Inv, TypeOK
  <2>5. LoneWork' BY <2>1, LoneWorkLeaves
  <2>6. SettledOK'
    <3>1. CASE lone = w
      <4>1. ~IsDisabled(seen[w]) /\ \A v \in Writers : pc'[v] = "idle"
        BY <2>1, <3>1, LeaveStep DEF Inv, SeenOK, LoneOK
      <4> QED BY <1>1, <2>2, <3>1, <4>1 DEF SettledOK, Wanted
    <3> QED BY <2>2, <3>1, NotSettings DEF SettledOK
  <2>7. TornOnlyAfterOverlap' BY DEF Inv, TornOnlyAfterOverlap
  <2>8. StaleOnlyAfterMiss' BY <2>1, LeaveStep DEF Inv, StaleOnlyAfterMiss
  <2> QED BY <2>3, <2>4, <2>5, <2>6, <2>7, <2>8 DEF Inv
<1>2. CASE file # Build(seen[w])
  <2> USE <1>2 DEF Goto, Inv
  <2>1. TypeOK' BY DEF TypeOK, FileTypes
  <2>2. SeenOK' /\ SeenNone' BY DEF TypeOK, SeenOK, SeenNone
  <2>3. LoneOK' BY DEF TypeOK, LoneOK
  <2>4. LoneWork' BY DEF TypeOK, LoneWork
  <2>5. SettledOK' BY DEF TypeOK, SettledOK
  <2>6. TornOnlyAfterOverlap' BY DEF TornOnlyAfterOverlap
  <2>7. StaleOnlyAfterMiss' BY DEF TypeOK, StaleOnlyAfterMiss
  <2> QED BY <2>1, <2>2, <2>3, <2>4, <2>5, <2>6, <2>7
<1> QED BY <1>1, <1>2

\* The temporary file is opened.
LEMMA OpenStep == ASSUME Inv, NEW w \in Writers, Open(w) PROVE Inv'
<1> USE DEF Inv, Open, OpenTmp, Hold, Goto, history
<1>1. TypeOK' BY DEF TypeOK, FileTypes
<1>2. SeenOK' /\ SeenNone' BY DEF TypeOK, SeenOK, SeenNone
<1>3. LoneOK' BY DEF TypeOK, LoneOK
<1>4. LoneWork' BY DEF TypeOK, FileTypes, LoneWork, LoneOK
<1>5. SettledOK' BY DEF TypeOK, SettledOK
<1>6. TornOnlyAfterOverlap' BY DEF TornOnlyAfterOverlap
<1>7. StaleOnlyAfterMiss' BY DEF TypeOK, StaleOnlyAfterMiss
<1> QED BY <1>1, <1>2, <1>3, <1>4, <1>5, <1>6, <1>7

\* The temporary file is written.
LEMMA WriteStep == ASSUME Inv, NEW w \in Writers, Write(w) PROVE Inv'
<1> USE DEF Inv, Write, WriteRest, Hold, Goto, history
<1>1. Build(seen[w]) \in Contents BY BuildType DEF SeenOK
<1>2. TypeOK' BY <1>1 DEF TypeOK, FileTypes, Put
<1>3. SeenOK' /\ SeenNone' BY DEF TypeOK, SeenOK, SeenNone
<1>4. LoneOK' BY DEF TypeOK, LoneOK
<1>5. ASSUME lone = w PROVE tmp' = Build(seen[w]) /\ file' = file
  <2>1. handle[w] = "tmp" /\ tmp = Torn BY <1>5 DEF LoneWork
  <2>2. \A u \in Writers \ {w} : handle[u] = "none"
    BY <1>5 DEF LoneOK, TypeOK, FileTypes
  <2>3. ~Shared(w) BY <2>1, <2>2 DEF Shared
  <2> QED BY <2>1, <2>3 DEF Put
<1>6. LoneWork'
  <2>1. lone \in {w, NoOne} BY DEF LoneOK, TypeOK
  <2> QED BY <1>5, <2>1, NotSettings DEF TypeOK, LoneWork
<1>7. settled \notin Settings BY DEF SettledOK
<1>8. SettledOK' BY <1>7 DEF SettledOK
<1>9. mixed \/ lone = w BY DEF LoneOK, TypeOK
<1>10. TornOnlyAfterOverlap' BY <1>5, <1>9 DEF TornOnlyAfterOverlap
<1>11. StaleOnlyAfterMiss' BY <1>5, <1>9 DEF TypeOK, StaleOnlyAfterMiss
<1> QED BY <1>2, <1>3, <1>4, <1>6, <1>8, <1>10, <1>11

\* The file is replaced.
LEMMA ReplaceStep == ASSUME Inv, NEW w \in Writers, Replace(w) PROVE Inv'
<1> USE DEF Replace
<1>1. settled \notin Settings BY DEF Inv, SettledOK
<1>2. settled' = settled OBVIOUS
<1>3. lone \in {w, NoOne} /\ (mixed \/ lone = w) BY DEF Inv, LoneOK, TypeOK
<1>4. CASE tmp = Absent
  <2>1. pc[w] # "idle" /\ Leave(w) BY <1>4
  <2> USE <1>4 DEF fileVars
  <2>2. TypeOK'
    <3>1. handle[w] = "none" BY DEF Inv, TypeOK, FileTypes
    <3> QED BY <2>1, <3>1, LeaveStep DEF Inv, TypeOK, FileTypes
  <2>3. SeenOK' /\ SeenNone' /\ LoneOK' BY <2>1, LeaveStep DEF Inv, TypeOK
  <2>4. LoneWork' BY <2>1, LoneWorkLeaves
  <2>5. SettledOK' BY <1>1, <1>2 DEF SettledOK
  <2>6. TornOnlyAfterOverlap' BY DEF Inv, TornOnlyAfterOverlap
  <2>7. StaleOnlyAfterMiss' BY <2>1, LeaveStep DEF Inv, StaleOnlyAfterMiss
  <2> QED BY <2>2, <2>3, <2>4, <2>5, <2>6, <2>7 DEF Inv
<1>5. CASE tmp # Absent
  <2> USE <1>5 DEF Rename, Goto
  <2>1. Renamed \in [Writers -> {"none", "tmp", "file", "gone"}]
    BY DEF Renamed, Inv, TypeOK, FileTypes
  <2>2. \A v \in Writers : Renamed[v] # "none" => handle[v] # "none"
    BY DEF Renamed
  <2>3. handle[w] = "none" BY DEF Inv, TypeOK, FileTypes
  <2>4. TypeOK' BY <2>1, <2>2, <2>3 DEF Inv, TypeOK, FileTypes
  <2>5. SeenOK' /\ SeenNone' BY DEF Inv, TypeOK, SeenOK, SeenNone
  <2>6. LoneOK' BY DEF Inv, TypeOK, LoneOK
  <2>7. lone = w => file' = Build(seen[w]) BY DEF Inv, LoneWork
  <2>8. seen[w] \in Settings /\ ~IsDisabled(seen[w]) BY DEF Inv, SeenOK
  <2>9. LoneWork' BY <1>3, <2>7, <2>8, NotSettings DEF Inv, TypeOK, LoneWork
  <2>10. SettledOK' BY <1>1, <1>2 DEF SettledOK
  <2>11. TornOnlyAfterOverlap'
    BY <1>3, <2>7, <2>8, BuildType DEF Inv, TornOnlyAfterOverlap
  <2>12. StaleOnlyAfterMiss' BY DEF Inv, TypeOK, StaleOnlyAfterMiss
  <2> QED BY <2>4, <2>5, <2>6, <2>9, <2>10, <2>11, <2>12 DEF Inv
<1> QED BY <1>4, <1>5

\* Unbound is told, or not.
LEMMA ReloadStep ==
  ASSUME Inv, NEW w \in Writers, Reload(w) \/ ReloadFails(w)
  PROVE  Inv'
<1> USE DEF Reload, ReloadFails, fileVars
<1>1. pc[w] = "reload" /\ Leave(w) BY DEF Return
<1>2. settled' = IF lone = w THEN seen[w] ELSE Unknown BY DEF Return
<1>3. mixed' \in BOOLEAN /\ (mixed' = mixed \/ lone = w) BY DEF Inv, TypeOK
<1>4. TypeOK'
  <2>1. handle[w] = "none" /\ seen[w] \in Settings \cup {Unknown}
    BY <1>1 DEF Inv, TypeOK, FileTypes
  <2> QED BY <1>1, <1>2, <1>3, <2>1, LeaveStep DEF Inv, TypeOK, FileTypes
<1>5. SeenOK' /\ SeenNone' /\ LoneOK' BY <1>1, <1>3, LeaveStep
<1>6. LoneWork' BY <1>1, LoneWorkLeaves
<1>7. lone = w => \/ seen[w] = Unknown /\ file = Absent
                  \/ /\ seen[w] \in Settings /\ ~IsDisabled(seen[w])
                     /\ file = Build(seen[w])
  BY <1>1 DEF Inv, LoneWork
<1>8. SettledOK'
  <2>1. CASE lone = w
    <3>1. \A v \in Writers : pc'[v] = "idle"
      BY <1>1, <2>1, LeaveStep DEF Inv, LoneOK
    <3> QED BY <1>2, <1>7, <2>1, <3>1, NotSettings DEF SettledOK, Wanted
  <2> QED BY <1>2, <2>1, NotSettings DEF SettledOK
<1>9. TornOnlyAfterOverlap'
  <2>1. lone = w => file # Torn BY <1>7, BuildType, NotContents
  <2> QED BY <2>1 DEF Inv, TypeOK, TornOnlyAfterOverlap
<1>10. StaleOnlyAfterMiss' BY DEF StaleOnlyAfterMiss
<1> QED BY <1>4, <1>5, <1>6, <1>8, <1>9, <1>10 DEF Inv

\* The override is removed, with a reload to come.
LEMMA RemoveStep == ASSUME Inv, NEW w \in Writers, Remove(w) PROVE Inv'
<1> USE DEF Inv, Remove, RemoveConf, Goto, history
<1>1. TypeOK' BY DEF TypeOK, FileTypes
<1>2. SeenOK' /\ SeenNone' BY DEF TypeOK, SeenOK, SeenNone
<1>3. LoneOK' BY DEF TypeOK, LoneOK
<1>4. LoneWork'
  <2>1. lone \in {w, NoOne} BY DEF LoneOK, TypeOK
  <2>2. seen[w] = Unknown BY DEF SeenNone
  <2> QED BY <2>1, <2>2, NotSettings DEF TypeOK, LoneWork
<1>5. SettledOK' BY DEF SettledOK
<1>6. TornOnlyAfterOverlap' BY NotContents DEF TornOnlyAfterOverlap
<1>7. StaleOnlyAfterMiss' BY DEF TypeOK, StaleOnlyAfterMiss
<1> QED BY <1>1, <1>2, <1>3, <1>4, <1>5, <1>6, <1>7

\* A command is killed.
LEMMA CrashStep == ASSUME Inv, NEW w \in Writers, Crash(w) PROVE Inv'
<1> USE DEF Crash, Hold
<1>1. pc[w] # "idle" /\ Leave(w) OBVIOUS
<1>2. TypeOK' BY <1>1, LeaveStep DEF Inv, TypeOK, FileTypes
<1>3. SeenOK' /\ SeenNone' /\ LoneOK' BY <1>1, LeaveStep DEF Inv, TypeOK
<1>4. LoneWork'
  <2>1. \A v \in Writers \ {w} : handle'[v] = handle[v] BY DEF Inv, TypeOK, FileTypes
  <2> QED BY <1>1, <2>1, LoneWorkLeaves
<1>5. SettledOK' BY <1>1, LeaveStep, NotSettings DEF SettledOK
<1>6. TornOnlyAfterOverlap' BY DEF Inv, TornOnlyAfterOverlap
<1>7. StaleOnlyAfterMiss' BY <1>1, LeaveStep DEF Inv, StaleOnlyAfterMiss
<1> QED BY <1>2, <1>3, <1>4, <1>5, <1>6, <1>7 DEF Inv

\* Unbound restarts, or "Enable" is saved, or nothing happens.
LEMMA OtherStep == ASSUME Inv, SetEnabled \/ UnboundStarts \/ UNCHANGED vars PROVE Inv'
<1> USE DEF Inv, SetEnabled, UnboundStarts, vars, fileVars, history
<1>1. conf' \in Settings BY DEF TypeOK, Settings
<1>2. TypeOK' BY <1>1 DEF TypeOK, FileTypes
<1>3. SeenOK' /\ SeenNone' /\ LoneOK' /\ LoneWork'
  BY DEF SeenOK, SeenNone, LoneOK, LoneWork
<1>4. SettledOK' /\ TornOnlyAfterOverlap' /\ StaleOnlyAfterMiss'
  BY DEF SettledOK, TornOnlyAfterOverlap, StaleOnlyAfterMiss
<1> QED BY <1>2, <1>3, <1>4

-----------------------------------------------------------------------------
\* The invariant holds in every state of every behaviour.
LEMMA Invariance == Spec => []Inv
<1>1. Inv /\ [Next]_vars => Inv'
  <2> SUFFICES ASSUME Inv, [Next]_vars PROVE Inv' OBVIOUS
  <2>1. ASSUME NEW w \in Writers, NEW s \in Settings, SetDns(w, s) PROVE Inv'
    BY <2>1, BeginStep DEF SetDns
  <2>2. ASSUME NEW w \in Writers, ApplyDns(w) \/ RemoveDns(w) PROVE Inv'
    BY <2>2, BeginStep DEF ApplyDns, RemoveDns, Inv, TypeOK
  <2>3. ASSUME NEW w \in Writers, Step(w) PROVE Inv'
    BY <2>3, ReadStep, DisableStep, CompareStep, OpenStep, WriteStep, ReplaceStep,
       ReloadStep, RemoveStep DEF Step
  <2>4. ASSUME NEW w \in Writers, Crash(w) PROVE Inv'
    BY <2>4, CrashStep
  <2>5. CASE SetEnabled \/ UnboundStarts \/ UNCHANGED vars
    BY <2>5, OtherStep
  <2> QED BY <2>1, <2>2, <2>3, <2>4, <2>5 DEF Next
<1> QED BY InitInv, <1>1, PTL DEF Spec

\* Every state is well typed.
THEOREM TypeCorrect == Spec => []TypeOK
<1>1. Inv => TypeOK BY DEF Inv
<1> QED BY <1>1, Invariance, PTL

\* Unbound finds a half-written file only when commands have overlapped.
THEOREM TornOnlyAfterOverlapCorrect == Spec => []TornOnlyAfterOverlap
<1>1. Inv => TornOnlyAfterOverlap BY DEF Inv
<1> QED BY <1>1, Invariance, PTL

\* An apply that nothing ran beside leaves the file that the settings call for.
THEOREM SettledFileCorrect == Spec => []SettledFile
<1>1. Inv => SettledFile BY DEF Inv, TypeOK, SettledOK, SettledFile
<1> QED BY <1>1, Invariance, PTL

\* Unbound works with an outdated file only for the reasons that are listed.
THEOREM StaleOnlyAfterMissCorrect == Spec => []StaleOnlyAfterMiss
<1>1. Inv => StaleOnlyAfterMiss BY DEF Inv
<1> QED BY <1>1, Invariance, PTL

\* What is left of "changes take effect immediately" (TakesEffect, which does not
\* hold): applied settings are the ones Unbound works with unless a reload was skipped,
\* failed or lost since its last one, or commands overlapped.
EffectUnlessMissed ==
  settled = conf /\ missed = "no" /\ ~mixed => loaded = Wanted(conf)

\* Applied settings take effect, unless a reload was missed.
THEOREM EffectUnlessMissedCorrect == Spec => []EffectUnlessMissed
<1>1. Inv => EffectUnlessMissed
  <2> SUFFICES ASSUME Inv, settled = conf, missed = "no", ~mixed PROVE loaded = Wanted(conf)
    BY DEF EffectUnlessMissed
  <2>1. settled \in Settings BY DEF Inv, TypeOK
  <2>2. file = Wanted(conf) /\ \A w \in Writers : pc[w] = "idle"
    BY <2>1 DEF Inv, SettledOK
  <2>3. loaded = file BY <2>2 DEF Inv, StaleOnlyAfterMiss
  <2> QED BY <2>2, <2>3
<1> QED BY <1>1, Invariance, PTL

=============================================================================
