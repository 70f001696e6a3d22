------------------------- MODULE SecretsStoreProofs -------------------------
(***************************************************************************)
(* Proofs about SecretsStore for any keys, values, hosts and number of     *)
(* writers, whose calls overlap in any way.                                *)
(***************************************************************************)
EXTENDS SecretsStore, TLAPS

\* A writer that has crossed no other has the store to itself from its Load to its
\* Replace.
Apart == \A u, w \in Writers : u # w /\ u \in Busy /\ w \in Busy => u \in crossed

\* What such a writer has in memory is the store with one entry changed, and what is
\* in the temporary file is what it has in memory.
Progress ==
  \A w \in Writers \ crossed :
    /\ w \in Busy => data[w] = [Loaded EXCEPT ![job[w].key] = job[w].blob]
    /\ pc[w] = "write" => handle[w] = "tmp" /\ tmp = Torn
    /\ pc[w] = "replace" => tmp = data[w]

\* Only calls that are about to replace the store can have crossed, and only a call
\* that is writing has a file open.
Shape == crossed \subseteq Busy /\ \A w \in Writers : pc[w] # "write" => handle[w] = "none"

\* As long as anything is on record, nobody writes to secrets.json itself, and it
\* holds what is on record.
Recording ==
  \A k \in Keys : acked[k] # Unknown =>
    file # Torn /\ Loaded[k] = acked[k] /\ \A w \in Writers : handle[w] # "file"

Inv == TypeOK /\ Apart /\ Progress /\ Shape /\ Recording

\* The loaded store always has the shape of one.
LEMMA LoadedType == Loaded \in Entries
BY DEF Loaded, Entries, NoEntries

\* Neither of the marks for a file that is missing or torn is a store.
LEMMA MarksAreNoStores == Absent \notin Entries /\ Torn \notin Entries /\ Absent # Torn
BY NotContents, SecretsContents

\* The first state satisfies the invariant.
LEMMA InitInv == Init => Inv
<1> SUFFICES ASSUME Init PROVE Inv OBVIOUS
<1> USE DEF Init
<1>1. TypeOK BY SecretsContents DEF TypeOK, FileTypes, Entries, NoEntries
<1>2. Apart /\ Progress /\ Shape BY DEF Apart, Progress, Shape, Busy
<1>3. Recording BY MarksAreNoStores DEF Recording, Loaded, NoEntries
<1> QED BY <1>1, <1>2, <1>3 DEF Inv

-----------------------------------------------------------------------------
\* Every step keeps every variable in its type.
LEMMA TypeStep == TypeOK /\ [Next]_vars => TypeOK'
<1> SUFFICES ASSUME TypeOK, [Next]_vars PROVE TypeOK'
  OBVIOUS
<1> USE SecretsContents, LoadedType
    DEF TypeOK, FileTypes, fileVars, storeVars, Goto, Hold, Cross, Busy
<1>1. ASSUME NEW w \in Writers, NEW k \in Keys, NEW b \in Blobs \cup {Missing}, Begin(w, k, b)
      PROVE TypeOK'
  <2> [key |-> k, blob |-> b] \in [key : Keys, blob : Blobs \cup {Missing}] OBVIOUS
  <2> QED BY <1>1, NotJob DEF Begin
<1>2. ASSUME NEW w \in Writers, Load(w) PROVE TypeOK'
  <2>1. job[w] \in [key : Keys, blob : Blobs \cup {Missing}] BY <1>2 DEF Load
  <2>2. [Loaded EXCEPT ![job[w].key] = job[w].blob] \in Entries
    BY <2>1 DEF Entries
  <2> QED BY <1>2, <2>2 DEF Load
<1>3. ASSUME NEW w \in Writers, Open(w) PROVE TypeOK'
  BY <1>3 DEF Open, OpenTmp
<1>4. ASSUME NEW w \in Writers, Write(w) PROVE TypeOK'
  <2>1. data[w] \in Entries OBVIOUS
  <2> QED BY <1>4, <2>1 DEF Write, WriteRest, Put
<1>5. ASSUME NEW w \in Writers, Replace(w) PROVE TypeOK'
  <2>1. Renamed \in [Writers -> {"none", "tmp", "file", "gone"}] BY DEF Renamed
  <2>2. acked' \in [Keys -> Blobs \cup {Missing, Unknown}]
    BY <1>5 DEF Replace, Recorded
  <2>3. NoEntries \in Entries BY DEF NoEntries, Entries
  <2> QED BY <1>5, <2>1, <2>2, <2>3 DEF Replace, Rename, Return
<1>6. ASSUME NEW w \in Writers, Crash(w) PROVE TypeOK'
  <2>1. NoEntries \in Entries BY DEF NoEntries, Entries
  <2> QED BY <1>6, <2>1 DEF Crash, Return
<1>7. CASE HostChanges
  BY <1>7 DEF HostChanges
<1>8. CASE UNCHANGED vars
  BY <1>8 DEF vars
<1>9. ASSUME NEW w \in Writers, NEW k \in Keys, NEW v \in Values, SetSecret(w, k, v)
      PROVE TypeOK'
  <2>1. host \in Hosts BY <1>9 DEF SetSecret
  <2>2. Encrypt(v) \in Blobs BY <2>1 DEF Encrypt, Blobs
  <2> QED BY <1>1, <1>9, <2>2 DEF SetSecret
<1> QED BY <1>1, <1>2, <1>3, <1>4, <1>5, <1>6, <1>7, <1>8, <1>9 DEF Next, Step, DelSecret

-----------------------------------------------------------------------------
\* A call that begins, for the key k, changes nothing but what is on record for k.
LEMMA BeginInv ==
  ASSUME Inv, NEW w \in Writers, NEW k \in Keys, NEW b \in Blobs \cup {Missing}, Begin(w, k, b)
  PROVE  Apart' /\ Progress' /\ Shape' /\ Recording'
<1> USE DEF Inv, Begin, Goto
<1>1. /\ pc'[w] = "load" /\ Busy' = Busy /\ w \notin Busy
      /\ UNCHANGED <<handle, data, tmp, file, crossed>> /\ Loaded' = Loaded
      /\ \A u \in Writers \ {w} : pc'[u] = pc[u] /\ job'[u] = job[u]
      /\ \A c \in Keys : acked'[c] \in {acked[c], Unknown}
  BY DEF TypeOK, Loaded, Busy, fileVars
<1>2. pc[w] = "idle" OBVIOUS
<1>3. Apart' BY <1>1 DEF Apart
<1>4. Progress' BY <1>1 DEF Progress, Busy
<1>5. Shape' BY <1>1, <1>2 DEF Shape
<1>6. Recording' BY <1>1 DEF Recording
<1> QED BY <1>3, <1>4, <1>5, <1>6

\* A call that loads the store is alone with it, or it and the others have crossed.
LEMMA LoadInv ==
  ASSUME Inv, NEW w \in Writers, Load(w)
  PROVE  Apart' /\ Progress' /\ Shape' /\ Recording'
<1> USE DEF Inv, Load, Goto, Cross
<1>1. /\ pc[w] = "load" /\ pc'[w] = "open" /\ Busy' = Busy \cup {w} /\ w \notin Busy
      /\ UNCHANGED <<handle, tmp, file, job, acked>> /\ Loaded' = Loaded
      /\ \A u \in Writers \ {w} : pc'[u] = pc[u] /\ data'[u] = data[u]
      /\ data'[w] = [Loaded EXCEPT ![job[w].key] = job[w].blob]
  BY DEF TypeOK, Loaded, Busy, fileVars
<1>2. crossed' = IF Busy = {} THEN crossed ELSE crossed \cup Busy \cup {w} BY <1>1
<1>3. Apart' BY <1>1, <1>2 DEF Apart
<1>4. Progress'
  <2> SUFFICES ASSUME NEW u \in Writers, u \notin crossed'
               PROVE  /\ u \in Busy' => data'[u] = [Loaded' EXCEPT ![job'[u].key] = job'[u].blob]
                      /\ pc'[u] = "write" => handle'[u] = "tmp" /\ tmp' = Torn
                      /\ pc'[u] = "replace" => tmp' = data'[u]
    BY DEF Progress
  <2>1. CASE u = w BY <1>1, <2>1
  <2>2. CASE u # w BY <1>1, <1>2, <2>2 DEF Progress
  <2> QED BY <2>1, <2>2
<1>5. Shape' BY <1>1, <1>2 DEF Shape
<1>6. Recording' BY <1>1 DEF Recording
<1> QED BY <1>3, <1>4, <1>5, <1>6

\* The temporary file is nobody's but that of the only call that is writing, or of
\* calls that have crossed.
LEMMA OpenInv ==
  ASSUME Inv, NEW w \in Writers, Open(w)
  PROVE  Apart' /\ Progress' /\ Shape' /\ Recording'
<1> USE DEF Inv, Open, OpenTmp, Goto, Hold
<1>1. /\ pc[w] = "open" /\ pc'[w] = "write" /\ Busy' = Busy /\ w \in Busy
      /\ handle'[w] = "tmp" /\ tmp' = Torn /\ Loaded' = Loaded
      /\ UNCHANGED <<file, job, acked, data, crossed>>
      /\ \A u \in Writers \ {w} : pc'[u] = pc[u] /\ handle'[u] = handle[u]
  BY DEF TypeOK, FileTypes, Loaded, Busy
<1>2. \A u \in Writers \ {w} : u \in Busy => u \in crossed BY <1>1 DEF Apart
<1>3. Apart' BY <1>1 DEF Apart
<1>4. Progress' BY <1>1, <1>2 DEF Progress, Busy
<1>5. Shape' BY <1>1 DEF Shape
<1>6. Recording' BY <1>1 DEF Recording
<1> QED BY <1>3, <1>4, <1>5, <1>6

\* A call that has crossed no other writes its own temporary file, whole.
LEMMA AloneWrites ==
  ASSUME Inv, NEW w \in Writers, w \notin crossed, Write(w)
  PROVE  tmp' = data[w] /\ file' = file
<1> USE DEF Inv, Write, WriteRest
<1>1. w \in Busy BY DEF Busy
<1>2. handle[w] = "tmp" /\ tmp = Torn BY DEF Progress
<1>3. \A u \in Writers \ {w} : handle[u] = "none" BY <1>1 DEF Apart, Shape, Busy
<1>4. ~Shared(w) BY <1>2, <1>3 DEF Shared
<1> QED BY <1>2, <1>4 DEF Put

\* A write changes secrets.json only where nothing is on record.
LEMMA WriteInv ==
  ASSUME Inv, NEW w \in Writers, Write(w)
  PROVE  Apart' /\ Progress' /\ Shape' /\ Recording'
<1> USE DEF Inv, Write, Goto, Hold
<1>1. /\ pc[w] = "write" /\ pc'[w] = "replace" /\ Busy' = Busy /\ w \in Busy
      /\ handle'[w] = "none"
      /\ UNCHANGED <<job, acked, data, crossed>>
      /\ \A u \in Writers \ {w} : pc'[u] = pc[u] /\ handle'[u] = handle[u]
  BY DEF TypeOK, FileTypes, Busy, WriteRest
<1>2. \A u \in Writers \ {w} : u \in Busy => u \in crossed BY <1>1 DEF Apart
<1>3. Apart' BY <1>1 DEF Apart
<1>4. Progress'
  <2>1. CASE w \in crossed BY <1>1, <1>2, <2>1 DEF Progress, Busy
  <2>2. CASE w \notin crossed
    <3>1. tmp' = data[w] /\ Loaded' = Loaded BY <2>2, AloneWrites DEF Loaded
    <3> QED BY <1>1, <1>2, <3>1 DEF Progress, Busy
  <2> QED BY <2>1, <2>2
<1>5. Shape' BY <1>1 DEF Shape
<1>6. Recording'
  <2> SUFFICES ASSUME NEW k \in Keys, acked[k] # Unknown
               PROVE  /\ file' # Torn /\ Loaded'[k] = acked[k]
                      /\ \A u \in Writers : handle'[u] # "file"
    BY <1>1 DEF Recording
  <2>1. handle[w] # "file" BY DEF Recording
  <2>2. file' = file BY <2>1 DEF WriteRest, Put
  <2>3. Loaded' = Loaded BY <2>2 DEF Loaded
  <2> QED BY <1>1, <2>2, <2>3 DEF Recording
<1> QED BY <1>3, <1>4, <1>5, <1>6

\* A call that has crossed no other replaces the store by the store with its entry
\* changed.
LEMMA AloneReplaces ==
  ASSUME Inv, NEW w \in Writers, w \notin crossed, Replace(w)
  PROVE  /\ job[w].key \in Keys /\ job[w].blob \in Blobs \cup {Missing}
         /\ file' = data[w] /\ file' # Torn /\ handle' = handle
         /\ Loaded' = [Loaded EXCEPT ![job[w].key] = job[w].blob]
         /\ acked' = [acked EXCEPT ![job[w].key] = job[w].blob]
         /\ \A u \in Writers : handle[u] = "none"
<1> USE MarksAreNoStores DEF Inv, Replace
<1>1. w \in Busy BY DEF Busy
<1>2. tmp = data[w] /\ data[w] = [Loaded EXCEPT ![job[w].key] = job[w].blob]
  BY <1>1 DEF Progress
<1>3. data[w] \in Entries /\ job[w].key \in Keys /\ job[w].blob \in Blobs \cup {Missing}
  BY DEF TypeOK
<1>4. file' = tmp /\ handle' = Renamed /\ acked' = [acked EXCEPT ![job[w].key] = job[w].blob]
  BY <1>2, <1>3 DEF Rename, Recorded
<1>5. \A u \in Writers : handle[u] = "none" BY <1>1 DEF Apart, Shape, Busy
<1>6. handle' = handle BY <1>4, <1>5 DEF Renamed, TypeOK, FileTypes
<1>7. Loaded' = data[w] BY <1>2, <1>3, <1>4 DEF Loaded
<1> QED BY <1>2, <1>3, <1>4, <1>5, <1>6, <1>7

\* A replacement is on record, or takes everything off it.
LEMMA ReplaceInv ==
  ASSUME Inv, NEW w \in Writers, Replace(w)
  PROVE  Apart' /\ Progress' /\ Shape' /\ Recording'
<1> USE DEF Inv, Replace, Return, Goto
<1>1. /\ pc[w] = "replace" /\ pc'[w] = "idle" /\ Busy' = Busy \ {w} /\ w \in Busy
      /\ crossed' = crossed \ {w}
      /\ \A u \in Writers \ {w} : pc'[u] = pc[u] /\ data'[u] = data[u] /\ job'[u] = job[u]
  BY DEF TypeOK, Busy
<1>2. \A u \in Writers \ {w} : u \in Busy => u \in crossed BY <1>1 DEF Apart
<1>3. Apart' BY <1>1 DEF Apart
<1>4. Progress' BY <1>1, <1>2 DEF Progress, Busy
<1>5. Shape'
  <2>1. \A u \in Writers : handle[u] = "none" => handle'[u] = "none"
    BY DEF Rename, Renamed, fileVars
  <2>2. handle[w] = "none" BY <1>1 DEF Shape
  <2> QED BY <1>1, <2>1, <2>2 DEF Shape
<1>6. Recording'
  <2>1. CASE w \notin crossed
    <3>1. /\ job[w].key \in Keys /\ file' # Torn /\ handle' = handle
          /\ Loaded' = [Loaded EXCEPT ![job[w].key] = job[w].blob]
          /\ acked' = [acked EXCEPT ![job[w].key] = job[w].blob]
          /\ \A u \in Writers : handle[u] = "none"
      BY <2>1, AloneReplaces
    <3>2. DOMAIN Loaded = Keys /\ DOMAIN acked = Keys
      BY LoadedType DEF TypeOK, Entries
    <3> QED BY <3>1, <3>2 DEF Recording
  <2>2. CASE tmp = Absent
    <3>1. UNCHANGED <<file, handle, acked>> BY <2>2 DEF fileVars
    <3> QED BY <3>1 DEF Recording, Loaded
  <2>3. CASE w \in crossed /\ tmp # Absent
    <3>1. \A k \in Keys : acked'[k] = Unknown BY <2>3 DEF Recorded
    <3> QED BY <3>1 DEF Recording
  <2> QED BY <2>1, <2>2, <2>3
<1> QED BY <1>3, <1>4, <1>5, <1>6

\* A call that dies leaves only a temporary file, whatever had happened before.
LEMMA CrashInv ==
  ASSUME Inv, NEW w \in Writers, Crash(w)
  PROVE  Apart' /\ Progress' /\ Shape' /\ Recording'
<1> USE DEF Inv, Crash, Return, Goto, Hold
<1>1. /\ pc'[w] = "idle" /\ Busy' = Busy \ {w} /\ crossed' = crossed \ {w}
      /\ handle'[w] = "none" /\ Loaded' = Loaded /\ UNCHANGED <<file, tmp, acked>>
      /\ \A u \in Writers \ {w} : /\ pc'[u] = pc[u] /\ data'[u] = data[u]
                                  /\ job'[u] = job[u] /\ handle'[u] = handle[u]
  BY DEF TypeOK, FileTypes, Busy, Loaded
<1>2. Apart' BY <1>1 DEF Apart
<1>3. Progress' BY <1>1 DEF Progress, Busy
<1>4. Shape' BY <1>1 DEF Shape
<1>5. Recording' BY <1>1 DEF Recording
<1> QED BY <1>2, <1>3, <1>4, <1>5

\* Where only the host changes, or nothing, everything else stays.
LEMMA QuietInv ==
  ASSUME Inv, HostChanges \/ UNCHANGED vars
  PROVE  Apart' /\ Progress' /\ Shape' /\ Recording'
<1>1. UNCHANGED <<file, tmp, handle, pc, job, data, crossed, acked>>
  BY DEF HostChanges, vars, fileVars, storeVars
<1>2. Loaded' = Loaded /\ Busy' = Busy BY <1>1 DEF Loaded, Busy
<1> QED BY <1>1, <1>2 DEF Inv, Apart, Progress, Shape, Recording

\* set_secret stores a blob.
LEMMA SetsABlob ==
  ASSUME TypeOK, NEW w \in Writers, NEW k \in Keys, NEW v \in Values, SetSecret(w, k, v)
  PROVE  \E b \in Blobs : Begin(w, k, b)
<1>1. Encrypt(v) \in Blobs BY DEF SetSecret, Encrypt, Blobs, TypeOK
<1> QED BY <1>1 DEF SetSecret

\* Every step keeps the invariant.
LEMMA InvStep == Inv /\ [Next]_vars => Inv'
<1> SUFFICES ASSUME Inv, [Next]_vars PROVE Inv' OBVIOUS
<1>1. TypeOK' BY TypeStep DEF Inv
<1>2. CASE HostChanges \/ UNCHANGED vars
  BY <1>1, <1>2, QuietInv DEF Inv
<1>3. ASSUME NEW w \in Writers, Step(w) PROVE Inv'
  BY <1>1, <1>3, LoadInv, OpenInv, WriteInv, ReplaceInv, CrashInv DEF Inv, Step
<1>4. ASSUME NEW w \in Writers, NEW k \in Keys, DelSecret(w, k) PROVE Inv'
  BY <1>1, <1>4, BeginInv DEF Inv, DelSecret
<1>5. ASSUME NEW w \in Writers, NEW k \in Keys, NEW v \in Values, SetSecret(w, k, v) PROVE Inv'
  <2>1. \E b \in Blobs : Begin(w, k, b) BY <1>5, SetsABlob DEF Inv
  <2> QED BY <1>1, <2>1, BeginInv DEF Inv
<1> QED BY <1>2, <1>3, <1>4, <1>5 DEF Next

\* What the loaded store does in a step: it changes one entry when a call that has
\* crossed no other is completed, and in no other step unless calls have crossed.
LEMMA LoadedStep ==
  ASSUME Inv, [Next]_vars
  PROVE  \/ Loaded' = Loaded
         \/ \E k \in Keys, b \in Blobs \cup {Missing} : Loaded' = [Loaded EXCEPT ![k] = b]
         \/ crossed # {}
<1>1. CASE UNCHANGED file
  BY <1>1 DEF Loaded
<1>2. ASSUME NEW w \in Writers, Write(w) PROVE UNCHANGED file \/ crossed # {}
  BY <1>2, AloneWrites
<1>3. ASSUME NEW w \in Writers, Replace(w), crossed = {}
      PROVE \E k \in Keys, b \in Blobs \cup {Missing} : Loaded' = [Loaded EXCEPT ![k] = b]
  BY <1>3, AloneReplaces
<1>4. ASSUME NEW w \in Writers, Load(w) \/ Open(w) \/ Crash(w) PROVE UNCHANGED file
  BY <1>4 DEF Load, Open, OpenTmp, Crash, fileVars
<1>5. ASSUME NEW w \in Writers, NEW k \in Keys,
             DelSecret(w, k) \/ \E v \in Values : SetSecret(w, k, v)
      PROVE UNCHANGED file
  BY <1>5 DEF DelSecret, SetSecret, Begin, fileVars
<1>6. CASE HostChanges \/ UNCHANGED vars
  BY <1>1, <1>6 DEF HostChanges, vars, fileVars
<1> QED BY <1>1, <1>2, <1>3, <1>4, <1>5, <1>6 DEF Next, Step

-----------------------------------------------------------------------------
\* Every state of every behaviour satisfies the invariant.
LEMMA Invariance == Spec => []Inv
BY InitInv, InvStep, PTL DEF Spec

\* Every state of every behaviour is well typed.
THEOREM TypeCorrect == Spec => []TypeOK
<1>1. Inv => TypeOK BY DEF Inv
<1> QED BY <1>1, Invariance, PTL

\* secrets.json is torn only where calls that crossed have left nothing on record,
\* wherever calls die.
THEOREM FileWholeCorrect == Spec => []FileWhole
<1>1. Inv => FileWhole BY DEF Inv, Recording, FileWhole
<1> QED BY <1>1, Invariance, PTL

\* What a call that crossed no other has stored stays readable on the same host, beside
\* any other calls, until calls that crossed write.
THEOREM AckedCorrect == Spec => []AckedIsStored
<1>1. Inv => AckedIsStored
  BY NotBlobs DEF Inv, Recording, AckedIsStored, GetSecret
<1> QED BY <1>1, Invariance, PTL

\* secrets.json implements the key-value store that the callers count on, which
\* allows for calls that have crossed.
THEOREM Refinement == Spec => ImplementsStore
<1>1. Init => Store!Init
  BY MarksAreNoStores DEF Init, Store!Init, Store!Entries, Loaded, NoEntries
<1>2. Inv /\ [Next]_vars => [Store!Next]_(Store!vars)
  <2> SUFFICES ASSUME Inv, [Next]_vars PROVE Store!Next OBVIOUS
  <2>1. Loaded' \in Store!Entries BY DEF Loaded, Store!Entries, Entries, NoEntries
  <2>2. (crossed = {})' \in BOOLEAN OBVIOUS
  <2> QED BY <2>1, <2>2, LoadedStep DEF Store!Next, Store!Set, Store!Del, Store!Scramble
<1> QED BY <1>1, <1>2, Invariance, PTL DEF Spec, ImplementsStore, Store!Spec

=============================================================================
