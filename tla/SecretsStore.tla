---------------------------- MODULE SecretsStore ----------------------------
(***************************************************************************)
(* The secrets store cfzt_secrets.py: set_secret and del_secret load the   *)
(* whole of secrets.json, change one entry and write the whole back.       *)
(* Commands of warp.py (register, enroll, rotatekeyscheck) and service.py  *)
(* (setsecret, delsecret) are processes of their own and take no lock.     *)
(* Two calls may overlap at any point.  They cross when one loads the      *)
(* store while the other is about to write it back: from then on each can  *)
(* undo, or tear, what the other writes.  The history variable crossed     *)
(* names the calls that have, and what the store promises is what it       *)
(* promises beside such calls and after them.                              *)
(*                                                                         *)
(* The encryption is modelled by what it does: a secret is readable on the *)
(* host on which it was stored.  Modes of files are left out.              *)
(***************************************************************************)
EXTENDS TempFile

CONSTANTS
  Keys, Values,
  Hosts,     \* identities that _derive_keys can find
  NoHost,    \* it finds none
  Missing,   \* no such entry; get_secret returns None
  NoJob,     \* the writer is in no call
  Unknown    \* history: nobody has been told what is stored

VARIABLES
  host,    \* the identity that _derive_keys finds
  pc,      \* pc[w]: where writer w is
  job,     \* job[w]: the key and what is to be stored under it
  data,    \* data[w]: the entries w has loaded and changed
  crossed, \* history: the writers whose calls have crossed another one
  acked    \* history: acked[k] is what the last completed call left under k,
           \* Unknown during a call for k and once a crossed call has written

Blobs == [by : Hosts, val : Values]
Entries == [Keys -> Blobs \cup {Missing}]
NoEntries == [k \in Keys |-> Missing]

storeVars == <<pc, job, data>>
vars == <<fileVars, host, storeVars, crossed, acked>>

ASSUME NotBlobs == Missing \notin Blobs /\ Unknown \notin Blobs /\ Unknown # Missing
ASSUME SecretsContents == Contents = Entries
ASSUME NotHost == NoHost \notin Hosts
ASSUME NotJob == NoJob \notin [key : Keys, blob : Blobs \cup {Missing}]

TypeOK ==
  /\ FileTypes
  /\ host \in Hosts \cup {NoHost}
  /\ pc \in [Writers -> {"idle", "load", "open", "write", "replace"}]
  /\ job \in [Writers -> [key : Keys, blob : Blobs \cup {Missing}] \cup {NoJob}]
  /\ \A w \in Writers : pc[w] # "idle" => job[w] # NoJob
  /\ data \in [Writers -> Entries]
  /\ crossed \subseteq Writers
  /\ acked \in [Keys -> Blobs \cup {Missing, Unknown}]

Init ==
  /\ file = Absent /\ tmp = Absent
  /\ handle = [w \in Writers |-> "none"]
  /\ host \in Hosts
  /\ pc = [w \in Writers |-> "idle"]
  /\ job = [w \in Writers |-> NoJob]
  /\ data = [w \in Writers |-> NoEntries]
  /\ crossed = {}
  /\ acked = NoEntries

-----------------------------------------------------------------------------
\* _load_raw: a file that is missing or cannot be parsed counts as empty.
Loaded == IF file \in Entries THEN file ELSE NoEntries

\* _encrypt, _derive_keys
Encrypt(v) == [by |-> host, val |-> v]

\* get_secret: an entry that cannot be decrypted counts as missing.
GetSecret(k) ==
  IF Loaded[k] \in Blobs /\ Loaded[k].by = host THEN Loaded[k].val ELSE Missing

Goto(w, to) == pc' = [pc EXCEPT ![w] = to]

\* The writers that have loaded the store and not written it back.
Busy == {w \in Writers : pc[w] \in {"open", "write", "replace"}}

\* History: w loads the store that others are about to replace.
Cross(w) ==
  crossed' = IF Busy \ {w} = {} THEN crossed ELSE crossed \cup Busy \cup {w}

\* History: a call of w for the key k has left b there.
Recorded(w, k, b) ==
  IF w \in crossed THEN [c \in Keys |-> Unknown] ELSE [acked EXCEPT ![k] = b]

\* The call of w is over.
Return(w) ==
  /\ Goto(w, "idle")
  /\ data' = [data EXCEPT ![w] = NoEntries]
  /\ job' = [job EXCEPT ![w] = NoJob]
  /\ crossed' = crossed \ {w}

Begin(w, k, b) ==
  /\ pc[w] = "idle"
  /\ Goto(w, "load")
  /\ job' = [job EXCEPT ![w] = [key |-> k, blob |-> b]]
  /\ acked' = [acked EXCEPT ![k] = Unknown]
  /\ UNCHANGED <<fileVars, host, data, crossed>>

\* mutant: a secret is stored although there is no key to encrypt it with
SetSecretPlain(w, k, v) == Begin(w, k, Encrypt(v))

\* set_secret; without a host identity _derive_keys raises and nothing happens
SetSecret(w, k, v) == host # NoHost /\ Begin(w, k, Encrypt(v))

DelSecret(w, k) == Begin(w, k, Missing)

\* mutant: a store that was just loaded is not kept, only the new entry
LoadNothing(w) ==
  /\ pc[w] = "load"
  /\ data' = [data EXCEPT ![w] = [NoEntries EXCEPT ![job[w].key] = job[w].blob]]
  /\ Goto(w, "open") /\ Cross(w)
  /\ UNCHANGED <<fileVars, host, job, acked>>

Load(w) ==
  /\ pc[w] = "load"
  /\ data' = [data EXCEPT ![w] = [Loaded EXCEPT ![job[w].key] = job[w].blob]]
  /\ Goto(w, "open") /\ Cross(w)
  /\ UNCHANGED <<fileVars, host, job, acked>>

\* mutant: secrets.json itself is opened for writing
OpenInPlace(w) ==
  /\ pc[w] = "open"
  /\ file' = Torn /\ tmp' = Torn /\ Hold(w, "file")
  /\ Goto(w, "write")
  /\ UNCHANGED <<host, job, data, crossed, acked>>

\* _save_raw
Open(w) ==
  /\ pc[w] = "open"
  /\ OpenTmp(w)
  /\ Goto(w, "write")
  /\ UNCHANGED <<host, job, data, crossed, acked>>

Write(w) ==
  /\ pc[w] = "write"
  /\ WriteRest(w, data[w])
  /\ Goto(w, "replace")
  /\ UNCHANGED <<host, job, data, crossed, acked>>

\* chmod and replace; both raise if another writer has renamed the temporary file
Replace(w) ==
  /\ pc[w] = "replace"
  /\ IF tmp = Absent
     THEN UNCHANGED <<fileVars, acked>>
     ELSE Rename /\ acked' = Recorded(w, job[w].key, job[w].blob)
  /\ Return(w)
  /\ UNCHANGED host

\* The process is killed, or a write fails and raises.
Crash(w) ==
  /\ pc[w] # "idle"
  /\ Hold(w, "none") /\ UNCHANGED <<file, tmp>>
  /\ Return(w)
  /\ UNCHANGED <<host, acked>>

\* /etc/hostid and the files after it in the list appear, change or go.
HostChanges ==
  /\ host' \in (Hosts \cup {NoHost}) \ {host}
  /\ UNCHANGED <<fileVars, storeVars, crossed, acked>>

Step(w) == Load(w) \/ Open(w) \/ Write(w) \/ Replace(w) \/ Crash(w)

Next ==
  \/ \E w \in Writers :
       \/ \E k \in Keys : DelSecret(w, k) \/ \E v \in Values : SetSecret(w, k, v)
       \/ Step(w)
  \/ HostChanges

Spec == Init /\ [][Next]_vars

-----------------------------------------------------------------------------
\* secrets.json is absent or complete, wherever a process dies, until calls that
\* crossed tear it; the next call that crosses none writes all of it anew.
\* _load_raw takes a torn file for an empty store, so that call drops every other
\* secret: as long as anything is on record, the file is whole.
FileWhole == file = Torn => \A k \in Keys : acked[k] = Unknown

\* tests/unit/python/test_cfzt_secrets.py:68: after set_secret("alpha") and
\* set_secret("beta") both are found.  What a call that crossed no other has left
\* under a key is what get_secret finds, whatever calls for other keys do and
\* however many later calls die, until calls that crossed write: as long as the host
\* is the same.
AckedIsStored ==
  \A k \in Keys :
    /\ acked[k] = Missing => GetSecret(k) = Missing
    /\ acked[k] \in Blobs /\ acked[k].by = host => GetSecret(k) = acked[k].val

\* The file implements the store that the callers count on: the entries change one
\* at a time but for what calls do that have crossed and are not over.
Store == INSTANCE KeyValueStore WITH store <- Loaded, calm <- crossed = {}
ImplementsStore == Store!Spec

=============================================================================
