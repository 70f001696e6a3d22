--------------------------- MODULE KeyValueStore ---------------------------
(***************************************************************************)
(* What cfzt_secrets.py promises its callers: set_secret and del_secret    *)
(* change the entry of one key, at once, and nothing else ever changes     *)
(* one.  Only while calls overlap that take no notice of each other (calm  *)
(* is FALSE) anything may become of the entries.                           *)
(***************************************************************************)
CONSTANTS Keys, Blobs, Missing

VARIABLES
  store,   \* store[k]: what is stored under k, Missing if nothing is
  calm     \* no calls are under way that can undo each other

vars == <<store, calm>>

Entries == [Keys -> Blobs \cup {Missing}]

Init == calm = TRUE /\ store \in Entries /\ \A k \in Keys : store[k] = Missing

Set(k, b) == store' = [store EXCEPT ![k] = b]

Del(k) == store' = [store EXCEPT ![k] = Missing]

\* Overlapping calls undo or tear what they write.
Scramble == ~calm /\ store' \in Entries

Next ==
  /\ calm' \in BOOLEAN
  /\ \/ \E k \in Keys : Del(k) \/ \E b \in Blobs : Set(k, b)
     \/ Scramble
     \/ UNCHANGED store

Spec == Init /\ [][Next]_vars

=============================================================================
