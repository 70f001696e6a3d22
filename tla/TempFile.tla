------------------------------ MODULE TempFile ------------------------------
(***************************************************************************)
(* A file that is rewritten through a temporary file of a fixed name:      *)
(*                                                                         *)
(*     with open(tmp, 'w') as f: ...write...;  os.replace(tmp, file)       *)
(*                                                                         *)
(* cfzt_secrets.py, warp.py and dns.py all write this way.  Processes that *)
(* write at the same time open the same temporary file, and a file that is *)
(* open stays open when it is renamed or replaced: handle[w] says which    *)
(* file the one that w writes to is by now.  A truncated or half-written   *)
(* file is Torn: no reader can parse it.                                   *)
(***************************************************************************)
CONSTANTS
  Writers,   \* processes that write
  Contents,  \* what a complete file can hold
  Absent,    \* there is no such file
  Torn       \* the file holds something that cannot be parsed

ASSUME NotContents == Absent \notin Contents /\ Torn \notin Contents /\ Absent # Torn

VARIABLES
  file,    \* what the file holds
  tmp,     \* what the temporary file holds
  handle   \* handle[w]: "tmp", "file", "gone" (no longer has a name), or "none"

fileVars == <<file, tmp, handle>>

FileTypes ==
  /\ file \in Contents \cup {Absent, Torn}
  /\ tmp \in Contents \cup {Absent, Torn}
  /\ handle \in [Writers -> {"none", "tmp", "file", "gone"}]

Hold(w, h) == handle' = [handle EXCEPT ![w] = h]

\* open(tmp, 'w') creates the temporary file or empties the one that is there.
OpenTmp(w) == tmp' = Torn /\ Hold(w, "tmp") /\ UNCHANGED file

\* What w has open holds c from now on.
Put(w, c) ==
  /\ tmp' = IF handle[w] = "tmp" THEN c ELSE tmp
  /\ file' = IF handle[w] = "file" THEN c ELSE file

\* Another process writes or has written to the file that w has open.
Shared(w) ==
  \/ \E u \in Writers \ {w} : handle[u] = handle[w]
  \/ handle[w] = "tmp" /\ tmp # Torn
  \/ handle[w] = "file" /\ file # Torn

\* The rest is written and the file closed.  Over another content, which may be
\* longer, this may leave what nobody can parse.
WriteRest(w, c) ==
  /\ \E x \in IF Shared(w) THEN {c, Torn} ELSE {c} : Put(w, x)
  /\ Hold(w, "none")

\* The old file loses its name; what is open stays open.
Renamed == [u \in Writers |-> IF handle[u] = "tmp"  THEN "file" ELSE
                              IF handle[u] = "file" THEN "gone" ELSE handle[u]]

\* os.replace(tmp, file)
Rename == file' = tmp /\ tmp' = Absent /\ handle' = Renamed

=============================================================================
