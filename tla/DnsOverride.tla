---------------------------- MODULE DnsOverride ----------------------------
(***************************************************************************)
(* dns.py: the file of forwarders that Unbound includes, how "applydns"    *)
(* and "removedns" bring it in line with the settings, and what Unbound    *)
(* has loaded of it.  configd may run several commands at once, and they   *)
(* share the temporary file; a command may be killed between two steps;    *)
(* Unbound may restart at any time for reasons of its own.                 *)
(*                                                                         *)
(* A content is the server list and the list of search domains that it was *)
(* made from.  A file with a syntax error is one that is Torn.             *)
(***************************************************************************)
EXTENDS TempFile

CONSTANTS
  Servers,   \* values of custom_servers
  Gateway,   \* the servers of Cloudflare Gateway
  Domains,   \* values of search_domains
  Unknown,   \* no settings
  NoOne      \* no process

Modes == {"system", "cloudflare_gateway", "custom"}
Settings == [enabled : BOOLEAN, mode : Modes, servers : Servers, domains : Domains]
Overrides == [servers : Servers \cup {Gateway}, domains : Domains]

ASSUME DnsContents == Contents = Overrides
ASSUME NotSettings == Unknown \notin Settings /\ NoOne \notin Writers

VARIABLES
  conf,     \* the settings in config.xml
  pc,       \* pc[w]: where command w is
  seen,     \* seen[w]: the settings that w has read
  loaded,   \* what Unbound has loaded
  lone,     \* history: the command that has had no other beside it so far
  mixed,    \* history: commands overlapped, and none has since applied alone
  settled,  \* history: the settings that the last command, alone, has applied
  missed    \* history: why Unbound was not told of the last change of the file

history == <<lone, mixed, settled, missed>>
vars == <<fileVars, conf, pc, seen, loaded, history>>

TypeOK ==
  /\ FileTypes
  /\ conf \in Settings
  /\ pc \in [Writers -> {"idle", "read", "disable", "compare", "open", "write", "replace",
                         "reload", "remove"}]
  /\ \A w \in Writers : handle[w] # "none" => pc[w] = "write"
  /\ seen \in [Writers -> Settings \cup {Unknown}]
  /\ loaded \in Contents \cup {Absent, Torn}
  /\ lone \in Writers \cup {NoOne} /\ mixed \in BOOLEAN
  /\ settled \in Settings \cup {Unknown}
  /\ missed \in {"no", "skipped", "failed", "killed"}

Init ==
  /\ file = Absent /\ tmp = Absent
  /\ handle = [w \in Writers |-> "none"]
  /\ conf \in Settings
  /\ pc = [w \in Writers |-> "idle"]
  /\ seen = [w \in Writers |-> Unknown]
  /\ loaded = Absent
  /\ lone = NoOne /\ mixed = FALSE /\ settled = Unknown /\ missed = "no"

-----------------------------------------------------------------------------
IsDisabled(s) == ~s.enabled \/ s.mode = "system"

\* _build_unbound_conf, for settings that are not disabled
Build(s) ==
  [servers |-> IF s.mode = "cloudflare_gateway" THEN Gateway ELSE s.servers,
   domains |-> s.domains]

\* The file that settings s call for
Wanted(s) == IF IsDisabled(s) THEN Absent ELSE Build(s)

Goto(w, to) == pc' = [pc EXCEPT ![w] = to]

Begin(w, to) ==
  /\ pc[w] = "idle"
  /\ Goto(w, to)
  /\ IF \A v \in Writers : pc[v] = "idle"
     THEN lone' = w /\ UNCHANGED mixed
     ELSE lone' = NoOne /\ mixed' = TRUE
  /\ settled' = Unknown
  /\ UNCHANGED <<fileVars, seen, loaded, missed>>

\* Command w ends, by itself or not.
Leave(w) ==
  /\ Goto(w, "idle")
  /\ seen' = [seen EXCEPT ![w] = Unknown]
  /\ lone' = IF lone = w THEN NoOne ELSE lone

Return(w) == Leave(w) /\ settled' = IF lone = w THEN seen[w] ELSE Unknown

-----------------------------------------------------------------------------
(* The calls *)

\* DnsController::setAction saves the settings and runs applydns.
SetDns(w, s) ==
  /\ s.enabled = conf.enabled
  /\ conf' = s
  /\ Begin(w, "read")

\* The wizard enables the plugin, a restored or synchronised config.xml may disable it,
\* and neither runs applydns.
SetEnabled ==
  /\ conf' = [conf EXCEPT !.enabled = ~conf.enabled]
  /\ UNCHANGED <<fileVars, pc, seen, loaded, history>>

\* configctl cloudflarezt applydns, removedns
ApplyDns(w) == Begin(w, "read") /\ UNCHANGED conf

RemoveDns(w) == Begin(w, "remove") /\ UNCHANGED conf

-----------------------------------------------------------------------------
(* cmd_apply_dns *)

Read(w) ==
  /\ pc[w] = "read"
  /\ seen' = [seen EXCEPT ![w] = conf]
  /\ Goto(w, IF IsDisabled(conf) THEN "disable" ELSE "compare")
  /\ UNCHANGED <<fileVars, conf, loaded, history>>

\* _remove_conf; what is open stays open.
RemoveConf ==
  /\ file' = Absent
  /\ handle' = [u \in Writers |-> IF handle[u] = "file" THEN "gone" ELSE handle[u]]
  /\ UNCHANGED tmp

Disable(w) ==
  /\ pc[w] = "disable"
  /\ RemoveConf
  /\ missed' = IF file # Absent THEN "skipped" ELSE missed
  /\ Return(w)
  /\ UNCHANGED <<conf, loaded, mixed>>

\* mutant: a file that is there is taken for the one that is wanted
CompareExists(w) ==
  /\ pc[w] = "compare"
  /\ IF file # Absent
     THEN Return(w)
     ELSE Goto(w, "open") /\ UNCHANGED <<seen, lone, settled>>
  /\ UNCHANGED <<fileVars, conf, loaded, mixed, missed>>

Compare(w) ==
  /\ pc[w] = "compare"
  /\ IF file = Build(seen[w])
     THEN Return(w)
     ELSE Goto(w, "open") /\ UNCHANGED <<seen, lone, settled>>
  /\ UNCHANGED <<fileVars, conf, loaded, mixed, missed>>

\* mutant: the file itself is opened and rewritten
OpenInPlace(w) ==
  /\ pc[w] = "open"
  /\ file' = Torn /\ Hold(w, "file") /\ UNCHANGED tmp
  /\ Goto(w, "write")
  /\ UNCHANGED <<conf, seen, loaded, history>>

Open(w) ==
  /\ pc[w] = "open"
  /\ OpenTmp(w)
  /\ Goto(w, "write")
  /\ UNCHANGED <<conf, seen, loaded, history>>

\* mutant: the temporary file is renamed before it is closed
WriteOpen(w) ==
  /\ pc[w] = "write"
  /\ Put(w, Build(seen[w])) /\ UNCHANGED handle
  /\ Goto(w, "replace")
  /\ UNCHANGED <<conf, seen, loaded, history>>

Write(w) ==
  /\ pc[w] = "write"
  /\ WriteRest(w, Build(seen[w]))
  /\ Goto(w, "replace")
  /\ UNCHANGED <<conf, seen, loaded, history>>

\* os.replace raises if another command has renamed the temporary file.
Replace(w) ==
  /\ pc[w] = "replace"
  /\ IF tmp = Absent
     THEN Leave(w) /\ UNCHANGED <<fileVars, settled>>
     ELSE Rename /\ Goto(w, "reload") /\ UNCHANGED <<seen, lone, settled>>
  /\ UNCHANGED <<conf, loaded, mixed, missed>>

\* mutant: the command returns without a reload
ReloadNothing(w) ==
  /\ pc[w] = "reload"
  /\ Return(w)
  /\ UNCHANGED <<fileVars, conf, loaded, mixed, missed>>

\* Unbound reads its configuration.
Reload(w) ==
  /\ pc[w] = "reload"
  /\ loaded' = file /\ missed' = "no"
  /\ mixed' = (mixed /\ lone # w)
  /\ Return(w)
  /\ UNCHANGED <<fileVars, conf>>

\* There is no unbound-control, or no answer in ten seconds; the command ends as if
\* there had been one.
ReloadFails(w) ==
  /\ pc[w] = "reload"
  /\ missed' = "failed"
  /\ Return(w)
  /\ UNCHANGED <<fileVars, conf, loaded, mixed>>

\* cmd_remove_dns
Remove(w) ==
  /\ pc[w] = "remove"
  /\ RemoveConf
  /\ Goto(w, "reload")
  /\ UNCHANGED <<conf, seen, loaded, history>>

\* The command is killed, or raises.
Crash(w) ==
  /\ pc[w] # "idle"
  /\ Hold(w, "none") /\ UNCHANGED <<file, tmp>>
  /\ Leave(w)
  /\ missed' = IF pc[w] = "reload" THEN "killed" ELSE missed
  /\ UNCHANGED <<conf, loaded, mixed, settled>>

\* Unbound restarts, for whatever reason.
UnboundStarts ==
  /\ loaded' = file /\ missed' = "no"
  /\ UNCHANGED <<fileVars, conf, pc, seen, lone, mixed, settled>>

Step(w) ==
  \/ Read(w) \/ Disable(w) \/ Compare(w)
  \/ Open(w) \/ Write(w) \/ Replace(w)
  \/ Reload(w) \/ ReloadFails(w) \/ Remove(w)

Next ==
  \/ \E w \in Writers :
       \/ \E s \in Settings : SetDns(w, s)
       \/ ApplyDns(w) \/ RemoveDns(w)
       \/ Step(w) \/ Crash(w)
  \/ SetEnabled
  \/ UnboundStarts

Spec == Init /\ [][Next]_vars

-----------------------------------------------------------------------------
\* Unbound never loads, nor finds at a restart, a file that is half written, wherever
\* a command was killed; only commands that overlap can leave one.
TornOnlyAfterOverlap == file = Torn \/ loaded = Torn => mixed

\* An apply that nothing ran beside and that has returned leaves the file that the
\* settings call for, whatever overlapping or killed commands had left before it.
SettledFile == settled = conf => file = Wanted(conf)

\* Unbound works with an outdated file only while a command is about to reload it, or
\* because a reload was skipped (system mode), failed, or was lost with its command.
StaleOnlyAfterMiss ==
  loaded # file => missed # "no" \/ mixed \/ \E w \in Writers : pc[w] = "reload"

\* docs/admin.md:73: "Changes take effect immediately; the plugin reloads Unbound via
\* `unbound-control reload`": once the settings are applied, and no reload has failed
\* or been lost, Unbound works with them.
TakesEffect ==
  settled = conf /\ missed \notin {"failed", "killed"} => loaded = Wanted(conf)

=============================================================================
