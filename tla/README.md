# Verification of the Cloudflare Zero Trust plugin for OPNsense

TLA+ models of the plugin's daemons, of the commands that drive them and of what
these commands store, the TLC runs that check them, and TLAPS proofs of their main
properties. File names
below are relative to the repository; `S/` is
`net/cloudflare-zt/src/opnsense/scripts/CloudflareZT/`, `API/` is
`net/cloudflare-zt/src/opnsense/mvc/app/controllers/OPNsense/CloudflareZT/Api/`.

## 1. The system

| Component | State it keeps | Operations | Hard parts |
|---|---|---|---|
| MASQUE loop, `go/cfzt-warp/daemon/tunnel.go` | backoff delay, current connection, error channel, pump goroutines | `MaintainTunnel`, `selectEndpoint`, `backoff`, `sleepCtx`, `closeResult` | pumps that outlive their connection, a blocking receive, cancellation, five error paths |
| Dialler, `go/cfzt-warp/api/masque.go` | UDP socket, http3 transport | `ConnectMASQUE`, `connectH3`, `TLSConfig` | closing on partial failure |
| Daemon process, `go/cfzt-warp/main.go` | PID file, saved gateway, deferred calls | `main`, `runMASQUE`, `runWireGuard`, `daemonize` | `log.Fatal` and SIGKILL skip deferred calls; SIGTERM before `signal.Notify` |
| TUN device, `go/cfzt-warp/tun` | interface, state file, routes | `New`, `Close`, `AddDefaultRoute`, state file | order of route and interface changes |
| Service commands, `S/service.py` | none of their own: PID file, state file, process | `start`, `stop`, `restart`, `startconn`, `stopconn` | no lock; check-then-act on the PID file; 0.5 s and 5 s timeouts |
| Health monitor, `S/cfzt_monitor.py` | `last_status`, its PID file | `run_monitor`, `_restart_connection` | polls race commands and crashes |
| Plugin hooks, `plugins.inc.d/cloudflarezt.inc` | none | `newwanip`, `bootup`, `vpn`, `firmware_upgrade`, cron | run beside GUI commands and monitor |
| Service and connection API, `API/` | `config.xml` | start, stop, restart, reconfigure, set, toggle, del, register, enroll | several saves and commands per request |
| Registration and keys, `S/warp.py`, `S/cfzt_keys.py`, `S/cfzt_api.py` | remote device record, secrets, `config.xml` | `register`, `enroll`, `rotatekey`, `rotatekeyscheck` | crashes and lost answers between remote change, secrets and config; starts that read half-changed credentials |
| `config.xml`, `_update_config_xml` of `S/warp.py` | `config.xml` and its temporary file, the lock | update, GUI saves | the lock is on a file that is replaced |
| Secrets store, `S/cfzt_secrets.py` | `secrets.json` and its temporary file | `set_secret`, `get_secret`, `del_secret` | read-modify-write without a lock; an unreadable file counts as empty |
| DNS override, `S/dns.py` | Unbound include file, what Unbound has loaded | `apply`, `remove` | failed or missing reload; overlapping commands |
| Organizations, wizard, split tunnel, diagnostics, views | `config.xml` | forms and queries | mostly none |

Interaction. The GUI, the hooks, cron and the monitor ask configd, which runs
each request as a process of its own. A command reads `config.xml`, the PID file
and the state file, spawns the daemon or sends it signals. The daemon writes both
files, creates the interface and, in full-tunnel mode, moves the default route
into it; then it runs `MaintainTunnel` until it returns, and undoes all that in
deferred calls. The monitor looks at PID files only. `register`, `enroll` and
`rotatekeyscheck` talk to Cloudflare, then store secrets, then update `config.xml`;
a start reads both and hands them to the daemon, which keeps them until it ends.
`applydns` reads the settings, rewrites the file that Unbound includes and asks
Unbound to reload.

What makes each part correct: the loop never leaks a socket, never mistakes a
dead tunnel for a quiet one and returns only on cancellation; the daemon never
leaves the router without a default route while it can avoid it and leaves nothing
behind on an orderly exit; commands never start a second daemon, lose one or take
the interface from a live one, and always end; the monitor answers a crash and
reports it once. What is stored is never half written, and what was acknowledged
stays; a command that reports success leaves Cloudflare, secrets and `config.xml`
in agreement, and a later rotation repairs what a failed one left; Unbound works
with the file that the settings call for. `PROJECT.json` lists the hazards, each at its line.

## 2. Modules

| Module | Models | Used by |
|---|---|---|
| `TunnelContract` | what `MaintainTunnel` promises `runMASQUE`: it may end the process only before it serves, and returns only when ctx is cancelled | `WarpDaemon` (as the loop), `MaintainTunnel` (as what it implements) |
| `MaintainTunnel` | loop, pumps and dialler | |
| `WarpDaemon` | the daemon process, the router's interface, files and routes, and serialised start and stop commands | |
| `ServiceLifecycle` | commands, daemons and the monitor | |
| `DaemonContract` | what a connection's processes and PID file promise the commands: a daemon is spawned only where none lives, the file names the one that lives or is stale | `WarpDaemon`, and `ServiceLifecycle` for the daemons whose start had no company (as what both implement) |
| `TempFile` | a file that is rewritten through a temporary file of a fixed name and `os.replace`, by several processes | `SecretsStore`, `ConfigXml`, `DnsOverride` (all extend it) |
| `KeyValueStore` | what the callers of the secrets store count on, and that calls may undo each other while they cross | `SecretsStore` (as what it implements) |
| `SecretsStore` | `cfzt_secrets.py` | `KeyRotation` takes `set_secret` as one step |
| `ConfigStore` | what is promised of `config.xml`: a save takes effect at once and on top of all others, but while processes cross | `ConfigXml` (as what it implements) |
| `ConfigXml` | `_update_config_xml` beside GUI saves | `KeyRotation` takes an update as one step |
| `KeyRotation` | registration, enrolment, rotation and the credentials of a started daemon | |
| `DnsOverride` | `dns.py` and Unbound | |
| `MC*` | instances for TLC | |
| `*Proofs` | theorems and proofs | |

**MaintainTunnel.** `pc` is the position of the loop goroutine, one value for
each point where it blocks or branches; `outPump[g]` and `inPump[g]` are those of
the goroutines of connection `g`; `errCh[g]` counts the errors in its channel.
`udp` and `h3` count open sockets and transports over all connections. One action
stands for the code between two points where another goroutine can be seen.
The configured delay is part of the configuration, as the form allows one above the
maximum. Timers are steps that may be taken at any time. Packets are counted. The loss of
a connection, arriving packets, a destroyed interface and SIGTERM are the
environment.

**WarpDaemon.** `pc` runs through `main` and `runMASQUE` or `runWireGuard`, the
deferred calls being `undns`, `unroute`, `unstate`, `unclose` in the order Go runs
them. `ProcessEnds` is the exit that skips them: `log.Fatal`, SIGKILL, a crash, or
SIGTERM before `signal.Notify`. `op` is the position of the command. `iface`,
`defaultRoute`, `endpointRoute` and `dnsRoute` are the kernel's; how the kernel
treats a closed tun device, an existing route and a failover is external, modelled
from what the code relies on (see the head of the module). In particular a `route
change` back to a gateway that was in use is taken to succeed.

**ServiceLifecycle.** Every access of a command to shared state is an action:
read the PID file, clean up, spawn, confirm, signal, unlink. `Slots` is the set of
commands that may run at once. The daemon is reduced to its process, PID file,
interface and state file. The monitor reads the configuration, then the PID file,
then asks for a `startconn`, which needs a slot like any other command. PID reuse,
the monitor's 30 s limit on its own command, a change of the protocol and the
deletion of the connection are left out. A daemon may die at any point, its deferred
calls included. Commands overlap at any point, as configd lets them. What an overlap
breaks is confined by two history variables: `company` is the set of starts beside
which another command has acted since they saw no daemon, `raced` the set of daemons
that such starts have spawned. A daemon is `Disturbed` if its own start is or was
among them; only such a daemon may live beside another one, lose its PID file or
interface, or be missed by a stop.

**TempFile.** A file is a content or `Torn` (nobody can parse it). What a process
has open it keeps open when the file is renamed or replaced: `handle[w]` follows it
from the temporary name to the real one to none. Two writers of one temporary file
may leave a torn one.

**SecretsStore.** `pc[w]` is where a call is: load, open, write, replace. An entry
is its value and the host that encrypted it. Calls overlap at any point. Two calls
have `crossed` when one loads the store while the other has loaded it and not yet
replaced it. `acked[k]` is history too: what the last completed call left under `k`,
or `Unknown`, during a call for `k` and for every key once a crossed call has replaced
the file. What the module states, it states of what is not `Unknown`: crossed calls
do lose entries, calls that overlap without crossing never do, and a later call that
crosses none is on record again.

**ConfigXml.** A content is the set of saves it shows and of connections it has. `gen`
numbers the files that have been `config.xml`; a lock belongs to the file `opened[w]`.
The GUI is OPNsense's and external: it is modelled at its best, taking the lock of the
current file and not dying. Updates overlap at any point. Processes have `crossed` when
one reads `config.xml` while another has read it and not yet written it back; this
counts only if one of them has the lock of a file that has been replaced, so that a lock
that lets two processes at the current file violates the properties instead of being
excused. `acked` and `deleted` are what was reported as done and as deleted; `kept` and
`gone` are the same, emptied when a process that has crossed writes, as it may undo all
of it. `Shown` is what `config.xml` holds or, while the GUI rewrites it in place, is
about to hold; it is what `ConfigStore` speaks of.

**KeyRotation.** `remote[d]` is what Cloudflare has of device `d`, `secret[c]` and
`conf[c]` are the two local places. `at` and `job` are the command that runs; each
request has three outcomes (`Post`, `PostLost`, `Refused`), each store is a step, and
`Crash` may come between any two. `register` and `enroll` share the steps. A start
reads the credentials in two steps that interleave with a command (`ReadKey`,
`ReadRest`). Key pairs are numbers that are used again when nobody has them any
more; `FreshKeys` picks the least, as the keys are interchangeable. `fine` and
`daemon[c].clean` are history: the last command reported success, and the start saw
nothing but its result. Commands run one at a time (two at once for one connection,
or two that update `config.xml`, are what `SecretsStore` and `ConfigXml` show to go
wrong below this level).

**DnsOverride.** `conf` are the settings, `file` the include file, `loaded` what
Unbound has of it. Commands overlap freely. `lone`, `mixed`, `settled` and `missed`
are history: which command has run alone, whether a mixture may still be in the
files, which settings were applied last, and why Unbound was not told of a change.

## 3. Runs

| Run | Instance | Shows |
|---|---|---|
| `tunnel` | one configuration per path (bad keys, bad, absent and masked endpoints, QUIC, HTTP/2, on demand); 2 connections, 2 packets, delays 2 and 7, maximum 5 | sockets balanced, one live connection, no lost wake-up, no blocked pump, delays, refinement of `TunnelContract`; a lost tunnel is torn down, its pumps retire, retries stop after SIGTERM |
| `daemon_lifecycle` | MASQUE full and split, missing keys, WireGuard, unregistered; 2 gateways, 3 daemons, 1 failover | PID file, state file, interface and routes stay consistent; refinement of `DaemonContract`; every command ends |
| `service_overlap` | two slots, 2 daemons, 1 change of the configuration | for the daemons whose start had no company: no orphan, refinement of `DaemonContract`, interfaces spared, none left by a stop; monitor |
| `secrets_store` | 2 overlapping writers, 2 keys, 1 value, 2 hosts | acknowledged secrets found until crossed calls write, refinement of `KeyValueStore` |
| `config_xml` | 2 overlapping updaters and the GUI, 2 connections, 4 saves | refinement of `ConfigStore` (no save lost and nothing deleted returns, unless processes crossed with a lock of a replaced file), updates end |
| `key_rotation` | 1 MASQUE connection, 2 devices, 6 keys, 1 day | "ok" means agreement, status is backed, rotation repairs |
| `key_rotation_two` | 1 MASQUE and 1 WireGuard connection, 2 devices, 4 keys, 1 day | a command for one connection never shuts the other one's daemon out |
| `dns_override` | 2 overlapping commands, 3 modes, Gateway and one list of servers | torn only by an overlap, an apply alone puts it right, stale only for the reasons named |

Bounds. Two connections are one that is served and one whose pumps linger beside it;
errors of one connection never reach another, and the safety properties are proved for
any number. A delay of 2 with a maximum of 5 has a doubling below, and one across, the
maximum; a delay of 7 is above it, as one of 300 s is above the code's 60 s. Three
daemons of `daemon_lifecycle` are a crashed one, the one that sweeps after it, and one
that follows an orderly exit. Two slots and two daemons are enough for two starts that
both find no daemon, for a stop that meets a start's daemon, and for a start without
company after either; a third daemon is out of TLC's reach and covered by the proofs.
Two writers, hosts, keys and connections are one that a property speaks of and one that
could disturb it; one value is enough, as an entry that is lost or comes back is told
from one that stays by its host or its absence. Four saves are an update, a GUI save, an
update after it and one more that meets a leftover. Two devices are a first registration
and a second; six keys are those that Cloudflare, the secrets (key and certificate), a
daemon, a job and a lost answer can hold apart, so a fresh key is always there. A second
connection with the bounds of `key_rotation` is out of TLC's reach (more than 20 million
states), so `key_rotation_two` has fewer keys (1.8 million states) and one property, the
one that needs it; the proofs have any number of connections of both kinds. TLC's bounds
are lifted by the proofs for everything except liveness.

Deadlock is checked where something can always happen: `daemon_lifecycle`,
`service_overlap`, `secrets_store` and `dns_override`. The tunnel may stop for good, and in
`config_xml` and both runs of `KeyRotation` the bounded supply of saves and devices runs out.

Runs that end in a violation state what a document or comment says and the code
does not do:

| Run | Statement | What the code does |
|---|---|---|
| `daemon_restore` | README.md:96, the gateway is "restored automatically when the tunnel stops" | a serving tunnel does not notice SIGTERM; it is killed after 5 s and restores nothing |
| `config_lock` | warp.py:35, "Exclusive lock around read-modify-write to avoid racing concurrent GUI saves" | the lock is that of a file which `os.replace` substitutes; an update that waited for it runs beside the holder of the new one |
| `key_downtime` | docs/admin.md:42, keys are rotated "without downtime — the new key is enrolled before the old one is removed" | the request replaces the one key that the device has; the daemon keeps the old one and is refused when it reconnects |
| `dns_immediate` | docs/admin.md:73, "Changes take effect immediately" | a switch to system mode removes the file without a reload |

Some hazards of `PROJECT.json` are permitted, not caught, because the code has them:
the WireGuard connection that a rotation locks out, a start that reads half of a
rotation's credentials, a `register` that dies after it has stored the token, a reload
that fails or is lost to a crash. The models reach these states; the properties beside
them say how far the damage goes, and the hazard's note says that no property excludes it.

Seen while modelling and not given a run of their own.

* Tunnel and daemon. With a tunnel up the loop is in `<-errCh`, which does not look
  at `ctx` (tunnel.go:42 says "until ctx is cancelled"). `UseH2` is always false
  (main.go:162), so there is no fallback to HTTP/2 (README.md:11). A configured delay
  above 60 s, which the form allows, is cut to 60 s by the first failure
  (tunnel.go:252). After a WAN failover the exit of the old daemon puts the lost
  gateway back (main.go:130). `Close` does not destroy the interface
  (tun_freebsd.go:113; service.py:209 says that the daemon cleaned it up). Endpoint
  routes keep the gateway of an earlier run (tun_freebsd.go:135), and so do DNS host
  routes after a daemon was killed (main.go:140).
* Commands and monitor. Two overlapping starts spawn two daemons (DESIGN.md:164
  speaks of one instance); `service_overlap` reaches that state, and its properties
  say which daemons it does not touch. The monitor makes one attempt per outage, none for
  cloudflared (cfzt_monitor.py:134), and starts again what a user or the firmware
  hook has stopped.
* Keys. `checkrotationAction` ("Check which connections are due", KeyController.php:56)
  rotates them. The wizard reads the `jwt` and does not pass it on
  (WizardController.php:97). A second `register` that dies after the token is stored
  leaves a device that no `enroll` can reach. Rotation turns the device of a
  WireGuard connection into a MASQUE one. An organization's API token is taken by
  `setAction`, but not when the organization is added.
* DNS. Search domains are documented for "any mode" (docs/admin.md:71); system mode
  writes none. A reload that failed is not repeated, because the next `applydns`
  finds the file unchanged (dns.py:66).

## 4. Fairness

Weak fairness of the loop, of the outbound pump and of those steps of the inbound
pump that need no packet from the peer: the Go scheduler runs what can run, and
timers fire. Nothing is assumed of the network, of packets or of the device.
`WarpDaemon`: weak fairness of the command and of the daemon, but not of
`MaintainTunnel`'s return, which `TunnelContract` does not promise.
`ServiceLifecycle`: weak fairness of every process; strong fairness of the
monitor's request for a slot, which competes with other requests that configd
serves too. `ConfigXml`: weak fairness of each update, whose lock request is granted
when the lock stays free, and of a GUI save that has begun. `KeyRotation`: weak
fairness of the command that runs and of the days, strong fairness of
`rotatekeyscheck`, which cron repeats daily whatever other commands run; and from
some time on no request is lost, no step fails and no command is killed, without
which nothing could be repaired. A refusal that Cloudflare has a reason for is not
excluded. `SecretsStore` and `DnsOverride` claim no liveness: a command that dies is
not tried again.

## 5. Proofs

For every value of the constants, in particular for any number of connections,
daemons, crashes and failovers. The assumptions are the `ASSUME`s of the modules,
which are the types of the constants. No theorem has a hypothesis on the behaviour: in
particular none on how commands, calls or updates overlap, which the code does not
control. Where an overlap does break something, the theorem says for which daemons,
entries and saves the promise holds nevertheless, in terms of the history variables of
section 2 (`company` and `raced`; `crossed` with `acked`, or with `kept` and `gone`).
These are written by the actions and read by no guard, so they exclude no
behaviour.

* **MaintainTunnelProofs.** `SocketInv` adds to the socket counts that dialling
  states belong to the transport of the configuration; without it `closeResult`
  could close a socket that was never opened. `ConnInv` ties the loop's position to the
  pumps (`LoopShape`) and bounds each channel by the number of pumps that have
  ended (`ErrChCounts`): this gives both that nothing is lost and that nothing
  blocks. From it `OneConnection`, `WakeupNotLost`, `PumpsNeverBlock`;
  `LoopImplementsContract` maps each step to a contract step or a stutter.
  `RetriesOnlySlowDown` holds for any configured delay: it names the cut to the maximum,
  which makes a longer delay shorter, beside the accepted connection.
* **WarpDaemonProofs.** `IInv` says of each position of the daemon which files,
  interface and routes exist. `PidShape` (a daemon without PID file is one that
  a command waits for) carries `DaemonIsSeen` and `Refinement`; `TunRouteOwned`,
  `RestoreShape` and `WanShape` (without a failover the saved gateway is the WAN's)
  carry the default route; `CleanShape` what orderly histories leave behind. This
  module has one command at a time by construction; overlaps are `ServiceLifecycle`'s.
* **ServiceLifecycleProofs.** For any number of slots. `CompanyKept` says that of two
  commands, one of which starts the daemon, the start knows that it has company;
  then every undisturbed daemon is named by the PID file or awaited by its command
  (`LiveKnown`), every daemon that is new or was sent SIGTERM, disturbed or not, has a
  command that waits for it (`WaitedFor`), and a command that is about to clean up,
  spawn or unlink knows that no undisturbed daemon lives, or only the one it holds
  (`CommandKnows`). `Refinement` maps a spawn, the PID file's writing, an exit or kill,
  and the unlink to the steps of `DaemonContract` over the undisturbed daemons; the
  moment at which a command joins a start is a step in which its daemon leaves the
  contract. `FailureNotRepeated` needs the monitor's memory only.
* **SecretsStoreProofs.** Of two calls between load and replace both have crossed
  (`Apart`), so one that has not has a temporary file of its own and a store that
  nobody else changes (`Progress`); what is on record is in the file, and nobody has the
  file itself open, as only a crossed call can (`Recording`). This gives
  `FileWholeCorrect`, `AckedCorrect` and, step by step, `Refinement`: every step leaves the
  loaded store as it is, except `Replace`, which sets or deletes one key, and the
  writing of a crossed call.
* **ConfigXmlProofs.** Of two processes at work on `config.xml` one has the lock of a file
  that was replaced (`Locking`, `LockExcludesCorrect`), so whoever has not crossed is alone
  (`Apart`) and works on what `config.xml` is (`LockMeansOwnerCorrect`, `Writing`).
  `RecordIsShownCorrect` needs to know of the processes that have crossed that none can write
  into the file as long as something is on record (`Record`): the first that replaces
  the file or empties it clears the record. In `Refinement` an update takes effect when it
  replaces the file, and a GUI save when it empties it: nobody else can read the file from
  then until it is written, which is what the map to `Shown` expresses.
* **KeyRotationProofs.** For any connections, MASQUE or WireGuard, any number of them
  due. The invariant says for each position of the command which of the new
  credentials are stored; that no two connections share a device
  (`DevicesAreNotShared`, whose own inductive invariant `Owners` follows a device from
  the answer that names it through the job, the token, `config.xml` and the daemon),
  and that no key is drawn that somebody has, makes the agreement of one connection
  immune to the commands of the others and gives `OthersKeepAccessCorrect`.
  `CleanStartIsAcceptedCorrect` adds what a start that has read half of the credentials
  may rely on.
* **DnsOverrideProofs.** For any number of overlapping commands. `lone` is in fact
  alone, a torn file implies `mixed`, and what the lone command has open holds what
  it has read; no condition is needed. `EffectUnlessMissedCorrect` is what remains of
  the statement that `dns_immediate` violates: settings that an apply has settled are
  in effect unless a reload was missed for one of the reasons that `missed` names.

Only model-checked: the liveness properties (fairness and `ENABLED` are out of the
prover's reach), that is `LossIsHandled`, `LostPumpsRetire`, `CancelStopsRetries`,
`CommandsFinish`, `CrashIsNoticed`, `UpdateEnds` and `RotationHeals`. Only proved,
since a run has an equal or a stronger property beside them: `StartSeesDaemon`,
`CleanupSparesLiveDaemon` and `OneInstance` (beside `ImplementsContract` and `NoOrphan`),
`FileWhole`, `RecordIsShown`, `LockExcludes` and `LockMeansOwner` (beside the two
`ImplementsStore`), `CleanStartIsAccepted` (beside `OkMeansAgreement`),
`DevicesAreNotShared` and `EffectUnlessMissed`.

## 6. Not modelled

* The split-tunnel functions of the TUN device have no caller. Status queries,
  diagnostics, forms, views and packaging change no state the models speak of.
* A change of the protocol or the deletion of a connection whose daemon runs
  (service.py:29): the daemon is then out of reach of every command, at once and for
  good, which needs no model to see.
* A second monitor's own memory and notifications. The `startconn` commands that it
  gives beside the first one's are those of two slots.
* The organizations: records that nothing else reads, and one secret each, which is
  an entry of `SecretsStore`.
* The cryptography, beyond that an entry is readable on the host that wrote it and
  that a key fits its own certificate only; addresses, endpoints and names.
* PID reuse, and the sleep after a spawn being too short (see the hazards).

## 7. Order of the work

`MaintainTunnel` with `TunnelContract`, `WarpDaemon`, `ServiceLifecycle` and their
proofs came first, then `SecretsStore` over `TempFile`, `ConfigXml`, `KeyRotation`,
which builds on both, and `DnsOverride`, each with its proofs. What could follow:
the protocol and the existence of a connection as part of the configuration in
`ServiceLifecycle`, and overlapping commands in `KeyRotation` with `SecretsStore` and
`ConfigXml` composed into it instead of summarised, which needs a smaller model of the
remote side to stay within TLC's reach.
