----------------------------- MODULE WarpDaemon -----------------------------
(***************************************************************************)
(* The life of the cfzt-warp daemon of ONE connection and the marks it     *)
(* leaves on the router: go/cfzt-warp/main.go, go/cfzt-warp/tun and the    *)
(* start and stop commands of service.py that create and end it.           *)
(*                                                                         *)
(* Commands run one at a time here (ServiceLifecycle lets them overlap);   *)
(* the daemon runs concurrently with the command.  The MASQUE loop is      *)
(* TunnelContract.                                                         *)
(*                                                                         *)
(* External, modelled from how the code uses it: the kernel keeps a cloned *)
(* tun interface when its descriptor is closed (this is why service.py     *)
(* destroys the interface of a crashed daemon) but drops its addresses and *)
(* the routes through it; "route add" fails when the route exists; "route  *)
(* change" to a gateway that was in use succeeds; after a WAN failover     *)
(* OPNsense installs the new default route and then runs the plugin's      *)
(* newwanip hook.                                                          *)
(*                                                                         *)
(* Simplifications: the three endpoint routes, and the routes to the DNS   *)
(* servers, are each one route; the 0.5 s that start_connection sleeps is  *)
(* taken to be enough for the daemon to write its PID file or die; the     *)
(* 50 x 0.1 s wait of stop_connection is a timer that may fire at any time.*)
(***************************************************************************)
EXTENDS Integers

CONSTANTS
  Configs,       \* connection configurations: see DaemonConfig
  Gateways,      \* gateways of the WAN uplinks
  MaxRuns,       \* bound: daemons started
  MaxFailovers   \* bound: WAN failovers

DaemonConfig ==
  [ protocol: {"warp_masque", "warp_wireguard"},
    registered: BOOLEAN,          \* registration_status in (enrolled, registered)
    keys: BOOLEAN,                \* the secrets of the protocol are in the store
    tunnel_mode: {"full", "split"},
    dns_mode: {"system", "other"} ]

NoGW == "none"

ASSUME DaemonConfigsAssumption == Configs \subseteq DaemonConfig
ASSUME GatewaysAssumption == "none" \notin Gateways /\ "tun" \notin Gateways
ASSUME DaemonBoundsAssumption == MaxRuns \in Nat /\ MaxFailovers \in Nat

VARIABLES
  cfg,            \* configuration of the connection
  op,             \* service.py: the command that runs and where it is
  restart,        \* the running stop belongs to a restart: a start follows
  result,         \* how the last start or stop ended
  pc,             \* where the daemon process is
  run,            \* the process id of the (last) daemon
  phase,          \* MaintainTunnel, see TunnelContract
  cancelled,      \* ctx of the daemon
  gw,             \* the local variable gw of runMASQUE
  dnsDeferred,    \* the deferred removal of the DNS host route is registered
  unclean,        \* history: some daemon ended without its deferred calls
  pidFile,        \* process id in the PID file, 0 if there is no file
  stateFile,      \* /var/run/cfzt-iface-<uuid> exists
  iface,          \* the interface cfzt<N>: "absent", "up", "down"
  defaultRoute,   \* a gateway, "tun" (this interface) or "none"
  endpointRoute,  \* gateway of the routes to the Cloudflare endpoints, or "none"
  dnsRoute,       \* gateway of the DNS host route, or "none"
  wan,            \* the gateway of the WAN uplink in use
  failovers

serviceVars == <<op, restart, result>>
mainVars    == <<run, phase, cancelled, gw, dnsDeferred>>
daemonVars  == <<pc, mainVars, unclean>>
fileVars    == <<pidFile, stateFile>>
routeVars   == <<defaultRoute, endpointRoute, dnsRoute>>
wanVars     == <<wan, failovers>>
otherVars   == <<cfg, serviceVars, wanVars, unclean>>  \* not touched by main.go
vars == <<cfg, op, restart, result, pc, run, phase, cancelled, gw,
          dnsDeferred, unclean, pidFile, stateFile, iface, defaultRoute, endpointRoute,
          dnsRoute, wan, failovers>>

Tunnel == INSTANCE TunnelContract

Gone  == {"none", "dead"}
Alive == pc \notin Gone
\* The process id in the PID file is the one of a live daemon: _is_running.
PidLive == pidFile # 0 /\ pidFile = run /\ Alive

Results == {"none", "started", "already_running", "failed", "not_running", "stopped"}
DaemonPCs ==
  {"none", "load", "signals", "keys", "tun", "tunconf", "wg", "wgconf", "state",
   "route", "dns", "tunnel", "wgwait", "undns", "unroute", "unstate", "unclose",
   "unpid", "dead"}

ServiceTypes ==
  /\ cfg \in Configs
  /\ op \in {"idle", "start", "confirm", "stop", "term", "finish"}
  /\ restart \in BOOLEAN
  /\ result \in Results

DaemonTypes ==
  /\ pc \in DaemonPCs
  /\ run \in Nat
  /\ phase \in {"starting", "serving", "returned", "fatal"}
  /\ cancelled \in BOOLEAN
  /\ gw \in Gateways \cup {NoGW}
  /\ dnsDeferred \in BOOLEAN
  /\ unclean \in BOOLEAN
  /\ pidFile \in Nat
  /\ stateFile \in BOOLEAN

KernelTypes ==
  /\ iface \in {"absent", "up", "down"}
  /\ defaultRoute \in Gateways \cup {"tun", "none"}
  /\ endpointRoute \in Gateways \cup {"none"}
  /\ dnsRoute \in Gateways \cup {"none"}
  /\ wan \in Gateways
  /\ failovers \in Nat

TypeOK == ServiceTypes /\ DaemonTypes /\ KernelTypes

Init ==
  /\ cfg \in Configs
  /\ op = "idle" /\ restart = FALSE /\ result = "none"
  /\ pc = "none" /\ run = 0 /\ phase = "starting" /\ cancelled = FALSE
  /\ gw = NoGW /\ dnsDeferred = FALSE /\ unclean = FALSE
  /\ pidFile = 0 /\ stateFile = FALSE /\ iface = "absent"
  /\ wan \in Gateways
  /\ defaultRoute \in {wan, "none"}   \* the uplink may be down at boot
  /\ endpointRoute = "none" /\ dnsRoute = "none"
  /\ failovers = 0

-----------------------------------------------------------------------------
(* The kernel *)

\* The interface goes away or loses its addresses: routes through it are dropped.
DropTunRoutes ==
  defaultRoute' = IF defaultRoute = "tun" THEN "none" ELSE defaultRoute

\* In which states of the daemon its descriptor of the tun device is open.
HoldsTun ==
  /\ cfg.protocol = "warp_masque"
  /\ pc \in {"tunconf", "state", "route", "dns", "tunnel", "undns", "unroute",
             "unstate", "unclose"}

\* The process ends without running its deferred calls: log.Fatal or a signal.
\* The kernel closes the tun descriptor; a WireGuard interface has no owner.
ProcessEnds ==
  /\ pc' = "dead" /\ unclean' = TRUE
  /\ IF HoldsTun THEN iface' = "down" /\ DropTunRoutes
                 ELSE UNCHANGED <<iface, defaultRoute>>
  /\ UNCHANGED <<endpointRoute, dnsRoute>>

-----------------------------------------------------------------------------
(* service.py *)

\* _cleanup_stale_iface
CleanupStaleIface ==
  /\ stateFile' = FALSE
  /\ IF stateFile THEN iface' = "absent" /\ DropTunRoutes
                  ELSE UNCHANGED <<iface, defaultRoute>>

CommandStart ==
  /\ op = "idle" /\ run < MaxRuns
  /\ op' = "start"
  /\ UNCHANGED <<cfg, restart, result, daemonVars, fileVars, iface, routeVars, wanVars>>

CommandStop ==
  /\ op = "idle"
  /\ op' = "stop"
  /\ UNCHANGED <<cfg, restart, result, daemonVars, fileVars, iface, routeVars, wanVars>>

CommandRestart ==
  /\ op = "idle" /\ run < MaxRuns
  /\ op' = "stop" /\ restart' = TRUE
  /\ UNCHANGED <<cfg, result, daemonVars, fileVars, iface, routeVars, wanVars>>

Finish(r) ==
  /\ result' = r
  /\ op' = IF restart THEN "start" ELSE "idle"
  /\ restart' = FALSE

\* start_connection when the PID file names a live process
StartAlreadyRunning ==
  /\ op = "start" /\ PidLive
  /\ Finish("already_running")
  /\ UNCHANGED <<cfg, daemonVars, fileVars, iface, routeVars, wanVars>>

\* start_connection when it does not, of a device that is not registered
StartNotRegistered ==
  /\ op = "start" /\ ~PidLive /\ ~cfg.registered
  /\ CleanupStaleIface
  /\ Finish("failed")
  /\ UNCHANGED <<cfg, daemonVars, pidFile, endpointRoute, dnsRoute, wanVars>>

\* mutant: the orphaned interface is left in place
StartSpawnNoCleanup ==
  /\ op = "start" /\ ~PidLive /\ cfg.registered
  /\ op' = "confirm"
  /\ pc' = "load" /\ run' = run + 1
  /\ phase' = "starting" /\ cancelled' = FALSE /\ gw' = NoGW /\ dnsDeferred' = FALSE
  /\ UNCHANGED <<cfg, restart, result, fileVars, iface, routeVars, unclean, wanVars>>

\* start_connection: clean up, write the configuration, Popen
StartSpawn ==
  /\ op = "start" /\ ~PidLive /\ cfg.registered
  /\ CleanupStaleIface
  /\ op' = "confirm"
  /\ pc' = "load" /\ run' = run + 1
  /\ phase' = "starting" /\ cancelled' = FALSE /\ gw' = NoGW /\ dnsDeferred' = FALSE
  /\ UNCHANGED <<cfg, restart, result, pidFile, endpointRoute, dnsRoute, unclean, wanVars>>

\* time.sleep(0.5); proc.poll()
StartConfirm ==
  /\ op = "confirm" /\ pc # "load"
  /\ Finish(IF Alive THEN "started" ELSE "failed")
  /\ UNCHANGED <<cfg, daemonVars, fileVars, iface, routeVars, wanVars>>

StopNotRunning ==
  /\ op = "stop" /\ ~PidLive
  /\ Finish("not_running")
  /\ UNCHANGED <<cfg, daemonVars, fileVars, iface, routeVars, wanVars>>

\* SIGTERM ends the process until signal.Notify was called; from then on the
\* handler cancels ctx.
StopTerm ==
  /\ op = "stop" /\ PidLive
  /\ op' = "term"
  /\ \/ /\ pc = "signals"
        /\ ProcessEnds
        /\ UNCHANGED mainVars
     \/ /\ pc # "signals"
        /\ cancelled' = TRUE
        /\ UNCHANGED <<pc, run, phase, gw, dnsDeferred, unclean, iface, routeVars>>
  /\ UNCHANGED <<cfg, restart, result, fileVars, wanVars>>

\* The daemon was seen to be gone within five seconds.
StopSeenGone ==
  /\ op = "term" /\ ~Alive
  /\ op' = "finish"
  /\ UNCHANGED <<cfg, restart, result, daemonVars, fileVars, iface, routeVars, wanVars>>

\* mutant: waits for the daemon without a limit
StopWaits == op = "term" /\ Alive /\ UNCHANGED vars

\* mutant: gives up after five seconds
StopGivesUp ==
  /\ op = "term" /\ Alive
  /\ op' = "finish"
  /\ UNCHANGED <<cfg, restart, result, daemonVars, fileVars, iface, routeVars, wanVars>>

\* It was not: SIGKILL.
StopKill ==
  /\ op = "term" /\ Alive
  /\ op' = "finish"
  /\ ProcessEnds
  /\ UNCHANGED <<cfg, restart, result, mainVars, fileVars, wanVars>>

\* unlink the PID file, _cleanup_stale_iface
StopFinish ==
  /\ op = "finish"
  /\ pidFile' = 0
  /\ CleanupStaleIface
  /\ Finish("stopped")
  /\ UNCHANGED <<cfg, daemonVars, endpointRoute, dnsRoute, wanVars>>

Service ==
  \/ StartAlreadyRunning \/ StartNotRegistered \/ StartSpawn \/ StartConfirm
  \/ StopNotRunning \/ StopTerm \/ StopSeenGone \/ StopKill \/ StopFinish

-----------------------------------------------------------------------------
(* main.go, from the start to MaintainTunnel *)

Step(from, to) == pc = from /\ pc' = to

\* log.Fatal: exit status 1, no deferred call runs, the PID file stays.
Fatal ==
  /\ ProcessEnds
  /\ UNCHANGED <<cfg, serviceVars, mainVars, fileVars, wanVars>>

\* loadConfig, daemonize: the PID file is written, whatever it held
Daemonize ==
  /\ Step("load", "signals")
  /\ pidFile' = run
  /\ UNCHANGED <<otherVars, mainVars, stateFile, iface, routeVars>>

\* The configuration does not load, or the PID file cannot be written.
DaemonizeFails == pc = "load" /\ Fatal

\* signal.Notify and the dispatch on the protocol
Notify ==
  /\ Step("signals", "keys")
  /\ UNCHANGED <<otherVars, mainVars, fileVars, iface, routeVars>>

CheckKeys ==
  /\ Step("keys", IF cfg.protocol = "warp_masque" THEN "tun" ELSE "wg")
  /\ cfg.keys
  /\ UNCHANGED <<otherVars, mainVars, fileVars, iface, routeVars>>

KeysMissing == pc = "keys" /\ ~cfg.keys /\ Fatal

\* tun.New opens a device and renames it, which fails if the name is taken;
\* ifconfig wg create likewise.
CreateIface ==
  /\ \/ Step("tun", "tunconf") \/ Step("wg", "wgconf")
  /\ iface = "absent"
  /\ iface' = "up"
  /\ UNCHANGED <<otherVars, mainVars, fileVars, routeVars>>

CreateIfaceFails == pc \in {"tun", "wg"} /\ Fatal

\* MTU and addresses, or the WireGuard settings.  The commands of runWireGuard run
\* under ctx and fail once it is cancelled.
ConfigureIface ==
  /\ \/ Step("tunconf", "state")
     \/ Step("wgconf", "state") /\ ~cancelled
  /\ UNCHANGED <<otherVars, mainVars, fileVars, iface, routeVars>>

ConfigureIfaceFails == pc \in {"tunconf", "wgconf"} /\ Fatal

\* WriteIfaceStateFile; a failure is only logged.
WriteStateFile ==
  /\ Step("state", IF cfg.protocol = "warp_wireguard" THEN "wgwait"
                   ELSE IF cfg.tunnel_mode = "full" THEN "route" ELSE "tunnel")
  /\ stateFile' \in {stateFile, TRUE}
  /\ UNCHANGED <<otherVars, mainVars, pidFile, iface, routeVars>>

\* defaultGateway: the default route's gateway; a route through an interface has none
DefaultGateway == IF defaultRoute \in Gateways THEN defaultRoute ELSE NoGW

\* AddDefaultRoute(gw): routes to the endpoints (errors ignored), then the default
\* route (an error is only logged).
AddDefaultRoute ==
  /\ Step("route", "dns")
  /\ gw' = DefaultGateway
  /\ endpointRoute' = IF endpointRoute = "none" THEN DefaultGateway ELSE endpointRoute
  /\ defaultRoute' \in {"tun", defaultRoute}
  /\ UNCHANGED <<otherVars, run, phase, cancelled, dnsDeferred, fileVars, iface, dnsRoute>>

\* mutant: the DNS servers are routed by the current default route
AddDnsRoutesCurrent ==
  /\ Step("dns", "tunnel")
  /\ \/ /\ gw # NoGW /\ cfg.dns_mode = "system" /\ dnsRoute = "none"
        /\ dnsRoute' = defaultRoute /\ dnsDeferred' = TRUE
     \/ UNCHANGED <<dnsRoute, dnsDeferred>>
  /\ UNCHANGED <<otherVars, run, phase, cancelled, gw, fileVars, iface, defaultRoute, endpointRoute>>

\* The removal is deferred only if this run added the route; an error is logged.
AddDnsRoutes ==
  /\ Step("dns", "tunnel")
  /\ \/ /\ gw # NoGW /\ cfg.dns_mode = "system" /\ dnsRoute = "none"
        /\ dnsRoute' = gw /\ dnsDeferred' = TRUE
     \/ UNCHANGED <<dnsRoute, dnsDeferred>>
  /\ UNCHANGED <<otherVars, run, phase, cancelled, gw, fileVars, iface, defaultRoute, endpointRoute>>

-----------------------------------------------------------------------------
(* MaintainTunnel, and the way out *)

TunnelServes ==
  /\ pc = "tunnel" /\ Tunnel!Serve
  /\ UNCHANGED <<otherVars, pc, run, gw, dnsDeferred, fileVars, iface, routeVars>>

\* MaintainTunnel ends the process: the deferred calls of runMASQUE do not run.
TunnelFatal ==
  /\ pc = "tunnel" /\ Tunnel!Fail /\ ProcessEnds
  /\ UNCHANGED <<cfg, serviceVars, run, gw, dnsDeferred, fileVars, wanVars>>

TunnelReturns ==
  /\ Step("tunnel", "undns") /\ Tunnel!Return
  /\ UNCHANGED <<otherVars, run, gw, dnsDeferred, fileVars, iface, routeVars>>

\* mutant: the loop variable is not captured, another route is deleted
UndoDnsRoutesWrong ==
  /\ Step("undns", "unroute")
  /\ UNCHANGED <<otherVars, mainVars, fileVars, iface, routeVars>>

UndoDnsRoutes ==
  /\ Step("undns", "unroute")
  /\ dnsRoute' = IF dnsDeferred THEN "none" ELSE dnsRoute
  /\ dnsDeferred' = FALSE
  /\ UNCHANGED <<otherVars, run, phase, cancelled, gw, fileVars, iface, defaultRoute, endpointRoute>>

\* mutant: no deferred restore
RestoreNothing ==
  /\ Step("unroute", "unstate")
  /\ UNCHANGED <<otherVars, mainVars, fileVars, iface, routeVars>>

\* route change default gw, or route add default gw; deferred only if gw is known
RestoreDefaultRoute ==
  /\ Step("unroute", "unstate")
  /\ defaultRoute' = IF gw # NoGW THEN gw ELSE defaultRoute
  /\ UNCHANGED <<otherVars, mainVars, fileVars, iface, endpointRoute, dnsRoute>>

RemoveStateFile ==
  /\ Step("unstate", IF cfg.protocol = "warp_masque" THEN "unclose" ELSE "unpid")
  /\ stateFile' = FALSE
  /\ UNCHANGED <<otherVars, mainVars, pidFile, iface, routeVars>>

\* FreeBSDTUN.Close: down, then close; the interface is not destroyed.
CloseTun ==
  /\ Step("unclose", "unpid")
  /\ iface' = "down" /\ DropTunRoutes
  /\ UNCHANGED <<otherVars, mainVars, fileVars, endpointRoute, dnsRoute>>

\* runWireGuard: <-ctx.Done(), then destroy
DestroyWireGuard ==
  /\ Step("wgwait", "unstate")
  /\ cancelled
  /\ iface' = "absent"
  /\ UNCHANGED <<otherVars, mainVars, fileVars, routeVars>>

\* os.Remove(cfg.PIDFile), and main returns
RemovePidFile ==
  /\ Step("unpid", "dead")
  /\ pidFile' = 0
  /\ UNCHANGED <<otherVars, mainVars, stateFile, iface, routeVars>>

Unwind ==
  \/ UndoDnsRoutes \/ RestoreDefaultRoute \/ RemoveStateFile \/ CloseTun
  \/ DestroyWireGuard \/ RemovePidFile

DaemonOwn ==
  \/ Daemonize \/ DaemonizeFails \/ Notify \/ CheckKeys \/ KeysMissing
  \/ CreateIface \/ CreateIfaceFails \/ ConfigureIface \/ ConfigureIfaceFails
  \/ WriteStateFile \/ AddDefaultRoute \/ AddDnsRoutes
  \/ TunnelServes \/ TunnelFatal \/ Unwind

Daemon == DaemonOwn \/ TunnelReturns

-----------------------------------------------------------------------------
(* The router around it *)

\* The daemon dies: out of memory, a panic, kill -9.
Crash == Alive /\ Fatal

\* WAN failover: OPNsense installs the new default route, then the newwanip hook
\* runs "restart".
WanFailover ==
  /\ op = "idle" /\ run < MaxRuns /\ failovers < MaxFailovers
  /\ failovers' = failovers + 1
  /\ wan' \in Gateways \ {wan}
  /\ defaultRoute' = wan'
  /\ op' = "stop" /\ restart' = TRUE
  /\ UNCHANGED <<cfg, result, daemonVars, fileVars, iface, endpointRoute, dnsRoute>>

Next ==
  \/ CommandStart \/ CommandStop \/ CommandRestart
  \/ Service \/ Daemon \/ Crash \/ WanFailover

Spec == Init /\ [][Next]_vars

\* Both processes are scheduled.  Nothing is assumed of MaintainTunnel's return:
\* TunnelContract does not promise it.
Fairness == WF_vars(Service) /\ WF_vars(DaemonOwn)

FairSpec == Spec /\ Fairness

-----------------------------------------------------------------------------
(* The contract with whoever looks at the PID file *)

Contract == INSTANCE DaemonContract WITH live <- IF Alive THEN {run} ELSE {}

\* The daemon as main.go writes it, with the commands that start and stop it, keeps
\* the contract that ServiceLifecycle keeps with its coarser daemon.
ImplementsContract == Contract!Spec

-----------------------------------------------------------------------------
(* Safety *)

\* service.py decides by the PID file alone whether a daemon runs.  Whenever a
\* start is about to decide, a live daemon is one that the PID file names, so that
\* no second daemon is started beside it.
StartSeesDaemon == op = "start" /\ Alive => PidLive

\* _cleanup_stale_iface destroys whatever interface the state file names; it never
\* takes the interface away from a daemon that still uses it.
CleanupSparesLiveDaemon ==
  HoldsTun \/ pc \in {"wgconf", "wgwait"} => iface = "up"

\* A new daemon never finds the state file of a crashed one: it was swept, with
\* its interface, before the daemon was spawned.
StaleStateSwept ==
  pc \in {"load", "signals", "keys", "tun", "wg", "tunconf", "wgconf", "state"} => ~stateFile

\* Full tunnel: from the change of the default route to the end of an orderly
\* exit the router always has a default route.  This rests on the order of the
\* deferred calls: restore before Close, which drops the routes of the interface.
NoDefaultGap ==
  gw # NoGW /\ pc \in {"dns", "tunnel", "undns", "unroute", "unstate", "unclose", "unpid"}
    => defaultRoute # "none"

\* If every daemon so far ended in order (whatever failovers and restarts
\* happened), the router is clean between two daemons: no state or PID file, no
\* DNS host route, and no default route through an interface nobody serves.  A
\* daemon that found a default gateway leaves one behind; main.go:120 restores the
\* one saved at the start, and only a WAN failover can make that the wrong one.
CleanExitRestores ==
  ~Alive /\ ~unclean =>
    /\ ~stateFile /\ pidFile = 0
    /\ dnsRoute = "none" /\ defaultRoute # "tun"
    /\ gw # NoGW => defaultRoute \in Gateways
    /\ failovers = 0 => defaultRoute \in {wan, "none"}

\* A stop that reports success has ended the daemon and removed its files, no
\* matter how far the daemon had come when the signal reached it.
StopIsComplete ==
  op = "idle" /\ result = "stopped" =>
    ~Alive /\ pidFile = 0 /\ ~stateFile /\ defaultRoute # "tun"

(* Liveness, of FairSpec *)

\* Every command comes to its end, although the daemon may ignore SIGTERM.
CommandsFinish == (op # "idle") ~> (op = "idle")

-----------------------------------------------------------------------------
(* What the documents and comments say and the code does not do *)

\* README.md:96: the original default gateway is "restored automatically when the
\* tunnel stops, so the router never loses connectivity".  A serving tunnel that
\* does not act on SIGTERM is killed, and a killed daemon restores nothing.
DefaultRestoredAfterStop ==
  op = "idle" /\ result = "stopped" /\ gw # NoGW /\ phase \in {"serving", "returned"}
    => defaultRoute = gw

=============================================================================
