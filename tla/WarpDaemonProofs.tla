-------------------------- MODULE WarpDaemonProofs --------------------------
(***************************************************************************)
(* Proofs about WarpDaemon for every set of configurations and gateways    *)
(* and any number of starts, crashes and failovers.                        *)
(***************************************************************************)
EXTENDS WarpDaemon, TLAPS

\* The PID file names the daemon from the moment it is written, and a daemon
\* that has not written it yet is one that a start command is waiting for.
PidShape ==
  /\ pc = "load" => op = "confirm"
  /\ Alive => run > 0
  /\ Alive /\ pc # "load" => pidFile = run
  /\ op = "finish" => ~Alive

\* Which states of the daemon belong to which protocol, and which know a gateway.
ProtocolShape ==
  /\ pc \in {"tun", "tunconf", "route", "dns", "tunnel", "undns", "unroute", "unclose"}
       => cfg.protocol = "warp_masque"
  /\ pc \in {"wg", "wgconf", "wgwait"} => cfg.protocol = "warp_wireguard"
  /\ gw # NoGW => /\ cfg.protocol = "warp_masque"
                  /\ pc \notin {"none", "load", "signals", "keys", "tun", "tunconf", "state",
                              "route"}

\* The interface exists as long as the daemon uses it.
IfaceShape ==
  HoldsTun \/ (pc \in {"wgconf", "state", "wgwait"}) => iface = "up"

\* A default route through the tunnel is one whose interface is held open.
TunRouteOwned ==
  defaultRoute = "tun" =>
    HoldsTun /\ pc \in {"dns", "tunnel", "undns", "unroute", "unstate", "unclose"}

\* Once the saved gateway was restored, the default route is a gateway's.
RestoreShape ==
  gw # NoGW /\ (pc \in {"unstate", "unclose", "unpid"} \/ (pc = "dead" /\ ~unclean))
    => defaultRoute \in Gateways

\* Before the first failover there is one gateway to find, to save and to restore.
WanShape ==
  failovers = 0 => gw \in {NoGW, wan} /\ defaultRoute \in {wan, "tun", "none"}

\* What an orderly history leaves behind in each state of the daemon.
CleanShape ==
  ~unclean =>
    /\ stateFile => pc \in {"route", "dns", "tunnel", "wgwait", "undns", "unroute", "unstate"}
    /\ dnsRoute # "none" => dnsDeferred /\ pc \in {"tunnel", "undns"}
    /\ pidFile # 0 => Alive

Shape ==
  /\ PidShape /\ ProtocolShape /\ IfaceShape /\ TunRouteOwned /\ RestoreShape /\ WanShape
  /\ CleanShape /\ StaleStateSwept /\ NoDefaultGap /\ StopIsComplete

IInv == TypeOK /\ Shape

-----------------------------------------------------------------------------
(* Type correctness *)

\* Death of the daemon keeps the types.
LEMMA FatalTypes ==
  ASSUME TypeOK, Fatal \/ TunnelFatal
  PROVE  TypeOK'
<1> USE DEF TypeOK, Fatal, TunnelFatal, ProcessEnds, serviceVars, mainVars, fileVars, wanVars
<1>1. ServiceTypes' BY DEF ServiceTypes
<1>2. DaemonTypes' BY DEF DaemonTypes, DaemonPCs, Tunnel!Fail
<1>3. KernelTypes' BY DEF KernelTypes, DropTunRoutes
<1> QED BY <1>1, <1>2, <1>3

\* Every step keeps every variable in its type.
LEMMA TypeStep == TypeOK /\ [Next]_vars => TypeOK'
<1> SUFFICES ASSUME TypeOK, [Next]_vars PROVE TypeOK'
  OBVIOUS
<1> USE DEF TypeOK, serviceVars, mainVars, daemonVars, fileVars, routeVars, wanVars
<1>1. CASE CommandStart \/ CommandStop \/ CommandRestart
  BY <1>1 DEF CommandStart, CommandStop, CommandRestart, ServiceTypes, DaemonTypes, KernelTypes
<1>2. CASE WanFailover
  BY <1>2 DEF WanFailover, ServiceTypes, DaemonTypes, KernelTypes
<1>3. CASE Service
  <2> USE DEF StartAlreadyRunning, StartNotRegistered, StartSpawn, StartConfirm,
          StopNotRunning, StopTerm, StopSeenGone, StopKill, StopFinish
  <2>1. ServiceTypes' BY <1>3 DEF Service, ServiceTypes, Results, Finish
  <2>2. DaemonTypes'
    <3> USE DEF DaemonTypes
    <3>1. CASE StartSpawn
      <4>1. pc' \in DaemonPCs /\ run' \in Nat /\ gw' \in Gateways \cup {NoGW}
        BY <3>1 DEF DaemonPCs
      <4> QED BY <3>1, <4>1 DEF CleanupStaleIface
    <3>2. CASE StopTerm BY <3>2 DEF ProcessEnds, DaemonPCs
    <3>3. CASE StopKill BY <3>3 DEF ProcessEnds, DaemonPCs
    <3>4. CASE StartNotRegistered BY <3>4 DEF CleanupStaleIface
    <3>5. CASE StopFinish BY <3>5 DEF CleanupStaleIface
    <3>6. CASE StartAlreadyRunning \/ StartConfirm \/ StopNotRunning \/ StopSeenGone
      BY <3>6
    <3> QED BY <1>3, <3>1, <3>2, <3>3, <3>4, <3>5, <3>6 DEF Service
  <2>3. KernelTypes'
    BY <1>3 DEF Service, KernelTypes, CleanupStaleIface, ProcessEnds, DropTunRoutes
  <2> QED BY <2>1, <2>2, <2>3
<1>4. CASE DaemonizeFails \/ KeysMissing \/ CreateIfaceFails \/ ConfigureIfaceFails
           \/ TunnelFatal \/ Crash
  BY <1>4, FatalTypes DEF DaemonizeFails, KeysMissing, CreateIfaceFails,
     ConfigureIfaceFails, Crash
<1>5. CASE Daemonize \/ Notify \/ CheckKeys \/ CreateIface \/ ConfigureIface
           \/ WriteStateFile
  <2> USE <1>5 DEF Daemonize, Notify, CheckKeys, CreateIface, ConfigureIface,
           WriteStateFile, otherVars
  <2>1. ServiceTypes' BY DEF ServiceTypes
  <2>2. DaemonTypes' BY DEF DaemonTypes, DaemonPCs, Step
  <2>3. KernelTypes' BY DEF KernelTypes
  <2> QED BY <2>1, <2>2, <2>3
<1>6. CASE AddDefaultRoute \/ AddDnsRoutes \/ TunnelServes \/ TunnelReturns
  <2> USE <1>6 DEF AddDefaultRoute, AddDnsRoutes, TunnelServes, TunnelReturns, otherVars,
           NoGW, DefaultGateway
  <2>1. ServiceTypes' BY DEF ServiceTypes
  <2>2. DaemonTypes' BY DEF DaemonTypes, DaemonPCs, Step, Tunnel!Serve, Tunnel!Return
  <2>3. KernelTypes' BY DEF KernelTypes, DaemonTypes
  <2> QED BY <2>1, <2>2, <2>3
<1>7. CASE Unwind
  <2> USE <1>7 DEF Unwind, UndoDnsRoutes, RestoreDefaultRoute, RemoveStateFile, CloseTun,
           DestroyWireGuard, RemovePidFile, otherVars
  <2>1. ServiceTypes' BY DEF ServiceTypes
  <2>2. DaemonTypes'
    <3>1. pc' \in DaemonPCs
      BY DEF DaemonPCs, Step
    <3>2. dnsDeferred' \in BOOLEAN
      BY DEF DaemonTypes
    <3>3. stateFile' \in BOOLEAN
      BY DEF DaemonTypes
    <3>4. pidFile' \in Nat
      BY DEF DaemonTypes
    <3> QED BY <3>1, <3>2, <3>3, <3>4 DEF DaemonTypes
  <2>3. KernelTypes' BY DEF KernelTypes, DaemonTypes, DropTunRoutes, NoGW
  <2> QED BY <2>1, <2>2, <2>3
<1>8. CASE UNCHANGED vars
  BY <1>8 DEF vars, ServiceTypes, DaemonTypes, KernelTypes
<1> QED
  BY <1>1, <1>2, <1>3, <1>4, <1>5, <1>6, <1>7, <1>8 DEF Next, Daemon, DaemonOwn

-----------------------------------------------------------------------------
(* The inductive invariant *)

\* The initial states satisfy it.
LEMMA InitIInv == Init => IInv
<1> SUFFICES ASSUME Init PROVE IInv
  OBVIOUS
<1> USE DEF Init
<1>1. ServiceTypes BY DEF ServiceTypes, Results
<1>2. DaemonTypes BY DEF DaemonTypes, DaemonPCs
<1>3. KernelTypes BY DEF KernelTypes
<1>4. Shape
  BY GatewaysAssumption
     DEF Shape, PidShape, ProtocolShape, IfaceShape, TunRouteOwned, RestoreShape, WanShape,
         CleanShape, StaleStateSwept, NoDefaultGap, StopIsComplete, HoldsTun, Alive,
         Gone, NoGW
<1> QED BY <1>1, <1>2, <1>3, <1>4 DEF IInv, TypeOK

\* The commands of service.py preserve it.
LEMMA ServiceStep ==
  ASSUME IInv, Service \/ CommandStart \/ CommandStop \/ CommandRestart \/ WanFailover
  PROVE  Shape'
<1> USE GatewaysAssumption, DaemonBoundsAssumption
        DEF IInv, Shape, TypeOK, ServiceTypes, DaemonTypes, KernelTypes, PidShape, ProtocolShape, IfaceShape, TunRouteOwned,
            RestoreShape, WanShape, CleanShape, StaleStateSwept, NoDefaultGap, StopIsComplete,
            HoldsTun, Alive, Gone, NoGW, PidLive,
            serviceVars, mainVars, daemonVars, fileVars, routeVars, wanVars
<1>1. CASE CommandStart BY <1>1 DEF CommandStart
<1>2. CASE CommandStop BY <1>2 DEF CommandStop
<1>3. CASE CommandRestart BY <1>3 DEF CommandRestart
<1>4. CASE WanFailover BY <1>4 DEF WanFailover
<1>5. CASE StartAlreadyRunning
  <2> USE <1>5 DEF StartAlreadyRunning, Finish
  <2>1. (PidShape /\ ProtocolShape)' OBVIOUS
  <2>2. (IfaceShape /\ StaleStateSwept)' OBVIOUS
  <2>3. (TunRouteOwned /\ RestoreShape /\ WanShape /\ NoDefaultGap)' OBVIOUS
  <2>4. (CleanShape /\ StopIsComplete)' OBVIOUS
  <2> QED BY <2>1, <2>2, <2>3, <2>4
<1>6. CASE StartNotRegistered
  <2> USE <1>6 DEF StartNotRegistered, Finish, CleanupStaleIface, DropTunRoutes
  <2>1. (PidShape /\ ProtocolShape)' OBVIOUS
  <2>2. (IfaceShape /\ StaleStateSwept)' OBVIOUS
  <2>3. (TunRouteOwned /\ RestoreShape /\ WanShape /\ NoDefaultGap)' OBVIOUS
  <2>4. (CleanShape /\ StopIsComplete)' OBVIOUS
  <2> QED BY <2>1, <2>2, <2>3, <2>4
<1>7. CASE StartSpawn
  <2> USE <1>7 DEF StartSpawn, CleanupStaleIface, DropTunRoutes
  <2>1. (PidShape /\ ProtocolShape)' OBVIOUS
  <2>2. (IfaceShape /\ StaleStateSwept)' OBVIOUS
  <2>3. (TunRouteOwned /\ RestoreShape /\ WanShape /\ NoDefaultGap)' OBVIOUS
  <2>4. (CleanShape /\ StopIsComplete)' OBVIOUS
  <2> QED BY <2>1, <2>2, <2>3, <2>4
<1>8. CASE StartConfirm
  <2> USE <1>8 DEF StartConfirm, Finish
  <2>1. (PidShape /\ ProtocolShape)' OBVIOUS
  <2>2. (IfaceShape /\ StaleStateSwept)' OBVIOUS
  <2>3. (TunRouteOwned /\ RestoreShape /\ WanShape /\ NoDefaultGap)' OBVIOUS
  <2>4. (CleanShape /\ StopIsComplete)' OBVIOUS
  <2> QED BY <2>1, <2>2, <2>3, <2>4
<1>9. CASE StopNotRunning
  <2> USE <1>9 DEF StopNotRunning, Finish
  <2>1. (PidShape /\ ProtocolShape)' OBVIOUS
  <2>2. (IfaceShape /\ StaleStateSwept)' OBVIOUS
  <2>3. (TunRouteOwned /\ RestoreShape /\ WanShape /\ NoDefaultGap)' OBVIOUS
  <2>4. (CleanShape /\ StopIsComplete)' OBVIOUS
  <2> QED BY <2>1, <2>2, <2>3, <2>4
<1>10. CASE StopTerm
  <2> USE <1>10 DEF StopTerm, ProcessEnds, DropTunRoutes
  <2>1. (PidShape /\ ProtocolShape)' OBVIOUS
  <2>2. (IfaceShape /\ StaleStateSwept)' OBVIOUS
  <2>3. (TunRouteOwned /\ RestoreShape /\ WanShape /\ NoDefaultGap)' OBVIOUS
  <2>4. (CleanShape /\ StopIsComplete)' OBVIOUS
  <2> QED BY <2>1, <2>2, <2>3, <2>4
<1>11. CASE StopSeenGone BY <1>11 DEF StopSeenGone
<1>12. CASE StopKill BY <1>12 DEF StopKill, ProcessEnds, DropTunRoutes
<1>13. CASE StopFinish
  <2> USE <1>13 DEF StopFinish, Finish, CleanupStaleIface, DropTunRoutes
  <2>1. (PidShape /\ ProtocolShape)' OBVIOUS
  <2>2. (IfaceShape /\ StaleStateSwept)' OBVIOUS
  <2>3. (TunRouteOwned /\ RestoreShape /\ WanShape /\ NoDefaultGap)' OBVIOUS
  <2>4. (CleanShape /\ StopIsComplete)' OBVIOUS
  <2> QED BY <2>1, <2>2, <2>3, <2>4
<1> QED
  BY <1>1, <1>2, <1>3, <1>4, <1>5, <1>6, <1>7, <1>8, <1>9, <1>10, <1>11, <1>12,
     <1>13 DEF Service

\* The daemon's death, by its own hand or another's, preserves it.
LEMMA FatalStep ==
  ASSUME IInv, Alive, Fatal \/ TunnelFatal
  PROVE  Shape'
BY GatewaysAssumption, DaemonBoundsAssumption
   DEF IInv, Shape, TypeOK, ServiceTypes, DaemonTypes, KernelTypes, PidShape, ProtocolShape, IfaceShape, TunRouteOwned,
       RestoreShape, WanShape, CleanShape, StaleStateSwept, NoDefaultGap, StopIsComplete,
       HoldsTun, Alive, Gone, NoGW, PidLive, serviceVars, mainVars, fileVars, wanVars,
       Fatal, TunnelFatal, ProcessEnds, DropTunRoutes, Tunnel!Fail

\* Every other step of the daemon preserves it.
LEMMA DaemonStep ==
  ASSUME IInv, Daemon
  PROVE  Shape'
<1> USE GatewaysAssumption, DaemonBoundsAssumption
        DEF IInv, Shape, TypeOK, ServiceTypes, DaemonTypes, KernelTypes, PidShape, ProtocolShape, IfaceShape, TunRouteOwned,
            RestoreShape, WanShape, CleanShape, StaleStateSwept, NoDefaultGap, StopIsComplete,
            HoldsTun, Alive, Gone, NoGW, PidLive,
            serviceVars, mainVars, fileVars, routeVars, wanVars, otherVars, Step
<1>1. CASE Daemonize BY <1>1 DEF Daemonize
<1>2. CASE Notify BY <1>2 DEF Notify
<1>3. CASE CheckKeys BY <1>3, DaemonConfigsAssumption DEF CheckKeys, DaemonConfig
<1>4. CASE CreateIface BY <1>4 DEF CreateIface
<1>5. CASE ConfigureIface BY <1>5 DEF ConfigureIface
<1>6. CASE WriteStateFile
  <2> USE <1>6, DaemonConfigsAssumption DEF WriteStateFile, DaemonConfig
  <2>1. (PidShape /\ ProtocolShape)' OBVIOUS
  <2>2. (IfaceShape /\ StaleStateSwept)' OBVIOUS
  <2>3. (TunRouteOwned /\ RestoreShape /\ WanShape /\ NoDefaultGap)' OBVIOUS
  <2>4. (CleanShape /\ StopIsComplete)' OBVIOUS
  <2> QED BY <2>1, <2>2, <2>3, <2>4
<1>7. CASE AddDefaultRoute BY <1>7 DEF AddDefaultRoute, DefaultGateway
<1>8. CASE AddDnsRoutes
  <2> USE <1>8 DEF AddDnsRoutes
  <2>1. (PidShape /\ ProtocolShape)' OBVIOUS
  <2>2. (IfaceShape /\ StaleStateSwept)' OBVIOUS
  <2>3. (TunRouteOwned /\ RestoreShape /\ WanShape /\ NoDefaultGap)' OBVIOUS
  <2>4. (CleanShape /\ StopIsComplete)' OBVIOUS
  <2> QED BY <2>1, <2>2, <2>3, <2>4
<1>9. CASE TunnelServes BY <1>9 DEF TunnelServes, Tunnel!Serve
<1>10. CASE TunnelReturns BY <1>10 DEF TunnelReturns, Tunnel!Return
<1>11. CASE UndoDnsRoutes
  <2> USE <1>11 DEF UndoDnsRoutes
  <2>1. (PidShape /\ ProtocolShape)' OBVIOUS
  <2>2. (IfaceShape /\ StaleStateSwept)' OBVIOUS
  <2>3. (TunRouteOwned /\ RestoreShape /\ WanShape /\ NoDefaultGap)' OBVIOUS
  <2>4. (CleanShape /\ StopIsComplete)' OBVIOUS
  <2> QED BY <2>1, <2>2, <2>3, <2>4
<1>12. CASE RestoreDefaultRoute BY <1>12 DEF RestoreDefaultRoute
<1>13. CASE RemoveStateFile
  <2> USE <1>13 DEF RemoveStateFile
  <2>1. (PidShape /\ ProtocolShape)' OBVIOUS
  <2>2. (IfaceShape /\ StaleStateSwept)' OBVIOUS
  <2>3. (TunRouteOwned /\ RestoreShape /\ WanShape /\ NoDefaultGap)' OBVIOUS
  <2>4. (CleanShape /\ StopIsComplete)' OBVIOUS
  <2> QED BY <2>1, <2>2, <2>3, <2>4
<1>14. CASE CloseTun
  <2> USE <1>14 DEF CloseTun, DropTunRoutes
  <2>1. (PidShape /\ ProtocolShape)' OBVIOUS
  <2>2. (IfaceShape /\ StaleStateSwept)' OBVIOUS
  <2>3. gw # NoGW => defaultRoute \in Gateways /\ UNCHANGED defaultRoute OBVIOUS
  <2>4. (TunRouteOwned /\ RestoreShape)' BY <2>3
  <2>5. WanShape' OBVIOUS
  <2>6. NoDefaultGap' BY <2>3
  <2>7. (CleanShape /\ StopIsComplete)' OBVIOUS
  <2> QED BY <2>1, <2>2, <2>4, <2>5, <2>6, <2>7
<1>15. CASE DestroyWireGuard BY <1>15 DEF DestroyWireGuard
<1>16. CASE RemovePidFile BY <1>16 DEF RemovePidFile
<1>17. CASE DaemonizeFails \/ KeysMissing \/ CreateIfaceFails \/ ConfigureIfaceFails
            \/ TunnelFatal
  <2>1. Alive /\ (Fatal \/ TunnelFatal)
    BY <1>17 DEF DaemonizeFails, KeysMissing, CreateIfaceFails, ConfigureIfaceFails,
       TunnelFatal
  <2> QED BY <2>1, FatalStep
<1> QED
  BY <1>1, <1>2, <1>3, <1>4, <1>5, <1>6, <1>7, <1>8, <1>9, <1>10, <1>11, <1>12,
     <1>13, <1>14, <1>15, <1>16, <1>17 DEF Daemon, DaemonOwn, Unwind

\* IInv is an invariant.
LEMMA IInvInvariant == Spec => []IInv
<1>1. ASSUME IInv, [Next]_vars PROVE Shape'
  <2>1. CASE Crash
    BY <1>1, <2>1, FatalStep DEF Crash
  <2>2. CASE UNCHANGED vars
    BY <1>1, <2>2 DEF vars, IInv, Shape, PidShape, ProtocolShape, IfaceShape,
       TunRouteOwned, RestoreShape, WanShape, CleanShape, StaleStateSwept, NoDefaultGap,
       StopIsComplete, HoldsTun, Alive, Gone
  <2> QED
    BY <1>1, <2>1, <2>2, ServiceStep, DaemonStep DEF Next
<1>2. IInv /\ [Next]_vars => IInv'
  BY <1>1, TypeStep DEF IInv
<1> QED
  BY <1>2, InitIInv, PTL DEF Spec

-----------------------------------------------------------------------------
(* What follows *)

\* Every variable keeps its type.
THEOREM TypeCorrect == Spec => []TypeOK
<1>1. IInv => TypeOK BY DEF IInv
<1> QED BY <1>1, IInvInvariant, PTL

\* A start command never overlooks a live daemon.
THEOREM DaemonIsSeen == Spec => []StartSeesDaemon
<1>1. IInv => StartSeesDaemon
  BY DEF IInv, TypeOK, DaemonTypes, Shape, PidShape, StartSeesDaemon, PidLive
<1> QED BY <1>1, IInvInvariant, PTL

\* Cleaning up never removes the interface of a live daemon.
THEOREM LiveInterfaceSpared == Spec => []CleanupSparesLiveDaemon
<1>1. IInv => CleanupSparesLiveDaemon
  BY DEF IInv, Shape, IfaceShape, CleanupSparesLiveDaemon
<1> QED BY <1>1, IInvInvariant, PTL

\* A new daemon never starts over the state file of an old one.
THEOREM StateFileSwept == Spec => []StaleStateSwept
<1>1. IInv => StaleStateSwept BY DEF IInv, Shape
<1> QED BY <1>1, IInvInvariant, PTL

\* A full tunnel leaves no moment without a default route while it comes up, runs,
\* or goes down in order.
THEOREM DefaultRouteKept == Spec => []NoDefaultGap
<1>1. IInv => NoDefaultGap BY DEF IInv, Shape
<1> QED BY <1>1, IInvInvariant, PTL

\* As long as every daemon ends in order, nothing but the interface and the
\* endpoint routes survives it.
THEOREM OrderlyExitRestores == Spec => []CleanExitRestores
<1>1. ASSUME IInv, ~Alive, ~unclean
      PROVE  /\ ~stateFile /\ pidFile = 0 /\ dnsRoute = "none" /\ defaultRoute # "tun"
             /\ gw # NoGW => defaultRoute \in Gateways
             /\ failovers = 0 => defaultRoute \in {wan, "none"}
  <2> USE <1>1 DEF IInv, TypeOK, Shape, Alive, Gone
  <2>1. ~stateFile /\ pidFile = 0 /\ dnsRoute = "none"
    BY DEF DaemonTypes, KernelTypes, CleanShape
  <2>2. defaultRoute # "tun"
    BY DEF TunRouteOwned
  <2>3. gw # NoGW => defaultRoute \in Gateways
    BY DEF ProtocolShape, RestoreShape
  <2>4. failovers = 0 => defaultRoute \in {wan, "none"}
    BY <2>2 DEF WanShape
  <2> QED BY <2>1, <2>2, <2>3, <2>4
<1>2. IInv => CleanExitRestores
  BY <1>1 DEF CleanExitRestores
<1> QED BY <1>2, IInvInvariant, PTL

\* A stop that reports success is complete.
THEOREM StopCompletes == Spec => []StopIsComplete
<1>1. IInv => StopIsComplete BY DEF IInv, Shape
<1> QED BY <1>1, IInvInvariant, PTL

-----------------------------------------------------------------------------
(* Refinement of DaemonContract *)

Live == IF Alive THEN {run} ELSE {}

\* A step that does not start or end the daemon and leaves the PID file alone.
LEMMA Stutter ==
  ASSUME UNCHANGED <<run, pidFile>>, Alive' = Alive
  PROVE  UNCHANGED <<Live, pidFile>>
BY DEF Live

\* The daemon ends, by whatever cause.
LEMMA EndRefines ==
  ASSUME Alive, pc' = "dead", pidFile' \in {pidFile, 0}
  PROVE  Contract!Next
<1>1. Live = {run} /\ Live' = {}
  BY DEF Live, Alive, Gone
<1>2. Contract!End
  BY <1>1 DEF Contract!End, Live
<1> QED BY <1>2 DEF Contract!Next

\* The commands of service.py.
LEMMA ServiceRefines ==
  ASSUME IInv, Service
  PROVE  Contract!Next \/ UNCHANGED <<Live, pidFile>>
<1> USE DEF IInv, Shape, PidShape, TypeOK, DaemonTypes
<1>1. CASE StartSpawn
  <2>1. ~Alive
    BY <1>1 DEF StartSpawn, PidLive
  <2>2. Live = {} /\ Live' = {run'}
    BY <1>1, <2>1 DEF StartSpawn, Live, Alive, Gone
  <2>3. Contract!Spawn
    BY <1>1, <2>2 DEF StartSpawn, Contract!Spawn, Live
  <2> QED BY <2>3 DEF Contract!Next
<1>2. CASE StopTerm
  <2>1. Alive
    BY <1>2 DEF StopTerm, PidLive
  <2>2. UNCHANGED pidFile
    BY <1>2 DEF StopTerm, fileVars
  <2>3. CASE ProcessEnds
    BY <2>1, <2>2, <2>3, EndRefines DEF ProcessEnds
  <2>4. CASE UNCHANGED <<pc, run>>
    BY <2>2, <2>4, Stutter DEF Alive
  <2> QED BY <1>2, <2>3, <2>4 DEF StopTerm
<1>3. CASE StopKill
  <2>1. Alive /\ pc' = "dead" /\ UNCHANGED pidFile
    BY <1>3 DEF StopKill, ProcessEnds, fileVars
  <2> QED BY <2>1, EndRefines
<1>4. CASE StopFinish
  <2>1. ~Alive /\ UNCHANGED <<pc, run>> /\ pidFile' = 0
    BY <1>4 DEF StopFinish, daemonVars, mainVars
  <2>2. Live = {} /\ Live' = {}
    BY <2>1 DEF Live, Alive
  <2>3. Contract!Forget
    BY <2>1, <2>2 DEF Contract!Forget, Live
  <2> QED BY <2>3 DEF Contract!Next
<1>5. CASE UNCHANGED <<pc, run, pidFile>>
  BY <1>5, Stutter DEF Alive
<1> QED
  BY <1>1, <1>2, <1>3, <1>4, <1>5 DEF Service, StartAlreadyRunning, StartNotRegistered,
     StartConfirm, StopNotRunning, StopSeenGone, daemonVars, mainVars, fileVars

\* The daemon's own steps.
LEMMA OwnRefines ==
  ASSUME IInv, Daemon
  PROVE  Contract!Next \/ UNCHANGED <<Live, pidFile>>
<1> USE DEF Step, otherVars, mainVars, fileVars
<1>1. CASE Daemonize
  <2>1. Alive /\ Alive' /\ UNCHANGED run /\ pidFile' = run
    BY <1>1 DEF Daemonize, Alive, Gone
  <2>2. Contract!Record
    BY <2>1 DEF Contract!Record
  <2> QED BY <2>2 DEF Contract!Next
<1>2. CASE RemovePidFile
  <2>1. Alive /\ pc' = "dead" /\ pidFile' = 0
    BY <1>2 DEF RemovePidFile, Alive, Gone
  <2> QED BY <2>1, EndRefines
<1>3. CASE DaemonizeFails \/ KeysMissing \/ CreateIfaceFails \/ ConfigureIfaceFails
           \/ TunnelFatal
  <2>1. Alive /\ pc' = "dead" /\ UNCHANGED pidFile
    BY <1>3 DEF DaemonizeFails, KeysMissing, CreateIfaceFails, ConfigureIfaceFails,
       TunnelFatal, Fatal, ProcessEnds, Alive, Gone
  <2> QED BY <2>1, EndRefines
<1>4. CASE Notify \/ CheckKeys \/ CreateIface \/ ConfigureIface \/ WriteStateFile
           \/ AddDefaultRoute \/ AddDnsRoutes \/ TunnelServes \/ TunnelReturns
  <2>1. UNCHANGED <<run, pidFile>> /\ Alive' = Alive
    BY <1>4 DEF Notify, CheckKeys, CreateIface, ConfigureIface, WriteStateFile,
       AddDefaultRoute, AddDnsRoutes, TunnelServes, TunnelReturns, Alive, Gone
  <2> QED BY <2>1, Stutter
<1>5. CASE UndoDnsRoutes \/ RestoreDefaultRoute \/ RemoveStateFile \/ CloseTun
           \/ DestroyWireGuard
  <2>1. UNCHANGED <<run, pidFile>> /\ Alive' = Alive
    BY <1>5 DEF UndoDnsRoutes, RestoreDefaultRoute, RemoveStateFile, CloseTun,
       DestroyWireGuard, Alive, Gone
  <2> QED BY <2>1, Stutter
<1> QED BY <1>1, <1>2, <1>3, <1>4, <1>5 DEF Daemon, DaemonOwn, Unwind

\* main.go and the commands, with every crash, kill and failover, implement the
\* contract: a daemon is spawned only where none lives, and the PID file is written
\* by the one daemon and removed by it or when it is gone.
THEOREM Refinement == Spec => ImplementsContract
<1>1. Init => Contract!Init
  BY DEF Init, Contract!Init, Alive, Gone
<1>2. ASSUME IInv, [Next]_vars PROVE [Contract!Next]_<<Live, pidFile>>
  <2>1. CASE Crash
    <3>1. Alive /\ pc' = "dead" /\ UNCHANGED pidFile
      BY <2>1 DEF Crash, Fatal, ProcessEnds, fileVars
    <3> QED BY <3>1, EndRefines
  <2>2. CASE UNCHANGED <<pc, run, pidFile>>
    BY <2>2, Stutter DEF Alive
  <2> QED
    BY <1>2, <2>1, <2>2, ServiceRefines, OwnRefines DEF Next, CommandStart, CommandStop,
       CommandRestart, WanFailover, daemonVars, mainVars, fileVars, vars
<1> QED
  BY <1>1, <1>2, IInvInvariant, PTL
     DEF Spec, ImplementsContract, Contract!Spec, Live

=============================================================================
