--------------------------- MODULE MaintainTunnel ---------------------------
(***************************************************************************)
(* The MASQUE connection loop of the cfzt-warp daemon                      *)
(* (go/cfzt-warp/daemon/tunnel.go) with the connect call it makes          *)
(* (go/cfzt-warp/api/masque.go).                                           *)
(*                                                                         *)
(* Processes: the loop goroutine (program counter pc), and for every       *)
(* connection g that was established two pump goroutines, outPump[g]       *)
(* (TUN -> MASQUE) and inPump[g] (MASQUE -> TUN).  A pump may outlive its  *)
(* connection: the loop waits for it only for pumpShutdownGrace.           *)
(*                                                                         *)
(* Environment: SIGTERM cancels ctx, the peer or the network closes a      *)
(* connection, packets arrive on the TUN device, the device breaks, and    *)
(* every dial may succeed or fail.                                         *)
(*                                                                         *)
(* Simplifications: packets are counted, not represented; an error is the  *)
(* fact that one was sent, not its text; durations are numbers without a   *)
(* clock (a timer is a step that may be taken at any time, and must be     *)
(* taken in the end); the buffer pool and readMu (which only the pump that *)
(* owns it locks) hold no state that another step reads.                   *)
(***************************************************************************)
EXTENDS Integers, FiniteSets

CONSTANTS
  Configs,     \* the MaintainConfig records the loop may be started with
  MaxBackoff,  \* the literal 60*time.Second of the three backoff calls
  MaxConns,    \* bound: connections established in one behaviour
  MaxQueue     \* bound: packets waiting in the TUN device

\* An endpoint setting: absent, an address net.ParseIP accepts, or another string.
EndpointSetting == {"", "valid", "bad"}

MaintainConfig ==
  [ tls: {"ok", "bad"},  \* do key, certificate and endpoint key parse
    EndpointV4: EndpointSetting, EndpointV6: EndpointSetting,
    UseIPv6: BOOLEAN, UseH2: BOOLEAN, AlwaysReconnect: BOOLEAN,
    ReconnectDelay: Nat ]

ASSUME ConfigsAssumption == Configs \subseteq MaintainConfig
ASSUME DelayAssumption == MaxBackoff \in Nat
ASSUME BoundsAssumption == MaxConns \in Nat /\ MaxQueue \in Nat

Gens == 1..MaxConns

VARIABLES
  cfg,        \* the configuration, fixed at start
  cancelled,  \* ctx.Err() # nil
  device,     \* cfg.Device: "ok" or "broken" (every Read and Write fails)
  tunQueue,   \* packets waiting to be read from cfg.Device
  pc,         \* where the loop goroutine is
  delay,      \* the local variable delay
  attempt,    \* the local variable attempt of ConnectMASQUE
  udp,        \* UDP sockets open
  h3,         \* http3 transports open
  gen,        \* connections established so far; the last one is the current one
  conn,       \* conn[g]: the IPConn of connection g
  pumpStop,   \* pumpStop[g]: cancelPumps() of connection g was called
  outPump,    \* outPump[g]: where the TUN -> MASQUE goroutine of g is
  inPump,     \* inPump[g]: where the MASQUE -> TUN goroutine of g is
  errCh       \* errCh[g]: errors in the channel of connection g

loopVars == <<pc, delay, attempt, udp, h3, gen>>
connVars == <<conn, pumpStop, outPump, inPump, errCh>>
envVars  == <<cfg, cancelled, device, tunQueue>>
vars     == <<cfg, cancelled, device, tunQueue, pc, delay, attempt, udp, h3,
              gen, conn, pumpStop, outPump, inPump, errCh>>

PCs == {"tls", "check", "idle", "select", "dialH2", "listen", "dialQUIC",
        "dialIP", "status", "wait", "lost", "drain", "sleepRetry",
        "sleepLost", "returned", "fatal"}
OutPCs == {"none", "check", "read", "recheck", "write", "report", "done"}
InPCs  == {"none", "read", "write", "report", "done"}

TypeOK ==
  /\ cfg \in Configs
  /\ cancelled \in BOOLEAN
  /\ device \in {"ok", "broken"}
  /\ tunQueue \in 0..MaxQueue
  /\ pc \in PCs
  /\ delay \in Nat
  /\ attempt \in 0..1
  /\ udp \in Int /\ h3 \in Int
  /\ gen \in 0..MaxConns
  /\ conn \in [Gens -> {"none", "open", "closed"}]
  /\ pumpStop \in [Gens -> BOOLEAN]
  /\ outPump \in [Gens -> OutPCs]
  /\ inPump \in [Gens -> InPCs]
  /\ errCh \in [Gens -> 0..2]

-----------------------------------------------------------------------------
(* Helpers *)

\* mutant: exceeding the maximum starts over instead of staying at the maximum
BackoffRestarts(current, initial, max) ==
  IF current * 2 > max THEN initial ELSE current * 2

\* mutant: doubles without the cap
BackoffUncapped(current, initial, max) ==
  IF current * 2 < initial THEN initial ELSE current * 2

\* backoff(current, initial, max)
Backoff(current, initial, max) ==
  LET next == current * 2
  IN  IF next > max THEN max
      ELSE IF next < initial THEN initial
      ELSE next

\* selectEndpoint: the setting that ConnectMASQUE will dial.  In HTTP/2 mode it
\* is a constant of the daemon; an absent setting falls back to another constant.
SelectedSetting(c) ==
  IF c.UseH2 THEN "valid"
  ELSE LET epStr == IF c.UseIPv6 /\ c.EndpointV6 # "" THEN c.EndpointV6
                                                      ELSE c.EndpointV4
       IN IF epStr = "" THEN "valid" ELSE epStr

SelectEndpointFails(c) == SelectedSetting(c) = "bad"

\* make(chan error, 2)
ErrChCapOne == 1
ErrChCap == 2

PumpCtxDone(g) == cancelled \/ pumpStop[g]

-----------------------------------------------------------------------------
(* The loop: start, the idle wait and endpoint selection *)

Goto(from, to) == pc = from /\ pc' = to

Init ==
  /\ cfg \in Configs
  /\ cancelled = FALSE
  /\ device = "ok"
  /\ tunQueue = 0
  /\ pc = "tls"
  /\ delay = cfg.ReconnectDelay
  /\ attempt = 0
  /\ udp = 0 /\ h3 = 0
  /\ gen = 0
  /\ conn = [g \in Gens |-> "none"]
  /\ pumpStop = [g \in Gens |-> FALSE]
  /\ outPump = [g \in Gens |-> "none"]
  /\ inPump = [g \in Gens |-> "none"]
  /\ errCh = [g \in Gens |-> 0]

\* api.TLSConfig: bad key material ends the process with log.Fatalf.
BuildTLSConfig ==
  /\ Goto("tls", IF cfg.tls = "ok" THEN "check" ELSE "fatal")
  /\ UNCHANGED <<delay, attempt, udp, h3, gen, connVars, envVars>>

\* mutant: the loop head does not look at ctx
CheckCtxNever ==
  /\ Goto("check", IF cfg.AlwaysReconnect THEN "select" ELSE "idle")
  /\ UNCHANGED <<delay, attempt, udp, h3, gen, connVars, envVars>>

\* The head of the loop.
CheckCtx ==
  /\ Goto("check", IF cancelled THEN "returned"
                   ELSE IF cfg.AlwaysReconnect THEN "select" ELSE "idle")
  /\ UNCHANGED <<delay, attempt, udp, h3, gen, connVars, envVars>>

\* On demand: the first packet wakes the loop (and is not forwarded).
IdleRead ==
  /\ Goto("idle", "select")
  /\ device = "ok" /\ tunQueue > 0
  /\ tunQueue' = tunQueue - 1
  /\ UNCHANGED <<delay, attempt, udp, h3, gen, connVars, cfg, cancelled, device>>

IdleReadError ==
  /\ Goto("idle", "sleepRetry")
  /\ device = "broken"
  /\ UNCHANGED <<delay, attempt, udp, h3, gen, connVars, envVars>>

SelectEndpoint ==
  /\ Goto("select", IF SelectEndpointFails(cfg) THEN "sleepRetry"
                    ELSE IF cfg.UseH2 THEN "dialH2" ELSE "listen")
  /\ attempt' = 0
  /\ UNCHANGED <<delay, udp, h3, gen, connVars, envVars>>

-----------------------------------------------------------------------------
(* ConnectMASQUE and connectH3 *)

\* A connect error seen by the loop: back off, then sleep.
ConnectFailed ==
  /\ pc' = "sleepRetry"
  /\ delay' = Backoff(delay, cfg.ReconnectDelay, MaxBackoff)

\* mutant: one attempt too many
AttemptFailedOnceMore ==
  \/ attempt <= 1 /\ attempt' = attempt + 1 /\ pc' = "listen" /\ UNCHANGED delay
  \/ attempt = 2 /\ ConnectFailed /\ UNCHANGED attempt

\* One of the two QUIC attempts failed.
AttemptFailed ==
  \/ attempt = 0 /\ attempt' = 1 /\ pc' = "listen" /\ UNCHANGED delay
  \/ attempt = 1 /\ ConnectFailed /\ UNCHANGED attempt

\* The dial returned an IPConn and a response.
Dialled ==
  /\ gen < MaxConns
  /\ pc' = "status"
  /\ gen' = gen + 1
  /\ conn' = [conn EXCEPT ![gen + 1] = "open"]
  /\ UNCHANGED <<delay, attempt, pumpStop, outPump, inPump, errCh>>

DialH2 ==
  /\ pc = "dialH2"
  /\ \/ Dialled
     \/ ConnectFailed /\ UNCHANGED <<attempt, gen, connVars>>
  /\ UNCHANGED <<udp, h3, envVars>>

\* net.ListenUDP
ListenUDP ==
  /\ pc = "listen"
  /\ \/ pc' = "dialQUIC" /\ udp' = udp + 1 /\ UNCHANGED <<delay, attempt>>
     \/ AttemptFailed /\ UNCHANGED udp
  /\ UNCHANGED <<h3, gen, connVars, envVars>>

\* mutant: the socket is not closed when the QUIC handshake fails
DialQUICLeaks ==
  /\ pc = "dialQUIC"
  /\ \/ pc' = "dialIP" /\ h3' = h3 + 1 /\ UNCHANGED <<delay, attempt, udp>>
     \/ AttemptFailed /\ UNCHANGED <<udp, h3>>
  /\ UNCHANGED <<gen, connVars, envVars>>

\* quic.Dial and, when it succeeds, the http3 transport
DialQUIC ==
  /\ pc = "dialQUIC"
  /\ \/ pc' = "dialIP" /\ h3' = h3 + 1 /\ UNCHANGED <<delay, attempt, udp>>
     \/ AttemptFailed /\ udp' = udp - 1 /\ UNCHANGED h3
  /\ UNCHANGED <<gen, connVars, envVars>>

\* connectip.Dial
DialIP ==
  /\ pc = "dialIP"
  /\ \/ Dialled /\ UNCHANGED <<udp, h3>>
     \/ AttemptFailed /\ udp' = udp - 1 /\ h3' = h3 - 1 /\ UNCHANGED <<gen, connVars>>
  /\ UNCHANGED envVars

-----------------------------------------------------------------------------
(* The connected part of the loop *)

\* closeResult: the UDP socket and the transport exist in QUIC mode only.
CloseResult ==
  /\ udp' = IF cfg.UseH2 THEN udp ELSE udp - 1
  /\ h3'  = IF cfg.UseH2 THEN h3 ELSE h3 - 1

\* mutant: returns to the loop without closing the rejected connection
StatusRejectedOpen ==
  /\ pc = "status"
  /\ CloseResult
  /\ ConnectFailed
  /\ UNCHANGED <<attempt, gen, connVars, envVars>>

\* The response is not 200.
StatusRejected ==
  /\ pc = "status"
  /\ conn' = [conn EXCEPT ![gen] = "closed"]
  /\ CloseResult
  /\ ConnectFailed
  /\ UNCHANGED <<attempt, gen, pumpStop, outPump, inPump, errCh, envVars>>

\* The response is 200: reset the delay and start both pumps.
StatusOK ==
  /\ Goto("status", "wait")
  /\ delay' = cfg.ReconnectDelay
  /\ outPump' = [outPump EXCEPT ![gen] = "check"]
  /\ inPump' = [inPump EXCEPT ![gen] = "read"]
  /\ UNCHANGED <<attempt, udp, h3, gen, conn, pumpStop, errCh, envVars>>

\* pumpErr := <-errCh.  Nothing else ends this wait, not even ctx.
ReceivePumpErr ==
  /\ Goto("wait", "lost")
  /\ errCh[gen] > 0
  /\ errCh' = [errCh EXCEPT ![gen] = @ - 1]
  /\ UNCHANGED <<delay, attempt, udp, h3, gen, conn, pumpStop, outPump, inPump, envVars>>

\* mutant: the pumps are told to stop but the connection stays open
CancelPumpsOnly ==
  /\ Goto("lost", "drain")
  /\ pumpStop' = [pumpStop EXCEPT ![gen] = TRUE]
  /\ UNCHANGED <<delay, attempt, udp, h3, gen, conn, outPump, inPump, errCh, envVars>>

\* cancelPumps() and IPConn.Close()
CancelPumps ==
  /\ Goto("lost", "drain")
  /\ pumpStop' = [pumpStop EXCEPT ![gen] = TRUE]
  /\ conn' = [conn EXCEPT ![gen] = "closed"]
  /\ UNCHANGED <<delay, attempt, udp, h3, gen, outPump, inPump, errCh, envVars>>

\* mutant: waits for both pumps, without the grace timer
DrainForever ==
  /\ Goto("drain", "sleepLost")
  /\ outPump[gen] = "done" /\ inPump[gen] = "done"
  /\ CloseResult
  /\ UNCHANGED <<delay, attempt, gen, connVars, envVars>>

\* Both pumps are done or pumpShutdownGrace has passed; the timer may fire in
\* any state of the pumps, so it subsumes the other case.  Then closeResult.
Drain ==
  /\ Goto("drain", "sleepLost")
  /\ CloseResult
  /\ UNCHANGED <<delay, attempt, gen, connVars, envVars>>

\* mutant: the loop gives up after a failed connect
SleepGivesUp ==
  /\ pc \in {"sleepRetry", "sleepLost"}
  /\ pc' = "returned"
  /\ UNCHANGED <<delay, attempt, udp, h3, gen, connVars, envVars>>

\* sleepCtx: a done ctx ends the function, the timer goes back to the loop head.
\* (With d <= 0 there is no timer, and the outcome is the same.)
SleepCancelled ==
  /\ pc \in {"sleepRetry", "sleepLost"}
  /\ cancelled
  /\ pc' = "returned"
  /\ UNCHANGED <<delay, attempt, udp, h3, gen, connVars, envVars>>

SleepElapsed ==
  /\ pc \in {"sleepRetry", "sleepLost"}
  /\ pc' = "check"
  /\ delay' = IF pc = "sleepLost" THEN Backoff(delay, cfg.ReconnectDelay, MaxBackoff)
                                  ELSE delay
  /\ UNCHANGED <<attempt, udp, h3, gen, connVars, envVars>>

-----------------------------------------------------------------------------
(* The outbound pump of connection g *)

OutGoto(g, from, to) == outPump[g] = from /\ outPump' = [outPump EXCEPT ![g] = to]

OutCheck(g) ==
  /\ OutGoto(g, "check", IF PumpCtxDone(g) THEN "done" ELSE "read")
  /\ UNCHANGED <<loopVars, envVars, conn, pumpStop, inPump, errCh>>

OutRead(g) ==
  /\ OutGoto(g, "read", "recheck")
  /\ device = "ok" /\ tunQueue > 0
  /\ tunQueue' = tunQueue - 1
  /\ UNCHANGED <<loopVars, cfg, cancelled, device, conn, pumpStop, inPump, errCh>>

OutReadError(g) ==
  /\ OutGoto(g, "read", "report")
  /\ device = "broken"
  /\ UNCHANGED <<loopVars, envVars, conn, pumpStop, inPump, errCh>>

OutRecheck(g) ==
  /\ OutGoto(g, "recheck", IF PumpCtxDone(g) THEN "done" ELSE "write")
  /\ UNCHANGED <<loopVars, envVars, conn, pumpStop, inPump, errCh>>

\* WritePacketBuffer: a CloseError is reported; another error, or an ICMP answer
\* written back to the device, goes on with the next packet.
OutWrite(g) ==
  /\ OutGoto(g, "write", IF conn[g] = "closed" THEN "report" ELSE "check")
  /\ UNCHANGED <<loopVars, envVars, conn, pumpStop, inPump, errCh>>

\* errCh <- err, which blocks while the channel is full, then return
OutReport(g) ==
  /\ OutGoto(g, "report", "done")
  /\ errCh[g] < ErrChCap
  /\ errCh' = [errCh EXCEPT ![g] = @ + 1]
  /\ UNCHANGED <<loopVars, envVars, conn, pumpStop, inPump>>

-----------------------------------------------------------------------------
(* The inbound pump of connection g *)

InGoto(g, from, to) == inPump[g] = from /\ inPump' = [inPump EXCEPT ![g] = to]

InRead(g) ==
  /\ InGoto(g, "read", "write")
  /\ conn[g] = "open"
  /\ UNCHANGED <<loopVars, envVars, conn, pumpStop, outPump, errCh>>

InReadClosed(g) ==
  /\ InGoto(g, "read", "report")
  /\ conn[g] = "closed"
  /\ UNCHANGED <<loopVars, envVars, conn, pumpStop, outPump, errCh>>

\* mutant: the goroutine returns without telling the loop
InReadSoftErrorSilent(g) ==
  /\ InGoto(g, "read", IF cfg.UseH2 THEN "done" ELSE "read")
  /\ conn[g] = "open"
  /\ UNCHANGED <<loopVars, envVars, conn, pumpStop, outPump, errCh>>

\* Another read error ends the connection in HTTP/2 mode only.
InReadSoftError(g) ==
  /\ InGoto(g, "read", IF cfg.UseH2 THEN "report" ELSE "read")
  /\ conn[g] = "open"
  /\ UNCHANGED <<loopVars, envVars, conn, pumpStop, outPump, errCh>>

\* Any error of a write to the device is reported, a passing one too.
InWrite(g) ==
  /\ \/ InGoto(g, "write", "report")
     \/ device = "ok" /\ InGoto(g, "write", "read")
  /\ UNCHANGED <<loopVars, envVars, conn, pumpStop, outPump, errCh>>

InReport(g) ==
  /\ InGoto(g, "report", "done")
  /\ errCh[g] < ErrChCap
  /\ errCh' = [errCh EXCEPT ![g] = @ + 1]
  /\ UNCHANGED <<loopVars, envVars, conn, pumpStop, outPump>>

-----------------------------------------------------------------------------
(* Environment *)

\* SIGTERM or SIGINT: the handler of main.go calls cancel().
Cancel ==
  /\ ~cancelled
  /\ cancelled' = TRUE
  /\ UNCHANGED <<cfg, device, tunQueue, loopVars, connVars>>

\* The peer, or the loss of the path, closes a connection.
PeerCloses(g) ==
  /\ conn[g] = "open"
  /\ conn' = [conn EXCEPT ![g] = "closed"]
  /\ UNCHANGED <<envVars, loopVars, pumpStop, outPump, inPump, errCh>>

PacketArrives ==
  /\ device = "ok" /\ tunQueue < MaxQueue
  /\ tunQueue' = tunQueue + 1
  /\ UNCHANGED <<cfg, cancelled, device, loopVars, connVars>>

\* The interface is destroyed under the daemon.
DeviceBreaks ==
  /\ device = "ok"
  /\ device' = "broken"
  /\ tunQueue' = 0
  /\ UNCHANGED <<cfg, cancelled, loopVars, connVars>>

-----------------------------------------------------------------------------
Loop ==
  \/ BuildTLSConfig \/ CheckCtx \/ IdleRead \/ IdleReadError \/ SelectEndpoint
  \/ DialH2 \/ ListenUDP \/ DialQUIC \/ DialIP
  \/ StatusRejected \/ StatusOK \/ ReceivePumpErr \/ CancelPumps \/ Drain
  \/ SleepCancelled \/ SleepElapsed

OutPump(g) ==
  OutCheck(g) \/ OutRead(g) \/ OutReadError(g) \/ OutRecheck(g) \/ OutWrite(g)
  \/ OutReport(g)

\* What the inbound goroutine does without waiting for a packet of the peer.
InPumpOwn(g) == InReadClosed(g) \/ InWrite(g) \/ InReport(g)

InPump(g) == InPumpOwn(g) \/ InRead(g) \/ InReadSoftError(g)

Environment ==
  Cancel \/ PacketArrives \/ DeviceBreaks \/ \E g \in Gens : PeerCloses(g)

Next ==
  \/ Loop
  \/ \E g \in Gens : OutPump(g) \/ InPump(g)
  \/ Environment

Spec == Init /\ [][Next]_vars

\* The Go scheduler runs every goroutine that can run, and timers fire.  Nothing
\* is assumed of the environment: no packet need come, no connection need close.
Fairness ==
  /\ WF_vars(Loop)
  /\ \A g \in Gens : WF_vars(OutPump(g)) /\ WF_vars(InPumpOwn(g))

FairSpec == Spec /\ Fairness

-----------------------------------------------------------------------------
(* Safety *)

Dialling  == {"dialQUIC", "dialIP"}
Connected == {"status", "wait", "lost", "drain"}

\* connectH3 and MaintainTunnel share the duty to close the UDP socket and the
\* http3 transport over five error paths.  Between two connections nothing is
\* open, so that no number of reconnects can exhaust the file descriptors, and
\* nothing is closed twice.
SocketBalance ==
  /\ udp = IF pc \in Dialling \/ (pc \in Connected /\ ~cfg.UseH2) THEN 1 ELSE 0
  /\ h3  = IF pc = "dialIP" \/ (pc \in Connected /\ ~cfg.UseH2) THEN 1 ELSE 0

\* Whatever pumps are left over from earlier connections, the only connection
\* that can be open is the one the loop currently serves: the loop never dials
\* or sleeps with a tunnel still up.
OneLiveConnection ==
  \A g \in Gens : conn[g] = "open" => g = gen /\ pc \in {"status", "wait", "lost"}

\* The loop sleeps in <-errCh.  If a pump of the connection it serves has ended,
\* an error is waiting for it: a dead tunnel is never mistaken for a quiet one.
\* (The outbound pump also ends, silently, when ctx is cancelled.)
NoLostWakeup ==
  pc = "wait" =>
    /\ inPump[gen] = "done" => errCh[gen] > 0
    /\ outPump[gen] = "done" => errCh[gen] > 0 \/ cancelled

\* A pump that reports finds room in errCh even when the loop has already left
\* <-errCh for good: no pump goroutine is stuck in a send for ever.
ErrChNeverBlocks ==
  \A g \in Gens :
    outPump[g] = "report" \/ inPump[g] = "report" => errCh[g] < ErrChCap

\* The delay between two attempts never leaves the interval that is spanned by the
\* configured delay and the maximum, over any sequence of failures, successes
\* and lost tunnels.
DelayInBounds ==
  \/ cfg.ReconnectDelay <= delay /\ delay <= MaxBackoff
  \/ MaxBackoff <= delay /\ delay <= cfg.ReconnectDelay

(* Steps *)

\* The delay becomes shorter in two cases only: a connection that the server accepted
\* (HTTP 200) resets it, and a delay above the maximum (CloudflareZT.xml:147 allows
\* 300 s, the maximum is 60 s) is cut to exactly the maximum.  No other sequence of
\* failures and lost tunnels makes the daemon retry faster.
DelayShrinksOnlyOnSuccess ==
  [][delay' < delay => \/ pc = "status" /\ pc' = "wait"
                       \/ MaxBackoff < delay /\ delay' = MaxBackoff]_vars

(* Refinement *)

\* The loop as runMASQUE sees it.
Phase == CASE pc = "tls" -> "starting"
           [] pc = "fatal" -> "fatal"
           [] pc = "returned" -> "returned"
           [] OTHER -> "serving"

Contract == INSTANCE TunnelContract WITH phase <- Phase

\* However connects and pumps fail, the loop ends the process only before it has
\* dialled, and afterwards returns only when ctx is cancelled: the default route
\* that runMASQUE has moved into the tunnel is not given up by a network error.
ImplementsContract == Contract!ContractSpec

(* Liveness, of FairSpec *)

\* A tunnel whose connection is gone is torn down, even when the outbound pump is
\* stuck in a TUN read that no packet will ever end.
LossIsHandled ==
  (pc = "wait" /\ conn[gen] = "closed") ~> (pc = "sleepLost")

\* After a tunnel was lost its inbound pump ends, and the outbound one ends or
\* is waiting for one last packet from the device.
LostPumpsRetire ==
  \A g \in Gens :
    pumpStop[g] ~> (inPump[g] = "done" /\ outPump[g] \in {"read", "done"})

Ended == pc \in {"returned", "fatal"}

\* The two places where the loop waits for something other than ctx or a timer.
BlockedInRead ==
  \/ pc = "wait" /\ errCh[gen] = 0
  \/ pc = "idle" /\ device = "ok" /\ tunQueue = 0

\* After SIGTERM the loop does not go on dialling and sleeping for ever: it ends
\* or comes to rest in one of the two blocking reads.
CancelStopsRetries == cancelled ~> (Ended \/ BlockedInRead)

=============================================================================
