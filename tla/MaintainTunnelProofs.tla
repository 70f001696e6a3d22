------------------------ MODULE MaintainTunnelProofs ------------------------
(***************************************************************************)
(* Proofs about MaintainTunnel for every set of configurations, every      *)
(* delay and any number of connections.                                    *)
(***************************************************************************)
EXTENDS MaintainTunnel, TLAPS

USE DEF Gens

-----------------------------------------------------------------------------
(* The backoff function *)

\* backoff returns a natural number for natural arguments.
LEMMA BackoffType ==
  ASSUME NEW c \in Nat, NEW i \in Nat, NEW m \in Nat
  PROVE  Backoff(c, i, m) \in Nat
BY DEF Backoff

\* backoff stays between the initial delay and the maximum, whichever of the two
\* is larger.
LEMMA BackoffBounds ==
  ASSUME NEW c \in Nat, NEW i \in Nat, NEW m \in Nat,
         (i <= c /\ c <= m) \/ (m <= c /\ c <= i)
  PROVE  \/ i <= Backoff(c, i, m) /\ Backoff(c, i, m) <= m
         \/ m <= Backoff(c, i, m) /\ Backoff(c, i, m) <= i
BY DEF Backoff

\* backoff shortens a delay only when it exceeds the maximum, and then to the maximum.
LEMMA BackoffGrows ==
  ASSUME NEW c \in Nat, NEW i \in Nat, NEW m \in Nat
  PROVE  c <= Backoff(c, i, m) \/ (m < c /\ Backoff(c, i, m) = m)
BY DEF Backoff

\* The configured delay is a natural number.
LEMMA ConfiguredDelay == TypeOK => cfg.ReconnectDelay \in Nat
BY ConfigsAssumption DEF TypeOK, MaintainConfig

-----------------------------------------------------------------------------
(* Type correctness *)

\* The steps that are not the loop's: no pump and no outside event touches the
\* loop's own variables or the configuration.
OtherStep ==
  \/ \E g \in Gens : OutPump(g) \/ InPump(g)
  \/ Environment

\* Pumps and environment leave the loop's variables alone.
LEMMA OtherStepFrame == OtherStep => UNCHANGED <<loopVars, cfg>>
<1> SUFFICES ASSUME OtherStep PROVE UNCHANGED <<loopVars, cfg>>
  OBVIOUS
<1>1. ASSUME NEW g \in Gens, OutPump(g) PROVE UNCHANGED <<loopVars, cfg>>
  BY <1>1 DEF OutPump, OutCheck, OutRead, OutReadError, OutRecheck, OutWrite,
              OutReport, envVars
<1>2. ASSUME NEW g \in Gens, InPump(g) PROVE UNCHANGED <<loopVars, cfg>>
  BY <1>2 DEF InPump, InPumpOwn, InRead, InReadClosed, InReadSoftError, InWrite,
              InReport, envVars
<1>3. CASE Environment
  BY <1>3 DEF Environment, Cancel, PacketArrives, DeviceBreaks, PeerCloses, envVars
<1> QED
  BY <1>1, <1>2, <1>3 DEF OtherStep

\* Every step keeps every variable in its type.
LEMMA TypeStep == TypeOK /\ [Next]_vars => TypeOK'
<1> SUFFICES ASSUME TypeOK, [Next]_vars PROVE TypeOK'
  OBVIOUS
<1> USE DelayAssumption, BoundsAssumption
        DEF TypeOK, loopVars, connVars, envVars, PCs, OutPCs, InPCs
<1>b. Backoff(delay, cfg.ReconnectDelay, MaxBackoff) \in Nat
  BY BackoffType, ConfiguredDelay
<1>1. CASE BuildTLSConfig BY <1>1 DEF BuildTLSConfig, Goto
<1>2. CASE CheckCtx BY <1>2 DEF CheckCtx, Goto
<1>3. CASE IdleRead \/ IdleReadError BY <1>3 DEF IdleRead, IdleReadError, Goto
<1>4. CASE SelectEndpoint BY <1>4 DEF SelectEndpoint, Goto
<1>5. CASE DialH2 BY <1>5, <1>b DEF DialH2, Dialled, ConnectFailed
<1>6. CASE ListenUDP BY <1>6, <1>b DEF ListenUDP, AttemptFailed, ConnectFailed
<1>7. CASE DialQUIC BY <1>7, <1>b DEF DialQUIC, AttemptFailed, ConnectFailed
<1>8. CASE DialIP
  <2>1. CASE Dialled
    BY <1>8, <2>1 DEF DialIP, Dialled, AttemptFailed, ConnectFailed
  <2>2. CASE AttemptFailed
    BY <1>8, <1>b, <2>2 DEF DialIP, Dialled, AttemptFailed, ConnectFailed
  <2> QED BY <1>8, <2>1, <2>2 DEF DialIP
<1>9. CASE StatusRejected
  <2>1. /\ udp' \in Int /\ h3' \in Int
        /\ pc' \in PCs /\ delay' \in Nat
    BY <1>9, <1>b DEF StatusRejected, CloseResult, ConnectFailed
  <2>2. /\ conn' \in [Gens -> {"none", "open", "closed"}]
        /\ UNCHANGED <<attempt, gen, pumpStop, outPump, inPump, errCh, cfg,
                       cancelled, device, tunQueue>>
    BY <1>9 DEF StatusRejected
  <2> QED BY <2>1, <2>2
<1>10. CASE StatusOK
  <2>1. /\ outPump' \in [Gens -> OutPCs] /\ inPump' \in [Gens -> InPCs]
        /\ pc' \in PCs /\ delay' \in Nat
    BY <1>10, ConfiguredDelay DEF StatusOK, Goto
  <2> QED BY <1>10, <2>1 DEF StatusOK
<1>11. CASE ReceivePumpErr
  <2>1. CASE gen \in Gens
    <3>1. errCh[gen] - 1 \in 0..2
      BY <1>11, <2>1 DEF ReceivePumpErr
    <3> QED BY <1>11, <2>1, <3>1 DEF ReceivePumpErr, Goto
  <2>2. CASE gen \notin Gens
    BY <1>11, <2>2 DEF ReceivePumpErr, Goto
  <2> QED BY <2>1, <2>2
<1>12. CASE CancelPumps BY <1>12 DEF CancelPumps, Goto
<1>13. CASE Drain BY <1>13 DEF Drain, CloseResult, Goto
<1>14. CASE SleepCancelled BY <1>14 DEF SleepCancelled
<1>15. CASE SleepElapsed BY <1>15, <1>b DEF SleepElapsed
<1>16. ASSUME NEW g \in Gens, OutPump(g) PROVE TypeOK'
  <2> USE DEF OutGoto
  <2>1. CASE OutCheck(g) BY <2>1 DEF OutCheck
  <2>2. CASE OutRead(g) BY <2>2 DEF OutRead
  <2>3. CASE OutReadError(g) BY <2>3 DEF OutReadError
  <2>4. CASE OutRecheck(g) BY <2>4 DEF OutRecheck
  <2>5. CASE OutWrite(g) BY <2>5 DEF OutWrite
  <2>6. CASE OutReport(g) BY <2>6 DEF OutReport, ErrChCap
  <2> QED BY <1>16, <2>1, <2>2, <2>3, <2>4, <2>5, <2>6 DEF OutPump
<1>17. ASSUME NEW g \in Gens, InPump(g) PROVE TypeOK'
  <2> USE DEF InGoto
  <2>1. CASE InRead(g) BY <2>1 DEF InRead
  <2>2. CASE InReadClosed(g) BY <2>2 DEF InReadClosed
  <2>3. CASE InReadSoftError(g) BY <2>3 DEF InReadSoftError
  <2>4. CASE InWrite(g) BY <2>4 DEF InWrite
  <2>5. CASE InReport(g)
    <3>1. errCh[g] + 1 \in 0..2
      BY <2>5 DEF InReport, ErrChCap
    <3> QED
      BY <2>5, <3>1 DEF InReport
  <2> QED BY <1>17, <2>1, <2>2, <2>3, <2>4, <2>5 DEF InPump, InPumpOwn
<1>18. CASE Environment
  <2>1. CASE Cancel BY <2>1 DEF Cancel
  <2>2. CASE PacketArrives BY <2>2 DEF PacketArrives
  <2>3. CASE DeviceBreaks BY <2>3 DEF DeviceBreaks
  <2>4. ASSUME NEW g \in Gens, PeerCloses(g) PROVE TypeOK'
    BY <2>4 DEF PeerCloses
  <2> QED BY <1>18, <2>1, <2>2, <2>3, <2>4 DEF Environment
<1>19. CASE UNCHANGED vars BY <1>19 DEF vars
<1> QED
  BY <1>1, <1>2, <1>3, <1>4, <1>5, <1>6, <1>7, <1>8, <1>9, <1>10, <1>11, <1>12,
     <1>13, <1>14, <1>15, <1>16, <1>17, <1>18, <1>19 DEF Next, Loop

\* The initial states are well typed.
LEMMA InitTypeOK == Init => TypeOK
<1>1. ASSUME Init PROVE TypeOK
  <2>1. /\ conn \in [Gens -> {"none", "open", "closed"}]
        /\ pumpStop \in [Gens -> BOOLEAN]
        /\ outPump \in [Gens -> OutPCs]
    BY <1>1 DEF Init, OutPCs
  <2>2. /\ inPump \in [Gens -> InPCs]
        /\ errCh \in [Gens -> 0..2]
    BY <1>1 DEF Init, InPCs
  <2>3. /\ tunQueue \in 0..MaxQueue /\ gen \in 0..MaxConns /\ delay \in Nat
        /\ attempt \in 0..1 /\ udp \in Int /\ h3 \in Int
    BY <1>1, ConfigsAssumption, BoundsAssumption DEF Init, MaintainConfig
  <2> QED
    BY <1>1, <2>1, <2>2, <2>3 DEF Init, TypeOK, PCs
<1> QED
  BY <1>1

\* Every variable keeps its type: in particular errCh never holds more errors than
\* its capacity and the delay never becomes negative.
THEOREM TypeCorrect == Spec => []TypeOK
BY InitTypeOK, TypeStep, PTL DEF Spec

-----------------------------------------------------------------------------
(* Sockets *)

\* The part of the loop that dials QUIC is entered in QUIC mode only, and the
\* HTTP/2 dial in HTTP/2 mode only; this is what makes closeResult close exactly
\* what the dial opened.
TransportMatches ==
  /\ pc = "dialH2" => cfg.UseH2
  /\ pc \in {"listen", "dialQUIC", "dialIP"} => ~cfg.UseH2

SocketInv == TypeOK /\ TransportMatches /\ SocketBalance

\* Every step keeps the books of sockets and transports.
LEMMA SocketStep == SocketInv /\ [Next]_vars => (TransportMatches /\ SocketBalance)'
<1> SUFFICES ASSUME SocketInv, [Next]_vars
             PROVE  (TransportMatches /\ SocketBalance)'
  OBVIOUS
<1> USE DEF SocketInv, TypeOK, TransportMatches, SocketBalance, Dialling, Connected,
            envVars
<1>1. CASE BuildTLSConfig BY <1>1 DEF BuildTLSConfig, Goto
<1>2. CASE CheckCtx BY <1>2 DEF CheckCtx, Goto
<1>3. CASE IdleRead \/ IdleReadError BY <1>3 DEF IdleRead, IdleReadError, Goto
<1>4. CASE SelectEndpoint BY <1>4 DEF SelectEndpoint, Goto
<1>5. CASE DialH2 BY <1>5 DEF DialH2, Dialled, ConnectFailed
<1>6. CASE ListenUDP BY <1>6 DEF ListenUDP, AttemptFailed, ConnectFailed
<1>7. CASE DialQUIC BY <1>7 DEF DialQUIC, AttemptFailed, ConnectFailed
<1>8. CASE DialIP BY <1>8 DEF DialIP, Dialled, AttemptFailed, ConnectFailed
<1>9. CASE StatusRejected BY <1>9 DEF StatusRejected, CloseResult, ConnectFailed
<1>10. CASE StatusOK BY <1>10 DEF StatusOK, Goto
<1>11. CASE ReceivePumpErr BY <1>11 DEF ReceivePumpErr, Goto
<1>12. CASE CancelPumps BY <1>12 DEF CancelPumps, Goto
<1>13. CASE Drain BY <1>13 DEF Drain, CloseResult, Goto
<1>14. CASE SleepCancelled BY <1>14 DEF SleepCancelled
<1>15. CASE SleepElapsed BY <1>15 DEF SleepElapsed
<1>16. CASE OtherStep BY <1>16, OtherStepFrame DEF loopVars
<1>17. CASE UNCHANGED vars BY <1>17 DEF vars
<1> QED
  BY <1>1, <1>2, <1>3, <1>4, <1>5, <1>6, <1>7, <1>8, <1>9, <1>10, <1>11, <1>12,
     <1>13, <1>14, <1>15, <1>16, <1>17 DEF Next, Loop, OtherStep

\* Nothing the loop opens for a connection outlives it, whatever sequence of
\* dial errors, rejections and lost tunnels the daemon goes through.
THEOREM SocketsBalanced == Spec => []SocketBalance
<1>1. Init => TransportMatches /\ SocketBalance
  BY DEF Init, TransportMatches, SocketBalance, Dialling, Connected
<1>2. SocketInv /\ [Next]_vars => SocketInv'
  BY SocketStep, TypeStep DEF SocketInv
<1>3. Init => SocketInv
  BY <1>1, InitTypeOK DEF SocketInv
<1>4. SocketInv => SocketBalance
  BY DEF SocketInv
<1> QED
  BY <1>2, <1>3, <1>4, PTL DEF Spec

-----------------------------------------------------------------------------
(* The delay *)

\* The configuration is fixed.
LEMMA CfgFixed == [Next]_vars => cfg' = cfg
<1>1. Loop => cfg' = cfg
  BY DEF Loop, BuildTLSConfig, CheckCtx, IdleRead, IdleReadError, SelectEndpoint,
     DialH2, ListenUDP, DialQUIC, DialIP, StatusRejected, StatusOK, ReceivePumpErr,
     CancelPumps, Drain, SleepCancelled, SleepElapsed, envVars
<1>2. OtherStep => cfg' = cfg
  BY OtherStepFrame
<1> QED
  BY <1>1, <1>2 DEF Next, OtherStep, vars

\* Every step keeps the delay between the configured value and the maximum.
LEMMA DelayStep == TypeOK /\ DelayInBounds /\ [Next]_vars => DelayInBounds'
<1> SUFFICES ASSUME TypeOK, DelayInBounds, [Next]_vars PROVE DelayInBounds'
  OBVIOUS
<1> DEFINE next == Backoff(delay, cfg.ReconnectDelay, MaxBackoff)
<1>1. delay' \in {delay, cfg.ReconnectDelay, next}
  <2>1. CASE Loop
    BY <2>1 DEF Loop, BuildTLSConfig, CheckCtx, IdleRead, IdleReadError,
       SelectEndpoint, DialH2, ListenUDP, DialQUIC, DialIP, Dialled, AttemptFailed,
       ConnectFailed, StatusRejected, StatusOK, ReceivePumpErr, CancelPumps, Drain,
       SleepCancelled, SleepElapsed
  <2>2. CASE OtherStep
    BY <2>2, OtherStepFrame DEF loopVars
  <2>3. CASE UNCHANGED vars
    BY <2>3 DEF vars
  <2> QED
    BY <2>1, <2>2, <2>3 DEF Next, OtherStep
<1>2. delay \in Nat
  BY DEF TypeOK
<1>3. \/ cfg.ReconnectDelay <= next /\ next <= MaxBackoff
      \/ MaxBackoff <= next /\ next <= cfg.ReconnectDelay
  BY <1>2, ConfiguredDelay, DelayAssumption, BackoffBounds DEF DelayInBounds
<1>4. cfg' = cfg
  BY CfgFixed
<1> HIDE DEF next
<1> QED
  BY <1>1, <1>2, <1>3, <1>4, ConfiguredDelay, DelayAssumption DEF DelayInBounds

\* The delay never leaves the interval between the configured delay and 60 s.
THEOREM DelayBounded == Spec => []DelayInBounds
<1>1. Init => TypeOK /\ DelayInBounds
  BY InitTypeOK, ConfiguredDelay, DelayAssumption DEF Init, DelayInBounds
<1>2. TypeOK /\ DelayInBounds /\ [Next]_vars => (TypeOK /\ DelayInBounds)'
  BY TypeStep, DelayStep
<1> QED
  BY <1>1, <1>2, PTL DEF Spec

\* Only a connection that the server accepted shortens the delay, or the cut of a
\* delay above the maximum to the maximum.
THEOREM RetriesOnlySlowDown == Spec => DelayShrinksOnlyOnSuccess
<1> DEFINE Shrink == delay' < delay => \/ pc = "status" /\ pc' = "wait"
                                       \/ MaxBackoff < delay /\ delay' = MaxBackoff
<1>1. TypeOK /\ [Next]_vars => [Shrink]_vars
  <2> SUFFICES ASSUME TypeOK, Next PROVE Shrink
    OBVIOUS
  <2> DEFINE next == Backoff(delay, cfg.ReconnectDelay, MaxBackoff)
  <2>1. delay \in Nat
    BY DEF TypeOK
  <2>2. /\ delay <= next \/ (MaxBackoff < delay /\ next = MaxBackoff)
        /\ next \in Nat
    BY <2>1, ConfiguredDelay, DelayAssumption, BackoffGrows, BackoffType
  <2>3. \/ delay' \in {delay, next}
        \/ pc = "status" /\ pc' = "wait"
    <3>1. CASE Loop
      BY <3>1 DEF Loop, BuildTLSConfig, CheckCtx, IdleRead, IdleReadError,
         SelectEndpoint, DialH2, ListenUDP, DialQUIC, DialIP, Dialled,
         AttemptFailed, ConnectFailed, StatusRejected, StatusOK, Goto,
         ReceivePumpErr, CancelPumps, Drain, SleepCancelled, SleepElapsed
    <3>2. CASE OtherStep
      BY <3>2, OtherStepFrame DEF loopVars
    <3> QED
      BY <3>1, <3>2 DEF Next, OtherStep
  <2> HIDE DEF next
  <2> QED
    BY <2>1, <2>2, <2>3
<1> QED
  BY <1>1, TypeCorrect, PTL DEF Spec, DelayShrinksOnlyOnSuccess

-----------------------------------------------------------------------------
(* Connections, pumps and their error channel *)

\* Connections that do not exist yet have left no trace.
Untouched(g) ==
  /\ conn[g] = "none" /\ ~pumpStop[g]
  /\ outPump[g] = "none" /\ inPump[g] = "none" /\ errCh[g] = 0

\* Where the loop is decides what the current connection looks like.
LoopShape ==
  /\ \A g \in Gens : g > gen => Untouched(g)
  /\ pc \in Connected => gen > 0
  /\ pc = "status" => /\ ~pumpStop[gen] /\ errCh[gen] = 0
                      /\ outPump[gen] = "none" /\ inPump[gen] = "none"
  /\ pc = "wait" => ~pumpStop[gen]

\* Each pump adds to the channel at most once, in the step in which it ends.
ErrChCounts ==
  \A g \in Gens : /\ errCh[g] = 2 => outPump[g] = "done" /\ inPump[g] = "done"
                  /\ errCh[g] = 1 => outPump[g] = "done" \/ inPump[g] = "done"

ConnInv ==
  /\ TypeOK /\ LoopShape /\ ErrChCounts /\ OneLiveConnection /\ NoLostWakeup

\* A step of the loop keeps the shape of connections, pumps and channels.
LEMMA LoopConnStep == ConnInv /\ TypeOK' /\ Loop => ConnInv'
<1> SUFFICES ASSUME ConnInv, TypeOK', Loop PROVE ConnInv'
  OBVIOUS
<1> USE BoundsAssumption
        DEF ConnInv, LoopShape, Untouched, ErrChCounts, OneLiveConnection,
            NoLostWakeup, Connected, connVars, envVars
<1> DEFINE Quiet == UNCHANGED <<gen, connVars, cancelled>>
                    /\ pc \notin Connected /\ pc' \notin Connected
<1>q. ASSUME Quiet PROVE ConnInv'
  BY <1>q
<1>d. ASSUME Dialled, cancelled' = cancelled, pc \notin Connected PROVE ConnInv'
  BY <1>d DEF Dialled, TypeOK
<1>1. CASE BuildTLSConfig BY <1>1, <1>q DEF BuildTLSConfig, Goto
<1>2. CASE CheckCtx BY <1>2, <1>q DEF CheckCtx, Goto
<1>3. CASE IdleRead \/ IdleReadError
  BY <1>3, <1>q DEF IdleRead, IdleReadError, Goto
<1>4. CASE SelectEndpoint BY <1>4, <1>q DEF SelectEndpoint, Goto
<1>5. CASE DialH2 BY <1>5, <1>q, <1>d DEF DialH2, ConnectFailed
<1>6. CASE ListenUDP BY <1>6, <1>q DEF ListenUDP, AttemptFailed, ConnectFailed
<1>7. CASE DialQUIC BY <1>7, <1>q DEF DialQUIC, AttemptFailed, ConnectFailed
<1>8. CASE DialIP BY <1>8, <1>q, <1>d DEF DialIP, AttemptFailed, ConnectFailed
<1>9. CASE StatusRejected
  BY <1>9 DEF StatusRejected, CloseResult, ConnectFailed, TypeOK
<1>10. CASE StatusOK BY <1>10 DEF StatusOK, Goto, TypeOK
<1>11. CASE ReceivePumpErr BY <1>11 DEF ReceivePumpErr, Goto, TypeOK
<1>12. CASE CancelPumps BY <1>12 DEF CancelPumps, Goto, TypeOK
<1>13. CASE Drain BY <1>13 DEF Drain, CloseResult, Goto, TypeOK
<1>14. CASE SleepCancelled BY <1>14, <1>q DEF SleepCancelled
<1>15. CASE SleepElapsed BY <1>15, <1>q DEF SleepElapsed
<1> QED
  BY <1>1, <1>2, <1>3, <1>4, <1>5, <1>6, <1>7, <1>8, <1>9, <1>10, <1>11, <1>12,
     <1>13, <1>14, <1>15 DEF Loop

\* A step of a pump, or of the environment, keeps it too.
LEMMA OtherConnStep == ConnInv /\ TypeOK' /\ OtherStep => ConnInv'
<1> SUFFICES ASSUME ConnInv, TypeOK', OtherStep PROVE ConnInv'
  OBVIOUS
<1>f. UNCHANGED <<pc, gen>>
  BY OtherStepFrame DEF loopVars
<1> USE BoundsAssumption, <1>f
        DEF ConnInv, TypeOK, LoopShape, Untouched, ErrChCounts, OneLiveConnection,
            NoLostWakeup, Connected, envVars
<1>1. ASSUME NEW g \in Gens, OutPump(g) PROVE ConnInv'
  <2> USE DEF OutGoto, PumpCtxDone
  <2>1. CASE OutCheck(g) BY <2>1 DEF OutCheck
  <2>2. CASE OutRead(g) BY <2>2 DEF OutRead
  <2>3. CASE OutReadError(g) BY <2>3 DEF OutReadError
  <2>4. CASE OutRecheck(g) BY <2>4 DEF OutRecheck
  <2>5. CASE OutWrite(g) BY <2>5 DEF OutWrite
  <2>6. CASE OutReport(g) BY <2>6 DEF OutReport, ErrChCap
  <2> QED BY <1>1, <2>1, <2>2, <2>3, <2>4, <2>5, <2>6 DEF OutPump
<1>2. ASSUME NEW g \in Gens, InPump(g) PROVE ConnInv'
  <2> USE DEF InGoto
  <2>1. CASE InRead(g) BY <2>1 DEF InRead
  <2>2. CASE InReadClosed(g) BY <2>2 DEF InReadClosed
  <2>3. CASE InReadSoftError(g) BY <2>3 DEF InReadSoftError
  <2>4. CASE InWrite(g) BY <2>4 DEF InWrite
  <2>5. CASE InReport(g) BY <2>5 DEF InReport, ErrChCap
  <2> QED BY <1>2, <2>1, <2>2, <2>3, <2>4, <2>5 DEF InPump, InPumpOwn
<1>3. CASE Environment
  <2> USE DEF connVars
  <2>1. CASE Cancel BY <2>1 DEF Cancel
  <2>2. CASE PacketArrives BY <2>2 DEF PacketArrives
  <2>3. CASE DeviceBreaks BY <2>3 DEF DeviceBreaks
  <2>4. ASSUME NEW g \in Gens, PeerCloses(g) PROVE ConnInv'
    BY <2>4 DEF PeerCloses
  <2> QED BY <1>3, <2>1, <2>2, <2>3, <2>4 DEF Environment
<1> QED
  BY <1>1, <1>2, <1>3 DEF OtherStep

\* ConnInv is an invariant of the loop and all its pumps together.
LEMMA ConnInvariant == Spec => []ConnInv
<1>1. Init => ConnInv
  BY InitTypeOK DEF Init, ConnInv, LoopShape, Untouched, ErrChCounts,
     OneLiveConnection, NoLostWakeup, Connected
<1>2. ASSUME ConnInv, [Next]_vars PROVE ConnInv'
  <2>1. TypeOK'
    BY <1>2, TypeStep DEF ConnInv
  <2>2. CASE UNCHANGED vars
    BY <1>2, <2>2 DEF vars, ConnInv, TypeOK, LoopShape, Untouched, ErrChCounts,
       OneLiveConnection, NoLostWakeup
  <2> QED
    BY <1>2, <2>1, <2>2, LoopConnStep, OtherConnStep DEF Next, OtherStep
<1> QED
  BY <1>1, <1>2, PTL DEF Spec

\* The only connection that can be open is the one the loop serves.
THEOREM OneConnection == Spec => []OneLiveConnection
<1>1. ConnInv => OneLiveConnection
  BY DEF ConnInv
<1> QED
  BY <1>1, ConnInvariant, PTL

\* While the loop waits for an error, a pump that has ended has left one.
THEOREM WakeupNotLost == Spec => []NoLostWakeup
<1>1. ConnInv => NoLostWakeup
  BY DEF ConnInv
<1> QED
  BY <1>1, ConnInvariant, PTL

\* A pump never blocks in its send, before or after the loop has stopped
\* receiving.
THEOREM PumpsNeverBlock == Spec => []ErrChNeverBlocks
<1>1. ConnInv => ErrChNeverBlocks
  BY DEF ConnInv, TypeOK, ErrChCounts, ErrChNeverBlocks, ErrChCap
<1> QED
  BY <1>1, ConnInvariant, PTL

-----------------------------------------------------------------------------
(* The contract with runMASQUE *)

\* Every step of the loop, its pumps and its environment is a step of
\* TunnelContract or leaves phase and ctx alone.
LEMMA ContractStep ==
  TypeOK /\ [Next]_vars => [Contract!ContractNext]_<<Phase, cancelled>>
<1> SUFFICES ASSUME TypeOK, [Next]_vars
             PROVE  [Contract!ContractNext]_<<Phase, cancelled>>
  OBVIOUS
<1> USE DEF Phase
<1>1. CASE BuildTLSConfig
  BY <1>1 DEF BuildTLSConfig, Goto, envVars, Contract!ContractNext,
     Contract!Serve, Contract!Fail
<1>2. CASE CheckCtx
  BY <1>2 DEF CheckCtx, Goto, envVars, TypeOK, Contract!ContractNext, Contract!Return
<1>3. CASE SleepCancelled
  BY <1>3 DEF SleepCancelled, envVars, Contract!ContractNext, Contract!Return
<1>4. CASE Loop /\ ~BuildTLSConfig /\ ~CheckCtx /\ ~SleepCancelled
  <2>1. pc \notin {"tls", "fatal", "returned"} /\ pc' \notin {"tls", "fatal", "returned"}
    BY <1>4 DEF Loop, Goto, IdleRead, IdleReadError, SelectEndpoint, DialH2, ListenUDP,
       DialQUIC, DialIP, Dialled, AttemptFailed, ConnectFailed, StatusRejected,
       StatusOK, ReceivePumpErr, CancelPumps, Drain, SleepElapsed
  <2>2. cancelled' = cancelled
    BY <1>4 DEF Loop, envVars, IdleRead, IdleReadError, SelectEndpoint, DialH2,
       ListenUDP, DialQUIC, DialIP, StatusRejected, StatusOK, ReceivePumpErr,
       CancelPumps, Drain, SleepElapsed
  <2> QED
    BY <2>1, <2>2
<1>5. CASE Cancel
  BY <1>5 DEF Cancel, loopVars, Contract!ContractNext, Contract!CancelCtx
<1>6. CASE OtherStep /\ ~Cancel
  <2>1. pc' = pc
    BY <1>6, OtherStepFrame DEF loopVars
  <2>2. cancelled' = cancelled
    BY <1>6 DEF OtherStep, envVars, OutPump, OutCheck, OutRead, OutReadError,
       OutRecheck, OutWrite, OutReport, InPump, InPumpOwn, InRead, InReadClosed,
       InReadSoftError, InWrite, InReport, Environment, PacketArrives,
       DeviceBreaks, PeerCloses
  <2> QED
    BY <2>1, <2>2
<1>7. CASE UNCHANGED vars
  BY <1>7 DEF vars
<1> QED
  BY <1>1, <1>2, <1>3, <1>4, <1>5, <1>6, <1>7 DEF Next, OtherStep

\* The loop implements TunnelContract.
THEOREM LoopImplementsContract == Spec => ImplementsContract
<1>1. Init => Contract!ContractInit
  BY DEF Init, Phase, Contract!ContractInit
<1> QED
  BY <1>1, ContractStep, TypeCorrect, PTL
     DEF Spec, ImplementsContract, Contract!ContractSpec

=============================================================================
