--------------------------- MODULE TunnelContract ---------------------------
(***************************************************************************)
(* What MaintainTunnel (go/cfzt-warp/daemon/tunnel.go) promises the code   *)
(* that calls it, runMASQUE of go/cfzt-warp/main.go.                       *)
(*                                                                         *)
(* It ends the process only while it starts up, with no connection made;   *)
(* afterwards it never gives up by itself: it returns to runMASQUE, whose  *)
(* deferred calls then undo the daemon's routes, only after ctx was        *)
(* cancelled.  It does not promise to return at all.                       *)
(*                                                                         *)
(* MaintainTunnel implements this module; WarpDaemon is built on it.       *)
(***************************************************************************)
VARIABLES
  phase,      \* "starting", "serving", "returned" or "fatal"
  cancelled   \* ctx is cancelled

ContractInit == phase = "starting" /\ cancelled = FALSE

\* The key material is good: the loop runs from here on.
Serve == phase = "starting" /\ phase' = "serving" /\ UNCHANGED cancelled

\* log.Fatalf
Fail == phase = "starting" /\ phase' = "fatal" /\ UNCHANGED cancelled

Return == phase = "serving" /\ cancelled /\ phase' = "returned" /\ UNCHANGED cancelled

CancelCtx == ~cancelled /\ cancelled' = TRUE /\ UNCHANGED phase

ContractNext == Serve \/ Fail \/ Return \/ CancelCtx

ContractSpec == ContractInit /\ [][ContractNext]_<<phase, cancelled>>

=============================================================================
