------------------------- MODULE MCServiceLifecycle -------------------------
(***************************************************************************)
(* Instances of ServiceLifecycle for TLC: the slots are strings because    *)
(* the monitor's "no slot" is one.                                         *)
(***************************************************************************)
EXTENDS ServiceLifecycle

TwoSlots == {"s1", "s2"}

=============================================================================
