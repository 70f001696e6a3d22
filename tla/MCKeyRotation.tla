--------------------------- MODULE MCKeyRotation ---------------------------
(***************************************************************************)
(* Instances of KeyRotation for TLC.                                       *)
(***************************************************************************)
EXTENDS KeyRotation

CONSTANTS m, w

OneConn  == {m}
TwoConns == {m, w}

=============================================================================
