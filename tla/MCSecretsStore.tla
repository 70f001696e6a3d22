-------------------------- MODULE MCSecretsStore --------------------------
(***************************************************************************)
(* Instance of SecretsStore for TLC.                                       *)
(***************************************************************************)
EXTENDS SecretsStore

CONSTANTS w1, w2, k1, k2, v1, h1, h2

TwoWriters == {w1, w2}
TwoKeys    == {k1, k2}
OneValue   == {v1}
TwoHosts   == {h1, h2}

=============================================================================
