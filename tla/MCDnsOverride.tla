--------------------------- MODULE MCDnsOverride ---------------------------
(***************************************************************************)
(* Instances of DnsOverride for TLC.                                       *)
(***************************************************************************)
EXTENDS DnsOverride

CONSTANTS w1, w2, own, none

TwoCommands == {w1, w2}
OneList     == {own}
NoDomains   == {none}

=============================================================================
