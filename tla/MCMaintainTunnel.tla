-------------------------- MODULE MCMaintainTunnel --------------------------
(***************************************************************************)
(* Instances of MaintainTunnel for TLC.                                    *)
(***************************************************************************)
EXTENDS MaintainTunnel

Config(tls, v4, v6, useV6, h2, always, wait) ==
  [ tls |-> tls, EndpointV4 |-> v4, EndpointV6 |-> v6, UseIPv6 |-> useV6,
    UseH2 |-> h2, AlwaysReconnect |-> always,
    ReconnectDelay |-> wait ]

\* One configuration for each way through the code: key material that does not
\* parse, endpoints that are absent, bad or masked by the other family, QUIC and
\* HTTP/2, permanent and on demand, and delays below and above the maximum.
AllPaths ==
  { Config("bad", "valid", "", FALSE, FALSE, TRUE, 2),
    Config("ok", "bad", "", FALSE, FALSE, TRUE, 2),
    Config("ok", "bad", "valid", TRUE, FALSE, TRUE, 2),
    Config("ok", "valid", "bad", FALSE, FALSE, FALSE, 2),
    Config("ok", "", "", FALSE, TRUE, TRUE, 7) }

=============================================================================
