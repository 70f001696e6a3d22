---------------------------- MODULE MCWarpDaemon ----------------------------
(***************************************************************************)
(* Instances of WarpDaemon for TLC.                                        *)
(***************************************************************************)
EXTENDS WarpDaemon

Conf(protocol, registered, keys, mode, dns) ==
  [ protocol |-> protocol, registered |-> registered, keys |-> keys,
    tunnel_mode |-> mode, dns_mode |-> dns ]

FullTunnel == Conf("warp_masque", TRUE, TRUE, "full", "system")

\* One configuration for each way through main.go.
AllConfigs ==
  { FullTunnel,
    Conf("warp_masque", TRUE, TRUE, "split", "other"),
    Conf("warp_masque", TRUE, FALSE, "full", "system"),
    Conf("warp_wireguard", TRUE, TRUE, "split", "system"),
    Conf("warp_wireguard", FALSE, FALSE, "split", "system") }

OnlyFullTunnel == { FullTunnel }

=============================================================================
