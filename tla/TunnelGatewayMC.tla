--------------------------- MODULE TunnelGatewayMC --------------------------
(***************************************************************************)
(* Instances of TunnelGateway for TLC: two sessions of two agents, one of  *)
(* which was started with --takeover.                                      *)
(***************************************************************************)
EXTENDS TunnelGateway, TLC

CONSTANTS s1, s2, a1, a2

TwoSessions == s1 :> a1 @@ s2 :> a2
=============================================================================
