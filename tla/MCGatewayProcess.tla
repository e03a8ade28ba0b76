-------------------------- MODULE MCGatewayProcess --------------------------
(***************************************************************************)
(* GatewayProcess for TLC: its constants are given in the configuration.   *)
(***************************************************************************)
EXTENDS GatewayProcess

=============================================================================
