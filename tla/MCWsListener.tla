---------------------------- MODULE MCWsListener ----------------------------
(***************************************************************************)
(* WsListener for TLC: its constants are given in the configurations.      *)
(***************************************************************************)
EXTENDS WsListener

=============================================================================
