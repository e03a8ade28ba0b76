---------------------------- MODULE GatewayTypes ----------------------------
(***************************************************************************)
(* The identifiers all components of the gateway share.                    *)
(***************************************************************************)

CONSTANTS
    Canisters,      \* CanisterPrincipal: the canisters clients connect to
    Sessions,       \* the client connections accepted by the gateway
    ClientKeys,     \* ClientKey: client principal and client nonce
    None

ASSUME GatewayTypesAssumption ==
    /\ None \notin Canisters
    /\ None \notin Sessions
    /\ None \notin ClientKeys

=============================================================================
