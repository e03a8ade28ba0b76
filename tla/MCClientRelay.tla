--------------------------- MODULE MCClientRelay ----------------------------
(***************************************************************************)
(* ClientRelay for TLC: one client waits for confirmations and             *)
(* acknowledgements, the other for neither.                                *)
(***************************************************************************)
EXTENDS ClientRelay

CONSTANTS patient, hasty

WindowOf == [s \in Sessions |-> IF s = patient THEN 1 ELSE 2]

=============================================================================
