-------------------------- MODULE MCCanisterPoller --------------------------
(***************************************************************************)
(* Instances of CanisterPoller for TLC.                                    *)
(***************************************************************************)
EXTENDS CanisterPoller, TLC

\* All clients hash to one shard of the PollerState, or each to its own.
OneShard == [s \in Clients |-> "shard"]

OwnShard == [s \in Clients |-> s]

ClientSymmetry == Permutations(Clients)

=============================================================================
