----------------------------- MODULE MCGateway ------------------------------
(***************************************************************************)
(* Instances of Gateway for TLC.                                           *)
(***************************************************************************)
EXTENDS Gateway, TLC

\* Every client has a key of its own: the keys are named after the sessions.
OwnKey == [s \in Sessions |-> s]

\* The client of every session uses the same key, as one that reconnects with
\* its old nonce.
SharedKey == [s \in Sessions |-> CHOOSE k \in ClientKeys : TRUE]

\* All canisters hash to one outer shard, all keys to one inner shard.
OneCanisterShard == [c \in Canisters |-> CHOOSE sh \in Shards : TRUE]

OneKeyShard == [k \in ClientKeys |-> "shard"]

\* Every key has an inner shard of its own.
OwnKeyShard == [k \in ClientKeys |-> k]

SessionSymmetry == Permutations(Sessions)

=============================================================================
