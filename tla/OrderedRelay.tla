---------------------------- MODULE OrderedRelay ----------------------------
(***************************************************************************)
(* What clients are promised about the messages of their canister, without *)
(* nonces, queries, batches or pollers: each registered client receives    *)
(* the messages sent to it one after the other.                            *)
(*                                                                         *)
(*   sent        how many messages were sent to each client                *)
(*   received    the messages each client has received, by index           *)
(*   registered  the clients that may receive messages                     *)
(***************************************************************************)
EXTENDS Naturals, Sequences

CONSTANTS
    Clients,
    MaySkip     \* whether a client may miss messages before its first one

VARIABLES sent, received, registered

vars == <<sent, received, registered>>

Init ==
    /\ sent = [s \in Clients |-> 0]
    /\ received = [s \in Clients |-> <<>>]
    /\ registered = {}

\* The messages that may follow those a client has received.
NextMessages(s) ==
    IF received[s] # <<>> THEN {received[s][Len(received[s])] + 1}
    ELSE IF MaySkip THEN 1 .. sent[s]
    ELSE {1}

Register(s) ==
    /\ registered' = registered \cup {s}
    /\ UNCHANGED <<sent, received>>

\* Registrations end one by one, or all at once when polling fails.
Unregister ==
    /\ registered' \in SUBSET registered
    /\ UNCHANGED <<sent, received>>

SendMessage(s) ==
    /\ sent' = [sent EXCEPT ![s] = @ + 1]
    /\ UNCHANGED <<received, registered>>

Deliver(s) ==
    /\ s \in registered
    /\ \E i \in NextMessages(s) \cap (1 .. sent[s]) :
        received' = [received EXCEPT ![s] = Append(@, i)]
    /\ UNCHANGED <<sent, registered>>

Next ==
    \/ \E s \in Clients : Register(s) \/ SendMessage(s) \/ Deliver(s)
    \/ Unregister

Spec == Init /\ [][Next]_vars

=============================================================================
