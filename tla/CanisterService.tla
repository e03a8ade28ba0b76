-------------------------- MODULE CanisterService ---------------------------
(***************************************************************************)
(* What the gateway promises to the sessions of a canister, without locks, *)
(* maps, tasks or guards: sessions subscribe to canisters, the subscribers *)
(* of a polled canister and nobody else receive messages, and polling ends *)
(* only when the last subscriber has left or after an error, which ends    *)
(* all subscriptions at once.                                              *)
(*                                                                         *)
(*   polled       the canisters that are polled                            *)
(*   failing      those among them whose polling has met an error          *)
(*   subscribers  the sessions subscribed to each canister                 *)
(*   inbox        how many messages wait for each session                  *)
(***************************************************************************)
EXTENDS Naturals

CONSTANTS
    Canisters,
    Sessions,
    KeyOf           \* the client key of each session

VARIABLES polled, failing, subscribers, inbox

vars == <<polled, failing, subscribers, inbox>>

Init ==
    /\ polled = {}
    /\ failing = {}
    /\ subscribers = [c \in Canisters |-> {}]
    /\ inbox = [s \in Sessions |-> 0]

\* The subscribers of c that do not use the client key of s.
OthersThan(s, c) == {t \in subscribers[c] : KeyOf[t] # KeyOf[s]}

\* A session subscribes, in place of one with the same client key.
Join(s, c) ==
    /\ \A d \in Canisters : s \notin subscribers[d]
    /\ polled' = polled \cup {c}
    /\ subscribers' = [subscribers EXCEPT ![c] = OthersThan(s, c) \cup {s}]
    /\ UNCHANGED <<failing, inbox>>

\* The subscription for the client key of a session ends.
Leave(s, c) ==
    /\ subscribers' = [subscribers EXCEPT ![c] = OthersThan(s, c)]
    /\ UNCHANGED <<polled, failing, inbox>>

Stop(c) ==
    /\ subscribers[c] = {}
    /\ c \notin failing
    /\ polled' = polled \ {c}
    /\ UNCHANGED <<failing, subscribers, inbox>>

MeetError(c) ==
    /\ c \in polled
    /\ failing' = failing \cup {c}
    /\ UNCHANGED <<polled, subscribers, inbox>>

Fail(c) ==
    /\ c \in failing
    /\ polled' = polled \ {c}
    /\ failing' = failing \ {c}
    /\ subscribers' = [subscribers EXCEPT ![c] = {}]
    /\ UNCHANGED inbox

Deliver(s, c) ==
    /\ c \in polled \ failing
    /\ s \in subscribers[c]
    /\ inbox' = [inbox EXCEPT ![s] = @ + 1]
    /\ UNCHANGED <<polled, failing, subscribers>>

Receive(s) ==
    /\ inbox[s] > 0
    /\ inbox' = [inbox EXCEPT ![s] = @ - 1]
    /\ UNCHANGED <<polled, failing, subscribers>>

Next ==
    \/ \E c \in Canisters :
        \/ \E s \in Sessions : Join(s, c) \/ Leave(s, c) \/ Deliver(s, c)
        \/ Stop(c)
        \/ MeetError(c)
        \/ Fail(c)
    \/ \E s \in Sessions : Receive(s)

Spec == Init /\ [][Next]_vars

=============================================================================
