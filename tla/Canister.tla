------------------------------ MODULE Canister ------------------------------
(***************************************************************************)
(* A canister that serves WebSocket clients through the gateway, as the    *)
(* gateway uses it (canister-utils and the calls of the agent): external   *)
(* code.  It keeps the clients that have opened a connection and a queue   *)
(* of messages for them, numbered with consecutive nonces.                 *)
(*                                                                         *)
(*   members     the clients connected, in the view of the canister        *)
(*   queue       the messages kept, by nonce: oldest .. next_nonce - 1     *)
(*   sent        how many messages were queued for each client             *)
(*   calls       update calls the gateway has made that the canister has   *)
(*               not executed; they are executed in any order              *)
(*   response    the answer to the query in flight, None if there is none  *)
(***************************************************************************)
EXTENDS Naturals, Sequences

CONSTANTS
    Clients,            \* clients, with a ClientKey each
    BatchSize,          \* most messages in one answer
    MaxSent,            \* bound: messages queued for one client
    CleansUp,           \* whether the canister forgets its queue, nonces
                        \* included, when its last client disconnects
    DeletesUnpolled,    \* whether it deletes messages no poller has seen
    None

ASSUME CanisterAssumption ==
    /\ BatchSize \in Nat \ {0}
    /\ MaxSent \in Nat
    /\ CleansUp \in BOOLEAN
    /\ DeletesUnpolled \in BOOLEAN

VARIABLES members, queue, oldest, next_nonce, sent, calls, response

canisterVars == <<members, queue, oldest, next_nonce, sent, calls, response>>

Message == [nonce : Nat, client : Clients, index : Nat \ {0}]

UpdateCalls == {"ws_open", "ws_close"} \X Clients

CanisterTypeOK ==
    /\ members \subseteq Clients
    /\ oldest \in Nat
    /\ next_nonce \in Nat
    /\ oldest <= next_nonce
    /\ queue \in [oldest .. (next_nonce - 1) -> Message]
    /\ sent \in [Clients -> 0 .. MaxSent]
    /\ calls \subseteq UpdateCalls
    /\ response \in Seq(Message) \cup {None}

CanisterInit ==
    /\ members = {}
    /\ oldest = 0
    /\ next_nonce = 0
    /\ queue = [n \in {} |-> None]
    /\ sent = [s \in Clients |-> 0]
    /\ calls = {}
    /\ response = None

-----------------------------------------------------------------------------

Enqueue(s) ==
    /\ sent[s] < MaxSent
    /\ sent' = [sent EXCEPT ![s] = @ + 1]
    /\ queue' = [n \in oldest .. next_nonce |->
                    IF n = next_nonce
                    THEN [nonce |-> n, client |-> s, index |-> sent[s] + 1]
                    ELSE queue[n]]
    /\ next_nonce' = next_nonce + 1
    /\ UNCHANGED oldest

\* Executing ws_open queues a first message that confirms the opening.
ws_open(s) ==
    /\ <<"ws_open", s>> \in calls
    /\ calls' = calls \ {<<"ws_open", s>>}
    /\ members' = members \cup {s}
    /\ Enqueue(s)
    /\ UNCHANGED response

\* Executing ws_close fails for a client that is not connected.
ws_close(s) ==
    /\ <<"ws_close", s>> \in calls
    /\ calls' = calls \ {<<"ws_close", s>>}
    /\ members' = members \ {s}
    /\ IF CleansUp /\ members = {s}
       THEN oldest' = 0 /\ next_nonce' = 0 /\ queue' = [n \in {} |-> None]
       ELSE UNCHANGED <<oldest, next_nonce, queue>>
    /\ UNCHANGED <<sent, response>>

\* The application sends a message to a client.
SendToClient(s) ==
    /\ s \in members
    /\ Enqueue(s)
    /\ UNCHANGED <<members, calls, response>>

DeleteOldest ==
    /\ oldest < next_nonce
    /\ oldest' = oldest + 1
    /\ queue' = [n \in (oldest + 1) .. (next_nonce - 1) |-> queue[n]]
    /\ UNCHANGED <<members, next_nonce, sent, calls, response>>

\* The query ws_get_messages(nonce): consecutive messages from nonce on, or
\* from the oldest one if nonce is deleted, at most BatchSize of them.  The
\* replica that answers may lag behind, and then returns fewer.
ws_get_messages(nonce) ==
    LET from == IF nonce < oldest THEN oldest ELSE nonce IN
    /\ response = None
    /\ \E n \in 0 .. BatchSize :
        /\ n > 0 => from + n <= next_nonce
        /\ response' = [i \in 1 .. n |-> queue[from + i - 1]]
    /\ UNCHANGED <<members, queue, oldest, next_nonce, sent, calls>>

=============================================================================
