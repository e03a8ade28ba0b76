--------------------------- MODULE CanisterPoller ---------------------------
(***************************************************************************)
(* How messages get from a canister to its clients: the poller of one      *)
(* canister (canister_poller.rs) with its nonce and its polling            *)
(* iterations, the canister it polls, and the sessions that come and go.   *)
(* Module Gateway shows that a canister has one poller at a time and how   *)
(* it is created and removed; here the gateway state of the canister is    *)
(* the set of clients registered with that poller, and its operations are  *)
(* atomic, but wait for the guard that the poller holds while it sends.    *)
(*                                                                         *)
(*   polling             where the poller is: "none", or "allocated",      *)
(*                       "poll", "waiting" (for the answer to its query),  *)
(*                       "relay" (between two messages), "send" (waiting   *)
(*                       for room in the channel of the receiver), "check" *)
(*                       or "failed"                                       *)
(*   poller_state        the clients in the PollerState of the canister    *)
(*   next_message_nonce  the nonce of the next query                       *)
(*   batch               the messages polled that are still to be relayed  *)
(*   session             where each session is: "new", "inserted",         *)
(*                       "starting" (inserted, and to start the poller),   *)
(*                       "connected", "closing" (to be removed; it takes   *)
(*                       no more messages), "removed" (before ws_close),   *)
(*                       "closed" (after ws_close), "dropped" (its poller  *)
(*                       failed)                                           *)
(*   delivered           the messages relayed to each session, by their    *)
(*                       index among the messages for its client           *)
(*   channel             how many of them the session has not yet received *)
(***************************************************************************)
EXTENDS Canister

CONSTANTS
    ChannelCapacity,    \* mpsc::channel(100)
    KeyShard,           \* the shard of the PollerState of each client
    Reading             \* the clients that keep reading from their WebSocket
                        \* until the connection breaks

ASSUME CanisterPollerAssumption ==
    /\ ChannelCapacity \in Nat \ {0}
    /\ Reading \subseteq Clients

VARIABLES polling, poller_state, next_message_nonce, batch, session, delivered,
          channel

pollerVars == <<polling, next_message_nonce, batch>>

vars == <<canisterVars, pollerVars, poller_state, session, delivered, channel>>

PollingState ==
    {"none", "allocated", "poll", "waiting", "relay", "send", "check", "failed"}

SessionState ==
    {"new", "inserted", "starting", "connected", "closing", "removed", "closed",
     "dropped"}

TypeOK ==
    /\ CanisterTypeOK
    /\ polling \in PollingState
    /\ poller_state \subseteq Clients
    /\ next_message_nonce \in Nat
    /\ batch \in Seq(Message)
    /\ session \in [Clients -> SessionState]
    /\ delivered \in [Clients -> Seq(Nat \ {0})]
    /\ channel \in [Clients -> 0 .. ChannelCapacity]

Init ==
    /\ CanisterInit
    /\ polling = "none"
    /\ poller_state = {}
    /\ next_message_nonce = 0
    /\ batch = <<>>
    /\ session = [s \in Clients |-> "new"]
    /\ delivered = [s \in Clients |-> <<>>]
    /\ channel = [s \in Clients |-> 0]

GoTo(s, from, to) ==
    /\ session[s] = from
    /\ session' = [session EXCEPT ![s] = to]

Call(method, s) ==
    /\ calls' = calls \cup {<<method, s>>}
    /\ UNCHANGED <<members, queue, oldest, next_nonce, sent, response>>

-----------------------------------------------------------------------------
(***************************************************************************)
(* Sessions.                                                               *)
(***************************************************************************)

\* The Ref guard of the poller locks the shard of the client it sends to.
GuardCovers(s) ==
    polling = "send" /\ KeyShard[s] = KeyShard[Head(batch).client]

\* insert_client_channel_and_get_new_poller_state.
InsertClient(s) ==
    /\ ~ GuardCovers(s)
    /\ GoTo(s, "new", IF polling = "none" THEN "starting" ELSE "inserted")
    /\ poller_state' = poller_state \cup {s}
    /\ polling' = IF polling = "none" THEN "allocated" ELSE polling
    /\ UNCHANGED <<canisterVars, next_message_nonce, batch, delivered, channel>>

\* relay_client_message(ws_open_message), and start_poller if the session
\* allocated the PollerState: CanisterPoller::new.
OpenSession(s) ==
    /\ \/ /\ GoTo(s, "inserted", "connected")
          /\ UNCHANGED pollerVars
       \/ /\ GoTo(s, "starting", "connected")
          /\ polling' = "poll"
          /\ next_message_nonce' = 0
          /\ batch' = <<>>
    /\ Call("ws_open", s)
    /\ UNCHANGED <<poller_state, delivered, channel>>

\* recv() returns a message, and its write to the WebSocket returns.
ReceiveMessage(s) ==
    /\ session[s] = "connected"
    /\ channel[s] > 0
    /\ channel' = [channel EXCEPT ![s] = @ - 1]
    /\ UNCHANGED <<canisterVars, pollerVars, poller_state, session, delivered>>

\* The client disconnects, sends something invalid, or its WebSocket fails.
EndUpdates(s) ==
    /\ GoTo(s, "connected", "closing")
    /\ UNCHANGED <<canisterVars, pollerVars, poller_state, delivered, channel>>

\* remove_client or, after an error, remove_client_if_exists.  When the poller
\* has failed and the client is not found, ws_close is called only after the
\* former, and if the canister has no entry: otherwise remove_client panics.
\* What is buffered is dropped with the session.
RemoveClient(s) ==
    /\ ~ GuardCovers(s)
    /\ \/ /\ s \in poller_state \/ polling = "none"
          /\ GoTo(s, "closing", "removed")
       \/ /\ s \notin poller_state
          /\ GoTo(s, "closing", "dropped")
    /\ poller_state' = poller_state \ {s}
    /\ channel' = [channel EXCEPT ![s] = 0]
    /\ UNCHANGED <<canisterVars, pollerVars, delivered>>

call_ws_close(s) ==
    /\ GoTo(s, "removed", "closed")
    /\ Call("ws_close", s)
    /\ UNCHANGED <<pollerVars, poller_state, delivered, channel>>

\* The poller has failed: recv() returns None once nothing is buffered, and the
\* WebSocket is closed.
DropSession(s) ==
    /\ s \notin poller_state
    /\ channel[s] = 0
    /\ GoTo(s, "connected", "dropped")
    /\ UNCHANGED <<canisterVars, pollerVars, poller_state, delivered, channel>>

-----------------------------------------------------------------------------
(***************************************************************************)
(* One polling iteration.                                                  *)
(***************************************************************************)

\* poll_canister sends its query, with the current nonce.
SendQuery ==
    /\ polling = "poll"
    /\ polling' = "waiting"
    /\ UNCHANGED <<canisterVars, next_message_nonce, batch, poller_state,
                   session, delivered, channel>>

CanisterAnswers ==
    /\ polling = "waiting"
    /\ ws_get_messages(next_message_nonce)
    /\ UNCHANGED <<pollerVars, poller_state, session, delivered, channel>>

\* The query is over, and an answer that comes later is dropped with it.
EndQuery ==
    /\ response' = None
    /\ UNCHANGED <<members, queue, oldest, next_nonce, sent, calls>>

\* Mutant: the nonce is updated although the answer came too late.
QueryWithoutResult_NonceUpdated ==
    /\ polling = "waiting"
    /\ polling' = "check"
    /\ next_message_nonce' = IF response \in {None, <<>>}
                             THEN next_message_nonce
                             ELSE response[Len(response)].nonce + 1
    /\ EndQuery
    /\ UNCHANGED <<batch, poller_state, session, delivered, channel>>

\* A timeout, or an error that is_recoverable_error accepts.
QueryWithoutResult ==
    /\ polling = "waiting"
    /\ polling' = "check"
    /\ EndQuery
    /\ UNCHANGED <<next_message_nonce, batch, poller_state, session,
                   delivered, channel>>

\* Any other error.
QueryFails ==
    /\ polling = "waiting"
    /\ polling' = "failed"
    /\ EndQuery
    /\ UNCHANGED <<next_message_nonce, batch, poller_state, session,
                   delivered, channel>>

\* Mutant: the nonces are not checked.
Consecutive_Unchecked(msgs) == TRUE

\* update_nonce accepts the messages: each has the nonce expected after the
\* one before, and the first the nonce asked for, unless that was 0.
Consecutive(msgs) ==
    \A i \in 1 .. Len(msgs) :
        IF i = 1
        THEN next_message_nonce # 0 => msgs[1].nonce = next_message_nonce
        ELSE msgs[i].nonce = msgs[i - 1].nonce + 1

\* Mutants: off by one, in both directions.
update_nonce_TooLarge(msgs) == msgs[Len(msgs)].nonce + 2

update_nonce_TooSmall(msgs) == msgs[Len(msgs)].nonce - 1

\* The nonce after update_nonce has accepted the messages.
update_nonce(msgs) == msgs[Len(msgs)].nonce + 1

NothingPolled ==
    /\ polling = "waiting"
    /\ response = <<>>
    /\ polling' = "check"
    /\ EndQuery
    /\ UNCHANGED <<next_message_nonce, batch, poller_state, session,
                   delivered, channel>>

MessagesPolled ==
    /\ polling = "waiting"
    /\ response \notin {None, <<>>}
    /\ IF Consecutive(response)
       THEN /\ polling' = "relay"
            /\ next_message_nonce' = update_nonce(response)
            /\ batch' = response
       ELSE /\ polling' = "failed"
            /\ UNCHANGED <<next_message_nonce, batch>>
    /\ EndQuery
    /\ UNCHANGED <<poller_state, session, delivered, channel>>

\* Mutant: a message is relayed also to a client that has left.
RelayNext_Unregistered ==
    /\ polling = "relay"
    /\ batch # <<>>
    /\ polling' = "send"
    /\ UNCHANGED <<canisterVars, next_message_nonce, batch, poller_state,
                   session,
                   delivered, channel>>

\* relay_messages finds the sender of the next message, or skips the message
\* when its client is not registered.
RelayNext ==
    /\ polling = "relay"
    /\ batch # <<>>
    /\ IF Head(batch).client \in poller_state
       THEN polling' = "send" /\ UNCHANGED batch
       ELSE batch' = Tail(batch) /\ UNCHANGED polling
    /\ UNCHANGED <<canisterVars, next_message_nonce, poller_state, session,
                   delivered, channel>>

\* relay_message: client_channel_tx.send(..).await, which completes when there
\* is room.
relay_message ==
    LET m == Head(batch) IN
    /\ polling = "send"
    /\ channel[m.client] < ChannelCapacity
    /\ polling' = "relay"
    /\ batch' = Tail(batch)
    /\ delivered' = [delivered EXCEPT ![m.client] = Append(@, m.index)]
    /\ channel' = [channel EXCEPT ![m.client] = @ + 1]
    /\ UNCHANGED <<canisterVars, next_message_nonce, poller_state, session>>

RelayEnds ==
    /\ polling = "relay"
    /\ batch = <<>>
    /\ polling' = "check"
    /\ UNCHANGED <<canisterVars, next_message_nonce, batch, poller_state,
                   session, delivered, channel>>

\* Mutant: the poller terminates with clients left.
poller_should_terminate_Always ==
    /\ polling = "check"
    /\ polling' = "none"
    /\ UNCHANGED <<canisterVars, next_message_nonce, batch, poller_state,
                   session, delivered, channel>>

\* remove_canister_if_empty.
poller_should_terminate ==
    /\ polling = "check"
    /\ polling' = IF poller_state = {} THEN "none" ELSE "poll"
    /\ UNCHANGED <<canisterVars, next_message_nonce, batch, poller_state,
                   session, delivered, channel>>

\* remove_failed_canister, and the PollerState is dropped.
PollerFails ==
    /\ polling = "failed"
    /\ polling' = "none"
    /\ poller_state' = {}
    /\ UNCHANGED <<canisterVars, next_message_nonce, batch, session,
                   delivered, channel>>

PollerStep ==
    \/ SendQuery
    \/ QueryWithoutResult
    \/ QueryFails
    \/ NothingPolled
    \/ MessagesPolled
    \/ RelayNext
    \/ relay_message
    \/ RelayEnds
    \/ poller_should_terminate
    \/ PollerFails

-----------------------------------------------------------------------------
(***************************************************************************)
(* Steps of the canister.                                                  *)
(***************************************************************************)

ExecuteCall(s) ==
    /\ ws_open(s) \/ ws_close(s)
    /\ UNCHANGED <<pollerVars, poller_state, session, delivered, channel>>

CanisterSends(s) ==
    /\ SendToClient(s)
    /\ UNCHANGED <<pollerVars, poller_state, session, delivered, channel>>

\* Messages that the poller has received may be deleted.
CanisterDeletes ==
    /\ DeletesUnpolled
          \/ (polling \notin {"none", "allocated"} /\ oldest < next_message_nonce)
    /\ DeleteOldest
    /\ UNCHANGED <<pollerVars, poller_state, session, delivered, channel>>

-----------------------------------------------------------------------------

SessionStep(s) ==
    \/ InsertClient(s)
    \/ OpenSession(s)
    \/ ReceiveMessage(s)
    \/ EndUpdates(s)
    \/ RemoveClient(s)
    \/ call_ws_close(s)
    \/ DropSession(s)

Next ==
    \/ \E s \in Clients : SessionStep(s) \/ ExecuteCall(s) \/ CanisterSends(s)
    \/ PollerStep
    \/ CanisterAnswers
    \/ CanisterDeletes

\* A replica that is not too far behind answers.
AnswerWithMessages == CanisterAnswers /\ response' # <<>>

(***************************************************************************)
(* Handlers and poller go on, and a call reaches the canister.  Queries    *)
(* may time out, fail or be answered by a replica that lags behind, but    *)
(* not for ever: time and again a replica answers, with the messages it    *)
(* has, before the timeout.  A session takes a message from its channel,   *)
(* or closes its WebSocket, only if its previous write has returned: this  *)
(* is so for the clients in Reading.  Clients and application need not do  *)
(* anything else.                                                          *)
(***************************************************************************)
Fairness ==
    /\ WF_vars(PollerStep)
    /\ SF_vars(AnswerWithMessages)
    /\ SF_vars(MessagesPolled)
    /\ \A s \in Clients :
        /\ WF_vars(OpenSession(s) \/ RemoveClient(s) \/ call_ws_close(s))
        /\ WF_vars(ExecuteCall(s))
    /\ \A s \in Reading : WF_vars(ReceiveMessage(s) \/ DropSession(s))

Spec == Init /\ [][Next]_vars

FairSpec == Spec /\ Fairness

-----------------------------------------------------------------------------
(***************************************************************************)
(* Properties.                                                             *)
(***************************************************************************)

\* What a client receives has no gap, no duplicate and no reordering from its
\* first message on, whatever times out, lags, fails or is deleted.
NoGaps ==
    \A s \in Clients :
        \A i \in 1 .. Len(delivered[s]) - 1 :
            delivered[s][i + 1] = delivered[s][i] + 1

\* Whether a client may miss messages before the first one it receives.
MaySkip == CleansUp \/ DeletesUnpolled

Relay == INSTANCE OrderedRelay WITH
    received <- delivered,
    registered <- poller_state

\* Polling in batches by nonce implements ordered relaying: every delivery is
\* of a message that was sent, the one after the last delivered, and to a
\* client that is registered at that moment.
ImplementsRelay == Relay!Spec

\* Moreover no message is lost: a client receives the messages sent to it from
\* the first one on.
NothingLost ==
    \A s \in Clients :
        \A i \in 1 .. Len(delivered[s]) : delivered[s][i] = i

\* The poller never asks for messages beyond those the canister will number
\* next: otherwise messages are not polled until they reach its nonce.
NonceNeverAhead ==
    polling \in {"poll", "waiting"} /\ poller_state # {}
        => next_message_nonce <= next_nonce

-----------------------------------------------------------------------------
(***************************************************************************)
(* The inductive invariant behind these properties.                        *)
(***************************************************************************)

\* msgs, a sequence or the queue, has no message for s from position k on.
Absent(msgs, s, k) == \A n \in DOMAIN msgs : n >= k => msgs[n].client # s

\* The first message for s from position k on, if there is one, has index i.
FirstIs(msgs, s, k, i) ==
    \A n \in DOMAIN msgs :
        /\ n >= k
        /\ msgs[n].client = s
        /\ \A m \in DOMAIN msgs : m >= k /\ m < n => msgs[m].client # s
        => msgs[n].index = i

\* The next message for s is the one with index i: the first in the queue from
\* nonce lo on or, if there is none, the next one to be sent.
Expects(s, lo, i) ==
    /\ FirstIs(queue, s, lo, i)
    /\ Absent(queue, s, lo) => sent[s] + 1 = i

\* No message from nonce lo on is deleted (0 stands for the oldest message).
Kept(lo) == oldest <= lo \/ lo = 0

\* The same for msgs from position k on, followed by the queue from nonce lo on.
Continues(s, msgs, k, lo, i) ==
    /\ FirstIs(msgs, s, k, i)
    /\ Absent(msgs, s, k) /\ Kept(lo) => Expects(s, lo, i)

\* The queue holds, for each client, the last messages sent to it, in order.
QueueInv ==
    \A n \in DOMAIN queue :
        /\ queue[n].nonce = n
        /\ queue[n].index <= sent[queue[n].client]
        /\ Expects(queue[n].client, n + 1, queue[n].index + 1)

\* What was polled up to nonce lo is continued by the queue, for the clients
\* that are still registered.
PolledInv(msgs, lo) ==
    \A k \in 1 .. Len(msgs) :
        /\ msgs[k].index <= sent[msgs[k].client]
        /\ msgs[k].client \in poller_state =>
            /\ lo <= next_nonce
            /\ Continues(msgs[k].client, msgs, k + 1, lo, msgs[k].index + 1)

Answered == response \notin {None, <<>>}

PendingInv ==
    /\ PolledInv(batch, next_message_nonce)
    /\ Answered => PolledInv(response, update_nonce(response))

LastDelivered(s) ==
    IF delivered[s] = <<>> THEN 0 ELSE delivered[s][Len(delivered[s])]

\* The clients whose next message is determined.
Tracked == {s \in poller_state : delivered[s] # <<>> \/ ~ MaySkip}

\* A client that is registered gets next what follows its last message.
DeliveryInv ==
    /\ \A s \in Clients : \A i \in 1 .. Len(delivered[s]) :
        delivered[s][i] <= sent[s]
    /\ \A s \in poller_state : delivered[s] # <<>> => next_message_nonce # 0
    /\ \A s \in Tracked :
        /\ next_message_nonce <= next_nonce
        /\ Continues(s, batch, 1, next_message_nonce, LastDelivered(s) + 1)
        /\ Answered /\ Consecutive(response) =>
            /\ update_nonce(response) <= next_nonce
            /\ Continues(s, response, 1, update_nonce(response),
                         LastDelivered(s) + 1)

\* Unless the canister forgets its nonces, those of the poller are not ahead.
NonceInv ==
    ~ CleansUp =>
        /\ next_message_nonce <= next_nonce
        /\ Answered => update_nonce(response) <= next_nonce

\* What the positions of poller and sessions say about the rest of the state.
PositionInv ==
    /\ response # None => polling = "waiting"
    /\ batch # <<>> => polling \in {"relay", "send"} /\ next_message_nonce # 0
    /\ polling = "send" => batch # <<>> /\ Head(batch).client \in poller_state
    /\ polling = "none" => poller_state = {}
    /\ polling = "allocated" =>
        \A s \in poller_state :
            /\ delivered[s] = <<>>
            /\ ~ MaySkip => Expects(s, 0, 1)
    /\ \A s \in poller_state :
        session[s] \in {"inserted", "starting", "connected", "closing"}
    /\ \A s \in Clients : session[s] = "starting" => polling = "allocated"
    /\ \A s, t \in Clients :
        session[s] = "starting" /\ session[t] = "starting" => s = t

\* Only a client whose session has ended is removed from the canister, and
\* nothing is sent to a client before its ws_open.
MembersInv ==
    \A s \in Clients :
        /\ <<"ws_close", s>> \in calls => session[s] = "closed"
        /\ session[s] # "closed" /\ s \notin members => sent[s] = 0
        /\ session[s] \in {"new", "inserted", "starting"} =>
            s \notin members /\ <<"ws_open", s>> \notin calls

\* The queue of the canister, the answers under way, the nonce of the poller,
\* its batch and the channels of the clients are pieces of one sequence of
\* messages per client, whatever times out, lags, is deleted or is cleaned up.
RelayInv ==
    /\ QueueInv
    /\ PendingInv
    /\ DeliveryInv
    /\ NonceInv
    /\ PositionInv
    /\ MembersInv

-----------------------------------------------------------------------------

\* The poller waits for room in the channel of a client that does not read, or
\* of one whose session waits for the poller to release its guard.
HeldUp ==
    LET s == Head(batch).client IN
    /\ polling = "send"
    /\ channel[s] = ChannelCapacity
    /\ s \notin Reading \/ session[s] = "closing"

\* Every message sent to a client that reads is received by its session, unless
\* the session ends, or another one holds up the poller for ever: the poller
\* awaits the send to each client in turn, so one that does not read can stop
\* the messages of all.
EverythingDelivered ==
    \A s \in Reading : \A i \in 1 .. MaxSent :
        \/ sent[s] >= i
               ~> \/ Len(delivered[s]) - channel[s] >= i
                  \/ session[s] \in {"closing", "removed", "closed", "dropped"}
        \/ <>[]HeldUp

=============================================================================
