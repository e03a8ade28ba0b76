------------------------------ MODULE Gateway -------------------------------
(***************************************************************************)
(* The tasks of the gateway and how they interact: one client session      *)
(* handler per accepted connection (client_session_handler.rs) and one     *)
(* poller per polled canister (canister_poller.rs), over the shared        *)
(* gateway state and the channels from pollers to sessions.                *)
(*                                                                         *)
(*   handler  where the handler task of each session is                    *)
(*   poller   where the poller of each PollerState is                      *)
(*   relayed  how many messages were relayed to each session: only the     *)
(*            bound MaxMessages reads it                                   *)
(*                                                                         *)
(* The handler of a session stands at                                      *)
(*   "accept"                  before the WebSocket handshake              *)
(*   "update"                  in try_update_state, waiting in select!     *)
(*   "sending"                 in try_update_state, writing a canister     *)
(*                             message to the WebSocket                    *)
(*   "dropped", "refusing"     in try_update_state, closing the WebSocket  *)
(*                             after None, after an invalid ws_open        *)
(*   "insert", "inserting"     before and in the insertion of the client   *)
(*   "relay", "start"          before relaying ws_open, before starting    *)
(*                             the poller                                  *)
(*   "undo", "undoing"         before and in the removal after a failure   *)
(*                             to relay ws_open                            *)
(*   "close", "closing"        before and in the removal after Closed      *)
(*   "error", "erroring"       before and in the removal after an error    *)
(*   "ws_close"                before calling ws_close on the canister     *)
(*   "done", "panicked"        ended                                       *)
(* where "inserting", "undoing", "closing" and "erroring" hold the lock of  *)
(* the entry.  While the handler writes to the WebSocket or closes it, it  *)
(* takes no update, for as long as its client does not read: there is no   *)
(* timeout.                                                                *)
(*                                                                         *)
(* The poller of a PollerState is "none", "allocated" once a handler has   *)
(* inserted the PollerState, then at "poll", "relay" (between two          *)
(* messages), "send" (holding the guard of the receiver's sender), "check" *)
(* (poller_should_terminate), "failed" (before remove_failed_canister),    *)
(* "terminating" or "aborting" (entry removed, task not yet gone) and      *)
(* "terminated", "aborted" or "panicked" (ended).                          *)
(***************************************************************************)
EXTENDS GatewayState, ClientSession

CONSTANTS
    MaxMessages,        \* bound: messages relayed to one session
    RelayOpenCanFail,   \* whether relaying ws_open may return an error
    Reading             \* the sessions whose client keeps reading from its
                        \* WebSocket until the connection breaks

ASSUME GatewayAssumption ==
    /\ MaxMessages \in Nat
    /\ RelayOpenCanFail \in BOOLEAN
    /\ Reading \subseteq Sessions

VARIABLES handler, poller, relayed

vars == <<gatewayStateVars, clientSessionVars, handler, poller, relayed>>

LockingHandler == {"inserting", "undoing", "closing", "erroring"}

\* In try_update_state.
UpdatingHandler == {"update", "sending", "dropped", "refusing"}

EndedHandler == {"done", "panicked"}

HandlerState ==
    {"accept", "insert", "relay", "start", "undo", "close", "error", "ws_close"}
        \cup UpdatingHandler \cup LockingHandler \cup EndedHandler

\* The poller owns the entry of its canister in the gateway state.
ActivePoller == {"allocated", "poll", "relay", "send", "check", "failed"}

PollerTaskState ==
    {"none", "terminating", "aborting", "terminated", "aborted", "panicked"}
        \cup ActivePoller

TypeOK ==
    /\ GatewayStateTypeOK
    /\ ClientSessionTypeOK
    /\ handler \in [Sessions -> HandlerState]
    /\ poller \in [Sessions -> PollerTaskState]
    /\ relayed \in [Sessions -> 0 .. MaxMessages]

Init ==
    /\ GatewayStateInit
    /\ ClientSessionInit
    /\ handler = [s \in Sessions |-> "accept"]
    /\ poller = [s \in Sessions |-> "none"]
    /\ relayed = [s \in Sessions |-> 0]

GoTo(s, from, to) ==
    /\ handler[s] = from
    /\ handler' = [handler EXCEPT ![s] = to]

PollerGoTo(p, from, to) ==
    /\ poller[p] = from
    /\ poller' = [poller EXCEPT ![p] = to]

-----------------------------------------------------------------------------
(***************************************************************************)
(* start_session, and the updates a client causes.                         *)
(***************************************************************************)

\* accept_async and ClientSession::init: Ok, or either of them fails.
StartSession(s) ==
    /\ \E to \in {"update", "done"} : GoTo(s, "accept", to)
    /\ UNCHANGED <<gatewayStateVars, clientSessionVars, poller, relayed>>

ReceiveOpen(s) ==
    /\ GoTo(s, "update", "insert")
    /\ \E c \in Canisters : handle_setup_transition(s, c)
    /\ UNCHANGED <<gatewayStateVars, poller, relayed>>

ReceiveClose(s) ==
    /\ GoTo(s, "update", "close")
    /\ ClientCloseMessage(s)
    /\ UNCHANGED <<gatewayStateVars, poller, relayed>>

\* In Init, the WebSocket is closed before the error is returned.
ReceiveClientError(s) ==
    /\ \/ /\ GoTo(s, "update",
                  IF session_state[s] = "Init" THEN "refusing" ELSE "error")
          /\ InvalidClientMessage(s)
       \/ /\ GoTo(s, "update", "error")
          /\ ClientStreamError(s)
    /\ UNCHANGED <<gatewayStateVars, poller, relayed>>

ReceiveClientMessage(s) ==
    /\ GoTo(s, "update", "update")
    /\ ClientMessage(s)
    /\ UNCHANGED <<gatewayStateVars, poller, relayed>>

\* The steps that only the client decides to take.
ClientStep(s) ==
    \/ StartSession(s)
    \/ ReceiveOpen(s)
    \/ ReceiveClose(s)
    \/ ReceiveClientError(s)
    \/ ReceiveClientMessage(s)

-----------------------------------------------------------------------------
(***************************************************************************)
(* The updates the poller of the canister causes.                          *)
(***************************************************************************)

\* A session in Init holds the only sender of its channel; insertion moves
\* it into a PollerState.
SenderAlive(s) ==
    \/ canister_id[s] = None
    \/ \E p \in Sessions : clients[p][KeyOf[s]] = s

ReceiveCanisterMessage(s) ==
    /\ GoTo(s, "update",
            IF CanisterMessageUnreachable(s) THEN "panicked" ELSE "sending")
    /\ CanisterMessage(s)
    /\ UNCHANGED <<gatewayStateVars, poller, relayed>>

\* Mutant: None is taken for an update without effect.
ReceiveNone_Ignored(s) ==
    /\ GoTo(s, "update", "update")
    /\ ~ SenderAlive(s)
    /\ CanisterUpdateNone(s)
    /\ UNCHANGED <<gatewayStateVars, poller, relayed>>

\* None: close_ws_session is called.
ReceiveNone(s) ==
    /\ GoTo(s, "update", "dropped")
    /\ ~ SenderAlive(s)
    /\ CanisterUpdateNone(s)
    /\ UNCHANGED <<gatewayStateVars, poller, relayed>>

ReceiveFromPoller(s) == ReceiveCanisterMessage(s) \/ ReceiveNone(s)

-----------------------------------------------------------------------------
(***************************************************************************)
(* The awaited writes to the WebSocket.  They return when the client reads *)
(* or the connection breaks.                                               *)
(***************************************************************************)

MessageSent(s) ==
    /\ GoTo(s, "sending", "update")
    /\ CanisterMessageSent(s)
    /\ UNCHANGED <<gatewayStateVars, poller, relayed>>

\* The message cannot be serialised or written.
MessageNotSent(s) ==
    /\ GoTo(s, "sending", "error")
    /\ UNCHANGED <<gatewayStateVars, clientSessionVars, poller, relayed>>

\* The WebSocket is closed after None: IcWsError::Poller, and the handler
\* returns without any removal, or, when closing fails, IcWsError::WebSocket.
SessionDropped(s) ==
    /\ \E to \in {"done", "error"} : GoTo(s, "dropped", to)
    /\ UNCHANGED <<gatewayStateVars, clientSessionVars, poller, relayed>>

\* The WebSocket is closed, or cannot be, after an invalid ws_open.
SetupRefused(s) ==
    /\ GoTo(s, "refusing", "error")
    /\ UNCHANGED <<gatewayStateVars, clientSessionVars, poller, relayed>>

WriteReturns(s) ==
    \/ MessageSent(s)
    \/ MessageNotSent(s)
    \/ SessionDropped(s)
    \/ SetupRefused(s)

-----------------------------------------------------------------------------
(***************************************************************************)
(* handle_client_session: what the handler does in each new state.         *)
(***************************************************************************)

\* get_canister_id, and the lock of the entry: the handler enters the gateway
\* state.
EnterGatewayState(s, from, to) ==
    /\ GoTo(s, from, to)
    /\ canister_id[s] # None
    /\ LockEntry(s, canister_id[s])
    /\ UNCHANGED <<clientSessionVars, poller, relayed>>

\* get_canister_id of a session that ends before its Setup: the expect fails.
GetCanisterIdPanics(s) ==
    /\ \E from \in {"close", "error"} : GoTo(s, from, "panicked")
    /\ canister_id[s] = None
    /\ UNCHANGED <<gatewayStateVars, clientSessionVars, poller, relayed>>

\* insert_client_channel_and_get_new_poller_state returns Some(poller_state)
\* when it allocated one.
LockToInsert(s) == EnterGatewayState(s, "insert", "inserting")

\* Mutant: the session starts a poller also when there is one.
InsertClient_AlwaysStarts(s) ==
    /\ GoTo(s, "inserting", "relay")
    /\ insert_client_channel_and_get_new_poller_state(s, canister_id[s])
    /\ poller' = [poller EXCEPT ![s] = "allocated"]
    /\ UNCHANGED <<clientSessionVars, relayed>>

InsertClient(s) ==
    LET c == canister_id[s] IN
    /\ GoTo(s, "inserting", "relay")
    /\ insert_client_channel_and_get_new_poller_state(s, c)
    /\ poller' = IF data[c] = None
                 THEN [poller EXCEPT ![s] = "allocated"]
                 ELSE poller
    /\ UNCHANGED <<clientSessionVars, relayed>>

\* Mutant: the new poller is not started.
RelayOpen_NoPoller(s) ==
    /\ GoTo(s, "relay", "update")
    /\ CallIc(s, "ws_open")
    /\ UNCHANGED <<gatewayStateVars, poller, relayed>>

RelayOpen(s) ==
    /\ GoTo(s, "relay", IF poller[s] = "allocated" THEN "start" ELSE "update")
    /\ CallIc(s, "ws_open")
    /\ UNCHANGED <<gatewayStateVars, poller, relayed>>

RelayOpenFails(s) ==
    /\ RelayOpenCanFail
    /\ GoTo(s, "relay", "undo")
    /\ UNCHANGED <<gatewayStateVars, clientSessionVars, poller, relayed>>

start_poller(s) ==
    /\ GoTo(s, "start", "update")
    /\ get_active_pollers_count_Enabled
    /\ PollerGoTo(s, "allocated", "poll")
    /\ UNCHANGED <<gatewayStateVars, clientSessionVars, relayed>>

LockToUndo(s) == EnterGatewayState(s, "undo", "undoing")

UndoInsertion(s) ==
    LET c == canister_id[s] IN
    /\ GoTo(s, "undoing",
            IF remove_client_Unreachable(s, c) THEN "panicked" ELSE "done")
    /\ remove_client(s, c)
    /\ UNCHANGED <<clientSessionVars, poller, relayed>>

LockToClose(s) == EnterGatewayState(s, "close", "closing")

RemoveClosed(s) ==
    LET c == canister_id[s] IN
    /\ GoTo(s, "closing",
            IF remove_client_Unreachable(s, c) THEN "panicked" ELSE "ws_close")
    /\ remove_client(s, c)
    /\ UNCHANGED <<clientSessionVars, poller, relayed>>

LockAfterError(s) == EnterGatewayState(s, "error", "erroring")

\* Mutant: the client is not removed.
RemoveAfterError_Kept(s) ==
    /\ GoTo(s, "erroring", "ws_close")
    /\ UnlockEntry(s, canister_id[s])
    /\ UNCHANGED <<data, clients, guard, clientSessionVars, poller, relayed>>

\* Mutant: the canister is not told about the end of the session.
RemoveAfterError_Unnotified(s) ==
    /\ GoTo(s, "erroring", "done")
    /\ remove_client_if_exists(s, canister_id[s])
    /\ UNCHANGED <<clientSessionVars, poller, relayed>>

RemoveAfterError(s) ==
    LET c == canister_id[s] IN
    /\ GoTo(s, "erroring", IF ClientPresent(s, c) THEN "ws_close" ELSE "done")
    /\ remove_client_if_exists(s, c)
    /\ UNCHANGED <<clientSessionVars, poller, relayed>>

\* Mutant: ws_close is called until it succeeds, which it need not.
call_ws_close_Retried(s) ==
    /\ GoTo(s, "ws_close", "ws_close")
    /\ CallIc(s, "ws_close")
    /\ UNCHANGED <<gatewayStateVars, poller, relayed>>

\* A failed ws_close is only logged.
call_ws_close(s) ==
    /\ GoTo(s, "ws_close", "done")
    /\ CallIc(s, "ws_close")
    /\ UNCHANGED <<gatewayStateVars, poller, relayed>>

HandlerStep(s) ==
    \/ GetCanisterIdPanics(s)
    \/ LockToInsert(s)
    \/ InsertClient(s)
    \/ RelayOpen(s)
    \/ RelayOpenFails(s)
    \/ start_poller(s)
    \/ LockToUndo(s)
    \/ UndoInsertion(s)
    \/ LockToClose(s)
    \/ RemoveClosed(s)
    \/ LockAfterError(s)
    \/ RemoveAfterError(s)
    \/ call_ws_close(s)

-----------------------------------------------------------------------------
(***************************************************************************)
(* run_polling.  PollerState p was allocated by session p, so the poller   *)
(* polls canister_id[p].                                                   *)
(***************************************************************************)

\* poll_canister and update_nonce: messages; none, a timeout or a
\* recoverable error; an unrecoverable error.
Poll(p) ==
    /\ \E to \in {"relay", "check", "failed"} : PollerGoTo(p, "poll", to)
    /\ UNCHANGED <<gatewayStateVars, clientSessionVars, handler, relayed>>

\* The canister has a message for client key k only after a ws_open with it.
MayHaveMessageFor(c, k) ==
    \E s \in Sessions :
        /\ KeyOf[s] = k
        /\ canister_id[s] = c
        /\ "ws_open" \in ic_calls[s]

\* relay_messages finds the sender of the next message.  A message for a
\* client that is not in the PollerState is skipped.
RelayNext(p) ==
    \E k \in ClientKeys :
        /\ PollerGoTo(p, "relay", "send")
        /\ MayHaveMessageFor(canister_id[p], k)
        /\ get(p, k)
        /\ relayed[clients[p][k]] < MaxMessages
        /\ relayed' = [relayed EXCEPT ![clients[p][k]] = @ + 1]
        /\ UNCHANGED <<clientSessionVars, handler>>

\* relay_message: client_channel_tx.send(..).await, with the guard held.
\* Once the session has ended its receiver is dropped and send fails.
relay_message(p) ==
    LET s == clients[p][guard[p]] IN
    /\ PollerGoTo(p, "send", "relay")
    /\ ReleaseRef(p)
    /\ Send(s, handler[s] \in EndedHandler)
    /\ UNCHANGED <<handler, relayed>>

RelayEnds(p) ==
    /\ PollerGoTo(p, "relay", "check")
    /\ UNCHANGED <<gatewayStateVars, clientSessionVars, handler, relayed>>

\* Mutant: the poller polls on when no client is left.
poller_should_terminate_Never(p) ==
    /\ PollerGoTo(p, "check", "poll")
    /\ UNCHANGED <<gatewayStateVars, clientSessionVars, handler, relayed>>

poller_should_terminate(p) ==
    LET c == canister_id[p] IN
    /\ PollerGoTo(p, "check", IF CanisterIsEmpty(c) THEN "terminating" ELSE "poll")
    /\ remove_canister_if_empty(c)
    /\ UNCHANGED <<clientSessionVars, handler, relayed>>

PollingFails(p) ==
    LET c == canister_id[p] IN
    /\ PollerGoTo(p, "failed",
                  IF remove_failed_canister_Unreachable(c) THEN "panicked"
                                                           ELSE "aborting")
    /\ remove_failed_canister(c)
    /\ UNCHANGED <<clientSessionVars, handler, relayed>>

\* The poller task ends: it updates the gauge of active pollers and drops
\* the last reference to its PollerState.
PollerTaskEnds(p) ==
    /\ \/ PollerGoTo(p, "terminating", "terminated")
       \/ PollerGoTo(p, "aborting", "aborted")
    /\ get_active_pollers_count_Enabled
    /\ DropPollerState(p)
    /\ UNCHANGED <<clientSessionVars, handler, relayed>>

PollerStep(p) ==
    \/ Poll(p)
    \/ RelayNext(p)
    \/ relay_message(p)
    \/ RelayEnds(p)
    \/ poller_should_terminate(p)
    \/ PollingFails(p)
    \/ PollerTaskEnds(p)

-----------------------------------------------------------------------------

\* Nothing is left to do.
AllTasksEnded ==
    /\ \A s \in Sessions : handler[s] \in EndedHandler
    /\ \A p \in Sessions : poller[p] \in {"none", "terminated", "aborted"}
    /\ UNCHANGED vars

Next ==
    \/ \E s \in Sessions :
        \/ ClientStep(s)
        \/ ReceiveFromPoller(s)
        \/ WriteReturns(s)
        \/ HandlerStep(s)
        \/ PollerStep(s)
    \/ AllTasksEnded

(***************************************************************************)
(* The runtime keeps polling every task that can make a step, and select!  *)
(* picks among its ready branches at random, so neither a handler nor a    *)
(* poller is passed over for ever.  A write to a WebSocket returns only    *)
(* for the clients in Reading.  Nothing else is assumed of a client.       *)
(***************************************************************************)
Fairness ==
    /\ \A s \in Sessions :
        /\ WF_vars(HandlerStep(s))
        /\ WF_vars(ReceiveFromPoller(s))
        /\ WF_vars(PollerStep(s))
    /\ \A s \in Reading : WF_vars(WriteReturns(s))

Spec == Init /\ [][Next]_vars

FairSpec == Spec /\ Fairness

-----------------------------------------------------------------------------
(***************************************************************************)
(* Safety.                                                                 *)
(***************************************************************************)

\* Clients with different keys, as the client SDK's random nonces make them.
UniqueKeys == \A s, t \in Sessions : KeyOf[s] = KeyOf[t] => s = t

\* The entry of a canister in the gateway state is the PollerState of the one
\* poller of the canister that has not stopped: a canister never has two
\* pollers, a poller always finds its entry (remove_failed_canister never
\* reaches its unreachable!, remove_canister_if_empty never removes the entry
\* of another poller) and no entry outlives its poller.
EntryIffPoller ==
    \A p \in Sessions, c \in Canisters :
        data[c] = p <=> canister_id[p] = c /\ poller[p] \in ActivePoller

\* Every entry is served: its poller task runs, or the handler that inserted
\* the entry has yet to start it or to undo the insertion.
EntryServed ==
    \A c \in Canisters, p \in Sessions :
        data[c] = p /\ poller[p] = "allocated"
            => handler[p] \in {"relay", "start", "undo", "undoing"}

\* From its insertion until it ends or is removed, a session is registered
\* under its key with the entry of its canister, unless a poller of its
\* canister has failed.  So ws_open reaches the canister only when the answer
\* can be relayed, and no poller terminates under a live session.
Inserted(s) ==
    \/ handler[s] \in {"relay", "start", "undo", "undoing"}
    \/ /\ handler[s] \in UpdatingHandler
                         \cup {"close", "closing", "error", "erroring"}
       /\ canister_id[s] # None

PollerFailed(c) ==
    \E p \in Sessions : canister_id[p] = c /\ poller[p] \in {"aborting", "aborted"}

NoStrandedSession ==
    \A s \in Sessions :
        Inserted(s) =>
            \/ PollerFailed(canister_id[s])
            \/ /\ data[canister_id[s]] # None
               /\ clients[data[canister_id[s]]][KeyOf[s]] = s

\* A session that has left the gateway state or has ended leaves no sender
\* in a PollerState that is still polled: otherwise the canister would never
\* look empty and its poller would never terminate, or the poller would relay
\* to a session that is gone.
NoLeakedSender ==
    \A p \in Sessions, k \in ClientKeys :
        poller[p] \in ActivePoller /\ clients[p][k] # None
            => Inserted(clients[p][k])

\* A canister message never reaches a session before its Setup (the
\* unreachable! of handle_canister_update).
NoMessageBeforeSetup ==
    \A s \in Sessions : channel[s] > 0 => session_state[s] # "Init"

\* The canister is told about the end of every session it was told about,
\* except when a poller of the canister has failed.
UnnotifiedOnlyOnPollerFailure ==
    \A s \in Sessions :
        handler[s] \in EndedHandler /\ "ws_open" \in ic_calls[s]
            => "ws_close" \in ic_calls[s] \/ PollerFailed(canister_id[s])

\* A handler panics only when its session ends before its Setup, or when it
\* leaves after a poller of its canister has failed: no other assertion of
\* the handler can fail.
PanicsExplained ==
    \A s \in Sessions :
        handler[s] = "panicked" =>
            canister_id[s] = None \/ PollerFailed(canister_id[s])

\* The comment in handle_client_session on errors before the Setup: such a
\* session ends without panic.
PreSetupEndsCleanly ==
    \A s \in Sessions : handler[s] = "panicked" => canister_id[s] # None

\* remove_client's comment: as the client was connected, the poller state must
\* contain an entry for its key.
ConnectedClientIsPresent ==
    \A s \in Sessions :
        handler[s] = "closing" => ~ remove_client_Unreachable(s, canister_id[s])

-----------------------------------------------------------------------------
(***************************************************************************)
(* The inductive invariant behind the safety properties.                   *)
(***************************************************************************)

\* What a session has set depends on how far its handler is.
SetupInv ==
    \A s \in Sessions :
        /\ session_state[s] = "Init" \/ handler[s] \in {"accept", "refusing"}
               => canister_id[s] = None
        /\ handler[s] \in LockingHandler \cup
                          {"insert", "relay", "start", "undo", "ws_close"}
               => canister_id[s] # None
        /\ poller[s] # "none"
               => /\ canister_id[s] # None
                  /\ handler[s] \notin {"accept", "insert", "inserting"}
        /\ poller[s] = "none" => clients[s] = EmptyPollerState

\* The lock of an outer shard is held exactly by the handler that is in a
\* critical section of a canister of that shard: critical sections exclude
\* each other.
LockInv ==
    /\ \A s \in Sessions :
        handler[s] \in LockingHandler
            => entry_lock[CanisterShard[canister_id[s]]] = s
    /\ \A sh \in Shards :
        entry_lock[sh] # None =>
            /\ handler[entry_lock[sh]] \in LockingHandler
            /\ CanisterShard[canister_id[entry_lock[sh]]] = sh

\* A poller holds a guard exactly while it sends, and the sender it borrows
\* stays in the PollerState: no handler removes it under the guard.
GuardInv ==
    \A p \in Sessions :
        /\ guard[p] # None <=> poller[p] = "send"
        /\ guard[p] # None => clients[p][guard[p]] # None

\* A PollerState holds, under its key, the sender of a session of its
\* canister, and while it is polled that session still uses it.
SenderInv ==
    \A p \in Sessions, k \in ClientKeys :
        clients[p][k] # None =>
            /\ KeyOf[clients[p][k]] = k
            /\ canister_id[clients[p][k]] = canister_id[p]
            /\ canister_id[p] # None
            /\ poller[p] \in ActivePoller => Inserted(clients[p][k])

\* The sender of a session that has got None does not come back.
DroppedInv ==
    \A s \in Sessions : handler[s] = "dropped" => ~ SenderAlive(s)

SharedStateInv ==
    /\ SetupInv
    /\ LockInv
    /\ GuardInv
    /\ EntryIffPoller
    /\ SenderInv
    /\ DroppedInv
    /\ NoMessageBeforeSetup

\* ws_open is called once the client is inserted, and only then.
OpenCallInv ==
    \A s \in Sessions :
        "ws_open" \in ic_calls[s] =>
            /\ canister_id[s] # None
            /\ handler[s] \notin {"accept", "insert", "inserting", "relay",
                                  "undo", "undoing"}

\* An insertion is undone only when relaying ws_open fails.
UndoInv ==
    \A s \in Sessions : handler[s] \in {"undo", "undoing"} => RelayOpenCanFail

NotificationInv ==
    /\ NoStrandedSession
    /\ OpenCallInv
    /\ UnnotifiedOnlyOnPollerFailure

-----------------------------------------------------------------------------
(***************************************************************************)
(* The abstract specification, seen through the two-level map: a canister  *)
(* is polled while it has an entry, and its subscribers are the sessions   *)
(* whose sender is in the PollerState of the entry.                        *)
(***************************************************************************)

polledCanisters == {c \in Canisters : data[c] # None}

failingCanisters ==
    {c \in Canisters : data[c] # None /\ poller[data[c]] = "failed"}

subscribedSessions ==
    [c \in Canisters |->
        {s \in Sessions : data[c] # None /\ clients[data[c]][KeyOf[s]] = s}]

Service == INSTANCE CanisterService WITH
    polled <- polledCanisters,
    failing <- failingCanisters,
    subscribers <- subscribedSessions,
    inbox <- channel

\* The tasks, locks and guards of the gateway implement the service: in
\* particular a message is only sent to a session that is subscribed at that
\* moment, and polling never ends under a subscriber unless it fails.
ImplementsService == Service!Spec

-----------------------------------------------------------------------------
(***************************************************************************)
(* Liveness.                                                               *)
(***************************************************************************)

\* A critical section of the gateway state ends.
CriticalSectionsEnd ==
    \A sh \in Shards : entry_lock[sh] # None ~> entry_lock[sh] = None

\* When a poller fails, the sessions registered with it end if their clients
\* keep reading, though they send nothing and whatever other clients do: also
\* one that does not read and holds up its own handler.
PollerFailureEndsSessions ==
    \A p \in Sessions, s \in Reading :
        poller[p] = "failed" /\ clients[p][KeyOf[s]] = s
            ~> handler[s] \in EndedHandler

\* A session whose sender has been dropped, because its poller failed or a
\* session with the same key took its place, ends if its client keeps reading,
\* whether the handler waits for an update or is still writing an earlier one.
OrphanedSessionEnds ==
    \A s \in Reading :
        handler[s] \in UpdatingHandler /\ ~ SenderAlive(s)
            ~> handler[s] \in EndedHandler

\* A poller whose sessions have all gone terminates, unless another session
\* connects to its canister first.
IdlePollerTerminates ==
    \A p \in Sessions :
        poller[p] \in ActivePoller /\ clients[p] = EmptyPollerState
            ~> poller[p] \notin ActivePoller \/ clients[p] # EmptyPollerState

\* A session whose client disconnects or errs leaves the gateway.
DisconnectedSessionEnds ==
    \A s \in Sessions :
        handler[s] \in {"close", "error"} ~> handler[s] \in EndedHandler

=============================================================================
