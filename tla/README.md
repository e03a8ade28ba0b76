# A TLA+ model of the IC WebSocket Gateway

The gateway lets WebSocket clients talk to canisters on the Internet Computer.
A client's messages are signed envelopes, which the gateway relays to the
canister as update calls.  In the other direction the canister keeps a queue of
messages, which the gateway polls with queries and passes on to the WebSocket of
the right client.  One gateway serves many clients of many canisters: it is a
set of `tokio` tasks that share a two-level concurrent map.

Paths below are relative to `src/src/`, except where they start with `tla/`.

## Inventory

| part | state | operations | interacts with | what makes it correct |
|---|---|---|---|---|
| gateway state, `gateway-state/src/lib.rs` | `data`: canister -> `PollerState`; `PollerState`: client key -> sender; shard locks of both maps | insert client (and allocate a `PollerState`), remove client, remove client if it exists, remove canister if empty, remove failed canister, count pollers | called by handlers and pollers | an entry exactly while its canister has a poller; no registered client without entry; no sender left behind; critical sections end |
| client session, `ic-websocket-gateway/src/client_session.rs` | `Init`, `Setup`, `Open`, `Closed`; canister, client key; receiver of a bounded channel | updates from the client and from the channel; relaying envelopes to the canister | WebSocket, channel, IC | no canister message before `Setup`; ends when the poller is gone |
| client session handler, `.../client_session_handler.rs` | the task's position | start session, react to each new session state or error, start a poller, call `ws_close` | session, gateway state, poller, canister | registers before it relays `ws_open`; every exit cleans up; `ws_close` for every `ws_open` |
| canister poller, `.../canister_poller.rs` | next nonce, position in the iteration, `PollerState` | poll with a timeout, check nonces, relay messages, terminate when idle, give up on an error | canister, gateway state, channels | one poller per canister; messages in order, none lost, none twice; terminates when idle |
| ws listener, `.../ws_listener.rs` | next client id, connection times, acceptor channel | accept, TLS handshake with a timeout, start a handler | sockets, handlers | keeps accepting; every connection whose handshake succeeds gets its session; ids are unique |
| manager, `.../manager.rs` | agent, gateway state | create the agent, start the listener | listener | - |
| canister utils, `canister-utils/src/lib.rs` | none | `get_new_agent`, `ws_close`, `ws_get_messages`, types | IC | - |
| ic identity, `ic-identity/src/lib.rs` | a key file | load or create | file system | the same principal after every restart |
| main, `.../main.rs` | position in the start-up; directories on disk | create directories, load the key pair, start manager, tracing, metrics, listener | all of the above | serves again after a restart |
| metrics, tracing | exporters, log files | set-up | - | - |

What is hard about it:

* *Interleavings.*  A session may insert itself while the poller of its canister
  terminates or fails, and may leave while the poller is sending to it.  Between
  the removal of a failed poller's entry and the drop of its senders another
  session may re-create the entry.
* *Locks.*  The maps are sharded; handlers hold the lock of an outer shard while
  they write an inner one, and pollers hold a guard on an inner shard while they
  wait for room in a channel.
* *Notification by dropping.*  Sessions learn of the failure of a poller because
  the last sender of their channel is dropped, and in no other way.
* *Unreliable polling.*  Queries time out, fail, or are answered by replicas that
  lag behind; canisters delete messages and may forget everything when the last
  client leaves.
* *Ordering of calls.*  `ws_open` and every message of a client are sent by tasks
  of their own, `ws_close` by the handler; their errors are only logged.
* *Restarts.*  The container is started again when the process ends
  (`docker-compose.yml:8`), and only the data volume outlives it.
* *Limits.*  Both kinds of channel are bounded.
* *Writes without a timeout.*  A handler awaits its writes to the WebSocket.  A client
  that does not read holds up its handler, then fills its channel, and in the end holds up
  the poller and with it all clients of the canister.

`PROJECT.json` lists these as hazards, each with its line and its properties.

## Modules

| module | models |
|---|---|
| `GatewayTypes` | the identifiers shared by all parts |
| `GatewayState` | the two-level map with its locks and guards |
| `ClientSession` | the session states and the outcomes of `try_update_state`; the channel |
| `Gateway` | composition: handlers and pollers over `GatewayState` and `ClientSession`; properties |
| `CanisterService` | abstract: what `Gateway` promises to the sessions of a canister |
| `GatewayProofs` | theorems about `Gateway` |
| `ServiceProofs` | the proof that `Gateway` implements `CanisterService` |
| `CanisterPollerProofs` | theorems about `CanisterPoller`, and that it implements `OrderedRelay` |
| `ClientRelayProofs` | theorems about `ClientRelay` |
| `ProcessProofs` | theorems about `WsListener` and `GatewayProcess` |
| `Canister` | a canister as the gateway uses it (external) |
| `CanisterPoller` | the polling iterations of one poller against `Canister`, with sessions that come and go; properties |
| `OrderedRelay` | abstract: what `CanisterPoller` promises to the clients |
| `ClientRelay` | the way from the clients to the canister, over `ClientSession`: one task per envelope; properties |
| `WsListener` | the listener task and the acceptor tasks; properties |
| `GatewayProcess` | start-up, crash and restart of the process around `WsListener`; properties |
| `MCGateway`, `MCCanisterPoller`, `MCClientRelay`, `MCWsListener`, `MCGatewayProcess` | instances for TLC |

Operators whose names end in `_Something` after a mapped name and whose comment
starts with "Mutant" are wrong versions of the definition after them.  No
specification uses them; each shows that a property notices the mistake.

### Gateway

The state of a handler task is its position (`handler`), that of a poller task
likewise (`poller`); the comment at the top of `Gateway` lists the positions.  A
`PollerState` is identified by the session that allocated it, a sender by the
session that holds the receiver.  This loses nothing: a session inserts itself
once in its life.

Each operation of a handler on the gateway state is two steps, because it may
block in between: `LockEntry` takes the write lock of the outer shard
(`DashMap::entry`), and the second step writes the inner map once no guard covers
that inner shard (`Writable`) and releases the lock.  The operations of pollers
take the outer lock and never write an inner map, so one step is enough.
`relay_messages` is `RelayNext`, which takes the guard, and `relay_message`, which
waits for room in the channel (or for the receiver to be gone) and releases it.
A write to the WebSocket (a canister message, and the close after the poller has gone or
after an invalid `ws_open`) is awaited: the handler stands at `sending`, `dropped` or
`refusing` until `WriteReturns`, and receives nothing meanwhile.
`start_poller` and the end of the poller task read the number of pollers for a
gauge, and that blocks while any outer shard is locked.

Every exit of `handle_client_session` is there: `Closed`, a poller error, other
errors, a failure to relay `ws_open`, the panic of `get_canister_id` (before
Setup), the `unreachable!` of `remove_client`, of `remove_failed_canister` and of
`handle_canister_update`.  A panic ends the task, releases its locks and drops its
receiver.

Abstractions: a message is a unit in a counter (`channel`), envelopes are valid
or not, and metrics, spans and log messages are left out.  `relayed` exists for the
bound `MaxMessages` only.

### CanisterPoller

Here the gateway state of one canister is a set of registered clients.  Its operations
are atomic, but wait for the guard that the poller holds while it sends (`GuardCovers`);
a session that ends is `closing` until then, and takes no more messages.  As in `Gateway`,
`RelayNext` finds the receiver and takes the guard, and `relay_message` waits for room in the
channel.  The data matter: messages have a nonce, a client and a number
among the messages of their client.  `Canister` is external code.  It is what the
gateway relies on: consecutive nonces, answers with consecutive messages from the
nonce asked for (or from the oldest one kept), update calls that are executed once,
in any order.  `CleansUp` adds the canister that forgets its queue with its last
client, which the comment in `poller_should_terminate` reckons with, and
`DeletesUnpolled` a canister that deletes messages no poller has seen.  A lagging
replica answers with fewer messages than there are, possibly none.

`Consecutive` and `update_nonce` are the two results of the function
`update_nonce`: whether it accepts the messages, and the nonce it leaves.  A
timeout drops the query together with an answer under way.  The length of sleeps
and timeouts is abstracted: they may end at any time.

`HeldUp` is the poller waiting for room in the full channel of a client that does not read or
is closing.  It may stay so for ever, and then nobody receives anything any more;
`EverythingDelivered` has this as its only way out besides the end of the session.

### WsListener

`accepting` says whether the accept branch of the current `select!` is still
enabled.  An `Err` of `accept` does not match `Ok(..)`, so `select!` disables the
branch and waits for the other one; the next iteration enables it again.  An acceptor task
that has completed its handshake awaits room in the acceptor channel; `AcceptedHandled` says
that its connection is handed to a handler, and not dropped when the channel is full.

### ClientRelay

The other direction.  A session in Setup ignores what its client sends, and one
that is Open spawns a task for each envelope; the tasks' update calls reach the
canister in any order, or fail (`CallFails`), and nobody tries again.  Sending a
canister message to the client and updating the session state are two steps,
because the client may answer in between.  The write may also succeed for a client that has
just left and then confirms nothing.  How a session ends is decided by the
gateway state, which `Gateway` models; here `AfterEnd` has every outcome.

The clients and the canister are external.  A client numbers its messages from 1;
the canister accepts the next number of a registered client and removes a client
whose message is out of order, as the comment in `call_ws_close` says.  A client in
`Patient` waits for the first canister message before it sends, and `Window` bounds
what it sends without acknowledgement.  The properties say which of the two a client
needs: waiting for the confirmation keeps its first messages from being ignored,
and a window of 1 keeps it from being cut off.  `OpenedClientForgotten` is about
clients that were confirmed: a session that ends while still in Setup may have its
`ws_open` overtaken by its `ws_close`, and the canister then keeps the client until its
keep-alive timeout.

### GatewayProcess

The steps of `main` in their order.  Each may fail or be cut short by a crash
(`ProcessStops`), which resets the connections and leaves directories and key file as
they are.  A key pair is a number, and so is its principal.  `fs::write` is two steps:
the file is created, then written.  A process that stops between the two leaves a
file that `load_key_pair` rejects at every later start; `ServesAgain` names this
exception.  The new key pair is only used after it was written, which is what makes
`PrincipalStable` true.  While the process serves, its steps are those of `WsListener`.

### Abstract specifications

`CanisterService` has neither locks nor tasks: sessions subscribe to canisters (`Join`,
`Leave`), the subscribers of a polled canister receive messages (`Deliver`), polling
stops when nobody is subscribed (`Stop`) or after an error, which ends all
subscriptions at once (`MeetError`, `Fail`).  `Gateway` implements it
(`ImplementsService`) with

* `polled`: the canisters with an entry in the gateway state,
* `failing`: those whose poller stands before `remove_failed_canister`,
* `subscribers`: the sessions whose senders are in the entry's `PollerState`,
* `inbox`: `channel`.

Taking a lock or a guard is invisible; what is visible happens at once in the step
that writes the map.  In particular a message is delivered only to a session that
is still subscribed, though the poller has looked it up earlier: the guard keeps it
there.

`OrderedRelay` lets a registered client receive the message after the last one it
received, or first any message if `MaySkip` and otherwise the first.  `CanisterPoller`
implements it (`ImplementsRelay`), with nonces, queries, batches and the position of
the poller hidden.

## Runs

The passing runs:

| run | instance | checks |
|---|---|---|
| `sessions` | 3 sessions, 1 canister, own keys, capacity 1 | `EntryIffPoller`, `EntryServed`, `NoStrandedSession`, `NoLeakedSender`, `NoMessageBeforeSetup`, `UnnotifiedOnlyOnPollerFailure`, `PanicsExplained` |
| `shared_key` | 2 sessions with one key, 2 canisters in one shard, capacity 1, `ws_open` may fail, one client need not read | `TypeOK`, `SharedStateInv`, `ImplementsService`, `OrphanedSessionEnds` |
| `liveness` | 2 sessions, 1 canister, no more messages than a channel holds, one client need not read | `CriticalSectionsEnd`, `PollerFailureEndsSessions`, `IdlePollerTerminates`, `DisconnectedSessionEnds` |
| `relay_order` | 2 clients, batches of 2, 3 messages each, channels of 1, `CleansUp`, `DeletesUnpolled` | `TypeOK`, `NoGaps`, `RelayInv`, `ImplementsRelay` |
| `relay_liveness` | 2 clients in one shard, one of which need not read, batches of 2, 2 messages each, channels of 1 | `NothingLost`, `NonceNeverAhead`, `EverythingDelivered` |
| `client_relay` | a patient client with window 1, a hasty one with window 2, 2 messages each | `TypeOK`, `NothingBeforeOpen`, `PatientClientHeard`, `OpenedClientForgotten`, `PacedClientNotCutOff`, `ClientRelayInv`, `PacedMessagesArrive` |
| `gateway_process` | 3 connections, acceptor channel of 1, 2 accept errors, 2 crashes | `ProcessTypeOK`, `IdsIdentifyConnections`, `PrincipalStable`, `ProcessInv`, `KeyFileKept`, `AcceptedHandled`, `AcceptErrorOvercome`, `AcceptsUntilError`, `ServesAgain` |

The bounds.  Three sessions are the fewest with which one session sees the end
of a poller, a second one re-creates the entry, and a third one interferes with
both; with two canisters in one shard, operations on one canister wait for those
on the other.  A channel of capacity 1 is full after one message, and 2 messages
per session suffice for a poller that waits: this is the instance of the run
`close_with_full_channel` (see the third finding), while the passing runs stay at 1
message and the theorems cover any number.  In `CanisterPoller` batches of 2
of up to 4 or 6 messages give a poll that leaves messages in the queue, and a deletion, a
timeout or a termination between two polls of one client; a channel of 1 makes the poller
wait for the second message of a batch.  The listener's 3
connections exceed its channel of 1 and leave one in the backlog.  Two messages of
one client are enough to arrive in the wrong order; two crashes let one interrupt the
recovery from the other.

Deadlock is checked in `sessions` and `liveness`, where `AllTasksEnded` is the only
state without a further step.  The other systems may really stop: in `shared_key` all
sessions may end and leave an entry whose poller was never started (a failure to
relay `ws_open`), a poller without clients and a process without connections have
nothing to do, and clients need not send.

### Fairness

* `Gateway`: weak fairness of each handler's own steps, of its reception from the
  channel, of each poller, and of the return of writes to the clients in `Reading`.  `tokio` keeps polling a task that is ready, a
  blocking lock is granted once it is free (handlers only hold one for a bounded
  time, if they do not wait for a guard), and `select!` in `try_update_state` picks
  randomly among ready branches, so the client cannot keep a session from
  receiving.  There is no timeout around `ws_write.send` and `close`
  (`client_session.rs:424`, `431`), so a write to any other client may never return;
  that its handler then hangs is part of the model, and the properties about the end of
  a session are restricted accordingly.  Nothing else is assumed of a client.
* `CanisterPoller`: weak fairness of poller, handlers and the execution of
  calls, and of the reception from the channel by sessions whose clients are in `Reading`.  Polling continues after every timeout and recoverable error, hence time
  and again a replica that is up to date answers in time: strong fairness of
  answers with messages and of their reception.  An unrecoverable error may still
  happen at any time; it ends the sessions.
* `WsListener`: weak fairness of both branches of `select!` (it picks randomly) and
  of the acceptor tasks (the handshake has a timeout, and `tokio` gives room in a channel to
  those who wait for it in their order).  The backlog is a queue, so
  each connection in it gets its turn.
* `ClientRelay`: weak fairness of the steps of the sessions in `Patient`, whose clients
  read because they wait for what the canister sends, and of the execution of calls.  A call may still fail, and `PacedMessagesArrive` says what follows.
  Nothing else is assumed of a client.
* `GatewayProcess`: in addition, weak fairness of the start-up, since the container
  is started whenever it is down (`docker-compose.yml:8`) and `main` does not wait for
  anything but the IC and the file system.  The number of crashes is bounded by
  `MaxFaults`; crashing for ever refutes nothing.

### Findings

Five runs show that the code does not do what its comments say; `PROJECT.json`
quotes the lines.

1. `pre_setup_end`: a session that closes or errs before its Setup panics in
   `get_canister_id`, although a comment and an error message in the same block
   expect this case.  Only the task of that session is lost.
2. `reconnect_after_failure`: `remove_client` reaches `unreachable!` when a poller
   fails, another session re-creates the entry, and then a session of the failed
   poller closes.  The panic also skips `ws_close`.
3. `close_with_full_channel`: a session that closes while its channel is full
   deadlocks with the poller that sends to it.  The handler holds the lock of the
   outer shard and waits for the inner one, which the poller's guard covers; the
   poller waits for room in the channel, which the handler no longer reads.  The
   shard stays locked, so every other canister in it is affected.  With the code's
   capacity of 100 it takes 101 unread messages.
4. `nonce_after_cleanup`: a client registers with the running poller, which therefore does
   not terminate.  Before the canister has executed the client's `ws_open`, the `ws_close` of
   the only client that the canister knows makes it clean up.  The new client is served
   with the old nonce, the situation that the comment in `poller_should_terminate` wants to
   exclude.
5. `accept_error`: after an `accept` error with no handshake under way the listener
   never accepts again.

The liveness of `Gateway` is therefore checked with as many messages as a channel
holds (`liveness`), and that of the listener up to the first accept error
(`AcceptsUntilError`): the properties hold up to exactly these situations.
`EverythingDelivered` is checked with more messages than a channel holds, and therefore excepts
the poller that is held up for ever, by finding 3 or by a client that does not read.

## Proofs

Every safety property of the passing runs, both refinements included, is also a
theorem.  A theorem holds for all values of the constants that satisfy the `ASSUME`s
stated with them: any number of sessions, clients, canisters, connections, any capacity,
batch size and window, any number of messages and faults.

### Gateway

`GatewayProofs` proves about `Gateway`, for all sets of sessions, canisters, keys
and shards, all hash functions and capacities and the assumptions stated with the
constants:

| theorem | further assumption |
|---|---|
| `TypeCorrect` | |
| `SharedStateCorrect`, and from it `EntryIffPollerHolds`, `NoLeakedSenderHolds`, `NoMessageBeforeSetupHolds` | |
| `NotificationCorrect`, and from it `NoStrandedSessionHolds`, `UnnotifiedOnlyOnPollerFailureHolds`, `PanicsExplainedHolds` | `UniqueKeys` |
| `ServiceImplemented` (in `ServiceProofs`) | |
| `EntryServedHolds` | `~RelayOpenCanFail` |

`EntryIffPoller` is not inductive on its own.  That a handler may write the entry
of its canister and nobody else meanwhile needs the lock (`LockInv`: the lock of
an outer shard is held exactly by the handler in a critical section there).  That
the sender a poller borrowed is still in the map when it sends needs the guard
(`GuardInv`).  That a message does not reach a session before its Setup needs
that every sender in a map belongs to a session of that canister, under its key,
and that this session is still registered while the map is polled (`SenderInv`).
And all of these need to know what a session has set at which position of its
handler (`SetupInv`), and that a session at `dropped` has no sender left (`DroppedInv`).  `SharedStateInv` is the conjunction, and the run
`shared_key` checks it where TLC can.

`NoStrandedSession` and `UnnotifiedOnlyOnPollerFailure` need that no other session
removes or replaces a session's key.  That is false for clients with equal keys, so
`UniqueKeys` is assumed: a key is the client's principal and a nonce that the
client chooses.  A gateway cannot enforce it; `shared_key` shows what still holds
without it.  `PollerFailureIsPermanent` says that a canister whose
poller has failed once is remembered as such, which makes the exception in both
properties stable.  `PanicsExplained` follows from the same invariant: while no poller
of its canister has failed, a registered session's key is in the entry it finds, so
the `unreachable!` of `remove_client` needs a failure.  The three ways in which a handler removes its
client share two lemmas, `RemovalKeepsSenders` and `KeyRemoved`.

`ServiceImplemented` shows that `Gateway` implements `CanisterService`, equal keys and
failures to relay `ws_open` included.  The steps are sorted by what they do to the
mapped state.  `InvisibleStep`: whatever leaves `data`, `clients`, `poller` and `channel`
alone is a stutter, the return of a write among them.  `InsertionJoins` and `RemovalLeaves` are about the
locked writes; the first needs that a session about to insert itself has no sender
anywhere (`SenderInv`).  `PollerServes` is about pollers: by `EntryIffPoller` the poller at
work is the one of its canister's entry, so the clients of its `PollerState` are the
canister's subscribers, and by `GuardInv` a message is delivered to one of them.

`EntryServed` is false when relaying `ws_open` fails: the handler then removes its
client and returns without starting the poller it allocated, and the entry stays.
The message was checked in Setup, so the failure is only possible in its
serialization; the theorem names the assumption.

### CanisterPoller

| theorem of `CanisterPollerProofs` | further assumption |
|---|---|
| `PollerTypeCorrect` | |
| `RelayInvariant`, and from it `NoGapsHolds`, `RelayImplemented` | |
| `NothingLostHolds` | `~CleansUp`, `~DeletesUnpolled` |
| `NonceNeverAheadHolds` | `~CleansUp` |

The two assumptions are about the canister: the run `relay_order` shows that a client
may start late when messages are deleted before they were polled, and finding 4 that the
nonce may be ahead after a clean-up.

`NoGaps` is about what clients have received; whether the next message fits depends on
where it is: in the batch being relayed, in an answer under way, in the queue of the
canister, or not yet sent.  `Expects(s, lo, i)` says that the next message for client `s`
from nonce `lo` on has index `i`, and if the queue has none, that `i` is the next one to be
sent.  `Continues` says the same of a sequence of messages followed by the queue from
where that sequence ends.  `RelayInv` then reads: what is in the queue continues itself
(`QueueInv`), what was polled is continued by the queue (`PendingInv`), what was delivered
is continued by batch, answer and queue (`DeliveryInv`).  The case that makes this hard is
a canister that has deleted messages from the nonce asked for on: then nothing follows
from the queue (`Kept`), and it is the check of `update_nonce` that stops the poller; hence
`DeliveryInv` speaks only of answers that are `Consecutive`.  A clean-up empties the queue
and starts the nonces again, and the proof (`CleanUpStep`) needs that registered clients
were sent nothing so far: the canister's last client is removed only after its session has
ended, and the clients that are not yet in the canister were sent nothing (`MembersInv`).  Nonce 0 is both "from the oldest message" and the first nonce, which is why a
client that has received something implies a nonce other than 0.

The lemmas `PassOver`, `FirstHere`, `TailShifts`, `EnqueueKeepsFirst`, `DeletionKeepsFirst`,
`AnswerContinues` say how `FirstIs` and `Absent` change with a queue and a sequence; one lemma
per action uses them.  That a message goes to a client registered at that moment is not a matter
of the order of messages: while the poller waits in `send` its receiver stays registered,
because `RemoveClient` waits for the guard (`PositionInv`).  `RelayImplemented` needs of `RelayInv` only that a relayed message is
the one after the last delivered (`DeliveredNext`) and that it was sent.

### ClientRelay

`ClientRelayInvariant` and, from it, `ClientRelayTypeCorrect`, `NothingBeforeOpenHolds`,
`PatientClientHeardHolds`, `OpenedClientForgottenHolds` and `PacedClientNotCutOffHolds`, with
no assumption beyond those on the constants.

The invariant is a conjunction over sessions (`SessionInv`): a step of one session leaves
what the invariant says of any other alone (`OthersUntouched`, `UntouchedInv`), so that each
action needs one lemma about its own session.  `NothingBeforeOpen` needs that a session is
`Open` only after the canister has executed `ws_open`, by way of the channel that only `ws_open`
fills (`OpeningInv`).  `PatientClientHeard` needs that a client that waits has an empty
WebSocket during Setup except while the confirmation is being delivered, when the session
does not read it (`WaitingInv`).  `PacedClientNotCutOff` needs that the numbers accepted, under
way and on the WebSocket ascend in this order (`EnvelopesInv`, `MessagesInv`) and that a window
of 1 leaves at most one number outstanding (`PacedInv`).  `OpenedClientForgotten` needs that `ws_open`
is under way only once and never after the confirmation, and that `ws_close` is the last
call (`ClosingInv`).

### WsListener and GatewayProcess

`ProcessProofs` proves `ListenerIdsHold` about `WsListener` on its own and
`ProcessInvariant`, `ProcessTypeCorrect`, `IdsIdentifyConnectionsHolds`, `PrincipalStableHolds` and
`KeyFileKeptHolds` about the process with its restarts.

Ids are unique because they are below the next id; the listener does not panic because a
connection that reaches the acceptor channel has an id, whose time was stored with it, and is
there only once (`IdsInv`, `AcceptedInv`).  `PrincipalStable` is not inductive: what clients were
sent has to be what is on disk (`PrincipalsInv`), the running process must use what is on
disk, and no step may write the file once it holds a key pair (`KeyPairInv`), which is
`KeyFileKept`.  `GeneratedInv` bounds the key pairs by the faults: one is generated anew only after
a fault between its generation and the creation of the file.

### Only model-checked

All liveness properties (`CriticalSectionsEnd`, `PollerFailureEndsSessions`,
`IdlePollerTerminates`, `DisconnectedSessionEnds`, `OrphanedSessionEnds`, `EverythingDelivered`,
`PacedMessagesArrive`, `AcceptedHandled`, `AcceptErrorOvercome`, `AcceptsUntilError`, `ServesAgain`) and the
absence of deadlock: fairness and `ENABLED` are out of the prover's reach.

## Not modelled

* The values of metrics, the contents of logs and spans, the parsing of arguments,
  scripts, telemetry, containers: no influence on the behaviour of the gateway.  The
  gauge of active pollers is set in two steps by several tasks and may lag; no part of
  the gateway reads it.
* The content of envelopes and of Candid and CBOR encodings: only whether they are
  valid matters to control flow.
* Durations, and the number of worker threads.  Blocking on a `DashMap` lock blocks
  a worker thread; the model lets all other tasks continue.
* The integration tests' canisters: `Canister` stands for any canister.

## Plan

Done: all parts of the inventory but metrics and tracing are modelled, their safety
properties and both refinements are proved.  Left, in this order:

1. Action properties with their proofs: what a step may never do to a registered session,
   to the nonce of a poller, to an accepted message.
2. An abstract specification of the direction from clients to the canister, which
   `ClientRelay` implements for paced clients.
3. Worker threads as a resource, to show how far the deadlock of finding 3 spreads.
