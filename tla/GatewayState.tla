---------------------------- MODULE GatewayState ----------------------------
(***************************************************************************)
(* The state shared by all tasks of the gateway (crate gateway-state): a   *)
(* two-level concurrent map.                                               *)
(*                                                                         *)
(*   data     DashMap<CanisterPrincipal, PollerState>: which canisters are *)
(*            being polled;                                                *)
(*   clients  the contents of each PollerState, an                         *)
(*            Arc<DashMap<ClientKey, ClientSender>>: to which session the  *)
(*            messages for a client key are relayed.                       *)
(*                                                                         *)
(* A PollerState is allocated by the session that finds no entry for its   *)
(* canister, and a session inserts itself at most once, so the allocating  *)
(* session is the identity of the PollerState (and of its poller).  The    *)
(* ClientSender stored under a key is identified by the session that holds *)
(* the receiving side of its channel.                                      *)
(*                                                                         *)
(* Both maps are sharded and every shard has its own read/write lock:      *)
(*                                                                         *)
(*   entry_lock  the session handler that holds the write lock of an outer *)
(*               shard, from DashMap::entry to the end of the operation;   *)
(*   guard       the key whose Ref guard (a read lock on the inner shard   *)
(*               of that key) the poller of a PollerState holds.           *)
(*                                                                         *)
(* The operations of session handlers are two steps: LockEntry, and the    *)
(* rest of the function, which is blocked while the poller's guard covers  *)
(* the inner shard it writes.  The operations of pollers (remove,          *)
(* remove_if) never write an inner map, hence are one step.                *)
(***************************************************************************)

EXTENDS GatewayTypes

CONSTANTS
    Shards,         \* shards of the outer map
    KeyOf,          \* the ClientKey in the ws_open message of a session
    CanisterShard,  \* the outer shard a canister hashes to
    KeyShard        \* the inner shard a client key hashes to

ASSUME GatewayStateAssumption ==
    /\ KeyOf \in [Sessions -> ClientKeys]
    /\ CanisterShard \in [Canisters -> Shards]

VARIABLES data, clients, entry_lock, guard

gatewayStateVars == <<data, clients, entry_lock, guard>>

GatewayStateTypeOK ==
    /\ data \in [Canisters -> Sessions \cup {None}]
    /\ clients \in [Sessions -> [ClientKeys -> Sessions \cup {None}]]
    /\ entry_lock \in [Shards -> Sessions \cup {None}]
    /\ guard \in [Sessions -> ClientKeys \cup {None}]

EmptyPollerState == [k \in ClientKeys |-> None]

GatewayStateInit ==
    /\ data = [c \in Canisters |-> None]
    /\ clients = [p \in Sessions |-> EmptyPollerState]
    /\ entry_lock = [sh \in Shards |-> None]
    /\ guard = [p \in Sessions |-> None]

-----------------------------------------------------------------------------
(***************************************************************************)
(* Locks.                                                                  *)
(***************************************************************************)

EntryUnlocked(c) == entry_lock[CanisterShard[c]] = None

\* The write lock on the inner shard of key k of PollerState p can be taken.
Writable(p, k) == guard[p] # None => KeyShard[guard[p]] # KeyShard[k]

\* Mutant: the lock is taken although another handler holds it.
LockEntry_NotExclusive(s, c) ==
    /\ entry_lock' = [entry_lock EXCEPT ![CanisterShard[c]] = s]
    /\ UNCHANGED <<data, clients, guard>>

\* self.inner.data.entry(canister_id): the lock moves into the Entry.
LockEntry(s, c) ==
    /\ EntryUnlocked(c)
    /\ entry_lock' = [entry_lock EXCEPT ![CanisterShard[c]] = s]
    /\ UNCHANGED <<data, clients, guard>>

\* The Entry goes out of scope, also when the function unwinds.
UnlockEntry(s, c) ==
    /\ entry_lock[CanisterShard[c]] = s
    /\ entry_lock' = [entry_lock EXCEPT ![CanisterShard[c]] = None]

\* DashMap::len read-locks the shards in turn, so a locked shard blocks it.
get_active_pollers_count_Enabled == \A sh \in Shards : entry_lock[sh] = None

-----------------------------------------------------------------------------
(***************************************************************************)
(* Operations of the client session handlers, after LockEntry(s, c).       *)
(***************************************************************************)

\* The Entry::Vacant case is the one in which s allocates PollerState s.
insert_client_channel_and_get_new_poller_state(s, c) ==
    LET p == IF data[c] = None THEN s ELSE data[c] IN
    /\ UnlockEntry(s, c)
    /\ Writable(p, KeyOf[s])
    /\ clients' = [clients EXCEPT ![p] = [@ EXCEPT ![KeyOf[s]] = s]]
    /\ data' = [data EXCEPT ![c] = p]
    /\ UNCHANGED guard

\* The client key is in the PollerState of canister c.
ClientPresent(s, c) == data[c] # None /\ clients[data[c]][KeyOf[s]] # None

\* poller_state.remove(&client_key) if the canister has an entry.  What the
\* callers do with the result is in remove_client_Unreachable and in the
\* handler of remove_client_if_exists.
RemoveKey(s, c) ==
    /\ UnlockEntry(s, c)
    /\ data[c] # None => Writable(data[c], KeyOf[s])
    /\ clients' = IF data[c] = None
                  THEN clients
                  ELSE [clients EXCEPT ![data[c]] = [@ EXCEPT ![KeyOf[s]] = None]]
    /\ UNCHANGED <<data, guard>>

remove_client(s, c) == RemoveKey(s, c)

\* remove_client panics: an entry exists, without the key.
remove_client_Unreachable(s, c) == data[c] # None /\ ~ ClientPresent(s, c)

remove_client_if_exists(s, c) == RemoveKey(s, c)

-----------------------------------------------------------------------------
(***************************************************************************)
(* Operations of the pollers.                                              *)
(***************************************************************************)

\* Mutant: the entry is removed whether or not clients are left.
CanisterIsEmpty_Unchecked(c) == data[c] # None

\* CanisterRemovalResult::Empty.
CanisterIsEmpty(c) == data[c] # None /\ clients[data[c]] = EmptyPollerState

remove_canister_if_empty(c) ==
    /\ EntryUnlocked(c)
    /\ data' = IF CanisterIsEmpty(c) THEN [data EXCEPT ![c] = None] ELSE data
    /\ UNCHANGED <<clients, entry_lock, guard>>

remove_failed_canister(c) ==
    /\ EntryUnlocked(c)
    /\ data' = [data EXCEPT ![c] = None]
    /\ UNCHANGED <<clients, entry_lock, guard>>

remove_failed_canister_Unreachable(c) == data[c] = None

\* The poller looks a key up and keeps the Ref guard of the value it finds.
get(p, k) ==
    /\ clients[p][k] # None
    /\ guard' = [guard EXCEPT ![p] = k]
    /\ UNCHANGED <<data, clients, entry_lock>>

\* Mutant: the guard outlives the relaying of the message.
ReleaseRef_Leaked(p) == UNCHANGED <<guard, data, clients, entry_lock>>

ReleaseRef(p) ==
    /\ guard' = [guard EXCEPT ![p] = None]
    /\ UNCHANGED <<data, clients, entry_lock>>

\* Mutant: someone keeps a clone of the PollerState, or of its senders.
DropPollerState_Cloned(p) == UNCHANGED <<clients, data, entry_lock, guard>>

\* The last Arc of a PollerState is dropped and its senders with it.
DropPollerState(p) ==
    /\ clients' = [clients EXCEPT ![p] = EmptyPollerState]
    /\ UNCHANGED <<data, entry_lock, guard>>

=============================================================================
