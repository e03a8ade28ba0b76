--------------------------- MODULE GatewayProofs ----------------------------
(***************************************************************************)
(* Proofs of the safety properties of module Gateway, for any number of    *)
(* canisters, sessions, keys and shards, any hash functions and any        *)
(* channel capacity.                                                       *)
(***************************************************************************)
EXTENDS Gateway, TLAPS

\* Every state of the gateway is well typed: in particular no channel exceeds
\* its capacity.
THEOREM TypeCorrect == Spec => []TypeOK
<1> USE GatewayTypesAssumption, GatewayStateAssumption,
        ClientSessionAssumption, GatewayAssumption
<1>1. Init => TypeOK
  BY DEF Init, TypeOK, GatewayStateInit, GatewayStateTypeOK,
         ClientSessionInit, ClientSessionTypeOK, EmptyPollerState,
         IcWsSessionState, IcCalls, HandlerState, UpdatingHandler,
         PollerTaskState
<1>2. TypeOK /\ [Next]_vars => TypeOK'
  <2> SUFFICES ASSUME TypeOK, [Next]_vars
               PROVE  TypeOK'
    OBVIOUS
  <2> USE DEF TypeOK, GatewayStateTypeOK, ClientSessionTypeOK,
              gatewayStateVars, clientSessionVars, GoTo, PollerGoTo
  <2>1. ASSUME NEW s \in Sessions, ClientStep(s)
        PROVE  TypeOK'
    <3>1. CASE StartSession(s)
      BY <3>1 DEF StartSession, HandlerState, UpdatingHandler,
                  EndedHandler
    <3>2. CASE ReceiveOpen(s)
      BY <3>2 DEF ReceiveOpen, handle_setup_transition, HandlerState,
                  IcWsSessionState
    <3>3. CASE ReceiveClose(s)
      BY <3>3 DEF ReceiveClose, ClientCloseMessage, HandlerState,
                  IcWsSessionState
    <3>4. CASE ReceiveClientError(s)
      BY <3>4 DEF ReceiveClientError, InvalidClientMessage,
                  ClientStreamError, HandlerState, UpdatingHandler,
                  IcWsSessionState
    <3>5. CASE ReceiveClientMessage(s)
      BY <3>5 DEF ReceiveClientMessage, ClientMessage, HandlerState,
                  UpdatingHandler
    <3> QED
      BY <2>1, <3>1, <3>2, <3>3, <3>4, <3>5 DEF ClientStep
  <2>2. ASSUME NEW s \in Sessions, ReceiveFromPoller(s)
        PROVE  TypeOK'
    <3>1. CASE ReceiveCanisterMessage(s)
      BY <3>1 DEF ReceiveCanisterMessage, CanisterMessage,
                  CanisterMessageUnreachable, HandlerState, UpdatingHandler,
                  EndedHandler
    <3>2. CASE ReceiveNone(s)
      BY <3>2 DEF ReceiveNone, CanisterUpdateNone, HandlerState,
                  UpdatingHandler
    <3> QED
      BY <2>2, <3>1, <3>2 DEF ReceiveFromPoller
  <2>6. ASSUME NEW s \in Sessions, WriteReturns(s)
        PROVE  TypeOK'
    <3>1. CASE MessageSent(s)
      BY <3>1 DEF MessageSent, CanisterMessageSent, HandlerState, UpdatingHandler, IcWsSessionState
    <3>2. CASE MessageNotSent(s)
      BY <3>2 DEF MessageNotSent, HandlerState, UpdatingHandler
    <3>3. CASE SessionDropped(s)
      BY <3>3 DEF SessionDropped, HandlerState, UpdatingHandler, EndedHandler
    <3>4. CASE SetupRefused(s)
      BY <3>4 DEF SetupRefused, HandlerState, UpdatingHandler
    <3> QED
      BY <2>6, <3>1, <3>2, <3>3, <3>4 DEF WriteReturns
  <2>3. ASSUME NEW s \in Sessions, HandlerStep(s)
        PROVE  TypeOK'
    <3> USE DEF HandlerState, UpdatingHandler, LockingHandler, EndedHandler
    <3>1. CASE \/ LockToInsert(s)
               \/ LockToUndo(s)
               \/ LockToClose(s)
               \/ LockAfterError(s)
      <4>1. /\ handler' \in [Sessions -> HandlerState]
            /\ LockEntry(s, canister_id[s])
            /\ UNCHANGED <<clientSessionVars, poller, relayed>>
        BY <3>1 DEF LockToInsert, LockToUndo, LockToClose, LockAfterError,
                    EnterGatewayState
      <4> QED
        BY <4>1 DEF LockEntry
    <3>2. CASE GetCanisterIdPanics(s)
      BY <3>2 DEF GetCanisterIdPanics
    <3>3. CASE InsertClient(s)
      BY <3>3 DEF InsertClient, insert_client_channel_and_get_new_poller_state,
                  UnlockEntry, PollerTaskState, ActivePoller
    <3>4. CASE RelayOpen(s)
      BY <3>4 DEF RelayOpen, CallIc, IcCalls
    <3>5. CASE RelayOpenFails(s)
      BY <3>5 DEF RelayOpenFails
    <3>6. CASE start_poller(s)
      BY <3>6 DEF start_poller, PollerTaskState, ActivePoller
    <3>7. CASE UndoInsertion(s) \/ RemoveClosed(s) \/ RemoveAfterError(s)
      <4>1. /\ handler' \in [Sessions -> HandlerState]
            /\ RemoveKey(s, canister_id[s])
            /\ UNCHANGED <<clientSessionVars, poller, relayed>>
        BY <3>7 DEF UndoInsertion, RemoveClosed, RemoveAfterError,
                    remove_client, remove_client_if_exists
      <4>2. clients' \in [Sessions -> [ClientKeys -> Sessions \cup {None}]]
        BY <4>1 DEF RemoveKey
      <4> QED
        BY <4>1, <4>2 DEF RemoveKey, UnlockEntry
    <3>8. CASE call_ws_close(s)
      BY <3>8 DEF call_ws_close, CallIc, IcCalls
    <3> QED
      BY <2>3, <3>1, <3>2, <3>3, <3>4, <3>5, <3>6, <3>7, <3>8 DEF HandlerStep
  <2>4. ASSUME NEW p \in Sessions, PollerStep(p)
        PROVE  TypeOK'
    <3> USE DEF PollerTaskState, ActivePoller
    <3>1. CASE Poll(p)
      BY <3>1 DEF Poll
    <3>2. CASE RelayNext(p)
      <4>1. PICK k \in ClientKeys :
                 /\ PollerGoTo(p, "relay", "send")
                 /\ get(p, k)
                 /\ relayed[clients[p][k]] < MaxMessages
                 /\ relayed' = [relayed EXCEPT ![clients[p][k]] = @ + 1]
                 /\ UNCHANGED <<clientSessionVars, handler>>
        BY <3>2 DEF RelayNext
      <4>2. clients[p][k] \in Sessions
        BY <4>1 DEF get
      <4> QED
        BY <4>1, <4>2 DEF get
    <3>3. CASE relay_message(p)
      <4> DEFINE s == clients[p][guard[p]]
      <4>1. /\ poller' = [poller EXCEPT ![p] = "relay"]
            /\ ReleaseRef(p)
            /\ Send(s, handler[s] \in EndedHandler)
            /\ UNCHANGED <<handler, relayed>>
        BY <3>3 DEF relay_message
      <4>2. channel' \in [Sessions -> 0 .. ChannelCapacity]
        <5> HIDE DEF s
        <5>1. CASE s \in Sessions
          BY <4>1, <5>1 DEF Send
        <5>2. CASE s \notin Sessions
          BY <4>1, <5>2 DEF Send
        <5> QED
          BY <5>1, <5>2
      <4> QED
        BY <4>1, <4>2 DEF ReleaseRef, Send
    <3>4. CASE RelayEnds(p)
      BY <3>4 DEF RelayEnds
    <3>5. CASE poller_should_terminate(p)
      BY <3>5 DEF poller_should_terminate, remove_canister_if_empty
    <3>6. CASE PollingFails(p)
      BY <3>6 DEF PollingFails, remove_failed_canister
    <3>7. CASE PollerTaskEnds(p)
      BY <3>7 DEF PollerTaskEnds, DropPollerState, EmptyPollerState
    <3> QED
      BY <2>4, <3>1, <3>2, <3>3, <3>4, <3>5, <3>6, <3>7 DEF PollerStep
  <2>5. CASE UNCHANGED vars
    BY <2>5 DEF vars
  <2> QED
    BY <2>1, <2>2, <2>3, <2>4, <2>5, <2>6 DEF Next, AllTasksEnded
<1> QED
  BY <1>1, <1>2, PTL DEF Spec

\* A session that takes its key out of the entry of its canister leaves no
\* sender of its own in a PollerState that is polled, and all others alone.
LEMMA RemovalKeepsSenders ==
    ASSUME TypeOK, EntryIffPoller, SenderInv,
           NEW s \in Sessions, NEW to, canister_id[s] \in Canisters,
           handler' = [handler EXCEPT ![s] = to],
           RemoveKey(s, canister_id[s]),
           UNCHANGED <<canister_id, poller>>
    PROVE  SenderInv'
<1> USE GatewayTypesAssumption, GatewayStateAssumption
<1> DEFINE d == data[canister_id[s]]
<1>1. d \in Sessions \cup {None} /\ KeyOf[s] \in ClientKeys
  BY DEF TypeOK, GatewayStateTypeOK
<1>2. clients' = IF d = None
                 THEN clients
                 ELSE [clients EXCEPT ![d] = [@ EXCEPT ![KeyOf[s]] = None]]
  BY DEF RemoveKey
<1>3. clients \in [Sessions -> [ClientKeys -> Sessions \cup {None}]]
  BY DEF TypeOK, GatewayStateTypeOK
<1> HIDE DEF d
<1>4. ASSUME NEW p \in Sessions, NEW k \in ClientKeys, NEW t \in Sessions,
             clients'[p][k] = t
      PROVE  /\ KeyOf[t] = k
             /\ canister_id[t] = canister_id[p]
             /\ canister_id[p] # None
             /\ poller[p] \in ActivePoller => Inserted(t)'
  <2>1. clients[p][k] = t /\ ~ (p = d /\ k = KeyOf[s])
    BY <1>1, <1>2, <1>3, <1>4
  <2>2. /\ KeyOf[t] = k
        /\ canister_id[t] = canister_id[p]
        /\ canister_id[p] # None
        /\ poller[p] \in ActivePoller => Inserted(t)
    BY <2>1 DEF SenderInv
  <2>3. ASSUME poller[p] \in ActivePoller
        PROVE  Inserted(t)'
    <3>1. t # s
      BY <2>1, <2>2, <2>3 DEF EntryIffPoller, d
    <3>2. handler'[t] = handler[t]
      BY <3>1 DEF TypeOK
    <3> QED
      BY <2>2, <2>3, <3>2 DEF Inserted
  <2> QED
    BY <2>2, <2>3
<1>5. clients' \in [Sessions -> [ClientKeys -> Sessions \cup {None}]]
  BY <1>1, <1>2, <1>3
<1> QED
  BY <1>4, <1>5 DEF SenderInv, Inserted

\* The inductive invariant of the shared state: critical sections exclude each
\* other, guards are held while sending only, the entry of a canister is that
\* of its one active poller, and an active PollerState holds senders of live,
\* inserted sessions only.
THEOREM SharedStateCorrect == Spec => []SharedStateInv
<1> USE GatewayTypesAssumption, GatewayStateAssumption,
        ClientSessionAssumption, GatewayAssumption
<1> USE DEF UpdatingHandler, LockingHandler, EndedHandler, ActivePoller,
            EmptyPollerState
<1>1. Init => SharedStateInv
  BY DEF Init, GatewayStateInit, ClientSessionInit, SharedStateInv, SetupInv,
         LockInv, GuardInv, EntryIffPoller, SenderInv, DroppedInv,
         NoMessageBeforeSetup
<1>2. TypeOK /\ TypeOK' /\ SharedStateInv /\ [Next]_vars => SharedStateInv'
  <2> SUFFICES ASSUME TypeOK, TypeOK', SharedStateInv, [Next]_vars
               PROVE  SharedStateInv'
    OBVIOUS
  <2> USE DEF TypeOK, GatewayStateTypeOK, ClientSessionTypeOK,
              gatewayStateVars, clientSessionVars, GoTo, PollerGoTo
  <2> USE DEF SharedStateInv, SetupInv, LockInv, GuardInv, EntryIffPoller,
              SenderInv, DroppedInv, SenderAlive, NoMessageBeforeSetup,
              Inserted
  <2>1. ASSUME NEW s \in Sessions, ClientStep(s)
        PROVE  SharedStateInv'
    <3>1. CASE StartSession(s)
      BY <3>1 DEF StartSession
    <3>2. CASE ReceiveOpen(s)
      BY <3>2 DEF ReceiveOpen, handle_setup_transition
    <3>3. CASE ReceiveClose(s)
      BY <3>3 DEF ReceiveClose, ClientCloseMessage
    <3>4. CASE ReceiveClientError(s)
      <4>1. /\ handler[s] = "update"
            /\ UNCHANGED <<gatewayStateVars, poller, canister_id, channel>>
            /\ \/ /\ session_state[s] = "Init"
                  /\ handler' = [handler EXCEPT ![s] = "refusing"]
                  /\ UNCHANGED session_state
               \/ /\ handler' = [handler EXCEPT ![s] = "error"]
                  /\ UNCHANGED session_state
               \/ /\ handler' = [handler EXCEPT ![s] = "error"]
                  /\ session_state' = [session_state EXCEPT ![s] = "Closed"]
        BY <3>4 DEF ReceiveClientError, InvalidClientMessage,
                    ClientStreamError
      <4>2. SetupInv'
        BY <4>1
      <4>3. PICK to \in {"refusing", "error"} :
                 handler' = [handler EXCEPT ![s] = to]
        BY <4>1
      <4>4. (LockInv /\ GuardInv /\ EntryIffPoller)'
        <5>1. LockInv'
          BY <4>1, <4>3
        <5>2. (GuardInv /\ EntryIffPoller)'
          BY <4>1
        <5> QED
          BY <5>1, <5>2
      <4>5. (SenderInv /\ DroppedInv)'
        <5>1. \A t \in Sessions : Inserted(t) => Inserted(t)'
          BY <4>1, <4>3
        <5>2. SenderInv'
          <6> HIDE DEF Inserted
          <6> QED
            BY <4>1, <5>1
        <5>3. DroppedInv'
          BY <4>1, <4>3
        <5> QED
          BY <5>2, <5>3
      <4>6. NoMessageBeforeSetup'
        BY <4>1
      <4> QED
        BY <4>2, <4>4, <4>5, <4>6
    <3>5. CASE ReceiveClientMessage(s)
      BY <3>5 DEF ReceiveClientMessage, ClientMessage
    <3> QED
      BY <2>1, <3>1, <3>2, <3>3, <3>4, <3>5
      DEF ClientStep
  <2>2. ASSUME NEW s \in Sessions, ReceiveFromPoller(s)
        PROVE  SharedStateInv'
    <3>1. CASE ReceiveCanisterMessage(s)
      BY <3>1 DEF ReceiveCanisterMessage, CanisterMessage,
                  CanisterMessageUnreachable
    <3>2. CASE ReceiveNone(s)
      BY <3>2 DEF ReceiveNone, CanisterUpdateNone, SenderAlive
    <3> QED
      BY <2>2, <3>1, <3>2 DEF ReceiveFromPoller
  <2>6. ASSUME NEW s \in Sessions, WriteReturns(s)
        PROVE  SharedStateInv'
    <3>1. CASE MessageSent(s)
      BY <3>1 DEF MessageSent, CanisterMessageSent
    <3>2. CASE MessageNotSent(s)
      BY <3>2 DEF MessageNotSent
    <3>3. CASE SessionDropped(s)
      BY <3>3 DEF SessionDropped
    <3>4. CASE SetupRefused(s)
      BY <3>4 DEF SetupRefused
    <3> QED
      BY <2>6, <3>1, <3>2, <3>3, <3>4 DEF WriteReturns
  <2>3. ASSUME NEW s \in Sessions, HandlerStep(s)
        PROVE  SharedStateInv'
    <3>1. CASE GetCanisterIdPanics(s)
      BY <3>1 DEF GetCanisterIdPanics
    <3>2. CASE LockToInsert(s)
      BY <3>2 DEF LockToInsert, EnterGatewayState, LockEntry, EntryUnlocked
    <3>3. CASE InsertClient(s)
      <4> USE DEF InsertClient,
                  insert_client_channel_and_get_new_poller_state
      <4> DEFINE c == canister_id[s]
                 q == IF data[c] = None THEN s ELSE data[c]
      <4>1. /\ handler[s] = "inserting"
            /\ handler' = [handler EXCEPT ![s] = "relay"]
            /\ c \in Canisters
            /\ q \in Sessions
            /\ poller[s] = "none"
            /\ UNCHANGED <<canister_id, session_state, channel, guard>>
        BY <3>3
      <4>2. /\ canister_id[q] = c
            /\ \A t \in Sessions \ {s} : poller'[t] = poller[t]
            /\ q # s => poller'[s] = poller[s]
            /\ q = s => poller'[s] = "allocated"
            /\ poller'[q] \in ActivePoller
        <5>1. CASE data[c] = None
          BY <3>3, <4>1, <5>1
        <5>2. CASE data[c] # None
          <6>1. data[c] \in Sessions /\ poller[data[c]] \in ActivePoller
            BY <4>1, <5>2
          <6> QED
            BY <3>3, <4>1, <5>2, <6>1
        <5> QED
          BY <5>1, <5>2
      <4>3. /\ data' = [data EXCEPT ![c] = q]
            /\ clients' = [clients EXCEPT ![q] = [@ EXCEPT ![KeyOf[s]] = s]]
            /\ Writable(q, KeyOf[s])
        BY <3>3
      <4> HIDE DEF q
      <4>4. SetupInv'
        BY <4>1, <4>2, <4>3
      <4>5. LockInv'
        BY <3>3, <4>1 DEF UnlockEntry
      <4>6. GuardInv'
        BY <4>1, <4>2, <4>3
      <4>7. EntryIffPoller'
        BY <3>3, <4>1
      <4>8. SenderInv'
        BY <4>1, <4>2, <4>3
      <4>9. NoMessageBeforeSetup'
        BY <4>1
      <4>10. DroppedInv'
        BY <4>1, <4>2, <4>3
      <4> QED
        BY <4>4, <4>5, <4>6, <4>7, <4>8, <4>9, <4>10
    <3>4. CASE RelayOpen(s)
      BY <3>4 DEF RelayOpen, CallIc
    <3>5. CASE RelayOpenFails(s)
      BY <3>5 DEF RelayOpenFails
    <3>6. CASE start_poller(s)
      BY <3>6 DEF start_poller
    <3>7. CASE LockToUndo(s)
      BY <3>7 DEF LockToUndo, EnterGatewayState, LockEntry, EntryUnlocked
    <3>8. CASE UndoInsertion(s)
      <4>1. SetupInv'
        <5>1. \A q \in Sessions : poller[q] = "none" => clients'[q] = clients[q]
          BY <3>8 DEF UndoInsertion, remove_client, RemoveKey
        <5>2. /\ handler[s] \in LockingHandler
              /\ \E to \in {"done", "panicked", "ws_close"} :
                    handler' = [handler EXCEPT ![s] = to]
              /\ UNCHANGED <<session_state, canister_id, poller>>
          BY <3>8 DEF UndoInsertion, remove_client, RemoveKey
        <5> QED
          BY <5>1, <5>2
      <4>2. LockInv'
        BY <3>8 DEF UndoInsertion, remove_client, RemoveKey, UnlockEntry
      <4>3. GuardInv'
        BY <3>8 DEF UndoInsertion, remove_client, RemoveKey, Writable
      <4>4. (EntryIffPoller /\ NoMessageBeforeSetup)'
        BY <3>8 DEF UndoInsertion, remove_client, RemoveKey
      <4>5. SenderInv'
        <5>1. EntryIffPoller /\ SenderInv /\ canister_id[s] \in Canisters
          BY <3>8 DEF UndoInsertion
        <5> HIDE DEF SharedStateInv, SetupInv, LockInv, GuardInv, EntryIffPoller,
                     SenderInv, DroppedInv, NoMessageBeforeSetup, TypeOK
        <5>2. /\ \E to : handler' = [handler EXCEPT ![s] = to]
              /\ RemoveKey(s, canister_id[s])
              /\ UNCHANGED <<canister_id, poller>>
          BY <3>8 DEF UndoInsertion, remove_client
        <5> QED
          BY <5>1, <5>2, RemovalKeepsSenders
      <4>6. DroppedInv'
        BY <3>8 DEF UndoInsertion, remove_client, RemoveKey
      <4> QED
        BY <4>1, <4>2, <4>3, <4>4, <4>5, <4>6
    <3>9. CASE LockToClose(s)
      BY <3>9 DEF LockToClose, EnterGatewayState, LockEntry, EntryUnlocked
    <3>10. CASE RemoveClosed(s)
      <4>1. SetupInv'
        <5>1. \A q \in Sessions : poller[q] = "none" => clients'[q] = clients[q]
          BY <3>10 DEF RemoveClosed, remove_client, RemoveKey
        <5>2. /\ handler[s] \in LockingHandler
              /\ \E to \in {"done", "panicked", "ws_close"} :
                    handler' = [handler EXCEPT ![s] = to]
              /\ UNCHANGED <<session_state, canister_id, poller>>
          BY <3>10 DEF RemoveClosed, remove_client, RemoveKey
        <5> QED
          BY <5>1, <5>2
      <4>2. LockInv'
        BY <3>10 DEF RemoveClosed, remove_client, RemoveKey, UnlockEntry
      <4>3. GuardInv'
        BY <3>10 DEF RemoveClosed, remove_client, RemoveKey, Writable
      <4>4. (EntryIffPoller /\ NoMessageBeforeSetup)'
        BY <3>10 DEF RemoveClosed, remove_client, RemoveKey
      <4>5. SenderInv'
        <5>1. EntryIffPoller /\ SenderInv /\ canister_id[s] \in Canisters
          BY <3>10 DEF RemoveClosed
        <5> HIDE DEF SharedStateInv, SetupInv, LockInv, GuardInv, EntryIffPoller,
                     SenderInv, DroppedInv, NoMessageBeforeSetup, TypeOK
        <5>2. /\ \E to : handler' = [handler EXCEPT ![s] = to]
              /\ RemoveKey(s, canister_id[s])
              /\ UNCHANGED <<canister_id, poller>>
          BY <3>10 DEF RemoveClosed, remove_client
        <5> QED
          BY <5>1, <5>2, RemovalKeepsSenders
      <4>6. DroppedInv'
        BY <3>10 DEF RemoveClosed, remove_client, RemoveKey
      <4> QED
        BY <4>1, <4>2, <4>3, <4>4, <4>5, <4>6
    <3>11. CASE LockAfterError(s)
      BY <3>11 DEF LockAfterError, EnterGatewayState, LockEntry,
                   EntryUnlocked
    <3>12. CASE RemoveAfterError(s)
      <4>1. SetupInv'
        <5>1. \A q \in Sessions : poller[q] = "none" => clients'[q] = clients[q]
          BY <3>12 DEF RemoveAfterError, remove_client_if_exists, RemoveKey
        <5>2. /\ handler[s] \in LockingHandler
              /\ \E to \in {"done", "panicked", "ws_close"} :
                    handler' = [handler EXCEPT ![s] = to]
              /\ UNCHANGED <<session_state, canister_id, poller>>
          BY <3>12 DEF RemoveAfterError, remove_client_if_exists, RemoveKey
        <5> QED
          BY <5>1, <5>2
      <4>2. LockInv'
        BY <3>12 DEF RemoveAfterError, remove_client_if_exists, RemoveKey, UnlockEntry
      <4>3. GuardInv'
        BY <3>12 DEF RemoveAfterError, remove_client_if_exists, RemoveKey, Writable
      <4>4. (EntryIffPoller /\ NoMessageBeforeSetup)'
        BY <3>12 DEF RemoveAfterError, remove_client_if_exists, RemoveKey
      <4>5. SenderInv'
        <5>1. EntryIffPoller /\ SenderInv /\ canister_id[s] \in Canisters
          BY <3>12 DEF RemoveAfterError
        <5> HIDE DEF SharedStateInv, SetupInv, LockInv, GuardInv, EntryIffPoller,
                     SenderInv, DroppedInv, NoMessageBeforeSetup, TypeOK
        <5>2. /\ \E to : handler' = [handler EXCEPT ![s] = to]
              /\ RemoveKey(s, canister_id[s])
              /\ UNCHANGED <<canister_id, poller>>
          BY <3>12 DEF RemoveAfterError, remove_client_if_exists
        <5> QED
          BY <5>1, <5>2, RemovalKeepsSenders
      <4>6. DroppedInv'
        BY <3>12 DEF RemoveAfterError, remove_client_if_exists, RemoveKey
      <4> QED
        BY <4>1, <4>2, <4>3, <4>4, <4>5, <4>6
    <3>13. CASE call_ws_close(s)
      BY <3>13 DEF call_ws_close, CallIc
    <3> QED
      BY <2>3, <3>1, <3>2, <3>3, <3>4, <3>5, <3>6, <3>7, <3>8, <3>9, <3>10,
         <3>11, <3>12, <3>13
      DEF HandlerStep
  <2>4. ASSUME NEW p \in Sessions, PollerStep(p)
        PROVE  SharedStateInv'
    <3>1. CASE Poll(p)
      BY <3>1 DEF Poll
    <3>2. CASE RelayNext(p)
      BY <3>2 DEF RelayNext, get
    <3>3. CASE relay_message(p)
      BY <3>3 DEF relay_message, ReleaseRef, Send
    <3>4. CASE RelayEnds(p)
      BY <3>4 DEF RelayEnds
    <3>5. CASE poller_should_terminate(p)
      BY <3>5 DEF poller_should_terminate, remove_canister_if_empty,
                  CanisterIsEmpty
    <3>6. CASE PollingFails(p)
      BY <3>6 DEF PollingFails, remove_failed_canister,
                  remove_failed_canister_Unreachable
    <3>7. CASE PollerTaskEnds(p)
      BY <3>7 DEF PollerTaskEnds, DropPollerState
    <3> QED
      BY <2>4, <3>1, <3>2, <3>3, <3>4, <3>5, <3>6, <3>7
      DEF PollerStep
  <2>5. CASE UNCHANGED vars
    BY <2>5 DEF vars
  <2> QED
    BY <2>1, <2>2, <2>3, <2>4, <2>5, <2>6 DEF Next, AllTasksEnded
<1> QED
  BY TypeCorrect, <1>1, <1>2, PTL DEF Spec

\* A canister has one poller, which owns the entry of the canister exactly
\* while it polls.
THEOREM EntryIffPollerHolds == Spec => []EntryIffPoller
<1>1. SharedStateInv => EntryIffPoller
  BY DEF SharedStateInv
<1> QED
  BY SharedStateCorrect, <1>1, PTL

\* A session that has left the gateway state, or has ended, leaves no sender
\* in a PollerState that is polled.
THEOREM NoLeakedSenderHolds == Spec => []NoLeakedSender
<1>1. SharedStateInv => NoLeakedSender
  BY DEF SharedStateInv, SenderInv, NoLeakedSender
<1> QED
  BY SharedStateCorrect, <1>1, PTL

\* handle_canister_update is never called with a message in Init.
THEOREM NoMessageBeforeSetupHolds == Spec => []NoMessageBeforeSetup
<1>1. SharedStateInv => NoMessageBeforeSetup
  BY DEF SharedStateInv
<1> QED
  BY SharedStateCorrect, <1>1, PTL

\* Once a poller of a canister has failed, this is remembered: the canister of
\* a session that owns a poller is not set again.
LEMMA PollerFailureIsPermanent ==
    ASSUME TypeOK, SharedStateInv, [Next]_vars, NEW c \in Canisters,
           PollerFailed(c)
    PROVE  PollerFailed(c)'
<1>1. PICK p \in Sessions :
          canister_id[p] = c /\ poller[p] \in {"aborting", "aborted"}
  BY DEF PollerFailed
<1> SUFFICES canister_id'[p] = c /\ poller'[p] \in {"aborting", "aborted"}
  BY DEF PollerFailed
<1>2. canister_id'[p] = c
  <2>1. session_state[p] # "Init"
    BY <1>1, GatewayTypesAssumption DEF SharedStateInv, SetupInv
  <2>2. ASSUME NEW s \in Sessions, ClientStep(s)
        PROVE  canister_id'[p] = c
    BY <1>1, <2>1, <2>2
    DEF ClientStep, StartSession, ReceiveOpen, handle_setup_transition,
        ReceiveClose, ClientCloseMessage, ReceiveClientError,
        InvalidClientMessage, ClientStreamError, ReceiveClientMessage,
        ClientMessage, clientSessionVars, TypeOK, ClientSessionTypeOK
  <2>3. CASE UNCHANGED canister_id
    BY <1>1, <2>3
  <2>4. ASSUME NEW s \in Sessions,
               \/ ReceiveFromPoller(s) \/ WriteReturns(s)
               \/ HandlerStep(s) \/ PollerStep(s)
        PROVE  UNCHANGED canister_id
    <3>1. CASE ReceiveFromPoller(s) \/ WriteReturns(s)
      BY <3>1 DEF ReceiveFromPoller, ReceiveCanisterMessage, CanisterMessage,
                  ReceiveNone, CanisterUpdateNone, WriteReturns, MessageSent,
                  CanisterMessageSent, MessageNotSent, SessionDropped,
                  SetupRefused, clientSessionVars
    <3>2. CASE HandlerStep(s)
      BY <3>2 DEF HandlerStep, GetCanisterIdPanics, LockToInsert, LockToUndo,
                  LockToClose, LockAfterError, EnterGatewayState,
                  InsertClient, RelayOpen, RelayOpenFails, start_poller,
                  UndoInsertion, RemoveClosed, RemoveAfterError,
                  call_ws_close, CallIc, clientSessionVars
    <3>3. CASE PollerStep(s)
      BY <3>3 DEF PollerStep, Poll, RelayNext, relay_message, Send,
                  RelayEnds, poller_should_terminate, PollingFails,
                  PollerTaskEnds, clientSessionVars
    <3> QED
      BY <2>4, <3>1, <3>2, <3>3
  <2> QED
    BY <2>2, <2>3, <2>4 DEF Next, AllTasksEnded, vars, clientSessionVars
<1>3. poller'[p] \in {"aborting", "aborted"}
  <2>1. ASSUME NEW s \in Sessions, PollerStep(s)
        PROVE  poller'[p] \in {"aborting", "aborted"}
    BY <1>1, <2>1
    DEF PollerStep, Poll, RelayNext, relay_message, RelayEnds,
        poller_should_terminate, PollingFails, PollerTaskEnds, PollerGoTo,
        TypeOK
  <2>2. ASSUME NEW s \in Sessions, HandlerStep(s)
        PROVE  poller'[p] \in {"aborting", "aborted"}
    <3>1. CASE InsertClient(s)
      <4>1. poller[s] = "none"
        BY <3>1, GatewayTypesAssumption
        DEF InsertClient, GoTo, SharedStateInv, SetupInv
      <4> QED
        BY <1>1, <3>1, <4>1 DEF InsertClient, TypeOK
    <3>2. CASE start_poller(s)
      BY <1>1, <3>2 DEF start_poller, PollerGoTo, TypeOK
    <3>3. CASE UNCHANGED poller
      BY <1>1, <3>3
    <3> QED
      BY <2>2, <3>1, <3>2, <3>3
      DEF HandlerStep, GetCanisterIdPanics, LockToInsert, LockToUndo,
          LockToClose, LockAfterError, EnterGatewayState, RelayOpen,
          RelayOpenFails, UndoInsertion, RemoveClosed, RemoveAfterError,
          call_ws_close
  <2>3. ASSUME NEW s \in Sessions,
               ClientStep(s) \/ ReceiveFromPoller(s) \/ WriteReturns(s)
        PROVE  UNCHANGED poller
    BY <2>3
    DEF ClientStep, StartSession, ReceiveOpen, ReceiveClose,
        ReceiveClientError, ReceiveClientMessage, ReceiveFromPoller,
        ReceiveCanisterMessage, ReceiveNone, WriteReturns, MessageSent,
        MessageNotSent, SessionDropped, SetupRefused
  <2> QED
    BY <1>1, <2>1, <2>2, <2>3 DEF Next, AllTasksEnded, vars
<1> QED
  BY <1>2, <1>3

\* A session that takes its key out of the entry of its canister, found or not,
\* keeps the invariant, if it ends without ws_close only when it was not found.
LEMMA KeyRemoved ==
    ASSUME UniqueKeys, TypeOK, SetupInv, NotificationInv,
           NEW s \in Sessions, NEW to \in {"done", "panicked", "ws_close"},
           handler[s] \in {"undoing", "closing", "erroring"},
           handler' = [handler EXCEPT ![s] = to],
           RemoveKey(s, canister_id[s]),
           UNCHANGED <<session_state, canister_id, channel, ic_calls, poller>>,
           to # "ws_close" /\ "ws_open" \in ic_calls[s]
               => ~ ClientPresent(s, canister_id[s])
    PROVE  NotificationInv'
<1> USE GatewayTypesAssumption, GatewayStateAssumption
<1>1. \A t \in Sessions : Inserted(t) => canister_id[t] \in Canisters
  BY DEF TypeOK, ClientSessionTypeOK, SetupInv, Inserted, UpdatingHandler,
         LockingHandler
<1>2. Inserted(s) /\ canister_id[s] \in Canisters
  BY <1>1 DEF TypeOK, ClientSessionTypeOK, SetupInv, Inserted, LockingHandler
<1>3. \A t \in Sessions : t # s => handler'[t] = handler[t]
  BY DEF TypeOK
<1>4. handler'[s] = to
  BY DEF TypeOK
<1>5. \A c : PollerFailed(c)' <=> PollerFailed(c)
  BY DEF PollerFailed
<1>6. ASSUME NEW t \in Sessions, t # s, data[canister_id[t]] \in Sessions,
             clients[data[canister_id[t]]][KeyOf[t]] = t
      PROVE  clients'[data[canister_id[t]]][KeyOf[t]] = t
  <2>1. KeyOf[t] # KeyOf[s]
    BY <1>6 DEF UniqueKeys
  <2>2. KeyOf[t] \in ClientKeys /\ KeyOf[s] \in ClientKeys
    OBVIOUS
  <2> QED
    BY <1>6, <2>1, <2>2 DEF RemoveKey, TypeOK, GatewayStateTypeOK
<1>7. NoStrandedSession'
  <2> SUFFICES ASSUME NEW t \in Sessions, Inserted(t)'
               PROVE  \/ PollerFailed(canister_id[t])
                      \/ /\ data[canister_id[t]] # None
                         /\ clients'[data[canister_id[t]]][KeyOf[t]] = t
    BY <1>5 DEF NoStrandedSession, RemoveKey
  <2>1. t # s
    BY <1>4 DEF Inserted, UpdatingHandler
  <2>2. Inserted(t)
    BY <1>3, <2>1 DEF Inserted
  <2>3. data[canister_id[t]] # None => data[canister_id[t]] \in Sessions
    BY <1>1, <2>2 DEF TypeOK, GatewayStateTypeOK
  <2> QED
    BY <1>6, <2>1, <2>2, <2>3 DEF NotificationInv, NoStrandedSession
<1>8. OpenCallInv'
  <2>1. \A t \in Sessions : handler'[t] = handler[t] \/ handler'[t] = to
    BY <1>3, <1>4
  <2> QED
    BY <2>1 DEF NotificationInv, OpenCallInv
<1>9. UnnotifiedOnlyOnPollerFailure'
  <2> SUFFICES ASSUME NEW t \in Sessions, handler'[t] \in EndedHandler,
                      "ws_open" \in ic_calls[t]
               PROVE  "ws_close" \in ic_calls[t] \/ PollerFailed(canister_id[t])
    BY <1>5 DEF UnnotifiedOnlyOnPollerFailure
  <2>1. CASE t # s
    BY <1>3, <2>1 DEF NotificationInv, UnnotifiedOnlyOnPollerFailure
  <2>2. CASE t = s
    <3>1. ~ ClientPresent(s, canister_id[s])
      BY <1>4, <2>2 DEF EndedHandler
    <3> QED
      BY <1>2, <2>2, <3>1 DEF ClientPresent, NotificationInv, NoStrandedSession
  <2> QED
    BY <2>1, <2>2
<1> QED
  BY <1>7, <1>8, <1>9 DEF NotificationInv

\* With a key per client: a session is registered with the poller of its
\* canister for as long as it needs canister messages, and the canister is
\* told of the end of every session it was told of, unless a poller of the
\* canister has failed.
THEOREM NotificationCorrect ==
    ASSUME UniqueKeys
    PROVE  Spec => []NotificationInv
<1> USE GatewayTypesAssumption, GatewayStateAssumption,
        ClientSessionAssumption, GatewayAssumption, UniqueKeys
<1> USE DEF UniqueKeys, UpdatingHandler, LockingHandler, EndedHandler,
            ActivePoller, EmptyPollerState
<1>1. Init => NotificationInv
  BY DEF Init, GatewayStateInit, ClientSessionInit, NotificationInv,
         NoStrandedSession, Inserted, OpenCallInv,
         UnnotifiedOnlyOnPollerFailure
<1>2. /\ TypeOK /\ TypeOK' /\ SharedStateInv /\ SharedStateInv'
      /\ NotificationInv /\ [Next]_vars
      => NotificationInv'
  <2> SUFFICES ASSUME TypeOK, TypeOK', SharedStateInv, SharedStateInv',
                      NotificationInv, [Next]_vars
               PROVE  NotificationInv'
    OBVIOUS
  <2>0. \A c \in Canisters : PollerFailed(c) => PollerFailed(c)'
    BY PollerFailureIsPermanent
  <2> USE DEF TypeOK, GatewayStateTypeOK, ClientSessionTypeOK,
              gatewayStateVars, clientSessionVars, GoTo, PollerGoTo
  <2> USE DEF SharedStateInv, SetupInv, EntryIffPoller, SenderInv, Inserted,
              NotificationInv, NoStrandedSession, OpenCallInv,
              UnnotifiedOnlyOnPollerFailure, DroppedInv, SenderAlive
  <2>1. ASSUME NEW s \in Sessions, ClientStep(s)
        PROVE  NotificationInv'
    <3>1. CASE StartSession(s)
      BY <3>1, <2>0 DEF StartSession
    <3>2. CASE ReceiveOpen(s)
      BY <3>2, <2>0 DEF ReceiveOpen, handle_setup_transition
    <3>3. CASE ReceiveClose(s)
      BY <3>3, <2>0 DEF ReceiveClose, ClientCloseMessage
    <3>4. CASE ReceiveClientError(s)
      BY <3>4, <2>0 DEF ReceiveClientError, InvalidClientMessage,
                        ClientStreamError
    <3>5. CASE ReceiveClientMessage(s)
      BY <3>5, <2>0 DEF ReceiveClientMessage, ClientMessage
    <3> QED
      BY <2>1, <3>1, <3>2, <3>3, <3>4, <3>5
      DEF ClientStep
  <2>2. ASSUME NEW s \in Sessions, ReceiveFromPoller(s)
        PROVE  NotificationInv'
    <3>1. CASE ReceiveCanisterMessage(s)
      BY <3>1, <2>0 DEF ReceiveCanisterMessage, CanisterMessage,
                        CanisterMessageUnreachable
    <3>2. CASE ReceiveNone(s)
      BY <3>2, <2>0 DEF ReceiveNone, CanisterUpdateNone, SenderAlive
    <3> QED
      BY <2>2, <3>1, <3>2 DEF ReceiveFromPoller
  <2>6. ASSUME NEW s \in Sessions, WriteReturns(s)
        PROVE  NotificationInv'
    <3>1. CASE MessageSent(s)
      BY <3>1, <2>0 DEF MessageSent, CanisterMessageSent
    <3>2. CASE MessageNotSent(s)
      BY <3>2, <2>0 DEF MessageNotSent
    <3>3. CASE SessionDropped(s)
      BY <3>3, <2>0 DEF SessionDropped
    <3>4. CASE SetupRefused(s)
      BY <3>4, <2>0 DEF SetupRefused
    <3> QED
      BY <2>6, <3>1, <3>2, <3>3, <3>4 DEF WriteReturns
  <2>3. ASSUME NEW s \in Sessions, HandlerStep(s)
        PROVE  NotificationInv'
    <3>1. CASE GetCanisterIdPanics(s)
      BY <3>1, <2>0 DEF GetCanisterIdPanics
    <3>2. CASE LockToInsert(s)
      BY <3>2, <2>0 DEF LockToInsert, EnterGatewayState, LockEntry
    <3>3. CASE InsertClient(s)
      <4>1. NoStrandedSession'
        <5> DEFINE c == canister_id[s]
                   q == IF data[c] = None THEN s ELSE data[c]
        <5>0. handler[s] = "inserting" /\ c \in Canisters
          BY <3>3 DEF InsertClient
        <5>4. \A t \in Sessions : Inserted(t) => canister_id[t] \in Canisters
          OBVIOUS
        <5> HIDE DEF SetupInv, SenderInv, EntryIffPoller, DroppedInv,
                     SharedStateInv, OpenCallInv, UnnotifiedOnlyOnPollerFailure
        <5>1. /\ handler[s] = "inserting"
              /\ handler' = [handler EXCEPT ![s] = "relay"]
              /\ c \in Canisters
              /\ data' = [data EXCEPT ![c] = q]
              /\ clients' = [clients EXCEPT ![q] = [@ EXCEPT ![KeyOf[s]] = s]]
              /\ UNCHANGED canister_id
          <6> HIDE DEF NotificationInv, NoStrandedSession, Inserted, TypeOK
          <6> QED
            BY <3>3, <5>0 DEF InsertClient,
                          insert_client_channel_and_get_new_poller_state
        <5>2. q \in Sessions
          BY <5>1
        <5>3. data'[c] = q /\ clients'[q][KeyOf[s]] = s
          BY <5>1, <5>2
        <5>5. ASSUME NEW t \in Sessions, t # s, Inserted(t)'
              PROVE  \/ PollerFailed(canister_id[t])'
                     \/ /\ data'[canister_id[t]] # None
                        /\ clients'[data'[canister_id[t]]][KeyOf[t]] = t
          <6>1. Inserted(t)
            BY <5>1, <5>5
          <6>2. canister_id[t] \in Canisters
            BY <5>4, <6>1
          <6>3. CASE PollerFailed(canister_id[t])
            BY <2>0, <5>1, <6>2, <6>3 DEF PollerFailed
          <6>4. CASE ~ PollerFailed(canister_id[t])
            <7>1. /\ data[canister_id[t]] \in Sessions
                  /\ clients[data[canister_id[t]]][KeyOf[t]] = t
              BY <6>1, <6>2, <6>4 DEF NotificationInv
            <7>2. data'[canister_id[t]] = data[canister_id[t]]
              BY <5>1, <6>2, <7>1
            <7>3. KeyOf[t] # KeyOf[s]
              BY <5>5
            <7>4. clients'[data[canister_id[t]]][KeyOf[t]] = t
              BY <5>1, <5>2, <7>1, <7>3
            <7> QED
              BY <7>1, <7>2, <7>4
          <6> QED
            BY <6>3, <6>4
        <5>6. ASSUME NEW t \in Sessions, Inserted(t)'
              PROVE  \/ PollerFailed(canister_id[t])'
                     \/ /\ data'[canister_id'[t]] # None
                        /\ clients'[data'[canister_id'[t]]][KeyOf[t]] = t
          BY <5>1, <5>2, <5>3, <5>5, <5>6
        <5> QED
          BY <5>6
      <4>2. (OpenCallInv /\ UnnotifiedOnlyOnPollerFailure)'
        BY <3>3, <2>0 DEF InsertClient
      <4> QED
        BY <4>1, <4>2
    <3>4. CASE RelayOpen(s)
      BY <3>4, <2>0 DEF RelayOpen, CallIc
    <3>5. CASE RelayOpenFails(s)
      BY <3>5, <2>0 DEF RelayOpenFails
    <3>6. CASE start_poller(s)
      BY <3>6, <2>0 DEF start_poller
    <3>7. CASE LockToUndo(s)
      BY <3>7, <2>0 DEF LockToUndo, EnterGatewayState, LockEntry
    <3>8. CASE UndoInsertion(s)
      <4>1. "ws_open" \notin ic_calls[s] /\ SetupInv
        BY <3>8 DEF UndoInsertion
      <4> HIDE DEF SharedStateInv, SetupInv, EntryIffPoller, SenderInv, Inserted,
                   NotificationInv, NoStrandedSession, OpenCallInv, TypeOK,
                   UnnotifiedOnlyOnPollerFailure, DroppedInv, SenderAlive
      <4>2. /\ handler[s] = "undoing"
            /\ \E to \in {"done", "panicked", "ws_close"} :
                  handler' = [handler EXCEPT ![s] = to]
            /\ RemoveKey(s, canister_id[s])
            /\ UNCHANGED <<session_state, canister_id, channel, ic_calls, poller>>
        BY <3>8 DEF UndoInsertion, remove_client
      <4> QED
        BY <4>1, <4>2, KeyRemoved
    <3>9. CASE LockToClose(s)
      BY <3>9, <2>0 DEF LockToClose, EnterGatewayState, LockEntry
    <3>10. CASE RemoveClosed(s)
      <4>1. SetupInv
        OBVIOUS
      <4> HIDE DEF SharedStateInv, SetupInv, EntryIffPoller, SenderInv, Inserted,
                   NotificationInv, NoStrandedSession, OpenCallInv, TypeOK,
                   UnnotifiedOnlyOnPollerFailure, DroppedInv, SenderAlive
      <4>2. /\ handler[s] = "closing"
            /\ \E to \in {"done", "panicked", "ws_close"} :
                  /\ handler' = [handler EXCEPT ![s] = to]
                  /\ to # "ws_close" => ~ ClientPresent(s, canister_id[s])
            /\ RemoveKey(s, canister_id[s])
            /\ UNCHANGED <<session_state, canister_id, channel, ic_calls, poller>>
        BY <3>10 DEF RemoveClosed, remove_client, remove_client_Unreachable
      <4> QED
        BY <4>1, <4>2, KeyRemoved
    <3>11. CASE LockAfterError(s)
      BY <3>11, <2>0 DEF LockAfterError, EnterGatewayState, LockEntry
    <3>12. CASE RemoveAfterError(s)
      <4>1. SetupInv
        OBVIOUS
      <4> HIDE DEF SharedStateInv, SetupInv, EntryIffPoller, SenderInv, Inserted,
                   NotificationInv, NoStrandedSession, OpenCallInv, TypeOK,
                   UnnotifiedOnlyOnPollerFailure, DroppedInv, SenderAlive
      <4>2. /\ handler[s] = "erroring"
            /\ \E to \in {"done", "panicked", "ws_close"} :
                  /\ handler' = [handler EXCEPT ![s] = to]
                  /\ to # "ws_close" => ~ ClientPresent(s, canister_id[s])
            /\ RemoveKey(s, canister_id[s])
            /\ UNCHANGED <<session_state, canister_id, channel, ic_calls, poller>>
        BY <3>12 DEF RemoveAfterError, remove_client_if_exists
      <4> QED
        BY <4>1, <4>2, KeyRemoved
    <3>13. CASE call_ws_close(s)
      BY <3>13, <2>0 DEF call_ws_close, CallIc
    <3> QED
      BY <2>3, <3>1, <3>2, <3>3, <3>4, <3>5, <3>6, <3>7, <3>8, <3>9, <3>10,
         <3>11, <3>12, <3>13
      DEF HandlerStep
  <2>4. ASSUME NEW p \in Sessions, PollerStep(p)
        PROVE  NotificationInv'
    <3>1. CASE Poll(p)
      BY <3>1, <2>0 DEF Poll
    <3>2. CASE RelayNext(p)
      BY <3>2, <2>0 DEF RelayNext, get
    <3>3. CASE relay_message(p)
      BY <3>3, <2>0 DEF relay_message, ReleaseRef, Send
    <3>4. CASE RelayEnds(p)
      BY <3>4, <2>0 DEF RelayEnds
    <3>5. CASE poller_should_terminate(p)
      BY <3>5, <2>0 DEF poller_should_terminate, remove_canister_if_empty,
                        CanisterIsEmpty
    <3>6. CASE PollingFails(p)
      BY <3>6, <2>0 DEF PollingFails, remove_failed_canister,
                        remove_failed_canister_Unreachable, PollerFailed
    <3>7. CASE PollerTaskEnds(p)
      <4>0. poller[p] \notin ActivePoller
        BY <3>7 DEF PollerTaskEnds
      <4>1. \A c \in Canisters : data[c] # p
        BY <4>0
      <4>2. \A c \in Canisters :
                data[c] # None => clients'[data'[c]] = clients[data[c]]
        BY <3>7, <4>1 DEF PollerTaskEnds, DropPollerState
      <4>3. NoStrandedSession'
        BY <3>7, <4>2, <2>0 DEF PollerTaskEnds, DropPollerState
      <4>4. (OpenCallInv /\ UnnotifiedOnlyOnPollerFailure)'
        BY <3>7, <2>0 DEF PollerTaskEnds
      <4> QED
        BY <4>3, <4>4
    <3> QED
      BY <2>4, <3>1, <3>2, <3>3, <3>4, <3>5, <3>6, <3>7
      DEF PollerStep
  <2>5. CASE UNCHANGED vars
    BY <2>5, <2>0 DEF vars
  <2> QED
    BY <2>1, <2>2, <2>3, <2>4, <2>5, <2>6 DEF Next, AllTasksEnded
<1> QED
  BY TypeCorrect, SharedStateCorrect, <1>1, <1>2, PTL DEF Spec

\* No poller terminates under a live session.
THEOREM NoStrandedSessionHolds ==
    ASSUME UniqueKeys
    PROVE  Spec => []NoStrandedSession
<1>1. NotificationInv => NoStrandedSession
  BY DEF NotificationInv
<1> QED
  BY UniqueKeys, NotificationCorrect, <1>1, PTL

\* No session ends unnoticed by its canister unless a poller has failed.
THEOREM UnnotifiedOnlyOnPollerFailureHolds ==
    ASSUME UniqueKeys
    PROVE  Spec => []UnnotifiedOnlyOnPollerFailure
<1>1. NotificationInv => UnnotifiedOnlyOnPollerFailure
  BY DEF NotificationInv
<1> QED
  BY UniqueKeys, NotificationCorrect, <1>1, PTL

\* With a key per client, the assertions of a handler fail only in the two
\* known cases: before the Setup, and after a failure of the poller.
THEOREM PanicsExplainedHolds ==
    ASSUME UniqueKeys
    PROVE  Spec => []PanicsExplained
<1> USE GatewayTypesAssumption, GatewayStateAssumption
<1>1. Init => PanicsExplained
  BY DEF Init, PanicsExplained
<1>2. TypeOK /\ SharedStateInv /\ NotificationInv /\ PanicsExplained
        /\ [Next]_vars => PanicsExplained'
  <2> SUFFICES ASSUME TypeOK, SharedStateInv, NotificationInv,
                      PanicsExplained, [Next]_vars,
                      NEW t \in Sessions, handler'[t] = "panicked"
               PROVE  canister_id'[t] = None \/ PollerFailed(canister_id[t])'
    BY DEF PanicsExplained
  <2>0. \A c \in Canisters : PollerFailed(c) => PollerFailed(c)'
    BY PollerFailureIsPermanent
  <2>1. canister_id[t] = None \/ canister_id[t] \in Canisters
    BY DEF TypeOK, ClientSessionTypeOK
  <2>3. SUFFICES /\ canister_id'[t] = canister_id[t]
                 /\ canister_id[t] = None \/ PollerFailed(canister_id[t])
    BY <2>0, <2>1 DEF PollerFailed
  <2>4. canister_id'[t] = canister_id[t]
    <3>1. ASSUME NEW s \in Sessions, ClientStep(s)
          PROVE  canister_id'[t] = canister_id[t]
      BY <3>1
      DEF ClientStep, StartSession, ReceiveOpen, handle_setup_transition,
          ReceiveClose, ClientCloseMessage, ReceiveClientError,
          InvalidClientMessage, ClientStreamError, ReceiveClientMessage,
          ClientMessage, clientSessionVars, GoTo, TypeOK, ClientSessionTypeOK
    <3>2. ASSUME NEW s \in Sessions,
                 \/ ReceiveFromPoller(s) \/ WriteReturns(s)
                 \/ HandlerStep(s) \/ PollerStep(s)
          PROVE  UNCHANGED canister_id
      BY <3>2
      DEF ReceiveFromPoller, ReceiveCanisterMessage, CanisterMessage,
          ReceiveNone, CanisterUpdateNone, WriteReturns, MessageSent,
          CanisterMessageSent, MessageNotSent, SessionDropped, SetupRefused,
          HandlerStep, GetCanisterIdPanics, LockToInsert,
          LockToUndo, LockToClose, LockAfterError, EnterGatewayState,
          InsertClient, RelayOpen, RelayOpenFails, start_poller,
          UndoInsertion, RemoveClosed, RemoveAfterError, call_ws_close,
          CallIc, PollerStep, Poll, RelayNext, relay_message, Send,
          RelayEnds, poller_should_terminate, PollingFails, PollerTaskEnds,
          clientSessionVars
    <3> QED
      BY <3>1, <3>2 DEF Next, AllTasksEnded, vars, clientSessionVars
  <2>5. CASE handler[t] = "panicked"
    BY <2>4, <2>5 DEF PanicsExplained
  <2>6. CASE handler[t] # "panicked"
    <3>1. ASSUME NEW s \in Sessions, ClientStep(s)
          PROVE  FALSE
      BY <3>1, <2>6
      DEF ClientStep, StartSession, ReceiveOpen, ReceiveClose,
          ReceiveClientError, ReceiveClientMessage, GoTo, TypeOK
    <3>2. ASSUME NEW s \in Sessions, PollerStep(s)
          PROVE  FALSE
      BY <3>2, <2>6
      DEF PollerStep, Poll, RelayNext, relay_message, RelayEnds,
          poller_should_terminate, PollingFails, PollerTaskEnds
    <3>3. ASSUME NEW s \in Sessions, ReceiveFromPoller(s)
          PROVE  canister_id[t] = None
      BY <3>3, <2>6
      DEF ReceiveFromPoller, ReceiveCanisterMessage, ReceiveNone,
          CanisterMessageUnreachable, GoTo, TypeOK, SharedStateInv, SetupInv
    <3>4. ASSUME NEW s \in Sessions, HandlerStep(s)
          PROVE  canister_id[t] = None \/ PollerFailed(canister_id[t])
      <4>1. CASE GetCanisterIdPanics(s)
        BY <4>1, <2>6 DEF GetCanisterIdPanics, GoTo, TypeOK
      <4>2. CASE UndoInsertion(s) \/ RemoveClosed(s)
        <5>1. /\ s = t
              /\ handler[t] \in {"undoing", "closing"}
              /\ remove_client_Unreachable(t, canister_id[t])
          BY <4>2, <2>6 DEF UndoInsertion, RemoveClosed, GoTo, TypeOK
        <5>2. Inserted(t)
          BY <5>1 DEF Inserted, SharedStateInv, SetupInv, LockingHandler
        <5>3. canister_id[t] \in Canisters
          BY <2>1, <5>1 DEF SharedStateInv, SetupInv, LockingHandler
        <5> QED
          BY <5>1, <5>2, <5>3
          DEF NotificationInv, NoStrandedSession, remove_client_Unreachable,
              ClientPresent
      <4>3. CASE ~ (GetCanisterIdPanics(s) \/ UndoInsertion(s)
                                          \/ RemoveClosed(s))
        BY <3>4, <4>3, <2>6
        DEF HandlerStep, LockToInsert, LockToUndo, LockToClose,
            LockAfterError, EnterGatewayState, InsertClient, RelayOpen,
            RelayOpenFails, start_poller, RemoveAfterError, call_ws_close,
            GoTo, TypeOK
      <4> QED
        BY <4>1, <4>2, <4>3
    <3>5. ASSUME NEW s \in Sessions, WriteReturns(s)
          PROVE  FALSE
      BY <3>5, <2>6
      DEF WriteReturns, MessageSent, MessageNotSent, SessionDropped,
          SetupRefused, GoTo, TypeOK
    <3> QED
      BY <2>4, <2>6, <3>1, <3>2, <3>3, <3>4, <3>5
      DEF Next, AllTasksEnded, vars
  <2> QED
    BY <2>5, <2>6
<1> QED
  BY UniqueKeys, TypeCorrect, SharedStateCorrect, NotificationCorrect,
     <1>1, <1>2, PTL DEF Spec

\* When relaying ws_open cannot fail, every entry has a poller or a handler
\* about to start it.
THEOREM EntryServedHolds ==
    ASSUME ~ RelayOpenCanFail
    PROVE  Spec => []EntryServed
<1> DEFINE ServedInv == EntryServed /\ UndoInv
<1> USE GatewayTypesAssumption
<1>1. Init => ServedInv
  BY DEF Init, GatewayStateInit, EntryServed, UndoInv
<1>2. TypeOK /\ SharedStateInv /\ ServedInv /\ [Next]_vars => ServedInv'
  <2> SUFFICES ASSUME TypeOK, SharedStateInv, ServedInv, [Next]_vars
               PROVE  ServedInv'
    OBVIOUS
  <2> USE DEF TypeOK, GatewayStateTypeOK, gatewayStateVars, GoTo, PollerGoTo
  <2> USE DEF EntryServed, UndoInv, SharedStateInv, SetupInv, EntryIffPoller,
              LockingHandler, ActivePoller
  <2>1. ASSUME NEW s \in Sessions, ClientStep(s)
        PROVE  ServedInv'
    <3>1. CASE StartSession(s)
      BY <3>1 DEF StartSession
    <3>2. CASE ReceiveOpen(s)
      BY <3>2 DEF ReceiveOpen
    <3>3. CASE ReceiveClose(s)
      BY <3>3 DEF ReceiveClose
    <3>4. CASE ReceiveClientError(s)
      BY <3>4 DEF ReceiveClientError
    <3>5. CASE ReceiveClientMessage(s)
      BY <3>5 DEF ReceiveClientMessage
    <3> QED
      BY <2>1, <3>1, <3>2, <3>3, <3>4, <3>5
      DEF ClientStep
  <2>2. ASSUME NEW s \in Sessions, ReceiveFromPoller(s)
        PROVE  ServedInv'
    <3>1. CASE ReceiveCanisterMessage(s)
      BY <3>1 DEF ReceiveCanisterMessage, CanisterMessageUnreachable
    <3>2. CASE ReceiveNone(s)
      BY <3>2 DEF ReceiveNone
    <3> QED
      BY <2>2, <3>1, <3>2 DEF ReceiveFromPoller
  <2>6. ASSUME NEW s \in Sessions, WriteReturns(s)
        PROVE  ServedInv'
    <3>1. CASE MessageSent(s)
      BY <3>1 DEF MessageSent, CanisterMessageSent
    <3>2. CASE MessageNotSent(s)
      BY <3>2 DEF MessageNotSent
    <3>3. CASE SessionDropped(s)
      BY <3>3 DEF SessionDropped
    <3>4. CASE SetupRefused(s)
      BY <3>4 DEF SetupRefused
    <3> QED
      BY <2>6, <3>1, <3>2, <3>3, <3>4 DEF WriteReturns
  <2>3. ASSUME NEW s \in Sessions, HandlerStep(s)
        PROVE  ServedInv'
    <3>1. CASE GetCanisterIdPanics(s)
      BY <3>1 DEF GetCanisterIdPanics
    <3>2. CASE LockToInsert(s)
      BY <3>2 DEF LockToInsert, EnterGatewayState, LockEntry
    <3>3. CASE InsertClient(s)
      BY <3>3 DEF InsertClient,
                  insert_client_channel_and_get_new_poller_state
    <3>4. CASE RelayOpen(s)
      BY <3>4 DEF RelayOpen
    <3>5. CASE RelayOpenFails(s)
      BY <3>5 DEF RelayOpenFails
    <3>6. CASE start_poller(s)
      BY <3>6 DEF start_poller
    <3>7. CASE LockToUndo(s)
      BY <3>7 DEF LockToUndo, EnterGatewayState, LockEntry
    <3>8. CASE UndoInsertion(s)
      BY <3>8, ~ RelayOpenCanFail DEF UndoInsertion
    <3>9. CASE LockToClose(s)
      BY <3>9 DEF LockToClose, EnterGatewayState, LockEntry
    <3>10. CASE RemoveClosed(s)
      BY <3>10 DEF RemoveClosed, remove_client, RemoveKey
    <3>11. CASE LockAfterError(s)
      BY <3>11 DEF LockAfterError, EnterGatewayState, LockEntry
    <3>12. CASE RemoveAfterError(s)
      BY <3>12 DEF RemoveAfterError, remove_client_if_exists, RemoveKey
    <3>13. CASE call_ws_close(s)
      BY <3>13 DEF call_ws_close
    <3> QED
      BY <2>3, <3>1, <3>2, <3>3, <3>4, <3>5, <3>6, <3>7, <3>8, <3>9, <3>10,
         <3>11, <3>12, <3>13
      DEF HandlerStep
  <2>4. ASSUME NEW p \in Sessions, PollerStep(p)
        PROVE  ServedInv'
    <3>1. CASE Poll(p)
      BY <3>1 DEF Poll
    <3>2. CASE RelayNext(p)
      BY <3>2 DEF RelayNext, get
    <3>3. CASE relay_message(p)
      BY <3>3 DEF relay_message, ReleaseRef
    <3>4. CASE RelayEnds(p)
      BY <3>4 DEF RelayEnds
    <3>5. CASE poller_should_terminate(p)
      BY <3>5 DEF poller_should_terminate, remove_canister_if_empty
    <3>6. CASE PollingFails(p)
      BY <3>6 DEF PollingFails, remove_failed_canister
    <3>7. CASE PollerTaskEnds(p)
      BY <3>7 DEF PollerTaskEnds, DropPollerState
    <3> QED
      BY <2>4, <3>1, <3>2, <3>3, <3>4, <3>5, <3>6, <3>7
      DEF PollerStep
  <2>5. CASE UNCHANGED vars
    BY <2>5 DEF vars
  <2> QED
    BY <2>1, <2>2, <2>3, <2>4, <2>5, <2>6 DEF Next, AllTasksEnded
<1> QED
  BY TypeCorrect, SharedStateCorrect, <1>1, <1>2, PTL DEF Spec

=============================================================================
