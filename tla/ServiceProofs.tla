--------------------------- MODULE ServiceProofs ----------------------------
(***************************************************************************)
(* The proof that the gateway implements CanisterService, for any          *)
(* sessions, canisters, keys, shards and capacities.                       *)
(***************************************************************************)
EXTENDS GatewayProofs

\* A step that leaves the maps, the pollers and the channels alone is not
\* visible in the service.
LEMMA InvisibleStep ==
    ASSUME UNCHANGED <<data, clients, poller, channel>>
    PROVE  UNCHANGED Service!vars
BY DEF Service!vars, polledCanisters, failingCanisters, subscribedSessions

\* Registering a session, with the PollerState it finds or allocates, is one
\* step of the service.
LEMMA InsertionJoins ==
    ASSUME TypeOK, SharedStateInv, NEW s \in Sessions, InsertClient(s)
    PROVE  Service!Join(s, canister_id[s])
<1> USE GatewayTypesAssumption, GatewayStateAssumption
<1> DEFINE c == canister_id[s]
           p == IF data[c] = None THEN s ELSE data[c]
<1>1. /\ handler[s] = "inserting"
      /\ c \in Canisters
      /\ poller[s] = "none"
      /\ clients[s] = EmptyPollerState
  BY DEF InsertClient, GoTo, SharedStateInv, SetupInv, TypeOK,
         ClientSessionTypeOK, PollerTaskState, LockingHandler
<1>2. /\ clients' = [clients EXCEPT ![p] = [@ EXCEPT ![KeyOf[s]] = s]]
      /\ data' = [data EXCEPT ![c] = p]
      /\ UNCHANGED channel
      /\ p \in Sessions
  BY <1>1 DEF InsertClient, insert_client_channel_and_get_new_poller_state,
         clientSessionVars, TypeOK, GatewayStateTypeOK
<1>3. \A d \in Canisters \ {c} : data'[d] = data[d] /\ data[d] # p
  <2> SUFFICES ASSUME NEW d \in Canisters \ {c}
               PROVE  data'[d] = data[d] /\ data[d] # p
    OBVIOUS
  <2>1. data'[d] = data[d]
    BY <1>2 DEF TypeOK, GatewayStateTypeOK
  <2>2. data[d] = p => canister_id[p] = d /\ poller[p] \in ActivePoller
    BY <1>2 DEF SharedStateInv, EntryIffPoller
  <2>3. data[c] # None => canister_id[p] = c
    BY <1>1, <1>2 DEF SharedStateInv, EntryIffPoller
  <2> QED
    BY <1>1, <2>1, <2>2, <2>3 DEF ActivePoller
<1>4. \A d \in Canisters : s \notin subscribedSessions[d]
  <2> SUFFICES ASSUME NEW d \in Canisters, data[d] # None,
                      clients[data[d]][KeyOf[s]] = s
               PROVE  FALSE
    BY DEF subscribedSessions
  <2>1. data[d] \in Sessions /\ poller[data[d]] \in ActivePoller
    BY DEF TypeOK, GatewayStateTypeOK, SharedStateInv, EntryIffPoller
  <2>2. Inserted(s)
    BY <2>1 DEF SharedStateInv, SenderInv
  <2> QED
    BY <1>1, <2>2 DEF Inserted, UpdatingHandler
<1>5. \A d \in Canisters \ {c} : subscribedSessions'[d] = subscribedSessions[d]
  BY <1>2, <1>3 DEF subscribedSessions, TypeOK, GatewayStateTypeOK
<1>6. subscribedSessions'[c] = Service!OthersThan(s, c) \cup {s}
  <2>1. data'[c] = p /\ data'[c] # None
    BY <1>1, <1>2 DEF TypeOK, GatewayStateTypeOK
  <2>2. \A t \in Sessions :
          clients'[p][KeyOf[t]] = IF KeyOf[t] = KeyOf[s] THEN s
                                  ELSE clients[p][KeyOf[t]]
    BY <1>2 DEF TypeOK, GatewayStateTypeOK
  <2>3. \A t \in Sessions :
          data[c] = None => clients[p][KeyOf[t]] = None
    BY <1>1 DEF EmptyPollerState
  <2>4. subscribedSessions'[c] = {t \in Sessions : clients'[p][KeyOf[t]] = t}
    BY <1>1, <2>1 DEF subscribedSessions
  <2>5. subscribedSessions[c] =
          {t \in Sessions : data[c] # None /\ clients[p][KeyOf[t]] = t}
    BY <1>1 DEF subscribedSessions
  <2> QED
    BY <2>2, <2>3, <2>4, <2>5 DEF Service!OthersThan
<1>7. subscribedSessions' =
        [subscribedSessions EXCEPT ![c] = Service!OthersThan(s, c) \cup {s}]
  BY <1>1, <1>5, <1>6 DEF subscribedSessions
<1>8. polledCanisters' = polledCanisters \cup {c}
  BY <1>1, <1>2, <1>3 DEF polledCanisters, TypeOK, GatewayStateTypeOK
<1>9. UNCHANGED failingCanisters
  <2>1. poller' = IF data[c] = None THEN [poller EXCEPT ![s] = "allocated"]
                                    ELSE poller
    BY DEF InsertClient
  <2>2. \A d \in Canisters \ {c} :
          data[d] # None => data[d] \in Sessions /\ data[d] # p
    BY <1>3 DEF TypeOK, GatewayStateTypeOK
  <2>3. CASE data[c] = None
    <3>1. poller'[s] = "allocated"
      BY <2>1, <2>3 DEF TypeOK
    <3>2. \A d \in Canisters \ {c} :
            data[d] # None => poller'[data[d]] = poller[data[d]]
      BY <2>1, <2>2, <2>3 DEF TypeOK
    <3>3. data'[c] = s /\ data'[c] # None
      BY <1>1, <1>2, <2>3 DEF TypeOK, GatewayStateTypeOK
    <3> QED
      BY <1>3, <2>3, <3>1, <3>2, <3>3 DEF failingCanisters
  <2>4. CASE data[c] # None
    <3>1. data' = data /\ poller' = poller
      BY <1>2, <2>1, <2>4 DEF TypeOK, GatewayStateTypeOK
    <3> QED
      BY <3>1 DEF failingCanisters
  <2> QED
    BY <2>3, <2>4
<1> QED
  BY <1>2, <1>4, <1>7, <1>8, <1>9 DEF Service!Join

\* Removing the key of a session is one step of the service.
LEMMA RemovalLeaves ==
    ASSUME TypeOK, SharedStateInv, NEW s \in Sessions,
           canister_id[s] # None, RemoveKey(s, canister_id[s]),
           UNCHANGED <<poller, channel>>
    PROVE  Service!Leave(s, canister_id[s])
<1> USE GatewayTypesAssumption, GatewayStateAssumption
<1> DEFINE c == canister_id[s]
           p == data[c]
<1>1. c \in Canisters
  BY DEF TypeOK, ClientSessionTypeOK
<1>2. UNCHANGED <<data, poller, channel>>
  BY DEF RemoveKey
<1>3. UNCHANGED <<polledCanisters, failingCanisters>>
  BY <1>2 DEF polledCanisters, failingCanisters
<1>4. CASE p = None
  <2>1. UNCHANGED subscribedSessions
    BY <1>2, <1>4 DEF RemoveKey, subscribedSessions
  <2>2. subscribedSessions[c] = {}
    BY <1>1, <1>4 DEF subscribedSessions
  <2>3. subscribedSessions =
          [subscribedSessions EXCEPT ![c] = Service!OthersThan(s, c)]
    BY <1>1, <2>2 DEF Service!OthersThan, subscribedSessions
  <2> QED
    BY <1>2, <1>3, <2>1, <2>3 DEF Service!Leave
<1>5. CASE p # None
  <2>1. /\ p \in Sessions
        /\ canister_id[p] = c
    BY <1>1, <1>5 DEF TypeOK, GatewayStateTypeOK, SharedStateInv,
                      EntryIffPoller
  <2>2. clients' = [clients EXCEPT ![p] = [@ EXCEPT ![KeyOf[s]] = None]]
    BY <1>5 DEF RemoveKey
  <2>3. \A d \in Canisters \ {c} : data[d] # p
    BY <2>1 DEF SharedStateInv, EntryIffPoller
  <2>4. \A d \in Canisters \ {c} :
          subscribedSessions'[d] = subscribedSessions[d]
    BY <1>2, <2>2, <2>3 DEF subscribedSessions, TypeOK, GatewayStateTypeOK
  <2>5. \A t \in Sessions :
          clients'[p][KeyOf[t]] = IF KeyOf[t] = KeyOf[s] THEN None
                                  ELSE clients[p][KeyOf[t]]
    BY <2>1, <2>2 DEF TypeOK, GatewayStateTypeOK
  <2>6. /\ subscribedSessions'[c] = {t \in Sessions : clients'[p][KeyOf[t]] = t}
        /\ subscribedSessions[c] = {t \in Sessions : clients[p][KeyOf[t]] = t}
    BY <1>1, <1>2, <1>5 DEF subscribedSessions
  <2>7. subscribedSessions'[c] = Service!OthersThan(s, c)
    BY <2>5, <2>6 DEF Service!OthersThan
  <2>8. subscribedSessions' =
          [subscribedSessions EXCEPT ![c] = Service!OthersThan(s, c)]
    BY <1>1, <2>4, <2>7 DEF subscribedSessions
  <2> QED
    BY <1>2, <1>3, <2>8 DEF Service!Leave
<1> QED
  BY <1>4, <1>5

\* The steps of a poller that has an entry are steps of the service.
LEMMA PollerServes ==
    ASSUME TypeOK, SharedStateInv, NEW p \in Sessions, PollerStep(p)
    PROVE  Service!Next \/ UNCHANGED Service!vars
<1> USE GatewayTypesAssumption, GatewayStateAssumption, ClientSessionAssumption
<1> DEFINE c == canister_id[p]
<1>0. /\ subscribedSessions = [d \in Canisters |-> subscribedSessions[d]]
      /\ subscribedSessions' = [d \in Canisters |-> subscribedSessions'[d]]
  BY DEF subscribedSessions
<1>1. \A q \in Sessions, d \in Canisters :
        data[d] = q <=> canister_id[q] = d /\ poller[q] \in ActivePoller
  BY DEF SharedStateInv, EntryIffPoller
<1>2. \A d \in Canisters : data[d] # None => data[d] \in Sessions
  BY DEF TypeOK, GatewayStateTypeOK
<1>3. poller[p] # "none" => c \in Canisters
  BY DEF SharedStateInv, SetupInv, TypeOK, ClientSessionTypeOK
<1>4. poller[p] \in ActivePoller => data[c] = p /\ c \in Canisters
  BY <1>1, <1>3 DEF ActivePoller
<1>5. CASE Poll(p)
  <2>1. /\ poller[p] = "poll"
        /\ data[c] = p
        /\ c \in Canisters
        /\ UNCHANGED <<data, clients, channel>>
    BY <1>4, <1>5 DEF Poll, PollerGoTo, gatewayStateVars, clientSessionVars,
                      ActivePoller
  <2>2. PICK to \in {"relay", "check", "failed"} :
          poller' = [poller EXCEPT ![p] = to]
    BY <1>5 DEF Poll, PollerGoTo
  <2>3. \A d \in Canisters \ {c} :
          data[d] # None => poller'[data[d]] = poller[data[d]]
    BY <1>1, <1>2, <2>2 DEF TypeOK
  <2>4. poller'[p] = to
    BY <2>2 DEF TypeOK
  <2>5. failingCanisters' = IF to = "failed" THEN failingCanisters \cup {c}
                                             ELSE failingCanisters
    BY <2>1, <2>3, <2>4 DEF failingCanisters
  <2>6. UNCHANGED <<polledCanisters, subscribedSessions, channel>>
    BY <2>1 DEF polledCanisters, subscribedSessions
  <2>7. CASE to = "failed"
    <3>1. Service!MeetError(c)
      BY <2>1, <2>5, <2>6, <2>7 DEF Service!MeetError, polledCanisters
    <3> QED
      BY <2>1, <3>1 DEF Service!Next
  <2>8. CASE to # "failed"
    BY <2>5, <2>6, <2>8 DEF Service!vars
  <2> QED
    BY <2>7, <2>8
<1>6. CASE RelayNext(p) \/ RelayEnds(p)
  <2>1. UNCHANGED <<data, clients, channel>>
    BY <1>6 DEF RelayNext, RelayEnds, get, gatewayStateVars, clientSessionVars
  <2>2. /\ poller[p] # "failed"
        /\ poller' = [poller EXCEPT ![p] = poller'[p]]
        /\ poller'[p] # "failed"
    BY <1>6 DEF RelayNext, RelayEnds, PollerGoTo, TypeOK
  <2>3. UNCHANGED failingCanisters
    BY <1>2, <2>1, <2>2 DEF failingCanisters, TypeOK
  <2> QED
    BY <2>1, <2>3 DEF Service!vars, polledCanisters, subscribedSessions
<1>7. CASE relay_message(p)
  <2> DEFINE k == guard[p]
             s == clients[p][k]
  <2>1. /\ poller[p] = "send"
        /\ poller' = [poller EXCEPT ![p] = "relay"]
        /\ UNCHANGED <<data, clients>>
        /\ Send(s, handler[s] \in EndedHandler)
    BY <1>7 DEF relay_message, PollerGoTo, ReleaseRef
  <2>2. /\ k \in ClientKeys
        /\ s \in Sessions
        /\ KeyOf[s] = k
    BY <2>1 DEF TypeOK, GatewayStateTypeOK, SharedStateInv, GuardInv,
                SenderInv
  <2>3. /\ data[c] = p
        /\ c \in Canisters
    BY <1>4, <2>1 DEF ActivePoller
  <2>4. UNCHANGED <<polledCanisters, subscribedSessions>>
    BY <2>1 DEF polledCanisters, subscribedSessions
  <2>5. UNCHANGED failingCanisters
    BY <1>2, <2>1 DEF failingCanisters, TypeOK
  <2>6. c \in polledCanisters \ failingCanisters /\ s \in subscribedSessions[c]
    BY <2>1, <2>2, <2>3 DEF polledCanisters, failingCanisters,
                            subscribedSessions
  <2>7. CASE UNCHANGED channel
    BY <2>4, <2>5, <2>7 DEF Service!vars
  <2>8. CASE channel' = [channel EXCEPT ![s] = @ + 1]
    <3>1. Service!Deliver(s, c)
      BY <2>4, <2>5, <2>6, <2>8 DEF Service!Deliver
    <3> QED
      BY <2>2, <2>3, <3>1 DEF Service!Next
  <2> QED
    BY <2>1, <2>7, <2>8 DEF Send
<1>8. CASE poller_should_terminate(p)
  <2>1. /\ poller[p] = "check"
        /\ data[c] = p
        /\ c \in Canisters
        /\ UNCHANGED <<clients, channel>>
    BY <1>4, <1>8 DEF poller_should_terminate, PollerGoTo,
                      remove_canister_if_empty, clientSessionVars, ActivePoller
  <2>2. /\ poller' = [poller EXCEPT ![p] = poller'[p]]
        /\ poller'[p] # "failed"
    BY <1>8 DEF poller_should_terminate, PollerGoTo, TypeOK
  <2>3. CASE CanisterIsEmpty(c)
    <3>1. /\ data' = [data EXCEPT ![c] = None]
          /\ clients[p] = EmptyPollerState
      BY <1>8, <2>1, <2>3 DEF poller_should_terminate,
                              remove_canister_if_empty, CanisterIsEmpty
    <3>2. polledCanisters' = polledCanisters \ {c}
      BY <2>1, <3>1 DEF polledCanisters, TypeOK, GatewayStateTypeOK
    <3>3. \A d \in Canisters \ {c} : data'[d] = data[d] /\ data[d] # p
      BY <1>1, <3>1 DEF TypeOK, GatewayStateTypeOK
    <3>4. data'[c] = None
      BY <2>1, <3>1 DEF TypeOK, GatewayStateTypeOK
    <3>5. subscribedSessions[c] = {}
      BY <2>1, <3>1 DEF subscribedSessions, EmptyPollerState
    <3>6. UNCHANGED subscribedSessions
      <4>1. subscribedSessions'[c] = {}
        BY <2>1, <3>4 DEF subscribedSessions
      <4>2. \A d \in Canisters \ {c} :
              subscribedSessions'[d] = subscribedSessions[d]
        BY <2>1, <3>3 DEF subscribedSessions
      <4> QED
        BY <1>0, <3>5, <4>1, <4>2
    <3>7. \A d \in Canisters \ {c} :
            data[d] # None => poller'[data[d]] = poller[data[d]]
      BY <1>2, <2>2, <3>3 DEF TypeOK
    <3>8. UNCHANGED failingCanisters /\ c \notin failingCanisters
      BY <2>1, <3>3, <3>4, <3>7 DEF failingCanisters
    <3>9. Service!Stop(c)
      BY <2>1, <3>2, <3>5, <3>6, <3>8 DEF Service!Stop
    <3> QED
      BY <2>1, <3>9 DEF Service!Next
  <2>4. CASE ~ CanisterIsEmpty(c)
    <3>1. UNCHANGED data
      BY <1>8, <2>4 DEF poller_should_terminate, remove_canister_if_empty
    <3>2. UNCHANGED failingCanisters
      BY <1>2, <2>1, <2>2, <3>1 DEF failingCanisters, TypeOK
    <3> QED
      BY <2>1, <3>1, <3>2 DEF Service!vars, polledCanisters,
                              subscribedSessions
  <2> QED
    BY <2>3, <2>4
<1>9. CASE PollingFails(p)
  <2>1. /\ poller[p] = "failed"
        /\ poller' = [poller EXCEPT ![p] = poller'[p]]
        /\ data[c] = p
        /\ c \in Canisters
        /\ data' = [data EXCEPT ![c] = None]
        /\ UNCHANGED <<clients, channel>>
    BY <1>4, <1>9 DEF PollingFails, PollerGoTo, remove_failed_canister,
                      clientSessionVars, ActivePoller, TypeOK
  <2>2. \A d \in Canisters \ {c} : data'[d] = data[d] /\ data[d] # p
    BY <1>1, <2>1 DEF TypeOK, GatewayStateTypeOK
  <2>3. data'[c] = None
    BY <2>1 DEF TypeOK, GatewayStateTypeOK
  <2>4. \A d \in Canisters \ {c} :
          data[d] # None => poller'[data[d]] = poller[data[d]]
    BY <1>2, <2>1, <2>2 DEF TypeOK
  <2>5. c \in failingCanisters
    BY <2>1 DEF failingCanisters
  <2>6. failingCanisters' = failingCanisters \ {c}
    BY <2>2, <2>3, <2>4 DEF failingCanisters
  <2>7. polledCanisters' = polledCanisters \ {c}
    BY <2>2, <2>3 DEF polledCanisters
  <2>8. /\ subscribedSessions'[c] = {}
        /\ \A d \in Canisters \ {c} :
             subscribedSessions'[d] = subscribedSessions[d]
    BY <2>1, <2>2, <2>3 DEF subscribedSessions
  <2>9. subscribedSessions' = [subscribedSessions EXCEPT ![c] = {}]
    BY <1>0, <2>1, <2>8
  <2>10. Service!Fail(c)
    BY <2>1, <2>5, <2>6, <2>7, <2>9 DEF Service!Fail
  <2> QED
    BY <2>1, <2>10 DEF Service!Next
<1>10. CASE PollerTaskEnds(p)
  <2>1. /\ poller[p] \in {"terminating", "aborting"}
        /\ poller' = [poller EXCEPT ![p] = poller'[p]]
        /\ clients' = [clients EXCEPT ![p] = EmptyPollerState]
        /\ UNCHANGED <<data, channel>>
    BY <1>10 DEF PollerTaskEnds, PollerGoTo, DropPollerState,
                 clientSessionVars, TypeOK
  <2>2. \A d \in Canisters : data[d] # p
    BY <1>1, <2>1 DEF ActivePoller
  <2>3. \A d \in Canisters : data[d] # None =>
          /\ poller'[data[d]] = poller[data[d]]
          /\ clients'[data[d]] = clients[data[d]]
    BY <1>2, <2>1, <2>2 DEF TypeOK, GatewayStateTypeOK
  <2> QED
    BY <2>1, <2>3 DEF Service!vars, polledCanisters, failingCanisters,
                      subscribedSessions
<1> QED
  BY <1>5, <1>6, <1>7, <1>8, <1>9, <1>10 DEF PollerStep

\* The gateway implements the service: Stop under a subscriber, delivery to a
\* session that is not subscribed, and the silent loss of a subscription are
\* excluded for every instance.
THEOREM ServiceImplemented == Spec => ImplementsService
<1> USE GatewayTypesAssumption, GatewayStateAssumption
<1>1. Init => Service!Init
  BY DEF Init, GatewayStateInit, ClientSessionInit, Service!Init,
         polledCanisters, failingCanisters, subscribedSessions
<1>2. TypeOK /\ SharedStateInv /\ [Next]_vars
        => Service!Next \/ UNCHANGED Service!vars
  <2> SUFFICES ASSUME TypeOK, SharedStateInv, [Next]_vars
               PROVE  Service!Next \/ UNCHANGED Service!vars
    OBVIOUS
  <2>1. ASSUME NEW s \in Sessions, ClientStep(s)
        PROVE  UNCHANGED <<data, clients, poller, channel>>
    BY <2>1
    DEF ClientStep, StartSession, ReceiveOpen, handle_setup_transition,
        ReceiveClose, ClientCloseMessage, ReceiveClientError,
        InvalidClientMessage, ClientStreamError, ReceiveClientMessage,
        ClientMessage, gatewayStateVars, clientSessionVars
  <2>2. ASSUME NEW s \in Sessions, ReceiveFromPoller(s)
        PROVE  Service!Next \/ UNCHANGED Service!vars
    <3>1. CASE ReceiveNone(s)
      BY <3>1, InvisibleStep
      DEF ReceiveNone, CanisterUpdateNone, gatewayStateVars, clientSessionVars
    <3>2. CASE ReceiveCanisterMessage(s)
      <4>1. /\ channel[s] > 0
            /\ channel' = [channel EXCEPT ![s] = @ - 1]
            /\ UNCHANGED <<data, clients, poller>>
        BY <3>2 DEF ReceiveCanisterMessage, CanisterMessage, gatewayStateVars
      <4>2. Service!Receive(s)
        BY <4>1 DEF Service!Receive, polledCanisters, failingCanisters,
                    subscribedSessions
      <4> QED
        BY <4>2 DEF Service!Next
    <3> QED
      BY <2>2, <3>1, <3>2 DEF ReceiveFromPoller
  <2>3. ASSUME NEW s \in Sessions, HandlerStep(s)
        PROVE  Service!Next \/ UNCHANGED Service!vars
    <3>1. CASE \/ GetCanisterIdPanics(s)
               \/ LockToInsert(s) \/ LockToUndo(s)
               \/ LockToClose(s) \/ LockAfterError(s)
               \/ RelayOpen(s) \/ RelayOpenFails(s)
               \/ call_ws_close(s)
      <4>1. UNCHANGED <<data, clients, poller, channel>>
        BY <3>1
        DEF GetCanisterIdPanics, LockToInsert, LockToUndo, LockToClose,
            LockAfterError, EnterGatewayState, LockEntry, RelayOpen,
            RelayOpenFails, call_ws_close, CallIc, gatewayStateVars,
            clientSessionVars
      <4> QED
        BY <4>1, InvisibleStep
    <3>2. CASE InsertClient(s)
      <4>1. canister_id[s] \in Canisters
        BY <3>2 DEF InsertClient, GoTo, SharedStateInv, SetupInv, TypeOK,
                    ClientSessionTypeOK, LockingHandler
      <4> QED
        BY <3>2, <4>1, InsertionJoins DEF Service!Next
    <3>3. CASE start_poller(s)
      <4>1. /\ UNCHANGED <<data, clients, channel>>
            /\ poller[s] = "allocated"
            /\ poller' = [poller EXCEPT ![s] = "poll"]
        BY <3>3 DEF start_poller, PollerGoTo, gatewayStateVars,
                    clientSessionVars
      <4>2. UNCHANGED failingCanisters
        BY <4>1 DEF failingCanisters, TypeOK, GatewayStateTypeOK
      <4> QED
        BY <4>1, <4>2 DEF Service!vars, polledCanisters, subscribedSessions
    <3>4. CASE UndoInsertion(s) \/ RemoveClosed(s) \/ RemoveAfterError(s)
      <4>1. /\ RemoveKey(s, canister_id[s])
            /\ UNCHANGED <<poller, channel>>
            /\ handler[s] \in LockingHandler
        BY <3>4 DEF UndoInsertion, RemoveClosed, RemoveAfterError, GoTo,
                    remove_client, remove_client_if_exists,
                    clientSessionVars, LockingHandler
      <4>2. canister_id[s] # None /\ canister_id[s] \in Canisters
        BY <4>1 DEF SharedStateInv, SetupInv, TypeOK, ClientSessionTypeOK
      <4> QED
        BY <4>1, <4>2, RemovalLeaves DEF Service!Next
    <3> QED
      BY <2>3, <3>1, <3>2, <3>3, <3>4 DEF HandlerStep
  <2>4. ASSUME NEW s \in Sessions, WriteReturns(s)
        PROVE  UNCHANGED <<data, clients, poller, channel>>
    BY <2>4
    DEF WriteReturns, MessageSent, CanisterMessageSent, MessageNotSent,
        SessionDropped, SetupRefused, gatewayStateVars, clientSessionVars
  <2>5. CASE UNCHANGED vars
    BY <2>5, InvisibleStep DEF vars, gatewayStateVars, clientSessionVars
  <2> QED
    BY <2>1, <2>2, <2>3, <2>4, <2>5, InvisibleStep, PollerServes
    DEF Next, AllTasksEnded
<1> QED
  BY TypeCorrect, SharedStateCorrect, <1>1, <1>2, PTL
  DEF Spec, ImplementsService, Service!Spec

=============================================================================
