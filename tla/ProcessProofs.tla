---------------------------- MODULE ProcessProofs ---------------------------
(***************************************************************************)
(* Proofs of the safety properties of modules WsListener and               *)
(* GatewayProcess, for any number of connections, any capacity of the      *)
(* acceptor channel and any number of faults.                              *)
(***************************************************************************)
EXTENDS GatewayProcess, SequenceTheorems, TLAPS

-----------------------------------------------------------------------------
(***************************************************************************)
(* The listener.                                                           *)
(***************************************************************************)

\* A connection that moves on without being accepted or handled.
LEMMA ConnectionMoves ==
    ASSUME TypeOK, ListenerInv, NEW x \in Connections, NEW from, NEW to,
           GoTo(x, from, to), from # "channel",
           to \in ConnectionState,
           to \in {"handshake", "ready", "channel"} => client_id[x] # None,
           UNCHANGED <<idVars, acceptor_channel, listener>>
    PROVE  /\ connection' \in [Connections -> ConnectionState]
           /\ ListenerInv'
<1>1. connection' \in [Connections -> ConnectionState]
  BY DEF GoTo, TypeOK
<1>2. connection'[x] = to /\ \A y \in Connections : y # x => connection'[y] = connection[y]
  BY DEF GoTo, TypeOK
<1>3. IdsInv'
  BY DEF ListenerInv, IdsInv, idVars
<1>4. \A j \in 1 .. Len(acceptor_channel) :
          acceptor_channel[j] \in Connections /\ acceptor_channel[j] # x
  <2> SUFFICES ASSUME NEW j \in 1 .. Len(acceptor_channel)
               PROVE  acceptor_channel[j] \in Connections /\ acceptor_channel[j] # x
    OBVIOUS
  <2>1. acceptor_channel[j] \in Connections
    BY ElementOfSeq DEF TypeOK
  <2>2. connection[acceptor_channel[j]] = "channel"
    BY DEF ListenerInv, AcceptedInv
  <2> QED
    BY <2>1, <2>2 DEF GoTo
<1>5. AcceptedInv'
  BY <1>2, <1>4 DEF ListenerInv, AcceptedInv, idVars
<1> QED
  BY <1>1, <1>3, <1>5 DEF ListenerInv

\* accept_connection gives the connection an id that no other one has.
LEMMA AcceptStep ==
    ASSUME TypeOK, ListenerInv, NEW x \in Connections, accept_connection(x)
    PROVE  TypeOK' /\ ListenerInv'
<1>1. /\ connection[x] = "backlog"
      /\ connection' = [connection EXCEPT ![x] = "handshake"]
      /\ client_id' = [client_id EXCEPT ![x] = next_client_id]
      /\ clients_connection_time' = clients_connection_time \cup {next_client_id}
      /\ next_client_id' = next_client_id + 1
      /\ UNCHANGED <<acceptor_channel, accepting, listener, accept_errors>>
  BY DEF accept_connection, GoTo
<1>2. /\ next_client_id \in Nat
      /\ next_client_id # None
      /\ client_id \in [Connections -> Nat \cup {None}]
  BY WsListenerAssumption DEF TypeOK
<1>3. /\ client_id'[x] = next_client_id
      /\ \A y \in Connections : y # x => client_id'[y] = client_id[y]
  BY <1>1, <1>2
<1>4. /\ connection'[x] = "handshake"
      /\ \A y \in Connections : y # x => connection'[y] = connection[y]
  BY <1>1 DEF TypeOK
<1>5. TypeOK'
  <2>1. connection' \in [Connections -> ConnectionState]
    BY <1>1 DEF TypeOK, ConnectionState
  <2>2. /\ client_id' \in [Connections -> Nat \cup {None}]
        /\ next_client_id' \in Nat
        /\ clients_connection_time' \subseteq Nat
    BY <1>1, <1>2 DEF TypeOK
  <2> QED
    BY <1>1, <2>1, <2>2 DEF TypeOK
<1>6. IdsInv'
  <2>1. \A y \in Connections : y # x /\ client_id[y] # None =>
          /\ client_id[y] \in Nat
          /\ client_id[y] < next_client_id
          /\ client_id[y] \in clients_connection_time
    BY <1>2 DEF ListenerInv, IdsInv
  <2>2. ASSUME NEW y \in Connections, client_id'[y] # None
        PROVE  client_id'[y] < next_client_id' /\ client_id'[y] \in clients_connection_time'
    <3>1. CASE y = x
      BY <1>1, <1>2, <1>3, <3>1
    <3>2. CASE y # x
      BY <1>1, <1>2, <1>3, <2>1, <2>2, <3>2
    <3> QED
      BY <3>1, <3>2
  <2>3. ASSUME NEW y \in Connections, NEW z \in Connections,
               client_id'[y] # None, client_id'[y] = client_id'[z]
        PROVE  y = z
    <3>1. CASE y # x /\ z # x
      BY <1>3, <2>3, <3>1 DEF ListenerInv, IdsInv
    <3>2. CASE y = x /\ z # x
      BY <1>2, <1>3, <2>1, <2>3, <3>2
    <3>3. CASE y # x /\ z = x
      BY <1>2, <1>3, <2>1, <2>3, <3>3
    <3> QED
      BY <3>1, <3>2, <3>3
  <2> QED
    BY <2>2, <2>3 DEF IdsInv
<1>7. AcceptedInv'
  <2>1. \A y \in Connections :
          connection'[y] \in {"handshake", "ready", "channel"} => client_id'[y] # None
    BY <1>2, <1>3, <1>4 DEF ListenerInv, AcceptedInv
  <2>2. \A j \in 1 .. Len(acceptor_channel) : connection'[acceptor_channel[j]] = "channel"
    <3> SUFFICES ASSUME NEW j \in 1 .. Len(acceptor_channel)
                 PROVE  connection'[acceptor_channel[j]] = "channel"
      OBVIOUS
    <3>1. acceptor_channel[j] \in Connections
      BY ElementOfSeq DEF TypeOK
    <3>2. connection[acceptor_channel[j]] = "channel"
      BY DEF ListenerInv, AcceptedInv
    <3> QED
      BY <1>1, <1>4, <3>1, <3>2
  <2> QED
    BY <1>1, <2>1, <2>2 DEF ListenerInv, AcceptedInv
<1> QED
  BY <1>1, <1>5, <1>6, <1>7 DEF ListenerInv

\* An acceptor task adds its connection to the channel, where it is not yet.
LEMMA SendAcceptedStep ==
    ASSUME TypeOK, ListenerInv, NEW x \in Connections, SendAccepted(x)
    PROVE  TypeOK' /\ ListenerInv'
<1> DEFINE n == Len(acceptor_channel)
<1>1. /\ connection[x] = "ready"
      /\ connection' = [connection EXCEPT ![x] = "channel"]
      /\ n < AcceptorChannelCapacity
      /\ acceptor_channel' = Append(acceptor_channel, x)
      /\ UNCHANGED <<client_id, next_client_id, clients_connection_time,
                     accepting, listener, accept_errors>>
  BY DEF SendAccepted, GoTo, idVars
<1>2. /\ connection'[x] = "channel"
      /\ \A y \in Connections : y # x => connection'[y] = connection[y]
  BY <1>1 DEF TypeOK
<1>3. acceptor_channel \in Seq(Connections)
  BY DEF TypeOK
<1>4. /\ acceptor_channel' \in Seq(Connections)
      /\ n \in Nat
      /\ Len(acceptor_channel') = n + 1
      /\ \A j \in 1 .. n : acceptor_channel'[j] = acceptor_channel[j]
      /\ acceptor_channel'[n + 1] = x
  BY <1>1, <1>3, AppendProperties, LenProperties
<1>5. \A j \in 1 .. n : /\ acceptor_channel[j] \in Connections
                        /\ connection[acceptor_channel[j]] = "channel"
                        /\ acceptor_channel[j] # x
  <2>1. \A j \in 1 .. n : acceptor_channel[j] \in Connections
    BY <1>3, ElementOfSeq
  <2>2. \A j \in 1 .. n : connection[acceptor_channel[j]] = "channel"
    BY DEF ListenerInv, AcceptedInv
  <2> QED
    BY <1>1, <2>1, <2>2
<1>6. \A j, k \in 1 .. n : acceptor_channel[j] = acceptor_channel[k] => j = k
  BY DEF ListenerInv, AcceptedInv
<1> HIDE DEF n
<1>7. TypeOK'
  <2>1. connection' \in [Connections -> ConnectionState]
    BY <1>1 DEF TypeOK, ConnectionState
  <2>2. Len(acceptor_channel') <= AcceptorChannelCapacity
    BY <1>1, <1>4, WsListenerAssumption
  <2> QED
    BY <1>1, <1>4, <2>1, <2>2 DEF TypeOK
<1>8. IdsInv'
  BY <1>1 DEF ListenerInv, IdsInv
<1>9. \A y \in Connections :
        connection'[y] \in {"handshake", "ready", "channel"} => client_id'[y] # None
  BY <1>1, <1>2 DEF ListenerInv, AcceptedInv
<1>10. \A j \in 1 .. n + 1 : j \in 1 .. n \/ j = n + 1
  BY <1>4
<1>11. \A j \in 1 .. n + 1 : connection'[acceptor_channel'[j]] = "channel"
  BY <1>2, <1>4, <1>5, <1>10
<1>12. ASSUME NEW j \in 1 .. n + 1, NEW k \in 1 .. n + 1,
              acceptor_channel'[j] = acceptor_channel'[k]
       PROVE  j = k
  <2>1. CASE j \in 1 .. n /\ k \in 1 .. n
    BY <1>4, <1>6, <1>12, <2>1
  <2>2. CASE j \in 1 .. n /\ k = n + 1
    BY <1>4, <1>5, <1>12, <2>2
  <2>3. CASE j = n + 1 /\ k \in 1 .. n
    BY <1>4, <1>5, <1>12, <2>3
  <2> QED
    BY <1>10, <2>1, <2>2, <2>3
<1>13. AcceptedInv'
  BY <1>4, <1>9, <1>11, <1>12 DEF AcceptedInv
<1> QED
  BY <1>1, <1>7, <1>8, <1>13 DEF ListenerInv

\* The connection at the head of the channel has an id with its time of
\* connection: the unwrap does not panic.
LEMMA StartHandlerStep ==
    ASSUME TypeOK, ListenerInv, start_session_handler
    PROVE  TypeOK' /\ ListenerInv'
<1> DEFINE x == Head(acceptor_channel)
<1>1. /\ acceptor_channel # <<>>
      /\ acceptor_channel' = Tail(acceptor_channel)
      /\ accepting' = TRUE
      /\ listener' = IF client_id[x] \in clients_connection_time
                     THEN "running" ELSE "panicked"
      /\ connection[x] = "channel"
      /\ connection' = [connection EXCEPT ![x] = "handled"]
      /\ UNCHANGED <<client_id, next_client_id, clients_connection_time,
                     accept_errors>>
  BY DEF start_session_handler, GoTo, idVars
<1>2. acceptor_channel \in Seq(Connections)
  BY DEF TypeOK
<1>3. /\ x \in Connections
      /\ x = acceptor_channel[1]
      /\ acceptor_channel' \in Seq(Connections)
      /\ Len(acceptor_channel') = Len(acceptor_channel) - 1
      /\ \A j \in 1 .. Len(acceptor_channel') : acceptor_channel'[j] = acceptor_channel[j + 1]
  BY <1>1, <1>2, HeadTailProperties
<1>4. Len(acceptor_channel) \in Nat \ {0}
  BY <1>1, <1>2, EmptySeq
<1>5. /\ 1 \in 1 .. Len(acceptor_channel)
      /\ \A j \in 1 .. Len(acceptor_channel') :
            /\ j + 1 \in 1 .. Len(acceptor_channel)
            /\ j + 1 # 1
  BY <1>3, <1>4
<1> HIDE DEF x
<1>6. /\ connection'[x] = "handled"
      /\ \A y \in Connections : y # x => connection'[y] = connection[y]
  BY <1>1, <1>3 DEF TypeOK
<1>7. listener' = "running"
  <2>1. client_id[x] # None
    BY <1>1, <1>3 DEF ListenerInv, AcceptedInv
  <2>2. client_id[x] \in clients_connection_time
    BY <1>3, <2>1 DEF ListenerInv, IdsInv
  <2> QED
    BY <1>1, <2>2
<1>8. TypeOK'
  <2>1. connection' \in [Connections -> ConnectionState]
    BY <1>1 DEF TypeOK, ConnectionState
  <2>2. Len(acceptor_channel') <= AcceptorChannelCapacity
    <3>1. Len(acceptor_channel) <= AcceptorChannelCapacity
      BY DEF TypeOK
    <3> QED
      BY <1>3, <1>4, <3>1, WsListenerAssumption
  <2> QED
    BY <1>1, <1>3, <1>7, <2>1, <2>2 DEF TypeOK
<1>9. IdsInv'
  BY <1>1 DEF ListenerInv, IdsInv
<1>10. \A y \in Connections :
        connection'[y] \in {"handshake", "ready", "channel"} => client_id'[y] # None
  BY <1>1, <1>3, <1>6 DEF ListenerInv, AcceptedInv
<1>11. \A j, k \in 1 .. Len(acceptor_channel) :
          acceptor_channel[j] = acceptor_channel[k] => j = k
  BY DEF ListenerInv, AcceptedInv
<1>12. ASSUME NEW j \in 1 .. Len(acceptor_channel')
       PROVE  connection'[acceptor_channel'[j]] = "channel"
  <2>1. acceptor_channel'[j] = acceptor_channel[j + 1]
    BY <1>3
  <2>2. acceptor_channel[j + 1] \in Connections
    BY <1>2, <1>5, ElementOfSeq
  <2>3. connection[acceptor_channel[j + 1]] = "channel"
    BY <1>5 DEF ListenerInv, AcceptedInv
  <2>4. acceptor_channel[j + 1] # x
    BY <1>3, <1>5, <1>11
  <2> QED
    BY <1>6, <2>1, <2>2, <2>3, <2>4
<1>13. ASSUME NEW j \in 1 .. Len(acceptor_channel'),
              NEW k \in 1 .. Len(acceptor_channel'),
              acceptor_channel'[j] = acceptor_channel'[k]
       PROVE  j = k
  <2>1. acceptor_channel[j + 1] = acceptor_channel[k + 1]
    BY <1>3, <1>13
  <2>2. j + 1 = k + 1
    BY <1>5, <1>11, <2>1
  <2>3. j \in Nat /\ k \in Nat
    BY <1>3, <1>4
  <2> QED
    BY <2>2, <2>3
<1>14. AcceptedInv'
  BY <1>10, <1>12, <1>13 DEF AcceptedInv
<1> QED
  BY <1>7, <1>8, <1>9, <1>14 DEF ListenerInv

\* The steps of the listener and of its acceptor tasks.
LEMMA ListenerStep ==
    ASSUME TypeOK, ListenerInv, Next
    PROVE  TypeOK' /\ ListenerInv'
<1>1. ASSUME NEW x \in Connections, Connect(x)
      PROVE  TypeOK' /\ ListenerInv'
  <2>1. /\ GoTo(x, "absent", "backlog")
        /\ UNCHANGED <<idVars, acceptor_channel, accepting, listener, accept_errors>>
    BY <1>1 DEF Connect
  <2>2. connection' \in [Connections -> ConnectionState] /\ ListenerInv'
    BY <2>1, ConnectionMoves DEF ConnectionState
  <2> QED
    BY <2>1, <2>2 DEF TypeOK, idVars
<1>2. ASSUME NEW x \in Connections, HandshakeFails(x) \/ HandshakeSucceeds(x)
      PROVE  TypeOK' /\ ListenerInv'
  <2>1. /\ GoTo(x, "handshake", "refused") \/ GoTo(x, "handshake", "ready")
        /\ UNCHANGED <<idVars, acceptor_channel, accepting, listener, accept_errors>>
    BY <1>2 DEF HandshakeFails, HandshakeSucceeds
  <2>2. client_id[x] # None
    BY <2>1 DEF GoTo, ListenerInv, AcceptedInv
  <2>3. connection' \in [Connections -> ConnectionState] /\ ListenerInv'
    BY <2>1, <2>2, ConnectionMoves DEF ConnectionState
  <2> QED
    BY <2>1, <2>3 DEF TypeOK, idVars
<1>3. CASE AcceptFails
  <2>1. /\ accept_errors < MaxAcceptErrors
        /\ accept_errors' = accept_errors + 1
        /\ accepting' = FALSE
        /\ UNCHANGED <<connection, client_id, next_client_id,
                       clients_connection_time, acceptor_channel, listener>>
    BY <1>3 DEF AcceptFails, idVars
  <2>2. accept_errors' \in 0 .. MaxAcceptErrors
    BY <2>1, WsListenerAssumption DEF TypeOK
  <2>3. TypeOK'
    BY <2>1, <2>2 DEF TypeOK
  <2>4. ListenerInv'
    BY <2>1 DEF ListenerInv, IdsInv, AcceptedInv
  <2> QED
    BY <2>3, <2>4
<1> QED
  BY <1>1, <1>2, <1>3, AcceptStep, SendAcceptedStep, StartHandlerStep
     DEF Next, AcceptorTask

\* The listener starts without connections.
LEMMA ListenerStarts ==
    ASSUME Init
    PROVE  TypeOK /\ ListenerInv
<1> USE WsListenerAssumption DEF Init
<1>1. acceptor_channel \in Seq(Connections) /\ Len(acceptor_channel) = 0
  BY EmptySeq
<1>2. TypeOK
  BY <1>1 DEF TypeOK, ConnectionState
<1>3. IdsInv
  BY DEF IdsInv
<1>4. AcceptedInv
  BY <1>1 DEF AcceptedInv
<1> QED
  BY <1>2, <1>3, <1>4 DEF ListenerInv

\* Steps that leave the listener alone.
LEMMA ListenerUnchanged ==
    ASSUME UNCHANGED vars
    PROVE  (TypeOK <=> TypeOK') /\ (ListenerInv <=> ListenerInv')
  BY DEF vars, TypeOK, ListenerInv, IdsInv, AcceptedInv

\* While the gateway runs, every accepted connection has an id of its own and
\* the listener never panics on the connection time that it looks up.
THEOREM ListenerIdsHold == Spec => []IdsIdentifyConnections
<1>1. TypeOK /\ ListenerInv /\ [Next]_vars => (TypeOK /\ ListenerInv)'
  BY ListenerStep, ListenerUnchanged
<1>2. ListenerInv => IdsIdentifyConnections
  BY DEF ListenerInv, IdsInv, IdsIdentifyConnections
<1> QED
  BY <1>1, <1>2, ListenerStarts, PTL DEF Spec

-----------------------------------------------------------------------------
(***************************************************************************)
(* The process.                                                            *)
(***************************************************************************)

\* Numbers of key pairs are not None, and not that of an empty file.
LEMMA KeyPairNumbers ==
    /\ None \notin KeyPairs
    /\ 0 \notin KeyPairs
    /\ None # 0
    /\ KeyPairs \subseteq Nat
  BY WsListenerAssumption, GatewayProcessAssumption DEF KeyPairs

\* The steps of main that neither generate nor write a key pair.
LEMMA ProceedStep ==
    ASSUME ProcessTypeOK, ProcessInv, NEW from, NEW to, Proceed(from, to),
           to \in {"down", "serving"} \cup StartupStep,
           to \notin {"write_file", "write_key"},
           from # "write_file",
           dirs' \subseteq {"data", "traces"},
           UNCHANGED key_file,
           \/ UNCHANGED key_pair
           \/ key_pair' = key_file /\ key_file \in KeyPairs,
           to \in {"new_manager", "init_tracing", "init_metrics",
                   "start_accepting", "serving"}
             => key_pair' = key_file /\ key_file \in KeyPairs
    PROVE  ProcessTypeOK' /\ ProcessInv'
<1>1. process = from /\ process' = to
      /\ UNCHANGED <<vars, generated, principal_sent, faults>>
  BY DEF Proceed
<1>2. TypeOK' /\ ListenerInv'
  BY <1>1, ListenerUnchanged DEF ProcessTypeOK, ProcessInv
<1>3. ProcessTypeOK'
  BY <1>1, <1>2 DEF ProcessTypeOK
<1>4. GeneratedInv'
  BY <1>1 DEF ProcessInv, GeneratedInv
<1>5. KeyPairInv'
  BY <1>1 DEF KeyPairInv
<1>6. PrincipalsInv'
  BY <1>1 DEF ProcessInv, PrincipalsInv
<1> QED
  BY <1>2, <1>3, <1>4, <1>5, <1>6 DEF ProcessInv

\* A key pair is generated when there is no file, so that no client knows one.
LEMMA GenerateStep ==
    ASSUME ProcessTypeOK, ProcessInv, GenerateKeyPair
    PROVE  ProcessTypeOK' /\ ProcessInv'
<1> USE GatewayProcessAssumption
<1>1. /\ process = "load_key_pair"
      /\ key_file = None
      /\ process' = "write_file"
      /\ generated' = generated + 1
      /\ key_pair' = generated'
      /\ UNCHANGED <<vars, dirs, key_file, principal_sent, faults>>
  BY DEF GenerateKeyPair, diskVars
<1>2. TypeOK' /\ ListenerInv'
  BY <1>1, ListenerUnchanged DEF ProcessTypeOK, ProcessInv
<1>3. generated \in Nat /\ faults \in 0 .. MaxFaults
  BY KeyPairNumbers DEF ProcessTypeOK
<1>4. generated <= faults
  BY <1>1 DEF ProcessInv, GeneratedInv
<1>5. /\ generated + 1 \in KeyPairs
      /\ generated + 1 # 0
      /\ generated + 1 <= faults + 1
  BY <1>3, <1>4 DEF KeyPairs
<1>6. ProcessTypeOK'
  BY <1>1, <1>2, <1>5 DEF ProcessTypeOK, StartupStep
<1>7. GeneratedInv' /\ KeyPairInv'
  BY <1>1, <1>5 DEF GeneratedInv, KeyPairInv
<1>8. PrincipalsInv'
  BY <1>1 DEF ProcessInv, PrincipalsInv
<1> QED
  BY <1>2, <1>6, <1>7, <1>8 DEF ProcessInv

\* The file is created and then written while no client knows a principal.
LEMMA WriteStep ==
    ASSUME ProcessTypeOK, ProcessInv, CreateKeyFile \/ WriteKeyPair
    PROVE  ProcessTypeOK' /\ ProcessInv'
<1>1. /\ UNCHANGED <<vars, dirs, key_pair, generated, principal_sent, faults>>
      /\ \/ /\ process = "write_file" /\ process' = "write_key"
            /\ key_file' = 0
         \/ /\ process = "write_key" /\ process' = "new_manager"
            /\ key_file' = key_pair
  BY DEF CreateKeyFile, WriteKeyPair, Proceed
<1>2. TypeOK' /\ ListenerInv'
  BY <1>1, ListenerUnchanged DEF ProcessTypeOK, ProcessInv
<1>3. /\ key_file = None \/ key_file = 0
      /\ key_pair = generated
      /\ generated # 0
  BY <1>1 DEF ProcessInv, KeyPairInv
<1>4. key_pair \in KeyPairs
  BY <1>3 DEF ProcessTypeOK
<1>5. key_file' \in KeyPairs \cup {0} /\ key_file' # None
  BY <1>1, <1>4, KeyPairNumbers
<1>6. ProcessTypeOK'
  BY <1>1, <1>2, <1>5 DEF ProcessTypeOK, StartupStep
<1>7. GeneratedInv'
  BY <1>1, <1>5 DEF ProcessInv, GeneratedInv
<1>8. KeyPairInv'
  BY <1>1, <1>3, <1>4 DEF KeyPairInv
<1>9. \A x \in Connections : principal_sent[x] = None
  <2> SUFFICES ASSUME NEW x \in Connections, principal_sent[x] # None
               PROVE  FALSE
    OBVIOUS
  <2>1. principal_sent[x] \in KeyPairs
    BY DEF ProcessTypeOK
  <2>2. key_file = principal_sent[x]
    BY DEF ProcessInv, PrincipalsInv
  <2> QED
    BY <1>3, <2>1, <2>2, KeyPairNumbers
<1>10. PrincipalsInv'
  BY <1>1, <1>9 DEF PrincipalsInv
<1> QED
  BY <1>2, <1>6, <1>7, <1>8, <1>10 DEF ProcessInv

\* A client is sent the principal of the key pair on disk.
LEMMA StartSessionStep ==
    ASSUME ProcessTypeOK, ProcessInv, StartSession
    PROVE  ProcessTypeOK' /\ ProcessInv'
<1>1. /\ process = "serving"
      /\ start_session_handler
      /\ principal_sent' = [principal_sent EXCEPT ![Head(acceptor_channel)] = key_pair]
      /\ UNCHANGED <<process, dirs, key_file, key_pair, generated, faults>>
  BY DEF StartSession, processVars, diskVars
<1>2. TypeOK' /\ ListenerInv'
  BY <1>1, StartHandlerStep DEF ProcessTypeOK, ProcessInv
<1>3. key_pair = key_file /\ key_pair \in KeyPairs
  BY <1>1 DEF ProcessInv, KeyPairInv
<1>4. ProcessTypeOK'
  BY <1>1, <1>2, <1>3 DEF ProcessTypeOK
<1>5. GeneratedInv' /\ KeyPairInv'
  BY <1>1 DEF ProcessInv, GeneratedInv, KeyPairInv
<1>6. \A x \in Connections : principal_sent'[x] = key_pair
                               \/ principal_sent'[x] = principal_sent[x]
  BY <1>1 DEF ProcessTypeOK
<1>7. PrincipalsInv'
  BY <1>1, <1>3, <1>6 DEF ProcessInv, PrincipalsInv
<1> QED
  BY <1>2, <1>4, <1>5, <1>7 DEF ProcessInv

\* The process stops: what is on disk stays, and so does what clients know.
LEMMA StopStep ==
    ASSUME ProcessTypeOK, ProcessInv, ProcessStops
    PROVE  ProcessTypeOK' /\ ProcessInv'
<1> USE GatewayProcessAssumption, WsListenerAssumption
<1>1. /\ faults < MaxFaults
      /\ faults' = faults + 1
      /\ process' = "down"
      /\ key_pair' = None
      /\ UNCHANGED <<dirs, key_file, generated, principal_sent>>
  BY DEF ProcessStops, diskVars
<1>2. /\ client_id' = [x \in Connections |-> None]
      /\ next_client_id' = 0
      /\ clients_connection_time' = {}
      /\ acceptor_channel' = <<>>
      /\ accepting' = TRUE
      /\ listener' = "running"
      /\ UNCHANGED accept_errors
  BY DEF ProcessStops
<1>3. \A x \in Connections : connection'[x] = "absent" \/ connection'[x] = "refused"
  BY DEF ProcessStops
<1>4. connection' \in [Connections -> ConnectionState]
  BY DEF ProcessStops, ConnectionState
<1>5. acceptor_channel' \in Seq(Connections) /\ Len(acceptor_channel') = 0
  BY <1>2, EmptySeq
<1>6. TypeOK'
  BY <1>2, <1>4, <1>5 DEF ProcessTypeOK, TypeOK
<1>7. ListenerInv'
  <2>1. IdsInv'
    BY <1>2 DEF IdsInv
  <2>2. AcceptedInv'
    BY <1>3, <1>5 DEF AcceptedInv
  <2> QED
    BY <1>2, <2>1, <2>2 DEF ListenerInv
<1>8. faults \in 0 .. MaxFaults /\ generated \in Nat /\ generated <= faults + 1
  BY KeyPairNumbers DEF ProcessTypeOK, ProcessInv, GeneratedInv
<1>9. /\ faults' \in 0 .. MaxFaults
      /\ generated' <= faults'
      /\ generated' <= faults' + 1
  BY <1>1, <1>8
<1>10. ProcessTypeOK'
  BY <1>1, <1>6, <1>9 DEF ProcessTypeOK
<1>11. GeneratedInv' /\ KeyPairInv'
  BY <1>1, <1>9 DEF GeneratedInv, KeyPairInv
<1>12. PrincipalsInv'
  BY <1>1 DEF ProcessInv, PrincipalsInv
<1> QED
  BY <1>7, <1>10, <1>11, <1>12 DEF ProcessInv

\* A step of the listener while the process is serving.
LEMMA ServingStep ==
    ASSUME ProcessTypeOK, ProcessInv, Next, process = "serving",
           UNCHANGED <<processVars, principal_sent>>
    PROVE  ProcessTypeOK' /\ ProcessInv'
<1>1. TypeOK' /\ ListenerInv'
  BY ListenerStep DEF ProcessTypeOK, ProcessInv
<1>2. ProcessTypeOK'
  BY <1>1 DEF ProcessTypeOK, processVars, diskVars
<1>3. GeneratedInv' /\ KeyPairInv' /\ PrincipalsInv'
  BY DEF ProcessInv, GeneratedInv, KeyPairInv, PrincipalsInv, processVars, diskVars
<1> QED
  BY <1>1, <1>2, <1>3 DEF ProcessInv

\* The steps of main.
LEMMA StartupStepKeepsInv ==
    ASSUME ProcessTypeOK, ProcessInv, StartupProceeds
    PROVE  ProcessTypeOK' /\ ProcessInv'
<1> USE DEF StartupStep, diskVars
<1>1. CASE StartProcess
  BY <1>1, ProceedStep DEF StartProcess, ProcessTypeOK
<1>2. CASE create_data_dir
  BY <1>2, ProceedStep DEF create_data_dir, ProcessTypeOK
<1>3. CASE ReadKeyPair
  BY <1>3, ProceedStep DEF ReadKeyPair, ProcessTypeOK
<1>4. CASE KeyPairInvalid
  BY <1>4, ProceedStep DEF KeyPairInvalid, ProcessTypeOK
<1>5. ASSUME process \in {"new_manager", "init_tracing", "init_metrics",
                          "start_accepting"}
      PROVE  key_pair = key_file /\ key_file \in KeyPairs
  BY <1>5 DEF ProcessInv, KeyPairInv
<1>6. CASE NewManager
  BY <1>5, <1>6, ProceedStep DEF NewManager, Proceed, ProcessTypeOK
<1>7. CASE init_tracing
  BY <1>5, <1>7, ProceedStep DEF init_tracing, Proceed, ProcessTypeOK
<1>8. CASE init_metrics
  BY <1>5, <1>8, ProceedStep DEF init_metrics, Proceed, ProcessTypeOK
<1>9. CASE StartAccepting
  BY <1>5, <1>9, ProceedStep DEF StartAccepting, Proceed, ProcessTypeOK
<1> QED
  BY <1>1, <1>2, <1>3, <1>4, <1>6, <1>7, <1>8, <1>9, GenerateStep, WriteStep
     DEF StartupProceeds

\* The process, its key pair and the key file, the listener and what the
\* clients know: the inductive invariant, across any number of faults.
THEOREM ProcessInvariant == ProcessSpec => [](ProcessTypeOK /\ ProcessInv)
<1>1. ProcessInit => ProcessTypeOK /\ ProcessInv
  <2> SUFFICES ASSUME ProcessInit
               PROVE  ProcessTypeOK /\ ProcessInv
    OBVIOUS
  <2> USE GatewayProcessAssumption DEF ProcessInit
  <2>1. TypeOK /\ ListenerInv
    BY ListenerStarts
  <2>2. ProcessTypeOK
    BY <2>1 DEF ProcessTypeOK
  <2>3. GeneratedInv /\ KeyPairInv /\ PrincipalsInv
    BY DEF GeneratedInv, KeyPairInv, PrincipalsInv
  <2> QED
    BY <2>1, <2>2, <2>3 DEF ProcessInv
<1>2. ProcessTypeOK /\ ProcessInv /\ [ProcessNext]_allVars
        => (ProcessTypeOK /\ ProcessInv)'
  <2> SUFFICES ASSUME ProcessTypeOK, ProcessInv, [ProcessNext]_allVars
               PROVE  ProcessTypeOK' /\ ProcessInv'
    OBVIOUS
  <2>1. CASE UNCHANGED allVars
    <3>1. TypeOK' /\ ListenerInv'
      BY <2>1, ListenerUnchanged DEF allVars, ProcessTypeOK, ProcessInv
    <3> QED
      BY <2>1, <3>1 DEF allVars, processVars, diskVars, ProcessTypeOK, ProcessInv,
                        GeneratedInv, KeyPairInv, PrincipalsInv
  <2>2. ASSUME NEW x \in Connections,
               \/ Serving(Connect(x))
               \/ Serving(accept_connection(x))
               \/ Serving(AcceptorTask(x))
        PROVE  ProcessTypeOK' /\ ProcessInv'
    BY <2>2, ServingStep DEF Serving, Next
  <2>3. CASE Serving(AcceptFails)
    BY <2>3, ServingStep DEF Serving, Next
  <2> QED
    BY <2>1, <2>2, <2>3, StartupStepKeepsInv, StartSessionStep, StopStep
       DEF ProcessNext
<1> QED
  BY <1>1, <1>2, PTL DEF ProcessSpec

\* The process, its disk, its keys and its listener keep their types: in
\* particular there are no more key pairs than starts of the process, and the
\* acceptor channel keeps to its capacity.
THEOREM ProcessTypeCorrect == ProcessSpec => []ProcessTypeOK
  BY ProcessInvariant, PTL

\* Ids identify connections and the listener does not panic, also after the
\* process was started again.
THEOREM IdsIdentifyConnectionsHolds == ProcessSpec => []IdsIdentifyConnections
<1>1. ProcessInv => IdsIdentifyConnections
  BY DEF ProcessInv, ListenerInv, IdsInv, IdsIdentifyConnections
<1> QED
  BY <1>1, ProcessInvariant, PTL

\* Whenever the process stops, between any two steps of load_key_pair too, all
\* clients are sent one and the same gateway principal.
THEOREM PrincipalStableHolds == ProcessSpec => []PrincipalStable
<1>1. ProcessInv => PrincipalStable
  BY DEF ProcessInv, PrincipalsInv, PrincipalStable
<1> QED
  BY <1>1, ProcessInvariant, PTL

\* load_key_pair writes the file only when there was none: an existing key pair
\* is never overwritten.
THEOREM KeyFileKeptHolds == ProcessSpec => KeyFileKept
<1>1. ProcessInv /\ [ProcessNext]_allVars
        => [key_file' # key_file => key_file \notin KeyPairs]_allVars
  <2> SUFFICES ASSUME ProcessInv, [ProcessNext]_allVars, key_file \in KeyPairs
               PROVE  key_file' = key_file
    OBVIOUS
  <2>1. ~ CreateKeyFile /\ ~ WriteKeyPair
    BY KeyPairNumbers DEF CreateKeyFile, WriteKeyPair, Proceed, ProcessInv,
                          KeyPairInv
  <2>2. CASE UNCHANGED allVars
    BY <2>2 DEF allVars, processVars, diskVars
  <2>3. CASE StartupProceeds
    BY <2>1, <2>3 DEF StartupProceeds, StartProcess, create_data_dir,
       GenerateKeyPair, ReadKeyPair, KeyPairInvalid, NewManager, init_tracing,
       init_metrics, StartAccepting, diskVars
  <2> QED
    BY <2>2, <2>3 DEF ProcessNext, Serving, StartSession, ProcessStops,
       processVars, diskVars
<1> QED
  BY <1>1, ProcessInvariant, PTL DEF ProcessSpec, KeyFileKept

=============================================================================
