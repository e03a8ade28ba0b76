----------------------------- MODULE WsListener -----------------------------
(***************************************************************************)
(* The listener of incoming connections (ws_listener.rs): one task that    *)
(* selects between TcpListener::accept and the channel on which the tasks  *)
(* that perform TLS handshakes return accepted connections.                *)
(*                                                                         *)
(*   connection       where each connection is: "absent", "backlog" (in    *)
(*                    the backlog of the socket), "handshake" (its acceptor *)
(*                    task performs the TLS handshake), "ready" (the task  *)
(*                    sends it to the listener), "channel", "handled" (its *)
(*                    session handler is started), "refused" (its socket   *)
(*                    is dropped)                                          *)
(*   client_id        the ClientId of each accepted connection             *)
(*   next_client_id   the id of the next connection                        *)
(*   clients_connection_time  the ids whose time of connection is stored   *)
(*   acceptor_channel the connections in tls_acceptor_channel              *)
(*   accepting        whether the accept branch of the current select! is  *)
(*                    still enabled: an accept error does not match the    *)
(*                    pattern Ok(..) and disables the branch until the     *)
(*                    select! completes with the other one                 *)
(*   listener         "running", or "panicked"                             *)
(*   accept_errors    how many times accept failed, for its bound only     *)
(***************************************************************************)
EXTENDS Naturals, Sequences

CONSTANTS
    Connections,
    AcceptorChannelCapacity,    \* mpsc::channel(100)
    TlsEnabled,
    MaxAcceptErrors,            \* bound: how many times accept fails
    None

ASSUME WsListenerAssumption ==
    /\ AcceptorChannelCapacity \in Nat \ {0}
    /\ TlsEnabled \in BOOLEAN
    /\ MaxAcceptErrors \in Nat
    /\ None \notin Nat

VARIABLES connection, client_id, next_client_id, clients_connection_time,
          acceptor_channel, accepting, listener, accept_errors

vars == <<connection, client_id, next_client_id, clients_connection_time,
          acceptor_channel, accepting, listener, accept_errors>>

idVars == <<client_id, next_client_id, clients_connection_time>>

ConnectionState ==
    {"absent", "backlog", "handshake", "ready", "channel", "handled", "refused"}

TypeOK ==
    /\ connection \in [Connections -> ConnectionState]
    /\ client_id \in [Connections -> Nat \cup {None}]
    /\ next_client_id \in Nat
    /\ clients_connection_time \subseteq Nat
    /\ acceptor_channel \in Seq(Connections)
    /\ Len(acceptor_channel) <= AcceptorChannelCapacity
    /\ accepting \in BOOLEAN
    /\ listener \in {"running", "panicked"}
    /\ accept_errors \in 0 .. MaxAcceptErrors

Init ==
    /\ connection = [x \in Connections |-> "absent"]
    /\ client_id = [x \in Connections |-> None]
    /\ next_client_id = 0
    /\ clients_connection_time = {}
    /\ acceptor_channel = <<>>
    /\ accepting = TRUE
    /\ listener = "running"
    /\ accept_errors = 0

GoTo(x, from, to) ==
    /\ connection[x] = from
    /\ connection' = [connection EXCEPT ![x] = to]

-----------------------------------------------------------------------------
(***************************************************************************)
(* The select! of listen_for_incoming_requests.                            *)
(***************************************************************************)

Connect(x) ==
    /\ GoTo(x, "absent", "backlog")
    /\ UNCHANGED <<idVars, acceptor_channel, accepting, listener, accept_errors>>

\* The task has not panicked and its accept branch is enabled.
AcceptBranchEnabled == listener = "running" /\ accepting

\* Mutant: the next connection gets the same id.
accept_connection_SameId(x) ==
    /\ AcceptBranchEnabled
    /\ GoTo(x, "backlog", "handshake")
    /\ client_id' = [client_id EXCEPT ![x] = next_client_id]
    /\ clients_connection_time' = clients_connection_time \cup {next_client_id}
    /\ UNCHANGED <<next_client_id, acceptor_channel, accepting, listener,
                   accept_errors>>

\* Mutant: the listener waits for the connection to be handed back.
accept_connection_Waits(x) ==
    /\ AcceptBranchEnabled
    /\ GoTo(x, "backlog", "handshake")
    /\ client_id' = [client_id EXCEPT ![x] = next_client_id]
    /\ clients_connection_time' = clients_connection_time \cup {next_client_id}
    /\ next_client_id' = next_client_id + 1
    /\ accepting' = FALSE
    /\ UNCHANGED <<acceptor_channel, listener, accept_errors>>

\* accept_connection, then the id is incremented.
accept_connection(x) ==
    /\ AcceptBranchEnabled
    /\ GoTo(x, "backlog", "handshake")
    /\ client_id' = [client_id EXCEPT ![x] = next_client_id]
    /\ clients_connection_time' = clients_connection_time \cup {next_client_id}
    /\ next_client_id' = next_client_id + 1
    /\ UNCHANGED <<acceptor_channel, accepting, listener, accept_errors>>

\* accept returns an error, for instance because no file descriptor is left.
AcceptFails ==
    /\ AcceptBranchEnabled
    /\ \E x \in Connections : connection[x] = "backlog"
    /\ accept_errors < MaxAcceptErrors
    /\ accept_errors' = accept_errors + 1
    /\ accepting' = FALSE
    /\ UNCHANGED <<connection, idVars, acceptor_channel, listener>>

\* Mutant: the accept branch is not enabled again.
start_session_handler_StaysDisabled ==
    LET x == Head(acceptor_channel) IN
    /\ listener = "running"
    /\ acceptor_channel # <<>>
    /\ acceptor_channel' = Tail(acceptor_channel)
    /\ GoTo(x, "channel", "handled")
    /\ UNCHANGED <<idVars, accepting, listener, accept_errors>>

\* The channel yields a connection, whose handler is spawned with its time of
\* connection (the unwrap panics if there is none).  The next select! has
\* both branches again.
start_session_handler ==
    LET x == Head(acceptor_channel) IN
    /\ listener = "running"
    /\ acceptor_channel # <<>>
    /\ acceptor_channel' = Tail(acceptor_channel)
    /\ accepting' = TRUE
    /\ listener' = IF client_id[x] \in clients_connection_time
                   THEN "running" ELSE "panicked"
    /\ GoTo(x, "channel", "handled")
    /\ UNCHANGED <<idVars, accept_errors>>

-----------------------------------------------------------------------------
(***************************************************************************)
(* The acceptor task of a connection.                                      *)
(***************************************************************************)

\* The handshake fails or takes longer than TlsAcceptorTimeout.
HandshakeFails(x) ==
    /\ TlsEnabled
    /\ GoTo(x, "handshake", "refused")
    /\ UNCHANGED <<idVars, acceptor_channel, accepting, listener, accept_errors>>

HandshakeSucceeds(x) ==
    /\ GoTo(x, "handshake", "ready")
    /\ UNCHANGED <<idVars, acceptor_channel, accepting, listener, accept_errors>>

\* Mutant: an unbounded channel.
SendAccepted_Unbounded(x) ==
    /\ GoTo(x, "ready", "channel")
    /\ acceptor_channel' = Append(acceptor_channel, x)
    /\ UNCHANGED <<idVars, accepting, listener, accept_errors>>

\* Mutant: try_send, which drops the connection when the channel is full.
SendAccepted_Lossy(x) ==
    LET room == Len(acceptor_channel) < AcceptorChannelCapacity IN
    /\ GoTo(x, "ready", IF room THEN "channel" ELSE "refused")
    /\ acceptor_channel' = IF room THEN Append(acceptor_channel, x)
                                   ELSE acceptor_channel
    /\ UNCHANGED <<idVars, accepting, listener, accept_errors>>

SendAccepted(x) ==
    /\ GoTo(x, "ready", "channel")
    /\ Len(acceptor_channel) < AcceptorChannelCapacity
    /\ acceptor_channel' = Append(acceptor_channel, x)
    /\ UNCHANGED <<idVars, accepting, listener, accept_errors>>

AcceptorTask(x) ==
    \/ HandshakeFails(x)
    \/ HandshakeSucceeds(x)
    \/ SendAccepted(x)

-----------------------------------------------------------------------------

Next ==
    \/ \E x \in Connections :
        Connect(x) \/ accept_connection(x) \/ AcceptorTask(x)
    \/ AcceptFails
    \/ start_session_handler

(***************************************************************************)
(* select! picks a ready branch at random, and the timeout ends every      *)
(* handshake.  Acceptor tasks that wait for room in the channel get it in  *)
(* their turn.  Clients need not connect, and accept need not fail.        *)
(***************************************************************************)
Fairness ==
    /\ \A x \in Connections :
        /\ WF_vars(accept_connection(x))
        /\ WF_vars(AcceptorTask(x))
    /\ WF_vars(start_session_handler)

Spec == Init /\ [][Next]_vars

FairSpec == Spec /\ Fairness

-----------------------------------------------------------------------------
(***************************************************************************)
(* The inductive invariant behind IdsIdentifyConnections.                  *)
(***************************************************************************)

\* Ids in use are below the next one and have a time of connection.
IdsInv ==
    /\ \A x \in Connections : client_id[x] # None =>
        client_id[x] < next_client_id /\ client_id[x] \in clients_connection_time
    /\ \A x, y \in Connections :
        client_id[x] # None /\ client_id[x] = client_id[y] => x = y

\* A connection has an id from its acceptance until its handler is started, and
\* is at most once in the channel of its acceptor task.
AcceptedInv ==
    /\ \A x \in Connections :
        connection[x] \in {"handshake", "ready", "channel"} => client_id[x] # None
    /\ \A j \in 1 .. Len(acceptor_channel) :
        connection[acceptor_channel[j]] = "channel"
    /\ \A j, k \in 1 .. Len(acceptor_channel) :
        acceptor_channel[j] = acceptor_channel[k] => j = k

ListenerInv == listener = "running" /\ IdsInv /\ AcceptedInv

-----------------------------------------------------------------------------

\* The id of a connection is its own, and its time of connection is there when
\* its handler is started: the listener never panics on the unwrap, and the
\* connection times of two clients are never mixed up.
IdsIdentifyConnections ==
    /\ listener = "running"
    /\ \A x, y \in Connections :
        client_id[x] # None /\ client_id[x] = client_id[y] => x = y

\* The listener recovers from an accept error when another connection is on
\* its way through the acceptor channel.
AcceptErrorOvercome ==
    \A x \in Connections :
        connection[x] \in {"ready", "channel"} /\ ~ accepting ~> accepting

\* Until an accept fails, every connection is accepted, whatever the handshakes
\* of the others do.
AcceptsUntilError ==
    \A x \in Connections :
        connection[x] = "backlog" ~> connection[x] # "backlog" \/ accept_errors > 0

\* The listener keeps accepting incoming connections.
KeepsAccepting ==
    \A x \in Connections : connection[x] = "backlog" ~> connection[x] # "backlog"

=============================================================================
