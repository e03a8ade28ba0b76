--------------------------- MODULE GatewayProcess ---------------------------
(***************************************************************************)
(* The gateway process (main.rs, manager.rs and the crate ic-identity):    *)
(* how it starts, loads or creates its key pair, starts the listener, and  *)
(* what is left of it on disk when it stops.  It is started again whenever *)
(* it has stopped (docker-compose.yml).  Module WsListener describes the   *)
(* listener while the process is serving.                                  *)
(*                                                                         *)
(*   process   "down", the step of the start-up that is next, or "serving" *)
(*   dirs      the directories that exist: "data", "traces"                *)
(*   key_file  the file data/key_pair: None if there is none, 0 if it does *)
(*             not hold a key pair, otherwise the number of the key pair   *)
(*   key_pair  the key pair of the running process                         *)
(*   generated how many key pairs were generated so far                    *)
(*   principal_sent  the gateway principal that each client was sent when  *)
(*             its session started, as the number of the key pair          *)
(*   faults    how often the process has stopped, for its bound only       *)
(*                                                                         *)
(* Directories and key file outlive the process, nothing else does.        *)
(***************************************************************************)
EXTENDS WsListener

CONSTANT MaxFaults      \* bound: how often the process stops

ASSUME GatewayProcessAssumption == MaxFaults \in Nat

VARIABLES process, dirs, key_file, key_pair, generated, principal_sent, faults

diskVars == <<dirs, key_file>>

processVars == <<process, diskVars, key_pair, generated, faults>>

allVars == <<vars, processVars, principal_sent>>

StartupStep ==
    {"create_data_dir", "load_key_pair", "write_file", "write_key",
     "new_manager", "init_tracing", "init_metrics", "start_accepting"}

KeyPairs == 1 .. MaxFaults + 1

ProcessTypeOK ==
    /\ TypeOK
    /\ process \in {"down", "serving"} \cup StartupStep
    /\ dirs \subseteq {"data", "traces"}
    /\ key_file \in KeyPairs \cup {None, 0}
    /\ key_pair \in KeyPairs \cup {None}
    /\ generated \in {0} \cup KeyPairs
    /\ principal_sent \in [Connections -> KeyPairs \cup {None}]
    /\ faults \in 0 .. MaxFaults

ProcessInit ==
    /\ Init
    /\ process = "down"
    /\ dirs = {}
    /\ key_file = None
    /\ key_pair = None
    /\ generated = 0
    /\ principal_sent = [x \in Connections |-> None]
    /\ faults = 0

-----------------------------------------------------------------------------
(***************************************************************************)
(* main, up to the start of the listener.  Each step may also fail, which  *)
(* stops the process (ProcessStops).                                       *)
(***************************************************************************)

Proceed(from, to) ==
    /\ process = from
    /\ process' = to
    /\ UNCHANGED <<vars, generated, principal_sent, faults>>

StartProcess ==
    /\ Proceed("down", "create_data_dir")
    /\ UNCHANGED <<diskVars, key_pair>>

\* Mutant: the directory is created whether or not it exists.
create_data_dir_Unchecked ==
    /\ Proceed("create_data_dir",
               IF "data" \in dirs THEN "down" ELSE "load_key_pair")
    /\ dirs' = dirs \cup {"data"}
    /\ UNCHANGED <<key_file, key_pair>>

create_data_dir ==
    /\ Proceed("create_data_dir", "load_key_pair")
    /\ dirs' = dirs \cup {"data"}
    /\ UNCHANGED <<key_file, key_pair>>

\* Mutant: a key pair that an earlier start has written is not looked for.
GenerateKeyPair_Unchecked ==
    /\ process = "load_key_pair"
    /\ process' = "write_file"
    /\ generated' = generated + 1
    /\ key_pair' = generated'
    /\ UNCHANGED <<vars, diskVars, principal_sent, faults>>

\* load_key_pair generates a key pair when there is no file.
GenerateKeyPair ==
    /\ process = "load_key_pair"
    /\ key_file = None
    /\ process' = "write_file"
    /\ generated' = generated + 1
    /\ key_pair' = generated'
    /\ UNCHANGED <<vars, diskVars, principal_sent, faults>>

\* Mutant: an error of fs::write is ignored.
CreateKeyFile_ErrorIgnored ==
    /\ Proceed("write_file", "new_manager")
    /\ UNCHANGED <<diskVars, key_pair>>

\* fs::write first creates the file, then writes its contents.
CreateKeyFile ==
    /\ Proceed("write_file", "write_key")
    /\ key_file' = 0
    /\ UNCHANGED <<dirs, key_pair>>

WriteKeyPair ==
    /\ Proceed("write_key", "new_manager")
    /\ key_file' = key_pair
    /\ UNCHANGED <<dirs, key_pair>>

\* load_key_pair reads the key pair.
ReadKeyPair ==
    /\ Proceed("load_key_pair", "new_manager")
    /\ key_file \in KeyPairs
    /\ key_pair' = key_file
    /\ UNCHANGED diskVars

\* The file does not hold a key pair: from_pkcs8 fails, main returns the
\* error.
KeyPairInvalid ==
    /\ Proceed("load_key_pair", "down")
    /\ key_file = 0
    /\ UNCHANGED <<diskVars, key_pair>>

\* Manager::new: the agent, with the root key unless on mainnet, and an empty
\* gateway state.
NewManager ==
    /\ Proceed("new_manager", "init_tracing")
    /\ UNCHANGED <<diskVars, key_pair>>

init_tracing ==
    /\ Proceed("init_tracing", "init_metrics")
    /\ dirs' = dirs \cup {"traces"}
    /\ UNCHANGED <<key_file, key_pair>>

init_metrics ==
    /\ Proceed("init_metrics", "start_accepting")
    /\ UNCHANGED <<diskVars, key_pair>>

\* start_accepting_incoming_connections: WsListener::new binds the address and
\* reads the certificates; the listener starts with no connections.
StartAccepting ==
    /\ Proceed("start_accepting", "serving")
    /\ UNCHANGED <<diskVars, key_pair>>

StartupProceeds ==
    \/ StartProcess
    \/ create_data_dir
    \/ GenerateKeyPair
    \/ CreateKeyFile
    \/ WriteKeyPair
    \/ ReadKeyPair
    \/ KeyPairInvalid
    \/ NewManager
    \/ init_tracing
    \/ init_metrics
    \/ StartAccepting

-----------------------------------------------------------------------------
(***************************************************************************)
(* Serving, and stopping.                                                  *)
(***************************************************************************)

\* A step of the listener that starts no session.
Serving(step) ==
    /\ process = "serving"
    /\ step
    /\ UNCHANGED <<processVars, principal_sent>>

\* The handler of the connection is started and sends the gateway principal to
\* the client (if that fails, the session ends: module Gateway).
StartSession ==
    /\ process = "serving"
    /\ start_session_handler
    /\ principal_sent' = [principal_sent EXCEPT ![Head(acceptor_channel)] = key_pair]
    /\ UNCHANGED processVars

\* The process is killed, or a step of its start-up fails, or an expect of
\* main or of the listener panics: connections are reset, memory is lost.
ProcessStops ==
    /\ process # "down"
    /\ faults < MaxFaults
    /\ faults' = faults + 1
    /\ process' = "down"
    /\ key_pair' = None
    /\ connection' = [x \in Connections |->
                        IF connection[x] = "absent" THEN "absent" ELSE "refused"]
    /\ client_id' = [x \in Connections |-> None]
    /\ next_client_id' = 0
    /\ clients_connection_time' = {}
    /\ acceptor_channel' = <<>>
    /\ accepting' = TRUE
    /\ listener' = "running"
    /\ UNCHANGED <<diskVars, generated, principal_sent, accept_errors>>

-----------------------------------------------------------------------------

ProcessNext ==
    \/ StartupProceeds
    \/ \E x \in Connections :
        \/ Serving(Connect(x))
        \/ Serving(accept_connection(x))
        \/ Serving(AcceptorTask(x))
    \/ Serving(AcceptFails)
    \/ StartSession
    \/ ProcessStops

(***************************************************************************)
(* The process is started again when it is down and its steps go on; the   *)
(* listener is fair as in WsListener.  Faults are not assumed.             *)
(***************************************************************************)
ProcessFairness ==
    /\ WF_allVars(StartupProceeds)
    /\ \A x \in Connections :
        /\ WF_allVars(Serving(accept_connection(x)))
        /\ WF_allVars(Serving(AcceptorTask(x)))
    /\ WF_allVars(StartSession)

ProcessSpec == ProcessInit /\ [][ProcessNext]_allVars

ProcessFairSpec == ProcessSpec /\ ProcessFairness

-----------------------------------------------------------------------------
(***************************************************************************)
(* The inductive invariant behind PrincipalStable.                         *)
(***************************************************************************)

\* A key pair is generated anew only after a fault between its generation and
\* the creation of the file.
GeneratedInv ==
    /\ generated <= faults + 1
    /\ key_file = None /\ process # "write_file" => generated <= faults

\* What the process has in memory and what is on disk.
KeyPairInv ==
    /\ process = "write_file" => key_file = None /\ key_pair = generated
    /\ process = "write_key" => key_file = 0 /\ key_pair = generated
    /\ process \in {"write_file", "write_key"} => generated # 0
    /\ process \in {"new_manager", "init_tracing", "init_metrics",
                    "start_accepting", "serving"} =>
        key_pair = key_file /\ key_file \in KeyPairs

\* Clients know only the principal that is on disk.
PrincipalsInv ==
    \A x \in Connections :
        principal_sent[x] # None => key_file = principal_sent[x]

\* The listener, the key pair in memory, the key file and the principals that
\* clients were sent agree, between any two steps of load_key_pair too.
ProcessInv == ListenerInv /\ GeneratedInv /\ KeyPairInv /\ PrincipalsInv

-----------------------------------------------------------------------------

\* All clients are sent the same gateway principal, whenever the process stops
\* and however often it is started again: the canister knows the gateway by
\* that principal and would not let another one poll.
PrincipalStable ==
    \A x, y \in Connections :
        principal_sent[x] # None /\ principal_sent[y] # None
            => principal_sent[x] = principal_sent[y]

\* A key pair on disk is never overwritten, not even by a start that stops
\* between the creation of the file and the writing of its contents.
KeyFileKept == [][key_file' # key_file => key_file \notin KeyPairs]_allVars

\* A connection whose handshake has succeeded gets its session, also when others
\* queue for the acceptor channel and after accept errors, unless the process
\* stops: the acceptor task awaits room in the channel and drops no connection.
AcceptedHandled ==
    \A x \in Connections :
        connection[x] = "ready" ~> connection[x] = "handled" \/ process = "down"

\* The process serves again after any faults, unless one of them has hit the
\* writing of the key pair: then load_key_pair fails for ever.
ServesAgain ==
    []<>(process = "serving") \/ <>[](key_file = 0)

=============================================================================
