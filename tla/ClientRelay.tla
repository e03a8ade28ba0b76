---------------------------- MODULE ClientRelay -----------------------------
(***************************************************************************)
(* How messages get from the clients to their canister: the client         *)
(* sessions (client_session.rs) with the tasks they spawn to relay         *)
(* envelopes, the end of the sessions (client_session_handler.rs), the     *)
(* clients and the canister.  The gateway state is left out: module        *)
(* Gateway shows that a session stays registered with it, so what the      *)
(* canister sends reaches the channel of the session.                      *)
(*                                                                         *)
(*   client      what each client does: "connected", "active" (it has sent *)
(*               its ws_open envelope), "gone"                             *)
(*   sent        how many ws_message envelopes each client has sent; they  *)
(*               carry the sequence numbers 1, 2, ...                      *)
(*   confirmed   the clients that have received the first message of the   *)
(*               canister                                                  *)
(*   wire        envelopes on the WebSocket, by sequence number; the       *)
(*               ws_open envelope is number 0                              *)
(*   handler     where the handler of each session is: "update" (waiting   *)
(*               in try_update_state), "setup" (to relay ws_open),         *)
(*               "delivering" (a canister message is written to the        *)
(*               WebSocket, the session state not yet updated),            *)
(*               "ws_close", "done"                                        *)
(*   calls       update calls under way: each is made by a task of its own *)
(*               and they reach the canister in any order, or never        *)
(*   members     the clients that are registered with the canister         *)
(*   opened      the clients whose ws_open the canister has executed       *)
(*   processed   how many messages of each client the canister has         *)
(*               accepted                                                  *)
(*   lost        the calls that failed                                     *)
(*   ignored     the clients of which a message was ignored in Setup       *)
(***************************************************************************)
EXTENDS ClientSession, Sequences

CONSTANTS
    MaxSent,    \* bound: messages sent by one client
    Window,     \* the messages a client sends without acknowledgement
    Patient     \* the clients that wait for the confirmation of ws_open

ASSUME ClientRelayAssumption ==
    /\ MaxSent \in Nat
    /\ Window \in [Sessions -> Nat \ {0}]
    /\ Patient \subseteq Sessions

VARIABLES client, sent, confirmed, wire, handler, calls, members, opened,
          processed, lost, ignored

clientVars == <<client, sent, confirmed>>

canisterVars == <<members, opened, processed, lost>>

vars == <<clientSessionVars, clientVars, wire, handler, calls, canisterVars,
          ignored>>

Call(s, method, number) ==
    [session |-> s, method |-> method, number |-> number]

UpdateCall ==
    {Call(s, method, 0) : s \in Sessions, method \in IcCalls}
        \cup {Call(s, "ws_message", n) : s \in Sessions, n \in 1 .. MaxSent}

TypeOK ==
    /\ ClientSessionTypeOK
    /\ client \in [Sessions -> {"connected", "active", "gone"}]
    /\ sent \in [Sessions -> 0 .. MaxSent]
    /\ confirmed \subseteq Sessions
    /\ wire \in [Sessions -> Seq(0 .. MaxSent)]
    /\ handler \in [Sessions -> {"update", "setup", "delivering", "ws_close",
                                 "done"}]
    /\ calls \subseteq UpdateCall
    /\ members \subseteq opened
    /\ opened \subseteq Sessions
    /\ processed \in [Sessions -> 0 .. MaxSent]
    /\ lost \subseteq UpdateCall
    /\ ignored \subseteq Sessions

Init ==
    /\ ClientSessionInit
    /\ client = [s \in Sessions |-> "connected"]
    /\ sent = [s \in Sessions |-> 0]
    /\ confirmed = {}
    /\ wire = [s \in Sessions |-> <<>>]
    /\ handler = [s \in Sessions |-> "update"]
    /\ calls = {}
    /\ members = {}
    /\ opened = {}
    /\ processed = [s \in Sessions |-> 0]
    /\ lost = {}
    /\ ignored = {}

GoTo(s, from, to) ==
    /\ handler[s] = from
    /\ handler' = [handler EXCEPT ![s] = to]

-----------------------------------------------------------------------------
(***************************************************************************)
(* The client.  Acknowledgements come from the canister; that they may be  *)
(* late only makes a client send later.                                    *)
(***************************************************************************)

Transmit(s, number) == wire' = [wire EXCEPT ![s] = Append(@, number)]

ClientOpens(s) ==
    /\ client[s] = "connected"
    /\ client' = [client EXCEPT ![s] = "active"]
    /\ Transmit(s, 0)
    /\ UNCHANGED <<clientSessionVars, sent, confirmed, handler, calls,
                   canisterVars, ignored>>

ClientSends(s) ==
    /\ client[s] = "active"
    /\ s \in Patient => s \in confirmed
    /\ sent[s] < MaxSent
    /\ sent[s] - processed[s] < Window[s]
    /\ sent' = [sent EXCEPT ![s] = @ + 1]
    /\ Transmit(s, sent[s] + 1)
    /\ UNCHANGED <<clientSessionVars, client, confirmed, handler, calls,
                   canisterVars, ignored>>

ClientLeaves(s) ==
    /\ client[s] # "gone"
    /\ client' = [client EXCEPT ![s] = "gone"]
    /\ UNCHANGED <<clientSessionVars, sent, confirmed, wire, handler, calls,
                   canisterVars, ignored>>

-----------------------------------------------------------------------------
(***************************************************************************)
(* The session.                                                            *)
(***************************************************************************)

Spawn(s, method, number) == calls' = calls \cup {Call(s, method, number)}

ReceiveFromWire(s) ==
    /\ wire[s] # <<>>
    /\ wire' = [wire EXCEPT ![s] = Tail(@)]

\* handle_client_update in Init.
ReceiveOpen(s) ==
    /\ GoTo(s, "update", "setup")
    /\ ReceiveFromWire(s)
    /\ \E c \in Canisters : handle_setup_transition(s, c)
    /\ UNCHANGED <<clientVars, calls, canisterVars, ignored>>

\* Mutant: ws_open is relayed like the messages that follow it.
RelayOpen_AsMessage(s) ==
    /\ GoTo(s, "setup", "update")
    /\ CallIc(s, "ws_open")
    /\ Spawn(s, "ws_message", 0)
    /\ UNCHANGED <<clientVars, wire, canisterVars, ignored>>

\* Mutant: the gateway itself confirms that ws_open is on its way.
RelayOpen_Acknowledged(s) ==
    /\ GoTo(s, "setup", "update")
    /\ CallIc(s, "ws_open")
    /\ Spawn(s, "ws_open", 0)
    /\ confirmed' = confirmed \cup {s}
    /\ UNCHANGED <<client, sent, wire, canisterVars, ignored>>

\* relay_client_message(ws_open_message), after the client was inserted into
\* the gateway state; module Gateway has the case that it fails.
RelayOpen(s) ==
    /\ GoTo(s, "setup", "update")
    /\ CallIc(s, "ws_open")
    /\ Spawn(s, "ws_open", 0)
    /\ UNCHANGED <<clientVars, wire, canisterVars, ignored>>

\* Mutant: a message is relayed also in Setup.
ReceiveMessage_InSetup(s) ==
    /\ GoTo(s, "update", "update")
    /\ ReceiveFromWire(s)
    /\ ClientMessage(s)
    /\ Spawn(s, "ws_message", Head(wire[s]))
    /\ UNCHANGED <<clientVars, canisterVars, ignored>>

\* handle_client_update in Setup, where the message is ignored, and in Open,
\* where relay_envelope_to_canister spawns a task for it.
ReceiveMessage(s) ==
    /\ GoTo(s, "update", "update")
    /\ ReceiveFromWire(s)
    /\ ClientMessage(s)
    /\ \/ /\ session_state[s] = "Setup"
          /\ ignored' = ignored \cup {s}
          /\ UNCHANGED calls
       \/ /\ session_state[s] = "Open"
          /\ Spawn(s, "ws_message", Head(wire[s]))
          /\ UNCHANGED ignored
    /\ UNCHANGED <<clientVars, canisterVars>>

\* relay_canister_message: the awaited write succeeds, also when the client has
\* left and its Close frame is not yet read.  The client may answer before the
\* state of the session is updated.
DeliverToClient(s) ==
    /\ GoTo(s, "update", "delivering")
    /\ CanisterMessage(s)
    /\ confirmed' = IF client[s] = "gone" THEN confirmed ELSE confirmed \cup {s}
    /\ UNCHANGED <<client, sent, wire, calls, canisterVars, ignored>>

\* handle_canister_update returns: a session in Setup is now Open.
EndDelivery(s) ==
    /\ GoTo(s, "delivering", "update")
    /\ CanisterMessageSent(s)
    /\ UNCHANGED <<clientVars, wire, calls, canisterVars, ignored>>

\* What a handler does next when its session has ended.  Without ws_close it
\* ends when the session has not reached Setup, and it may do so when a failure
\* of the poller has removed the client before (module Gateway has the cases).
AfterEnd(s) == IF canister_id[s] = None THEN {"done"} ELSE {"ws_close", "done"}

\* The client has closed its WebSocket, which ends what it has sent.
ReceiveClose(s) ==
    /\ \E to \in AfterEnd(s) : GoTo(s, "update", to)
    /\ client[s] = "gone"
    /\ wire[s] = <<>>
    /\ ClientCloseMessage(s)
    /\ UNCHANGED <<clientVars, wire, calls, canisterVars, ignored>>

\* The WebSocket fails, or the client sends something invalid, or a canister
\* message is received from the channel and cannot be sent to it.
SessionError(s) ==
    /\ \E to \in AfterEnd(s) : GoTo(s, "update", to)
    /\ \/ ClientStreamError(s)
       \/ InvalidClientMessage(s)
       \/ CanisterMessage(s)
    /\ UNCHANGED <<clientVars, wire, calls, canisterVars, ignored>>

\* The poller of the canister has failed: ws_close is not called.
PollerError(s) ==
    /\ GoTo(s, "update", "done")
    /\ canister_id[s] # None
    /\ CanisterUpdateNone(s)
    /\ UNCHANGED <<clientVars, wire, calls, canisterVars, ignored>>

call_ws_close(s) ==
    /\ GoTo(s, "ws_close", "done")
    /\ CallIc(s, "ws_close")
    /\ Spawn(s, "ws_close", 0)
    /\ UNCHANGED <<clientVars, wire, canisterVars, ignored>>

SessionStep(s) ==
    \/ ReceiveOpen(s)
    \/ RelayOpen(s)
    \/ ReceiveMessage(s)
    \/ DeliverToClient(s)
    \/ EndDelivery(s)
    \/ ReceiveClose(s)
    \/ call_ws_close(s)

-----------------------------------------------------------------------------
(***************************************************************************)
(* The canister.                                                           *)
(***************************************************************************)

\* The call reaches the canister.
Execute(call) ==
    /\ call \in calls
    /\ calls' = calls \ {call}
    /\ UNCHANGED <<clientVars, wire, handler, ignored, lost>>

\* The first message to the client confirms the opening.
ws_open(s) ==
    /\ Execute(Call(s, "ws_open", 0))
    /\ members' = members \cup {s}
    /\ opened' = opened \cup {s}
    /\ Send(s, handler[s] = "done")
    /\ UNCHANGED processed

\* A message of a registered client is accepted when it has the next sequence
\* number, otherwise the client is removed.
ws_message(s) ==
    \E n \in 1 .. MaxSent :
        /\ Execute(Call(s, "ws_message", n))
        /\ IF s \in members /\ n = processed[s] + 1
           THEN processed' = [processed EXCEPT ![s] = n] /\ UNCHANGED members
           ELSE members' = members \ {s} /\ UNCHANGED processed
        /\ UNCHANGED <<clientSessionVars, opened>>

ws_close(s) ==
    /\ Execute(Call(s, "ws_close", 0))
    /\ members' = members \ {s}
    /\ UNCHANGED <<clientSessionVars, opened, processed>>

CallExecuted(s) == ws_open(s) \/ ws_message(s) \/ ws_close(s)

\* Mutant: after an error a message is sent again, though it was executed.
CallFails_Retried(s) ==
    /\ \E call \in calls :
        /\ call = Call(s, "ws_message", processed[s] + 1)
        /\ s \in members
        /\ processed' = [processed EXCEPT ![s] = call.number]
    /\ UNCHANGED <<clientSessionVars, clientVars, wire, handler, calls, members,
                   opened, lost, ignored>>

\* The call returns an error, which is only logged, and was not executed.
CallFails(s) ==
    \E call \in calls :
        /\ call.session = s
        /\ calls' = calls \ {call}
        /\ lost' = lost \cup {call}
        /\ UNCHANGED <<clientSessionVars, clientVars, wire, handler, members,
                       opened, processed, ignored>>

-----------------------------------------------------------------------------

Next ==
    \E s \in Sessions :
        \/ ClientOpens(s)
        \/ ClientSends(s)
        \/ ClientLeaves(s)
        \/ SessionStep(s)
        \/ SessionError(s)
        \/ PollerError(s)
        \/ CallExecuted(s)
        \/ CallFails(s)

(***************************************************************************)
(* Relaying tasks go on, and so do the handlers of the clients that wait   *)
(* for what the canister sends: as these read, an awaited write to their   *)
(* WebSocket returns.  Clients need not do anything else.                  *)
(***************************************************************************)
Fairness ==
    /\ \A s \in Patient : WF_vars(SessionStep(s))
    /\ \A s \in Sessions : WF_vars(CallExecuted(s))

Spec == Init /\ [][Next]_vars

FairSpec == Spec /\ Fairness

-----------------------------------------------------------------------------
(***************************************************************************)
(* The inductive invariant behind the properties.                          *)
(***************************************************************************)

\* Envelopes reach a session in the order in which the client sent them, the
\* one of ws_open first: it is not there any more in Setup and Open.
EnvelopesInv(s) ==
    /\ client[s] = "connected" =>
        wire[s] = <<>> /\ sent[s] = 0 /\ session_state[s] \in {"Init", "Closed"}
    /\ \A j \in 1 .. Len(wire[s]) :
        /\ wire[s][j] <= sent[s]
        /\ wire[s][j] # 0 => wire[s][j] > processed[s]
        /\ session_state[s] \in {"Setup", "Open"} => wire[s][j] # 0
    /\ \A j, k \in 1 .. Len(wire[s]) : j < k => wire[s][j] < wire[s][k]

\* A message under way was sent after those that the canister has accepted and
\* before those still on the WebSocket.
MessagesInv(s) ==
    \A n \in 1 .. MaxSent : Call(s, "ws_message", n) \in calls =>
        /\ s \in opened
        /\ n > processed[s]
        /\ n <= sent[s]
        /\ \A j \in 1 .. Len(wire[s]) : n < wire[s][j]

PacedInv(s) ==
    /\ processed[s] <= sent[s]
    /\ Window[s] = 1 => sent[s] <= processed[s] + 1

\* ws_open is called once, and the canister has executed it before the session
\* gets a message from its channel.
OpeningInv(s) ==
    /\ session_state[s] = "Init" \/ handler[s] = "setup" => s \notin opened
    /\ session_state[s] = "Init" \/ handler[s] = "setup" \/ s \in opened =>
        Call(s, "ws_open", 0) \notin calls
    /\ handler[s] = "setup" => session_state[s] = "Setup"
    /\ \/ channel[s] > 0 \/ handler[s] = "delivering"
       \/ session_state[s] = "Open" \/ s \in confirmed
       => s \in opened

\* ws_close is called last.
ClosingInv(s) ==
    /\ handler[s] # "done" => "ws_close" \notin ic_calls[s]
    /\ Call(s, "ws_close", 0) \in calls => "ws_close" \in ic_calls[s]

\* A client that waits has nothing on the WebSocket in Setup, except between
\* the delivery of the confirmation and the end of Setup.
WaitingInv(s) ==
    s \in Patient =>
        /\ session_state[s] = "Init" => Len(wire[s]) <= 1
        /\ session_state[s] = "Setup" =>
            IF s \in confirmed THEN handler[s] = "delivering" ELSE wire[s] = <<>>

SessionInv(s) ==
    /\ EnvelopesInv(s)
    /\ MessagesInv(s)
    /\ PacedInv(s)
    /\ OpeningInv(s)
    /\ ClosingInv(s)
    /\ WaitingInv(s)

\* For every session at once: what its tasks have under way, what its client has
\* on the WebSocket and what the canister has accepted stay in order from
\* ws_open to ws_close.
ClientRelayInv == \A s \in Sessions : SessionInv(s)

-----------------------------------------------------------------------------
(***************************************************************************)
(* Properties.                                                             *)
(***************************************************************************)

\* No message of a client is on its way to the canister before the canister
\* has executed its ws_open, although tasks are not ordered and a client may
\* send before the confirmation: handle_client_update relays nothing in Setup.
NothingBeforeOpen ==
    \A call \in calls :
        call.method = "ws_message" => call.session \in opened

\* A client that waits for the confirmation is heard: none of its messages
\* reaches the session while it is still in Setup, however fast it answers.
PatientClientHeard == Patient \cap ignored = {}

\* A client that was confirmed and whose session called ws_close is forgotten
\* by the canister once its calls have been executed, unless ws_close failed:
\* no late ws_open registers it again.
OpenedClientForgotten ==
    \A s \in confirmed \cap members :
        "ws_close" \in ic_calls[s] =>
            Call(s, "ws_close", 0) \in calls \cup lost

\* Only a client with several messages under way can be removed because of
\* the order in which the tasks deliver them, or because one was lost.
PacedClientNotCutOff ==
    \A s \in opened \ members :
        Window[s] = 1 => "ws_close" \in ic_calls[s]

\* The messages of a client that waits for confirmation and acknowledgements
\* are accepted, unless the session ends or a call fails.
PacedMessagesArrive ==
    \A s \in Patient : \A n \in 1 .. MaxSent :
        Window[s] = 1 /\ sent[s] >= n
            ~> \/ processed[s] >= n
               \/ handler[s] \in {"ws_close", "done"}
               \/ \E call \in lost : call.session = s

=============================================================================
