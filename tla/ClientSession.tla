--------------------------- MODULE ClientSession ----------------------------
(***************************************************************************)
(* The IC WebSocket sessions (client_session.rs).  Each handles one update *)
(* at a time, from its client or from the channel on which the poller of   *)
(* its canister sends.                                                     *)
(*                                                                         *)
(*   session_state  IcWsSessionState of each session                       *)
(*   canister_id    set, together with the client key KeyOf[s], by the     *)
(*                  first valid message                                    *)
(*   channel        number of messages buffered in the mpsc channel        *)
(*   ic_calls       which of ws_open and ws_close the gateway has called   *)
(*                  on the canister for the session                        *)
(*                                                                         *)
(* An update either leaves the session usable, or is an error: then the    *)
(* session is not updated again.  The operator of each update describes    *)
(* one outcome of try_update_state; which outcome it is decides what the   *)
(* session handler does next (module Gateway).                             *)
(***************************************************************************)
EXTENDS GatewayTypes, Naturals

CONSTANT ChannelCapacity    \* mpsc::channel(100)

ASSUME ClientSessionAssumption == ChannelCapacity \in Nat \ {0}

VARIABLES session_state, canister_id, channel, ic_calls

clientSessionVars == <<session_state, canister_id, channel, ic_calls>>

IcWsSessionState == {"Init", "Setup", "Open", "Closed"}

IcCalls == {"ws_open", "ws_close"}

ClientSessionTypeOK ==
    /\ session_state \in [Sessions -> IcWsSessionState]
    /\ canister_id \in [Sessions -> Canisters \cup {None}]
    /\ channel \in [Sessions -> 0 .. ChannelCapacity]
    /\ ic_calls \in [Sessions -> SUBSET IcCalls]

ClientSessionInit ==
    /\ session_state = [s \in Sessions |-> "Init"]
    /\ canister_id = [s \in Sessions |-> None]
    /\ channel = [s \in Sessions |-> 0]
    /\ ic_calls = [s \in Sessions |-> {}]

-----------------------------------------------------------------------------
(***************************************************************************)
(* Updates from the client.                                                *)
(***************************************************************************)

\* Mutant: the session is not moved to Setup.
handle_setup_transition_StaysInit(s, c) ==
    /\ session_state[s] = "Init"
    /\ canister_id' = [canister_id EXCEPT ![s] = c]
    /\ UNCHANGED <<session_state, channel, ic_calls>>

\* A valid ws_open envelope for canister c, received in Init.
handle_setup_transition(s, c) ==
    /\ session_state[s] = "Init"
    /\ session_state' = [session_state EXCEPT ![s] = "Setup"]
    /\ canister_id' = [canister_id EXCEPT ![s] = c]
    /\ UNCHANGED <<channel, ic_calls>>

\* Any other message received in Init, or a message received in Open that is
\* not the envelope of a Call: an error that leaves session_state alone.
InvalidClientMessage(s) ==
    /\ session_state[s] \in {"Init", "Open"}
    /\ UNCHANGED clientSessionVars

ClientCloseMessage(s) ==
    /\ session_state[s] # "Closed"
    /\ session_state' = [session_state EXCEPT ![s] = "Closed"]
    /\ UNCHANGED <<canister_id, channel, ic_calls>>

\* check_client_update: the WebSocket stream yields an error.
ClientStreamError(s) ==
    /\ session_state' = [session_state EXCEPT ![s] = "Closed"]
    /\ UNCHANGED <<canister_id, channel, ic_calls>>

\* A message received in Setup is ignored.  One received in Open that is the
\* envelope of a Call is relayed by a task of its own, whose result is only
\* logged.  Neither changes the session.
ClientMessage(s) ==
    /\ session_state[s] \in {"Setup", "Open"}
    /\ UNCHANGED clientSessionVars

\* ws_open, relayed like any envelope, and ws_close.
CallIc(s, method) ==
    /\ ic_calls' = [ic_calls EXCEPT ![s] = @ \cup {method}]
    /\ UNCHANGED <<session_state, canister_id, channel>>

-----------------------------------------------------------------------------
(***************************************************************************)
(* Updates from the channel.                                               *)
(***************************************************************************)

\* unreachable!("Canister shall not send messages while in Init state").
CanisterMessageUnreachable(s) == session_state[s] = "Init"

\* recv() returns a message, which is then written to the WebSocket.
CanisterMessage(s) ==
    /\ channel[s] > 0
    /\ channel' = [channel EXCEPT ![s] = @ - 1]
    /\ UNCHANGED <<session_state, canister_id, ic_calls>>

\* Mutant: the session stays in Setup.
CanisterMessageSent_StaysSetup(s) ==
    UNCHANGED clientSessionVars

\* The write of the message to the WebSocket returns Ok: in Setup this opens
\* the session.
CanisterMessageSent(s) ==
    /\ session_state' = IF session_state[s] = "Setup"
                        THEN [session_state EXCEPT ![s] = "Open"]
                        ELSE session_state
    /\ UNCHANGED <<canister_id, channel, ic_calls>>

\* Mutant: None is taken for one more message.
CanisterUpdateNone_Counted(s) ==
    /\ channel[s] = 0
    /\ channel' = [channel EXCEPT ![s] = @ - 1]
    /\ UNCHANGED <<session_state, canister_id, ic_calls>>

\* recv() returns None: nothing is buffered and the sender is dropped.
CanisterUpdateNone(s) ==
    /\ channel[s] = 0
    /\ UNCHANGED clientSessionVars

-----------------------------------------------------------------------------
(***************************************************************************)
(* The sending side of the channel (tokio's bounded mpsc).                 *)
(***************************************************************************)

\* send(..).await completes when there is room, or with an error once the
\* receiver has been dropped.
Send(s, receiver_dropped) ==
    /\ receiver_dropped \/ channel[s] < ChannelCapacity
    /\ channel' = IF receiver_dropped THEN channel
                                      ELSE [channel EXCEPT ![s] = @ + 1]
    /\ UNCHANGED <<session_state, canister_id, ic_calls>>

=============================================================================
