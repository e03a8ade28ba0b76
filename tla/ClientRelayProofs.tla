-------------------------- MODULE ClientRelayProofs -------------------------
(***************************************************************************)
(* Proofs of the safety properties of module ClientRelay, for any number   *)
(* of sessions and messages, any windows and any channel capacity.         *)
(***************************************************************************)
EXTENDS ClientRelay, SequenceTheorems, TLAPS

\* What identifies a call.
LEMMA CallFields ==
    ASSUME NEW s, NEW method, NEW n
    PROVE  /\ Call(s, method, n).session = s
           /\ Call(s, method, n).method = method
           /\ Call(s, method, n).number = n
           /\ \A t, other, k : Call(s, method, n) = Call(t, other, k) =>
                s = t /\ method = other /\ n = k
  BY DEF Call

\* The calls that the gateway makes.
LEMMA UpdateCallFields ==
    ASSUME NEW call \in UpdateCall
    PROVE  /\ call = Call(call.session, call.method, call.number)
           /\ call.session \in Sessions
           /\ call.number \in 0 .. MaxSent
           /\ call.method \in IcCalls => call.number = 0
           /\ call.method = "ws_message" => call.number \in 1 .. MaxSent
<1> USE ClientRelayAssumption
<1>1. CASE \E s \in Sessions, method \in IcCalls : call = Call(s, method, 0)
  BY <1>1 DEF Call, IcCalls
<1>2. CASE \E s \in Sessions, n \in 1 .. MaxSent : call = Call(s, "ws_message", n)
  BY <1>2 DEF Call, IcCalls
<1> QED
  BY <1>1, <1>2 DEF UpdateCall

\* An envelope is added at the end of what is on the WebSocket.
LEMMA Transmitted ==
    ASSUME TypeOK, NEW s \in Sessions, NEW number \in 0 .. MaxSent,
           Transmit(s, number)
    PROVE  /\ wire' \in [Sessions -> Seq(0 .. MaxSent)]
           /\ \A t \in Sessions : t # s => wire'[t] = wire[t]
           /\ Len(wire[s]) \in Nat
           /\ Len(wire'[s]) = Len(wire[s]) + 1
           /\ \A j \in 1 .. Len(wire[s]) : wire'[s][j] = wire[s][j]
           /\ wire'[s][Len(wire[s]) + 1] = number
<1>1. wire[s] \in Seq(0 .. MaxSent)
  BY DEF TypeOK
<1>2. /\ wire'[s] = Append(wire[s], number)
      /\ \A t \in Sessions : t # s => wire'[t] = wire[t]
  BY DEF TypeOK, Transmit
<1>3. Append(wire[s], number) \in Seq(0 .. MaxSent)
  BY <1>1, AppendProperties
<1>4. wire' \in [Sessions -> Seq(0 .. MaxSent)]
  BY <1>3 DEF TypeOK, Transmit
<1> QED
  BY <1>1, <1>2, <1>4, AppendProperties, LenProperties

\* An envelope is taken from the front of what is on the WebSocket.
LEMMA Received ==
    ASSUME TypeOK, NEW s \in Sessions, ReceiveFromWire(s)
    PROVE  /\ wire' \in [Sessions -> Seq(0 .. MaxSent)]
           /\ \A t \in Sessions : t # s => wire'[t] = wire[t]
           /\ Len(wire[s]) \in Nat
           /\ 1 \in 1 .. Len(wire[s])
           /\ Len(wire'[s]) = Len(wire[s]) - 1
           /\ \A j \in 1 .. Len(wire'[s]) : /\ j + 1 \in 1 .. Len(wire[s])
                                            /\ wire'[s][j] = wire[s][j + 1]
           /\ Head(wire[s]) = wire[s][1]
           /\ Head(wire[s]) \in 0 .. MaxSent
<1>1. wire[s] \in Seq(0 .. MaxSent) /\ wire[s] # <<>>
  BY DEF TypeOK, ReceiveFromWire
<1>2. /\ wire'[s] = Tail(wire[s])
      /\ \A t \in Sessions : t # s => wire'[t] = wire[t]
  BY DEF TypeOK, ReceiveFromWire
<1>3. /\ Tail(wire[s]) \in Seq(0 .. MaxSent)
      /\ Len(Tail(wire[s])) = Len(wire[s]) - 1
      /\ \A j \in 1 .. Len(Tail(wire[s])) : Tail(wire[s])[j] = wire[s][j + 1]
  BY <1>1, HeadTailProperties
<1>4. wire' \in [Sessions -> Seq(0 .. MaxSent)]
  BY <1>3 DEF TypeOK, ReceiveFromWire
<1>5. Len(wire[s]) \in Nat \ {0}
  BY <1>1, EmptySeq
<1>6. Head(wire[s]) = wire[s][1]
  BY <1>1, HeadTailProperties
<1>7. 1 \in 1 .. Len(wire[s])
  BY <1>5
<1>8. wire[s][1] \in 0 .. MaxSent
  BY <1>1, <1>7, ElementOfSeq
<1>9. \A j \in 1 .. Len(wire'[s]) : /\ j + 1 \in 1 .. Len(wire[s])
                                   /\ wire'[s][j] = wire[s][j + 1]
  BY <1>2, <1>3, <1>5
<1> QED
  BY <1>2, <1>3, <1>4, <1>5, <1>6, <1>7, <1>8, <1>9

\* Numbers of envelopes.
LEMMA WireNumber ==
    ASSUME TypeOK, NEW s \in Sessions, NEW j \in 1 .. Len(wire[s])
    PROVE  wire[s][j] \in Nat /\ wire[s][j] \in 0 .. MaxSent
<1>1. wire[s] \in Seq(0 .. MaxSent)
  BY DEF TypeOK
<1> QED
  BY <1>1, ElementOfSeq, ClientRelayAssumption

-----------------------------------------------------------------------------
(***************************************************************************)
(* The invariant speaks about each session on its own.                     *)
(***************************************************************************)

\* A step does not concern session t.
Untouched(t) ==
    /\ UNCHANGED <<client[t], sent[t], wire[t], handler[t], processed[t],
                   session_state[t], channel[t], ic_calls[t]>>
    /\ UNCHANGED <<t \in confirmed, t \in opened>>
    /\ \A method, n : Call(t, method, n) \in calls' <=> Call(t, method, n) \in calls

\* Then its invariant stays true.
LEMMA UntouchedInv ==
    ASSUME NEW t \in Sessions, SessionInv(t), Untouched(t)
    PROVE  SessionInv(t)'
<1> USE DEF Untouched
<1>1. EnvelopesInv(t)'
  BY DEF SessionInv, EnvelopesInv
<1>2. MessagesInv(t)'
  BY DEF SessionInv, MessagesInv
<1>3. PacedInv(t)'
  BY DEF SessionInv, PacedInv
<1>4. OpeningInv(t)'
  BY DEF SessionInv, OpeningInv
<1>5. ClosingInv(t)'
  BY DEF SessionInv, ClosingInv
<1>6. WaitingInv(t)'
  BY DEF SessionInv, WaitingInv
<1> QED
  BY <1>1, <1>2, <1>3, <1>4, <1>5, <1>6 DEF SessionInv

\* The steps of a session, its client and its calls do not concern another one.
LEMMA OthersUntouched ==
    ASSUME TypeOK, NEW s \in Sessions, NEW t \in Sessions, t # s,
           \/ ClientOpens(s)
           \/ ClientSends(s)
           \/ ClientLeaves(s)
           \/ SessionStep(s)
           \/ SessionError(s)
           \/ PollerError(s)
           \/ CallExecuted(s)
           \/ CallFails(s)
    PROVE  Untouched(t)
<1> USE DEF TypeOK, ClientSessionTypeOK, clientSessionVars, clientVars,
            canisterVars, GoTo
<1>1. ASSUME NEW m, NEW k,
             \/ calls' = calls
             \/ calls' = calls \cup {Call(s, m, k)}
             \/ calls' = calls \ {Call(s, m, k)}
      PROVE  \A method, n :
               Call(t, method, n) \in calls' <=> Call(t, method, n) \in calls
  BY <1>1, CallFields
<1>2. CASE ClientOpens(s) \/ ClientSends(s) \/ ClientLeaves(s)
  BY <1>2 DEF ClientOpens, ClientSends, ClientLeaves, Transmit, Untouched
<1>3. CASE SessionStep(s)
  <2>1. CASE ReceiveOpen(s)
    BY <2>1 DEF ReceiveOpen, ReceiveFromWire, handle_setup_transition, Untouched
  <2>2. CASE RelayOpen(s)
    BY <1>1, <2>2 DEF RelayOpen, CallIc, Spawn, Untouched
  <2>3. CASE ReceiveMessage(s)
    BY <1>1, <2>3 DEF ReceiveMessage, ReceiveFromWire, ClientMessage, Spawn,
                      Untouched
  <2>4. CASE DeliverToClient(s)
    BY <2>4 DEF DeliverToClient, CanisterMessage, Untouched
  <2>5. CASE EndDelivery(s)
    BY <2>5 DEF EndDelivery, CanisterMessageSent, Untouched
  <2>6. CASE ReceiveClose(s)
    BY <2>6 DEF ReceiveClose, ClientCloseMessage, Untouched
  <2>7. CASE call_ws_close(s)
    BY <1>1, <2>7 DEF call_ws_close, CallIc, Spawn, Untouched
  <2> QED
    BY <1>3, <2>1, <2>2, <2>3, <2>4, <2>5, <2>6, <2>7 DEF SessionStep
<1>4. CASE SessionError(s)
  BY <1>4 DEF SessionError, ClientStreamError, InvalidClientMessage,
              CanisterMessage, Untouched
<1>5. CASE PollerError(s)
  BY <1>5 DEF PollerError, CanisterUpdateNone, Untouched
<1>6. CASE CallExecuted(s)
  <2>1. CASE ws_open(s)
    BY <1>1, <2>1 DEF ws_open, Execute, Send, Untouched
  <2>2. CASE ws_message(s)
    <3>1. PICK n \in 1 .. MaxSent : Execute(Call(s, "ws_message", n))
      BY <2>2 DEF ws_message
    <3>2. /\ UNCHANGED <<clientSessionVars, opened>>
          /\ UNCHANGED processed[t]
      BY <2>2 DEF ws_message
    <3> QED
      BY <1>1, <3>1, <3>2 DEF Execute, Untouched
  <2>3. CASE ws_close(s)
    BY <1>1, <2>3 DEF ws_close, Execute, Untouched
  <2> QED
    BY <1>6, <2>1, <2>2, <2>3 DEF CallExecuted
<1>7. CASE CallFails(s)
  <2>1. PICK call \in calls : call.session = s /\ calls' = calls \ {call}
    BY <1>7 DEF CallFails
  <2>2. \A method, n : Call(t, method, n) # call
    BY <2>1, CallFields
  <2> QED
    BY <1>7, <2>1, <2>2 DEF CallFails, Untouched
<1> QED
  BY <1>2, <1>3, <1>4, <1>5, <1>6, <1>7

-----------------------------------------------------------------------------
(***************************************************************************)
(* Steps of the client.                                                    *)
(***************************************************************************)

\* The first envelope is that of ws_open, on an empty WebSocket.
LEMMA ClientOpensStep ==
    ASSUME TypeOK, NEW s \in Sessions, SessionInv(s), ClientOpens(s)
    PROVE  TypeOK' /\ SessionInv(s)'
<1> USE ClientRelayAssumption
<1>1. /\ client[s] = "connected"
      /\ client' = [client EXCEPT ![s] = "active"]
      /\ Transmit(s, 0)
      /\ UNCHANGED <<session_state, canister_id, channel, ic_calls, sent,
                     confirmed, handler, calls, members, opened, processed,
                     lost, ignored>>
  BY DEF ClientOpens, clientSessionVars, canisterVars
<1>2. /\ wire' \in [Sessions -> Seq(0 .. MaxSent)]
      /\ Len(wire'[s]) = Len(wire[s]) + 1
      /\ wire'[s][Len(wire[s]) + 1] = 0
  BY <1>1, Transmitted
<1>3. wire[s] = <<>> /\ sent[s] = 0 /\ session_state[s] \in {"Init", "Closed"}
  BY <1>1 DEF SessionInv, EnvelopesInv
<1>4. Len(wire'[s]) = 1 /\ wire'[s][1] = 0
  <2>1. Len(wire[s]) = 0
    BY <1>3, EmptySeq
  <2> QED
    BY <1>2, <2>1
<1>5. client'[s] = "active"
  BY <1>1 DEF TypeOK
<1>6. TypeOK'
  BY <1>1, <1>2 DEF TypeOK, ClientSessionTypeOK
<1>7. EnvelopesInv(s)'
  BY <1>1, <1>3, <1>4, <1>5 DEF EnvelopesInv
<1>8. MessagesInv(s)'
  <2>1. \A n \in 1 .. MaxSent : Call(s, "ws_message", n) \notin calls
    BY <1>3 DEF SessionInv, MessagesInv
  <2> QED
    BY <1>1, <2>1 DEF MessagesInv
<1>9. PacedInv(s)' /\ OpeningInv(s)' /\ ClosingInv(s)'
  BY <1>1 DEF SessionInv, PacedInv, OpeningInv, ClosingInv
<1>10. WaitingInv(s)'
  BY <1>1, <1>3, <1>4 DEF WaitingInv
<1> QED
  BY <1>6, <1>7, <1>8, <1>9, <1>10 DEF SessionInv

\* A message has a larger number than those before it.
LEMMA ClientSendsStep ==
    ASSUME TypeOK, NEW s \in Sessions, SessionInv(s), ClientSends(s)
    PROVE  TypeOK' /\ SessionInv(s)'
<1> USE ClientRelayAssumption
<1> DEFINE n == sent[s] + 1
<1>1. /\ client[s] = "active"
      /\ s \in Patient => s \in confirmed
      /\ sent[s] < MaxSent
      /\ sent[s] - processed[s] < Window[s]
      /\ sent' = [sent EXCEPT ![s] = n]
      /\ Transmit(s, n)
      /\ UNCHANGED <<session_state, canister_id, channel, ic_calls, client,
                     confirmed, handler, calls, members, opened, processed,
                     lost, ignored>>
  BY DEF ClientSends, clientSessionVars, canisterVars
<1>2. /\ sent[s] \in Nat
      /\ processed[s] \in Nat
      /\ n \in 0 .. MaxSent
      /\ sent'[s] = n
  BY <1>1 DEF TypeOK
<1>3. n = sent[s] + 1 /\ n \in Nat
  BY <1>2
<1> HIDE DEF n
<1>4. /\ wire' \in [Sessions -> Seq(0 .. MaxSent)]
      /\ Len(wire[s]) \in Nat
      /\ Len(wire'[s]) = Len(wire[s]) + 1
      /\ \A j \in 1 .. Len(wire[s]) : wire'[s][j] = wire[s][j]
      /\ wire'[s][Len(wire[s]) + 1] = n
  BY <1>1, <1>2, Transmitted
<1>5. \A j \in 1 .. Len(wire'[s]) :
          j \in 1 .. Len(wire[s]) \/ j = Len(wire[s]) + 1
  BY <1>4
<1>6. TypeOK'
  <2>1. sent' \in [Sessions -> 0 .. MaxSent]
    BY <1>1, <1>2 DEF TypeOK
  <2> QED
    BY <1>1, <1>4, <2>1 DEF TypeOK, ClientSessionTypeOK
<1>7. processed[s] <= sent[s] /\ (Window[s] = 1 => n <= processed[s] + 1)
  BY <1>1, <1>2, <1>3 DEF SessionInv, PacedInv
<1>8. \A j \in 1 .. Len(wire[s]) : wire[s][j] \in Nat /\ wire[s][j] <= sent[s]
  BY WireNumber DEF SessionInv, EnvelopesInv
<1>9. EnvelopesInv(s)'
  <2>1. ASSUME NEW j \in 1 .. Len(wire'[s])
        PROVE  /\ wire'[s][j] <= n
               /\ wire'[s][j] # 0 => wire'[s][j] > processed[s]
               /\ session_state[s] \in {"Setup", "Open"} => wire'[s][j] # 0
    <3>1. CASE j \in 1 .. Len(wire[s])
      <4>1. /\ wire[s][j] <= sent[s]
            /\ wire[s][j] # 0 => wire[s][j] > processed[s]
            /\ session_state[s] \in {"Setup", "Open"} => wire[s][j] # 0
        BY <3>1 DEF SessionInv, EnvelopesInv
      <4>2. wire'[s][j] = wire[s][j] /\ wire[s][j] \in Nat
        BY <1>4, <1>8, <3>1
      <4>3. wire[s][j] <= n
        BY <1>2, <1>3, <4>1, <4>2
      <4> QED
        BY <4>1, <4>2, <4>3
    <3>2. CASE j = Len(wire[s]) + 1
      BY <1>2, <1>3, <1>4, <1>7, <3>2, SMTT(30)
    <3> QED
      BY <1>5, <3>1, <3>2
  <2>2. ASSUME NEW j \in 1 .. Len(wire'[s]), NEW k \in 1 .. Len(wire'[s]), j < k
        PROVE  wire'[s][j] < wire'[s][k]
    <3>1. j \in 1 .. Len(wire[s])
      BY <1>4, <2>2
    <3>2. CASE k \in 1 .. Len(wire[s])
      <4>1. wire[s][j] < wire[s][k]
        BY <2>2, <3>1, <3>2 DEF SessionInv, EnvelopesInv
      <4> QED
        BY <1>4, <3>1, <3>2, <4>1
    <3>3. CASE k = Len(wire[s]) + 1
      <4>1. wire'[s][j] = wire[s][j] /\ wire'[s][k] = n
        BY <1>4, <3>1, <3>3
      <4>2. wire[s][j] \in Nat /\ wire[s][j] <= sent[s]
        BY <1>8, <3>1
      <4> QED
        BY <1>2, <1>3, <4>1, <4>2
    <3> QED
      BY <1>5, <3>2, <3>3
  <2> QED
    BY <1>1, <1>2, <2>1, <2>2 DEF EnvelopesInv
<1>10. MessagesInv(s)'
  <2> SUFFICES ASSUME NEW k \in 1 .. MaxSent, Call(s, "ws_message", k) \in calls
               PROVE  /\ k <= n
                      /\ \A j \in 1 .. Len(wire'[s]) : k < wire'[s][j]
    BY <1>1, <1>2 DEF SessionInv, MessagesInv
  <2>1. k <= sent[s] /\ \A j \in 1 .. Len(wire[s]) : k < wire[s][j]
    BY DEF SessionInv, MessagesInv
  <2>2. k < n /\ k <= n
    BY <1>2, <1>3, <2>1
  <2>3. ASSUME NEW j \in 1 .. Len(wire'[s])
        PROVE  k < wire'[s][j]
    <3>1. CASE j \in 1 .. Len(wire[s])
      BY <1>4, <2>1, <3>1
    <3>2. CASE j = Len(wire[s]) + 1
      BY <1>4, <2>2, <3>2
    <3> QED
      BY <1>5, <3>1, <3>2
  <2> QED
    BY <2>2, <2>3
<1>11. PacedInv(s)'
  BY <1>1, <1>2, <1>3, <1>7 DEF PacedInv
<1>12. OpeningInv(s)' /\ ClosingInv(s)'
  BY <1>1 DEF SessionInv, OpeningInv, ClosingInv
<1>13. WaitingInv(s)'
  <2>1. s \in confirmed => session_state[s] # "Init"
    BY DEF SessionInv, OpeningInv
  <2> QED
    BY <1>1, <2>1 DEF SessionInv, WaitingInv
<1> QED
  BY <1>6, <1>9, <1>10, <1>11, <1>12, <1>13 DEF SessionInv

\* A client may leave at any time; what it has sent stays on the WebSocket.
LEMMA ClientLeavesStep ==
    ASSUME TypeOK, NEW s \in Sessions, SessionInv(s), ClientLeaves(s)
    PROVE  TypeOK' /\ SessionInv(s)'
<1>1. /\ client' = [client EXCEPT ![s] = "gone"]
      /\ UNCHANGED <<session_state, canister_id, channel, ic_calls, sent,
                     confirmed, wire, handler, calls, members, opened,
                     processed, lost, ignored>>
  BY DEF ClientLeaves, clientSessionVars, canisterVars
<1>2. TypeOK' /\ client'[s] = "gone"
  BY <1>1 DEF TypeOK, ClientSessionTypeOK
<1>3. EnvelopesInv(s)'
  BY <1>1, <1>2 DEF SessionInv, EnvelopesInv
<1>4. MessagesInv(s)' /\ PacedInv(s)' /\ OpeningInv(s)' /\ ClosingInv(s)'
  BY <1>1 DEF SessionInv, MessagesInv, PacedInv, OpeningInv, ClosingInv
<1>5. WaitingInv(s)'
  BY <1>1 DEF SessionInv, WaitingInv
<1> QED
  BY <1>2, <1>3, <1>4, <1>5 DEF SessionInv

-----------------------------------------------------------------------------
(***************************************************************************)
(* Steps of the session.                                                   *)
(***************************************************************************)

\* An envelope taken from the WebSocket leaves larger numbers behind.
LEMMA ReceivedInOrder ==
    ASSUME TypeOK, NEW s \in Sessions, EnvelopesInv(s), ReceiveFromWire(s)
    PROVE  \A j \in 1 .. Len(wire'[s]) :
             /\ wire'[s][j] \in Nat
             /\ wire'[s][j] > wire[s][1]
             /\ wire'[s][j] # 0
             /\ wire'[s][j] <= sent[s]
             /\ wire'[s][j] > processed[s]
             /\ \A k \in 1 .. Len(wire'[s]) : j < k => wire'[s][j] < wire'[s][k]
<1> SUFFICES ASSUME NEW j \in 1 .. Len(wire'[s])
             PROVE  /\ wire'[s][j] \in Nat
                    /\ wire'[s][j] > wire[s][1]
                    /\ wire'[s][j] # 0
                    /\ wire'[s][j] <= sent[s]
                    /\ wire'[s][j] > processed[s]
                    /\ \A k \in 1 .. Len(wire'[s]) :
                         j < k => wire'[s][j] < wire'[s][k]
  OBVIOUS
<1>1. /\ 1 \in 1 .. Len(wire[s])
      /\ Len(wire[s]) \in Nat
      /\ Len(wire'[s]) = Len(wire[s]) - 1
      /\ \A k \in 1 .. Len(wire'[s]) : /\ k + 1 \in 1 .. Len(wire[s])
                                       /\ wire'[s][k] = wire[s][k + 1]
  BY Received
<1>2. wire[s][1] \in Nat /\ wire[s][j + 1] \in Nat
  BY <1>1, WireNumber
<1>3. wire[s][1] < wire[s][j + 1]
  <2>1. 1 < j + 1 /\ j + 1 \in 1 .. Len(wire[s])
    BY <1>1
  <2> QED
    BY <1>1, <2>1 DEF EnvelopesInv
<1>4. wire[s][j + 1] # 0
  BY <1>2, <1>3
<1>5. wire[s][j + 1] <= sent[s] /\ wire[s][j + 1] > processed[s]
  BY <1>1, <1>4 DEF EnvelopesInv
<1>6. ASSUME NEW k \in 1 .. Len(wire'[s]), j < k
      PROVE  wire'[s][j] < wire'[s][k]
  <2>1. /\ j + 1 \in 1 .. Len(wire[s])
        /\ k + 1 \in 1 .. Len(wire[s])
        /\ j + 1 < k + 1
    BY <1>1, <1>6
  <2>2. wire[s][j + 1] < wire[s][k + 1]
    BY <2>1 DEF EnvelopesInv
  <2> QED
    BY <1>1, <2>2
<1>7. wire'[s][j] = wire[s][j + 1]
  BY <1>1
<1>8. wire[s][j + 1] > wire[s][1]
  BY <1>2, <1>3
<1> QED
  BY <1>2, <1>4, <1>5, <1>6, <1>7, <1>8

\* The envelope of ws_open is the first one.
LEMMA ReceiveOpenStep ==
    ASSUME TypeOK, NEW s \in Sessions, SessionInv(s), ReceiveOpen(s)
    PROVE  TypeOK' /\ SessionInv(s)'
<1> USE ClientRelayAssumption
<1>1. PICK c \in Canisters :
        /\ handler[s] = "update"
        /\ handler' = [handler EXCEPT ![s] = "setup"]
        /\ ReceiveFromWire(s)
        /\ session_state[s] = "Init"
        /\ session_state' = [session_state EXCEPT ![s] = "Setup"]
        /\ canister_id' = [canister_id EXCEPT ![s] = c]
        /\ UNCHANGED <<channel, ic_calls, client, sent, confirmed, calls,
                       members, opened, processed, lost, ignored>>
  BY DEF ReceiveOpen, GoTo, handle_setup_transition, clientVars, canisterVars
<1>2. /\ wire' \in [Sessions -> Seq(0 .. MaxSent)]
      /\ Len(wire[s]) \in Nat
      /\ 1 \in 1 .. Len(wire[s])
      /\ Len(wire'[s]) = Len(wire[s]) - 1
  BY <1>1, Received
<1>3. handler'[s] = "setup" /\ session_state'[s] = "Setup"
  BY <1>1 DEF TypeOK, ClientSessionTypeOK
<1>4. TypeOK'
  BY <1>1, <1>2 DEF TypeOK, ClientSessionTypeOK, IcWsSessionState
<1>5. client[s] # "connected"
  BY <1>1 DEF SessionInv, EnvelopesInv, ReceiveFromWire
<1>6. EnvelopesInv(s)'
  BY <1>1, <1>3, <1>5, ReceivedInOrder DEF SessionInv, EnvelopesInv
<1>7. s \notin opened /\ s \notin confirmed
  BY <1>1 DEF SessionInv, OpeningInv
<1>8. MessagesInv(s)'
  BY <1>1, <1>7 DEF SessionInv, MessagesInv
<1>9. PacedInv(s)'
  BY <1>1 DEF SessionInv, PacedInv
<1>10. OpeningInv(s)' /\ ClosingInv(s)'
  BY <1>1, <1>3, <1>7 DEF SessionInv, OpeningInv, ClosingInv
<1>11. WaitingInv(s)'
  <2>1. ASSUME s \in Patient
        PROVE  wire'[s] = <<>>
    <3>1. Len(wire'[s]) = 0
      <4>1. Len(wire[s]) <= 1
        BY <1>1, <2>1 DEF SessionInv, WaitingInv
      <4>2. \A k \in Nat : k <= 1 /\ 1 \in 1 .. k => k - 1 = 0
        OBVIOUS
      <4> QED
        BY <1>2, <4>1, <4>2
    <3>2. wire'[s] \in Seq(0 .. MaxSent)
      BY <1>2
    <3> QED
      BY <3>1, <3>2, EmptySeq
  <2> QED
    BY <1>1, <1>3, <1>7, <2>1 DEF WaitingInv
<1> QED
  BY <1>4, <1>6, <1>8, <1>9, <1>10, <1>11 DEF SessionInv

\* The only ws_open of the session.
LEMMA RelayOpenStep ==
    ASSUME TypeOK, NEW s \in Sessions, SessionInv(s), RelayOpen(s)
    PROVE  TypeOK' /\ SessionInv(s)'
<1>1. /\ handler[s] = "setup"
      /\ handler' = [handler EXCEPT ![s] = "update"]
      /\ ic_calls' = [ic_calls EXCEPT ![s] = @ \cup {"ws_open"}]
      /\ calls' = calls \cup {Call(s, "ws_open", 0)}
      /\ UNCHANGED <<session_state, canister_id, channel, client, sent,
                     confirmed, wire, members, opened, processed, lost, ignored>>
  BY DEF RelayOpen, GoTo, CallIc, Spawn, clientVars, canisterVars
<1>2. handler'[s] = "update" /\ ic_calls'[s] = ic_calls[s] \cup {"ws_open"}
  BY <1>1 DEF TypeOK, ClientSessionTypeOK
<1>3. TypeOK'
  <2>1. Call(s, "ws_open", 0) \in UpdateCall
    BY DEF UpdateCall, IcCalls
  <2>2. ic_calls' \in [Sessions -> SUBSET IcCalls]
    BY <1>1 DEF TypeOK, ClientSessionTypeOK, IcCalls
  <2> QED
    BY <1>1, <2>1, <2>2 DEF TypeOK, ClientSessionTypeOK
<1>4. /\ \A n : Call(s, "ws_message", n) \in calls'
                  => Call(s, "ws_message", n) \in calls
      /\ Call(s, "ws_close", 0) \in calls' => Call(s, "ws_close", 0) \in calls
  BY <1>1, CallFields
<1>5. s \notin opened /\ session_state[s] = "Setup" /\ s \notin confirmed
  BY <1>1 DEF SessionInv, OpeningInv
<1>6. EnvelopesInv(s)' /\ PacedInv(s)'
  BY <1>1 DEF SessionInv, EnvelopesInv, PacedInv
<1>7. MessagesInv(s)'
  BY <1>1, <1>4 DEF SessionInv, MessagesInv
<1>8. OpeningInv(s)' /\ ClosingInv(s)'
  BY <1>1, <1>2, <1>4, <1>5 DEF SessionInv, OpeningInv, ClosingInv
<1>9. WaitingInv(s)'
  BY <1>1, <1>5 DEF SessionInv, WaitingInv
<1> QED
  BY <1>3, <1>6, <1>7, <1>8, <1>9 DEF SessionInv

\* A message is relayed in Open, where it has a number; it is ignored in Setup.
LEMMA ReceiveMessageStep ==
    ASSUME TypeOK, NEW s \in Sessions, SessionInv(s), ReceiveMessage(s)
    PROVE  /\ TypeOK' /\ SessionInv(s)'
           /\ s \in Patient => ignored' = ignored
<1> USE ClientRelayAssumption
<1> DEFINE n == wire[s][1]
<1>1. /\ handler[s] = "update"
      /\ handler' = [handler EXCEPT ![s] = "update"]
      /\ ReceiveFromWire(s)
      /\ UNCHANGED <<session_state, canister_id, channel, ic_calls, client, sent,
                     confirmed, members, opened, processed, lost>>
  BY DEF ReceiveMessage, GoTo, ClientMessage, clientSessionVars, clientVars,
         canisterVars
<1>2. /\ wire' \in [Sessions -> Seq(0 .. MaxSent)]
      /\ Head(wire[s]) = n
      /\ n \in 0 .. MaxSent
      /\ 1 \in 1 .. Len(wire[s])
  BY <1>1, Received
<1>3. \/ /\ session_state[s] = "Setup"
         /\ ignored' = ignored \cup {s}
         /\ UNCHANGED calls
      \/ /\ session_state[s] = "Open"
         /\ calls' = calls \cup {Call(s, "ws_message", n)}
         /\ UNCHANGED ignored
  BY <1>2 DEF ReceiveMessage, Spawn
<1>4. n # 0 /\ n \in 1 .. MaxSent /\ n <= sent[s] /\ n > processed[s]
  <2>1. session_state[s] \in {"Setup", "Open"}
    BY <1>3
  <2>2. n # 0 /\ n <= sent[s] /\ n > processed[s]
    BY <1>2, <2>1 DEF SessionInv, EnvelopesInv
  <2> QED
    BY <1>2, <2>2
<1>5. handler'[s] = handler[s] /\ client[s] # "connected"
  BY <1>1 DEF TypeOK, SessionInv, EnvelopesInv, ReceiveFromWire
<1> HIDE DEF n
<1>6. TypeOK'
  <2>1. Call(s, "ws_message", n) \in UpdateCall
    BY <1>4 DEF UpdateCall
  <2>2. calls' \subseteq UpdateCall /\ ignored' \subseteq Sessions
    BY <1>3, <2>1 DEF TypeOK
  <2> QED
    BY <1>1, <1>2, <2>2 DEF TypeOK, ClientSessionTypeOK
<1>7. EnvelopesInv(s)'
  BY <1>1, <1>5, ReceivedInOrder DEF SessionInv, EnvelopesInv
<1>8. MessagesInv(s)'
  <2> SUFFICES ASSUME NEW k \in 1 .. MaxSent, Call(s, "ws_message", k) \in calls'
               PROVE  /\ s \in opened
                      /\ k > processed[s]
                      /\ k <= sent[s]
                      /\ \A j \in 1 .. Len(wire'[s]) : k < wire'[s][j]
    BY <1>1 DEF MessagesInv
  <2>1. CASE Call(s, "ws_message", k) \in calls
    <3>1. \A j \in 1 .. Len(wire[s]) : k < wire[s][j]
      BY <2>1 DEF SessionInv, MessagesInv
    <3>2. \A j \in 1 .. Len(wire'[s]) : k < wire'[s][j]
      BY <1>1, <3>1, Received
    <3> QED
      BY <2>1, <3>2 DEF SessionInv, MessagesInv
  <2>2. CASE Call(s, "ws_message", k) \notin calls
    <3>1. session_state[s] = "Open" /\ k = n
      BY <1>3, <2>2, CallFields
    <3>2. \A j \in 1 .. Len(wire'[s]) : wire'[s][j] \in Nat /\ wire'[s][j] > n
      BY <1>1, ReceivedInOrder DEF SessionInv, n
    <3>3. s \in opened
      BY <3>1 DEF SessionInv, OpeningInv
    <3> QED
      BY <1>4, <3>1, <3>2, <3>3
  <2> QED
    BY <2>1, <2>2
<1>9. PacedInv(s)'
  BY <1>1 DEF SessionInv, PacedInv
<1>10. /\ Call(s, "ws_open", 0) \in calls' => Call(s, "ws_open", 0) \in calls
       /\ Call(s, "ws_close", 0) \in calls' => Call(s, "ws_close", 0) \in calls
  BY <1>3, CallFields
<1>11. OpeningInv(s)' /\ ClosingInv(s)'
  BY <1>1, <1>5, <1>10 DEF SessionInv, OpeningInv, ClosingInv
<1>12. ASSUME s \in Patient
       PROVE  session_state[s] = "Open"
  <2>1. wire[s] # <<>>
    BY <1>1 DEF ReceiveFromWire
  <2> QED
    BY <1>1, <1>3, <1>12, <2>1 DEF SessionInv, WaitingInv
<1>13. WaitingInv(s)'
  BY <1>1, <1>12 DEF WaitingInv
<1> QED
  BY <1>3, <1>6, <1>7, <1>8, <1>9, <1>11, <1>12, <1>13 DEF SessionInv

\* The confirmation is delivered, and the client may answer at once.
LEMMA DeliverStep ==
    ASSUME TypeOK, NEW s \in Sessions, SessionInv(s), DeliverToClient(s)
    PROVE  TypeOK' /\ SessionInv(s)'
<1> USE ClientSessionAssumption
<1>1. /\ handler[s] = "update"
      /\ handler' = [handler EXCEPT ![s] = "delivering"]
      /\ channel[s] > 0
      /\ channel' = [channel EXCEPT ![s] = @ - 1]
      /\ confirmed' = confirmed \/ confirmed' = confirmed \cup {s}
      /\ UNCHANGED <<session_state, canister_id, ic_calls, client, sent, wire,
                     calls, members, opened, processed, lost, ignored>>
  BY DEF DeliverToClient, GoTo, CanisterMessage, canisterVars
<1>2. channel' \in [Sessions -> 0 .. ChannelCapacity]
  BY <1>1 DEF TypeOK, ClientSessionTypeOK
<1>3. TypeOK' /\ handler'[s] = "delivering"
  BY <1>1, <1>2 DEF TypeOK, ClientSessionTypeOK
<1>4. EnvelopesInv(s)' /\ MessagesInv(s)' /\ PacedInv(s)'
  BY <1>1 DEF SessionInv, EnvelopesInv, MessagesInv, PacedInv
<1>5. s \in opened
  BY <1>1 DEF SessionInv, OpeningInv
<1>6. OpeningInv(s)' /\ ClosingInv(s)' /\ WaitingInv(s)'
  BY <1>1, <1>3, <1>5 DEF SessionInv, OpeningInv, ClosingInv, WaitingInv
<1> QED
  BY <1>3, <1>4, <1>6 DEF SessionInv

\* The session becomes Open before it handles another update.
LEMMA EndDeliveryStep ==
    ASSUME TypeOK, NEW s \in Sessions, SessionInv(s), EndDelivery(s)
    PROVE  TypeOK' /\ SessionInv(s)'
<1>1. /\ handler[s] = "delivering"
      /\ handler' = [handler EXCEPT ![s] = "update"]
      /\ session_state' = IF session_state[s] = "Setup"
                          THEN [session_state EXCEPT ![s] = "Open"]
                          ELSE session_state
      /\ UNCHANGED <<canister_id, channel, ic_calls, client, sent, confirmed,
                     wire, calls, members, opened, processed, lost, ignored>>
  BY DEF EndDelivery, GoTo, CanisterMessageSent, clientVars, canisterVars
<1>2. /\ handler'[s] = "update"
      /\ session_state'[s] = IF session_state[s] = "Setup" THEN "Open"
                                                           ELSE session_state[s]
  BY <1>1 DEF TypeOK, ClientSessionTypeOK
<1>3. TypeOK'
  BY <1>1, <1>2 DEF TypeOK, ClientSessionTypeOK, IcWsSessionState
<1>4. EnvelopesInv(s)' /\ MessagesInv(s)' /\ PacedInv(s)'
  BY <1>1, <1>2 DEF SessionInv, EnvelopesInv, MessagesInv, PacedInv
<1>5. s \in opened
  BY <1>1 DEF SessionInv, OpeningInv
<1>6. OpeningInv(s)' /\ ClosingInv(s)' /\ WaitingInv(s)'
  BY <1>1, <1>2, <1>5 DEF SessionInv, OpeningInv, ClosingInv, WaitingInv
<1> QED
  BY <1>3, <1>4, <1>6 DEF SessionInv

\* The session ends.
LEMMA EndStep ==
    ASSUME TypeOK, NEW s \in Sessions, SessionInv(s),
           ReceiveClose(s) \/ SessionError(s) \/ PollerError(s)
    PROVE  TypeOK' /\ SessionInv(s)'
<1> USE ClientSessionAssumption
<1>1. /\ handler[s] = "update"
      /\ \E to \in {"ws_close", "done"} : handler' = [handler EXCEPT ![s] = to]
      /\ UNCHANGED <<canister_id, ic_calls, client, sent, confirmed, wire, calls,
                     members, opened, processed, lost, ignored>>
  BY DEF ReceiveClose, SessionError, PollerError, AfterEnd, GoTo,
         ClientCloseMessage, ClientStreamError, InvalidClientMessage,
         CanisterMessage, CanisterUpdateNone, clientSessionVars,
         clientVars, canisterVars
<1>2. \/ session_state' = session_state
      \/ session_state' = [session_state EXCEPT ![s] = "Closed"]
  BY DEF ReceiveClose, SessionError, PollerError, ClientCloseMessage,
         ClientStreamError, InvalidClientMessage, CanisterMessage,
         CanisterUpdateNone, clientSessionVars
<1>3. \/ channel' = channel
      \/ channel[s] > 0 /\ channel' = [channel EXCEPT ![s] = @ - 1]
  BY DEF ReceiveClose, SessionError, PollerError, ClientCloseMessage,
         ClientStreamError, InvalidClientMessage, CanisterMessage,
         CanisterUpdateNone, clientSessionVars
<1>4. /\ channel' \in [Sessions -> 0 .. ChannelCapacity]
      /\ channel'[s] > 0 => channel[s] > 0
      /\ handler'[s] = "ws_close" \/ handler'[s] = "done"
      /\ session_state'[s] = session_state[s] \/ session_state'[s] = "Closed"
  <2>1. /\ channel' \in [Sessions -> 0 .. ChannelCapacity]
        /\ channel'[s] > 0 => channel[s] > 0
    <3>1. channel \in [Sessions -> 0 .. ChannelCapacity]
      BY DEF TypeOK, ClientSessionTypeOK
    <3>2. CASE channel' = channel
      BY <3>1, <3>2
    <3>3. CASE channel[s] > 0 /\ channel' = [channel EXCEPT ![s] = @ - 1]
      BY <3>1, <3>3
    <3> QED
      BY <1>3, <3>2, <3>3
  <2>2. handler'[s] = "ws_close" \/ handler'[s] = "done"
    BY <1>1 DEF TypeOK
  <2>3. session_state'[s] = session_state[s] \/ session_state'[s] = "Closed"
    BY <1>2 DEF TypeOK, ClientSessionTypeOK
  <2> QED
    BY <2>1, <2>2, <2>3
<1>5. TypeOK'
  <2>1. handler' \in [Sessions -> {"update", "setup", "delivering", "ws_close",
                                  "done"}]
    BY <1>1 DEF TypeOK
  <2>2. session_state' \in [Sessions -> IcWsSessionState]
    BY <1>2 DEF TypeOK, ClientSessionTypeOK, IcWsSessionState
  <2> QED
    BY <1>1, <1>4, <2>1, <2>2 DEF TypeOK, ClientSessionTypeOK
<1>6. EnvelopesInv(s)' /\ MessagesInv(s)' /\ PacedInv(s)'
  BY <1>1, <1>4 DEF SessionInv, EnvelopesInv, MessagesInv, PacedInv
<1>7. OpeningInv(s)' /\ ClosingInv(s)' /\ WaitingInv(s)'
  BY <1>1, <1>4 DEF SessionInv, OpeningInv, ClosingInv, WaitingInv
<1> QED
  BY <1>5, <1>6, <1>7 DEF SessionInv

\* The handler makes its last call.
LEMMA CloseStep ==
    ASSUME TypeOK, NEW s \in Sessions, SessionInv(s), call_ws_close(s)
    PROVE  TypeOK' /\ SessionInv(s)'
<1>1. /\ handler[s] = "ws_close"
      /\ handler' = [handler EXCEPT ![s] = "done"]
      /\ ic_calls' = [ic_calls EXCEPT ![s] = @ \cup {"ws_close"}]
      /\ calls' = calls \cup {Call(s, "ws_close", 0)}
      /\ UNCHANGED <<session_state, canister_id, channel, client, sent,
                     confirmed, wire, members, opened, processed, lost, ignored>>
  BY DEF call_ws_close, GoTo, CallIc, Spawn, clientVars, canisterVars
<1>2. handler'[s] = "done" /\ ic_calls'[s] = ic_calls[s] \cup {"ws_close"}
  BY <1>1 DEF TypeOK, ClientSessionTypeOK
<1>3. TypeOK'
  <2>1. Call(s, "ws_close", 0) \in UpdateCall
    BY DEF UpdateCall, IcCalls
  <2>2. ic_calls' \in [Sessions -> SUBSET IcCalls]
    BY <1>1 DEF TypeOK, ClientSessionTypeOK, IcCalls
  <2> QED
    BY <1>1, <2>1, <2>2 DEF TypeOK, ClientSessionTypeOK
<1>4. /\ \A n : Call(s, "ws_message", n) \in calls'
                  => Call(s, "ws_message", n) \in calls
      /\ Call(s, "ws_open", 0) \in calls' => Call(s, "ws_open", 0) \in calls
  BY <1>1, CallFields
<1>5. EnvelopesInv(s)' /\ MessagesInv(s)' /\ PacedInv(s)'
  BY <1>1, <1>4 DEF SessionInv, EnvelopesInv, MessagesInv, PacedInv
<1>6. OpeningInv(s)' /\ ClosingInv(s)' /\ WaitingInv(s)'
  BY <1>1, <1>2, <1>4 DEF SessionInv, OpeningInv, ClosingInv, WaitingInv
<1> QED
  BY <1>3, <1>5, <1>6 DEF SessionInv

-----------------------------------------------------------------------------
(***************************************************************************)
(* Steps of the canister, and calls that fail.                             *)
(***************************************************************************)

\* The canister registers the client and sends the confirmation, which the
\* channel of the session takes if it has room.
LEMMA ExecuteOpenStep ==
    ASSUME TypeOK, NEW s \in Sessions, SessionInv(s), ws_open(s)
    PROVE  TypeOK' /\ SessionInv(s)'
<1> USE ClientSessionAssumption
<1>1. /\ Call(s, "ws_open", 0) \in calls
      /\ calls' = calls \ {Call(s, "ws_open", 0)}
      /\ members' = members \cup {s}
      /\ opened' = opened \cup {s}
      /\ \/ channel' = channel
         \/ /\ channel[s] < ChannelCapacity
            /\ channel' = [channel EXCEPT ![s] = @ + 1]
      /\ UNCHANGED <<session_state, canister_id, ic_calls, client, sent,
                     confirmed, wire, handler, processed, lost, ignored>>
  BY DEF ws_open, Execute, Send, clientVars
<1>2. channel' \in [Sessions -> 0 .. ChannelCapacity]
  <2>1. channel \in [Sessions -> 0 .. ChannelCapacity]
    BY DEF TypeOK, ClientSessionTypeOK
  <2>2. CASE channel' = channel
    BY <2>1, <2>2
  <2>3. CASE /\ channel[s] < ChannelCapacity
             /\ channel' = [channel EXCEPT ![s] = @ + 1]
    BY <2>1, <2>3
  <2> QED
    BY <1>1, <2>2, <2>3
<1>3. TypeOK'
  BY <1>1, <1>2 DEF TypeOK, ClientSessionTypeOK
<1>4. EnvelopesInv(s)' /\ PacedInv(s)'
  BY <1>1 DEF SessionInv, EnvelopesInv, PacedInv
<1>5. MessagesInv(s)' /\ OpeningInv(s)'
  <2>1. s \in opened' /\ Call(s, "ws_open", 0) \notin calls'
    BY <1>1
  <2>2. \A n \in 1 .. MaxSent : Call(s, "ws_message", n) \in calls'
                                  => Call(s, "ws_message", n) \in calls
    BY <1>1
  <2>3. session_state[s] # "Init" /\ handler[s] # "setup"
    BY <1>1 DEF SessionInv, OpeningInv
  <2>4. MessagesInv(s)'
    BY <1>1, <2>1, <2>2 DEF SessionInv, MessagesInv
  <2>5. OpeningInv(s)'
    BY <1>1, <2>1, <2>3 DEF SessionInv, OpeningInv
  <2> QED
    BY <2>4, <2>5
<1>6. ClosingInv(s)' /\ WaitingInv(s)'
  BY <1>1 DEF SessionInv, ClosingInv, WaitingInv
<1> QED
  BY <1>3, <1>4, <1>5, <1>6 DEF SessionInv

\* A message that is accepted has a smaller number than all those behind it; the
\* message of a client with window 1 is always the next one.
LEMMA ExecuteMessageStep ==
    ASSUME TypeOK, NEW s \in Sessions, SessionInv(s), ws_message(s)
    PROVE  /\ TypeOK' /\ SessionInv(s)'
           /\ Window[s] = 1 /\ s \in members => s \in members'
           /\ members' = members \/ members' = members \ {s}
           /\ UNCHANGED <<opened, ic_calls, ignored>>
<1> USE ClientRelayAssumption
<1>1. PICK n \in 1 .. MaxSent :
        /\ Call(s, "ws_message", n) \in calls
        /\ calls' = calls \ {Call(s, "ws_message", n)}
        /\ IF s \in members /\ n = processed[s] + 1
           THEN processed' = [processed EXCEPT ![s] = n] /\ UNCHANGED members
           ELSE members' = members \ {s} /\ UNCHANGED processed
        /\ UNCHANGED <<session_state, canister_id, channel, ic_calls, client,
                       sent, confirmed, wire, handler, opened, lost, ignored>>
  BY DEF ws_message, Execute, clientSessionVars, clientVars
<1>2. /\ n > processed[s]
      /\ n <= sent[s]
      /\ \A j \in 1 .. Len(wire[s]) : n < wire[s][j]
  BY <1>1 DEF SessionInv, MessagesInv
<1>3. processed[s] \in Nat /\ sent[s] \in Nat /\ n \in Nat
  BY <1>1 DEF TypeOK
<1>4. \/ processed'[s] = processed[s]
      \/ processed'[s] = n /\ n = processed[s] + 1
  BY <1>1 DEF TypeOK
<1>5. TypeOK'
  <2>1. processed' \in [Sessions -> 0 .. MaxSent]
    BY <1>1, SMTT(30) DEF TypeOK
  <2>2. calls' \subseteq UpdateCall /\ members' \subseteq opened
    BY <1>1 DEF TypeOK
  <2> QED
    BY <1>1, <2>1, <2>2 DEF TypeOK, ClientSessionTypeOK
<1>6. EnvelopesInv(s)'
  <2>1. \A j \in 1 .. Len(wire[s]) :
            wire[s][j] # 0 => wire[s][j] > processed'[s]
    <3> SUFFICES ASSUME NEW j \in 1 .. Len(wire[s]), wire[s][j] # 0
                 PROVE  wire[s][j] > processed'[s]
      OBVIOUS
    <3>1. wire[s][j] > processed[s] /\ n < wire[s][j] /\ wire[s][j] \in Nat
      BY <1>2, WireNumber DEF SessionInv, EnvelopesInv
    <3> QED
      BY <1>3, <1>4, <3>1
  <2> QED
    BY <1>1, <2>1 DEF SessionInv, EnvelopesInv
<1>7. MessagesInv(s)'
  <2> SUFFICES ASSUME NEW k \in 1 .. MaxSent, Call(s, "ws_message", k) \in calls'
               PROVE  k > processed'[s]
    BY <1>1 DEF SessionInv, MessagesInv
  <2>1. k # n /\ Call(s, "ws_message", k) \in calls
    BY <1>1
  <2>2. k > processed[s]
    BY <2>1 DEF SessionInv, MessagesInv
  <2> QED
    BY <1>3, <1>4, <2>1, <2>2
<1>8. PacedInv(s)'
  <2>1. /\ processed[s] <= sent[s]
        /\ Window[s] = 1 => sent[s] <= processed[s] + 1
    BY DEF SessionInv, PacedInv
  <2>2. /\ processed'[s] <= sent[s]
        /\ Window[s] = 1 => sent[s] <= processed'[s] + 1
    BY <1>2, <1>3, <1>4, <2>1
  <2> QED
    BY <1>1, <2>2 DEF PacedInv
<1>9. OpeningInv(s)' /\ ClosingInv(s)' /\ WaitingInv(s)'
  BY <1>1 DEF SessionInv, OpeningInv, ClosingInv, WaitingInv
<1>10. Window[s] = 1 => n = processed[s] + 1
  BY <1>2, <1>3 DEF SessionInv, PacedInv
<1> QED
  BY <1>1, <1>5, <1>6, <1>7, <1>8, <1>9, <1>10 DEF SessionInv

\* A call that ends otherwise is only removed from the calls under way.
LEMMA CallEndsStep ==
    ASSUME TypeOK, NEW s \in Sessions, SessionInv(s), ws_close(s) \/ CallFails(s)
    PROVE  TypeOK' /\ SessionInv(s)'
<1>1. /\ calls' \subseteq calls
      /\ lost' \subseteq UpdateCall
      /\ members' \subseteq members
      /\ UNCHANGED <<session_state, canister_id, channel, ic_calls, client, sent,
                     confirmed, wire, handler, opened, processed, ignored>>
  BY DEF ws_close, CallFails, Execute, clientSessionVars, clientVars, TypeOK
<1>2. TypeOK'
  BY <1>1 DEF TypeOK, ClientSessionTypeOK
<1>3. EnvelopesInv(s)' /\ MessagesInv(s)' /\ PacedInv(s)'
  BY <1>1 DEF SessionInv, EnvelopesInv, MessagesInv, PacedInv
<1>4. OpeningInv(s)' /\ ClosingInv(s)' /\ WaitingInv(s)'
  BY <1>1 DEF SessionInv, OpeningInv, ClosingInv, WaitingInv
<1> QED
  BY <1>2, <1>3, <1>4 DEF SessionInv

-----------------------------------------------------------------------------
(***************************************************************************)
(* The theorems.                                                           *)
(***************************************************************************)

\* Every step keeps the invariant of the session it belongs to.
LEMMA SessionSteps ==
    ASSUME TypeOK, NEW s \in Sessions, SessionInv(s),
           \/ ClientOpens(s)
           \/ ClientSends(s)
           \/ ClientLeaves(s)
           \/ SessionStep(s)
           \/ SessionError(s)
           \/ PollerError(s)
           \/ CallExecuted(s)
           \/ CallFails(s)
    PROVE  TypeOK' /\ SessionInv(s)'
<1>1. CASE ClientOpens(s) \/ ClientSends(s) \/ ClientLeaves(s)
  BY <1>1, ClientOpensStep, ClientSendsStep, ClientLeavesStep
<1>2. CASE SessionStep(s)
  BY <1>2, ReceiveOpenStep, RelayOpenStep, ReceiveMessageStep, DeliverStep,
     EndDeliveryStep, EndStep, CloseStep DEF SessionStep
<1>3. CASE SessionError(s) \/ PollerError(s)
  BY <1>3, EndStep
<1>4. CASE CallExecuted(s)
  BY <1>4, ExecuteOpenStep, ExecuteMessageStep, CallEndsStep DEF CallExecuted
<1>5. CASE CallFails(s)
  BY <1>5, CallEndsStep
<1> QED
  BY <1>1, <1>2, <1>3, <1>4, <1>5

\* What the sessions, the tasks that relay envelopes, the clients and the
\* canister know of each other: the inductive invariant.
THEOREM ClientRelayInvariant == Spec => [](TypeOK /\ ClientRelayInv)
<1>1. Init => TypeOK /\ ClientRelayInv
  <2> SUFFICES ASSUME Init
               PROVE  TypeOK /\ ClientRelayInv
    OBVIOUS
  <2> USE ClientRelayAssumption, ClientSessionAssumption
  <2>1. TypeOK
    <3>1. <<>> \in Seq(0 .. MaxSent)
      BY EmptySeq
    <3> QED
      BY <3>1 DEF Init, TypeOK, ClientSessionInit, ClientSessionTypeOK,
                  IcWsSessionState
  <2>2. ASSUME NEW s \in Sessions
        PROVE  SessionInv(s)
    <3>1. Len(wire[s]) = 0 /\ wire[s] = <<>>
      BY EmptySeq DEF Init
    <3>2. EnvelopesInv(s) /\ MessagesInv(s)
      BY <3>1 DEF Init, ClientSessionInit, EnvelopesInv, MessagesInv
    <3>3. PacedInv(s) /\ OpeningInv(s)
      BY DEF Init, ClientSessionInit, PacedInv, OpeningInv
    <3>4. ClosingInv(s) /\ WaitingInv(s)
      BY <3>1 DEF Init, ClientSessionInit, ClosingInv, WaitingInv
    <3> QED
      BY <3>2, <3>3, <3>4 DEF SessionInv
  <2> QED
    BY <2>1, <2>2 DEF ClientRelayInv
<1>2. TypeOK /\ ClientRelayInv /\ [Next]_vars => (TypeOK /\ ClientRelayInv)'
  <2> SUFFICES ASSUME TypeOK, ClientRelayInv, [Next]_vars
               PROVE  TypeOK' /\ ClientRelayInv'
    OBVIOUS
  <2>1. CASE UNCHANGED vars
    <3> USE <2>1 DEF vars, clientSessionVars, clientVars, canisterVars
    <3>1. TypeOK'
      BY DEF TypeOK, ClientSessionTypeOK
    <3>2. ASSUME NEW t \in Sessions
          PROVE  Untouched(t)
      BY DEF Untouched
    <3> QED
      BY <3>1, <3>2, UntouchedInv DEF ClientRelayInv
  <2>2. CASE Next
    <3>1. PICK s \in Sessions :
            \/ ClientOpens(s)
            \/ ClientSends(s)
            \/ ClientLeaves(s)
            \/ SessionStep(s)
            \/ SessionError(s)
            \/ PollerError(s)
            \/ CallExecuted(s)
            \/ CallFails(s)
      BY <2>2 DEF Next
    <3>2. \A t \in Sessions : SessionInv(t)
      BY DEF ClientRelayInv
    <3>3. TypeOK' /\ SessionInv(s)'
      BY <3>1, <3>2, SessionSteps
    <3>4. ASSUME NEW t \in Sessions, t # s
          PROVE  SessionInv(t)'
      <4>1. Untouched(t)
        BY <3>1, <3>4, OthersUntouched
      <4> QED
        BY <3>2, <4>1, UntouchedInv
    <3> QED
      BY <3>3, <3>4 DEF ClientRelayInv
  <2> QED
    BY <2>1, <2>2
<1> QED
  BY <1>1, <1>2, PTL DEF Spec

\* The sessions, the clients, the WebSockets and the calls keep their types: in
\* particular no number on a WebSocket exceeds what the client may send and no
\* channel holds more than its capacity.
THEOREM ClientRelayTypeCorrect == Spec => []TypeOK
  BY ClientRelayInvariant, PTL

\* handle_client_update relays nothing in Setup, so no message of a client is
\* under way before the canister has executed its ws_open.
THEOREM NothingBeforeOpenHolds == Spec => []NothingBeforeOpen
<1>1. TypeOK /\ ClientRelayInv => NothingBeforeOpen
  <2> SUFFICES ASSUME TypeOK, ClientRelayInv, NEW call \in calls,
                      call.method = "ws_message"
               PROVE  call.session \in opened
    BY DEF NothingBeforeOpen
  <2>1. /\ call = Call(call.session, "ws_message", call.number)
        /\ call.session \in Sessions
        /\ call.number \in 1 .. MaxSent
    BY UpdateCallFields DEF TypeOK
  <2>2. MessagesInv(call.session)
    BY <2>1 DEF ClientRelayInv, SessionInv
  <2> QED
    BY <2>1, <2>2 DEF MessagesInv
<1> QED
  BY <1>1, ClientRelayInvariant, PTL

\* A client that waits for the confirmation of its ws_open is never ignored,
\* however fast it answers: the session becomes Open before it handles the next
\* update.
THEOREM PatientClientHeardHolds == Spec => []PatientClientHeard
<1>1. Init => PatientClientHeard
  BY DEF Init, PatientClientHeard
<1>2. TypeOK /\ ClientRelayInv /\ PatientClientHeard /\ [Next]_vars
        => PatientClientHeard'
  <2> SUFFICES ASSUME TypeOK, ClientRelayInv, PatientClientHeard, [Next]_vars
               PROVE  PatientClientHeard'
    OBVIOUS
  <2>1. CASE ignored' = ignored
    BY <2>1 DEF PatientClientHeard
  <2>2. ASSUME NEW s \in Sessions, ReceiveMessage(s)
        PROVE  PatientClientHeard'
    <3>1. SessionInv(s)
      BY DEF ClientRelayInv
    <3>2. CASE s \in Patient
      BY <2>1, <2>2, <3>1, <3>2, ReceiveMessageStep
    <3>3. CASE s \notin Patient
      <4>1. ignored' \subseteq ignored \cup {s}
        BY <2>2 DEF ReceiveMessage
      <4> QED
        BY <3>3, <4>1 DEF PatientClientHeard
    <3> QED
      BY <3>2, <3>3
  <2>3. CASE UNCHANGED vars
    BY <2>1, <2>3 DEF vars
  <2>4. CASE Next
    <3>1. \/ \E s \in Sessions : ReceiveMessage(s)
          \/ ignored' = ignored
      BY <2>4 DEF Next, ClientOpens, ClientSends, ClientLeaves, SessionStep,
         ReceiveOpen, RelayOpen, DeliverToClient, EndDelivery, ReceiveClose,
         call_ws_close, SessionError, PollerError, CallExecuted, ws_open,
         ws_message, ws_close, Execute, CallFails
    <3> QED
      BY <2>1, <2>2, <3>1
  <2> QED
    BY <2>3, <2>4
<1> QED
  BY <1>1, <1>2, ClientRelayInvariant, PTL DEF Spec

\* What a step may do to the registration of the clients and to their ws_close
\* calls, whatever the session it belongs to.
LEMMA RegistrationSteps ==
    ASSUME TypeOK, ClientRelayInv, Next
    PROVE  \/ \E s \in Sessions : DeliverToClient(s)
           \/ \E s \in Sessions : call_ws_close(s)
           \/ \E s \in Sessions : RelayOpen(s)
           \/ \E s \in Sessions : ws_open(s)
           \/ \E s \in Sessions : ws_message(s)
           \/ \E s \in Sessions : ws_close(s)
           \/ \E s \in Sessions : CallFails(s)
           \/ /\ UNCHANGED <<confirmed, members, opened, ic_calls, lost>>
              /\ calls \subseteq calls'
  BY DEF Next, ClientOpens, ClientSends, ClientLeaves, SessionStep, ReceiveOpen,
     ReceiveMessage, EndDelivery, ReceiveClose, SessionError, PollerError,
     CallExecuted, handle_setup_transition, ClientMessage, CanisterMessageSent,
     ClientCloseMessage, ClientStreamError, InvalidClientMessage,
     CanisterMessage, CanisterUpdateNone, Spawn, clientSessionVars,
     clientVars, canisterVars

\* A client that was confirmed and whose session called ws_close does not stay
\* registered: neither a late ws_open nor a late message registers it again.
THEOREM OpenedClientForgottenHolds == Spec => []OpenedClientForgotten
<1>1. Init => OpenedClientForgotten
  BY DEF Init, OpenedClientForgotten
<1>2. TypeOK /\ ClientRelayInv /\ OpenedClientForgotten /\ [Next]_vars
        => OpenedClientForgotten'
  <2> SUFFICES ASSUME TypeOK, ClientRelayInv, OpenedClientForgotten, [Next]_vars
               PROVE  OpenedClientForgotten'
    OBVIOUS
  <2>1. \A t \in Sessions : SessionInv(t)
    BY DEF ClientRelayInv
  <2>2. CASE /\ UNCHANGED <<confirmed, members, opened, ic_calls, lost>>
             /\ calls \subseteq calls'
    BY <2>2 DEF OpenedClientForgotten
  <2>3. CASE \E s \in Sessions : DeliverToClient(s)
    <3>1. PICK s \in Sessions : DeliverToClient(s)
      BY <2>3
    <3>2. /\ confirmed' \subseteq confirmed \cup {s}
          /\ UNCHANGED <<members, ic_calls, calls, lost>>
      BY <3>1 DEF DeliverToClient, CanisterMessage, canisterVars
    <3>3. "ws_close" \notin ic_calls[s]
      BY <2>1, <3>1 DEF DeliverToClient, GoTo, SessionInv, ClosingInv
    <3> QED
      BY <3>2, <3>3 DEF OpenedClientForgotten
  <2>4. CASE \E s \in Sessions : call_ws_close(s)
    <3>1. PICK s \in Sessions : call_ws_close(s)
      BY <2>4
    <3>2. /\ calls' = calls \cup {Call(s, "ws_close", 0)}
          /\ \A t \in Sessions : t # s => ic_calls'[t] = ic_calls[t]
          /\ UNCHANGED <<confirmed, members, lost>>
      BY <3>1 DEF call_ws_close, CallIc, Spawn, clientVars, canisterVars, TypeOK,
                  ClientSessionTypeOK
    <3>3. confirmed \subseteq Sessions
      BY DEF TypeOK
    <3> QED
      BY <3>2, <3>3 DEF OpenedClientForgotten
  <2>5. CASE \E s \in Sessions : RelayOpen(s)
    <3>1. PICK s \in Sessions : RelayOpen(s)
      BY <2>5
    <3>2. /\ calls \subseteq calls'
          /\ \A t \in Sessions : "ws_close" \in ic_calls'[t]
                                   => "ws_close" \in ic_calls[t]
          /\ UNCHANGED <<confirmed, members, lost>>
      BY <3>1 DEF RelayOpen, CallIc, Spawn, clientVars, canisterVars, TypeOK,
                  ClientSessionTypeOK
    <3>3. confirmed \subseteq Sessions
      BY DEF TypeOK
    <3> QED
      BY <3>2, <3>3 DEF OpenedClientForgotten
  <2>6. CASE \E s \in Sessions : ws_open(s)
    <3>1. PICK s \in Sessions : ws_open(s)
      BY <2>6
    <3>2. /\ Call(s, "ws_open", 0) \in calls
          /\ calls' = calls \ {Call(s, "ws_open", 0)}
          /\ members' = members \cup {s}
          /\ UNCHANGED <<confirmed, ic_calls, lost>>
      BY <3>1 DEF ws_open, Execute, Send, clientVars
    <3>3. s \notin confirmed
      BY <2>1, <3>2 DEF SessionInv, OpeningInv
    <3>4. \A t : Call(t, "ws_close", 0) \in calls => Call(t, "ws_close", 0) \in calls'
      BY <3>2, CallFields
    <3> QED
      BY <3>2, <3>3, <3>4 DEF OpenedClientForgotten
  <2>7. CASE \E s \in Sessions : ws_message(s)
    <3>1. PICK s \in Sessions, n \in 1 .. MaxSent :
            /\ calls' = calls \ {Call(s, "ws_message", n)}
            /\ members' \subseteq members
            /\ UNCHANGED <<confirmed, ic_calls, lost>>
      BY <2>7 DEF ws_message, Execute, clientSessionVars, clientVars
    <3>2. \A t : Call(t, "ws_close", 0) \in calls => Call(t, "ws_close", 0) \in calls'
      BY <3>1, CallFields
    <3> QED
      BY <3>1, <3>2 DEF OpenedClientForgotten
  <2>8. CASE \E s \in Sessions : ws_close(s)
    <3>1. PICK s \in Sessions :
            /\ calls' = calls \ {Call(s, "ws_close", 0)}
            /\ members' = members \ {s}
            /\ UNCHANGED <<confirmed, ic_calls, lost>>
      BY <2>8 DEF ws_close, Execute, clientSessionVars, clientVars
    <3>2. \A t : t # s /\ Call(t, "ws_close", 0) \in calls
                   => Call(t, "ws_close", 0) \in calls'
      BY <3>1, CallFields
    <3> QED
      BY <3>1, <3>2 DEF OpenedClientForgotten
  <2>9. CASE \E s \in Sessions : CallFails(s)
    <3>1. PICK call \in calls :
            /\ calls' = calls \ {call}
            /\ lost' = lost \cup {call}
            /\ UNCHANGED <<confirmed, members, ic_calls>>
      BY <2>9 DEF CallFails, clientSessionVars, clientVars
    <3> QED
      BY <3>1 DEF OpenedClientForgotten
  <2>10. CASE UNCHANGED vars
    BY <2>2, <2>10 DEF vars, clientSessionVars, clientVars, canisterVars
  <2> QED
    BY <2>2, <2>3, <2>4, <2>5, <2>6, <2>7, <2>8, <2>9, <2>10, RegistrationSteps
<1> QED
  BY <1>1, <1>2, ClientRelayInvariant, PTL DEF Spec

\* A client that has one message under way at a time is not cut off because of
\* the order in which the tasks of relay_envelope_to_canister deliver messages,
\* nor because a call fails: only ws_close ends its registration.
THEOREM PacedClientNotCutOffHolds == Spec => []PacedClientNotCutOff
<1>1. Init => PacedClientNotCutOff
  BY DEF Init, PacedClientNotCutOff
<1>2. TypeOK /\ ClientRelayInv /\ PacedClientNotCutOff /\ [Next]_vars
        => PacedClientNotCutOff'
  <2> SUFFICES ASSUME TypeOK, ClientRelayInv, PacedClientNotCutOff, [Next]_vars
               PROVE  PacedClientNotCutOff'
    OBVIOUS
  <2>1. opened \subseteq Sessions /\ \A t \in Sessions : SessionInv(t)
    BY DEF TypeOK, ClientRelayInv
  <2>2. CASE UNCHANGED <<members, opened, ic_calls>>
    BY <2>2 DEF PacedClientNotCutOff
  <2>3. CASE \E s \in Sessions : DeliverToClient(s)
    BY <2>2, <2>3 DEF DeliverToClient, CanisterMessage, canisterVars
  <2>4. CASE \E s \in Sessions : call_ws_close(s) \/ RelayOpen(s)
    <3>1. PICK s \in Sessions : call_ws_close(s) \/ RelayOpen(s)
      BY <2>4
    <3>2. /\ \A t \in Sessions : ic_calls[t] \subseteq ic_calls'[t]
          /\ UNCHANGED <<members, opened>>
      BY <3>1 DEF call_ws_close, RelayOpen, CallIc, canisterVars, TypeOK,
                  ClientSessionTypeOK
    <3> QED
      BY <2>1, <3>2 DEF PacedClientNotCutOff
  <2>5. CASE \E s \in Sessions : ws_open(s)
    <3>1. PICK s \in Sessions :
            /\ members' = members \cup {s}
            /\ opened' = opened \cup {s}
            /\ UNCHANGED ic_calls
      BY <2>5 DEF ws_open, Send
    <3> QED
      BY <3>1 DEF PacedClientNotCutOff
  <2>6. CASE \E s \in Sessions : ws_message(s)
    <3>1. PICK s \in Sessions : ws_message(s)
      BY <2>6
    <3>2. /\ Window[s] = 1 /\ s \in members => s \in members'
          /\ members' = members \/ members' = members \ {s}
          /\ UNCHANGED <<opened, ic_calls>>
      BY <2>1, <3>1, ExecuteMessageStep
    <3> QED
      BY <3>2 DEF PacedClientNotCutOff
  <2>7. CASE \E s \in Sessions : ws_close(s)
    <3>1. PICK s \in Sessions :
            /\ Call(s, "ws_close", 0) \in calls
            /\ members' = members \ {s}
            /\ UNCHANGED <<opened, ic_calls>>
      BY <2>7 DEF ws_close, Execute, clientSessionVars
    <3>2. "ws_close" \in ic_calls[s]
      BY <2>1, <3>1 DEF SessionInv, ClosingInv
    <3> QED
      BY <3>1, <3>2 DEF PacedClientNotCutOff
  <2>8. CASE \E s \in Sessions : CallFails(s)
    BY <2>2, <2>8 DEF CallFails, clientSessionVars
  <2>9. CASE UNCHANGED vars
    BY <2>2, <2>9 DEF vars, clientSessionVars, canisterVars
  <2> QED
    BY <2>2, <2>3, <2>4, <2>5, <2>6, <2>7, <2>8, <2>9, RegistrationSteps
<1> QED
  BY <1>1, <1>2, ClientRelayInvariant, PTL DEF Spec

=============================================================================
