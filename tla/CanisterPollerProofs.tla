------------------------ MODULE CanisterPollerProofs ------------------------
(***************************************************************************)
(* Proofs of the safety properties of module CanisterPoller, for any       *)
(* number of clients and messages and any batch size: what a client is     *)
(* sent is in order and without gaps, and the poller implements            *)
(* OrderedRelay.                                                           *)
(***************************************************************************)
EXTENDS CanisterPoller, SequenceTheorems, TLAPS

\* A function on 1 .. n is a sequence of length n, as is the answer to a query.
LEMMA FunctionIsSequence ==
    ASSUME NEW S, NEW n \in Nat, NEW f \in [1 .. n -> S]
    PROVE  f \in Seq(S) /\ Len(f) = n
<1>1. f \in Seq(S)
  BY SeqDef
<1>2. Len(f) \in Nat /\ DOMAIN f = 1 .. Len(f)
  BY <1>1, LenProperties
<1> QED
  BY <1>1, <1>2

\* The answer to ws_get_messages holds consecutive messages of the queue.
LEMMA AnswerIsFromQueue ==
    ASSUME CanisterTypeOK, ws_get_messages(next_message_nonce),
           next_message_nonce \in Nat
    PROVE  \E from, n \in Nat :
             /\ from = IF next_message_nonce < oldest THEN oldest
                                                      ELSE next_message_nonce
             /\ n > 0 => from + n <= next_nonce
             /\ response' \in Seq(Message)
             /\ Len(response') = n
             /\ DOMAIN response' = 1 .. n
             /\ \A i \in 1 .. n : /\ from + i - 1 \in DOMAIN queue
                                  /\ response'[i] = queue[from + i - 1]
<1> DEFINE from == IF next_message_nonce < oldest THEN oldest
                                                  ELSE next_message_nonce
<1>1. PICK n \in 0 .. BatchSize :
            /\ n > 0 => from + n <= next_nonce
            /\ response' = [i \in 1 .. n |-> queue[from + i - 1]]
  BY DEF ws_get_messages
<1>2. n \in Nat /\ from \in Nat /\ from >= oldest
  BY <1>1, CanisterAssumption DEF CanisterTypeOK
<1>3. \A i \in 1 .. n : from + i - 1 \in oldest .. (next_nonce - 1)
  BY <1>1, <1>2 DEF CanisterTypeOK
<1>4. response' \in [1 .. n -> Message]
  BY <1>1, <1>3 DEF CanisterTypeOK
<1>5. response' \in Seq(Message) /\ Len(response') = n
  BY <1>2, <1>4, FunctionIsSequence
<1> HIDE DEF from
<1>6. /\ DOMAIN response' = 1 .. n
      /\ \A i \in 1 .. n : /\ from + i - 1 \in DOMAIN queue
                           /\ response'[i] = queue[from + i - 1]
  BY <1>1, <1>3 DEF CanisterTypeOK
<1> QED
  BY <1>1, <1>2, <1>5, <1>6 DEF from

-----------------------------------------------------------------------------
(***************************************************************************)
(* Types.                                                                  *)
(***************************************************************************)

\* Queueing a message keeps the queue a function on consecutive nonces.
LEMMA EnqueueTypeOK ==
    ASSUME CanisterTypeOK, NEW s \in Clients, Enqueue(s)
    PROVE  /\ oldest' \in Nat
           /\ next_nonce' \in Nat
           /\ oldest' <= next_nonce'
           /\ queue' \in [oldest' .. (next_nonce' - 1) -> Message]
           /\ sent' \in [Clients -> 0 .. MaxSent]
<1> USE CanisterAssumption DEF CanisterTypeOK, Enqueue
<1>1. sent[s] \in Nat /\ sent[s] + 1 \in 0 .. MaxSent
  OBVIOUS
<1>2. sent' \in [Clients -> 0 .. MaxSent]
  BY <1>1
<1>3. oldest' \in Nat /\ next_nonce' \in Nat /\ oldest' <= next_nonce'
  OBVIOUS
<1>4. oldest' .. (next_nonce' - 1) = oldest .. next_nonce
  OBVIOUS
<1>5. [nonce |-> next_nonce, client |-> s, index |-> sent[s] + 1] \in Message
  BY <1>1 DEF Message
<1>6. ASSUME NEW n \in oldest .. next_nonce, n # next_nonce
      PROVE  queue[n] \in Message
  BY <1>6
<1>7. queue' \in [oldest .. next_nonce -> Message]
  BY <1>5, <1>6
<1> QED
  BY <1>2, <1>3, <1>4, <1>7

\* Every state of the poller and of the canister is well typed: in particular
\* the queue holds messages with consecutive nonces only.
THEOREM PollerTypeCorrect == Spec => []TypeOK
<1> USE CanisterAssumption, CanisterPollerAssumption
<1> DEFINE SendInv == polling = "send" => batch # <<>>
<1>1. Init => TypeOK /\ SendInv
  BY DEF Init, TypeOK, CanisterInit, CanisterTypeOK, PollingState,
         SessionState
<1>2. TypeOK /\ SendInv /\ [Next]_vars => TypeOK'
  <2> SUFFICES ASSUME TypeOK, SendInv, [Next]_vars
               PROVE  TypeOK'
    OBVIOUS
  <2> USE DEF TypeOK, canisterVars, pollerVars
  <2>1. ASSUME NEW s \in Clients, SessionStep(s)
        PROVE  TypeOK'
    <3> USE DEF GoTo, CanisterTypeOK
    <3>1. CASE InsertClient(s)
      BY <3>1 DEF InsertClient, PollingState, SessionState
    <3>2. CASE OpenSession(s)
      <4>1. calls' \subseteq UpdateCalls
        BY <3>2 DEF OpenSession, Call, UpdateCalls
      <4>2. /\ polling' \in PollingState
            /\ next_message_nonce' \in Nat
            /\ batch' \in Seq(Message)
            /\ session' \in [Clients -> SessionState]
        <5>1. CASE UNCHANGED pollerVars
          BY <3>2, <5>1 DEF OpenSession, SessionState
        <5>2. CASE batch' = <<>> /\ next_message_nonce' = 0 /\ polling' = "poll"
          BY <3>2, <5>2, EmptySeq DEF OpenSession, PollingState, SessionState
        <5> QED
          BY <3>2, <5>1, <5>2 DEF OpenSession
      <4>3. UNCHANGED <<members, queue, oldest, next_nonce, sent, response,
                        poller_state, delivered, channel>>
        BY <3>2 DEF OpenSession, Call
      <4> QED
        BY <4>1, <4>2, <4>3
    <3>3. CASE ReceiveMessage(s) \/ EndUpdates(s) \/ RemoveClient(s)
      <4>1. channel' \in [Clients -> 0 .. ChannelCapacity]
        <5>1. CASE ReceiveMessage(s)
          <6>1. channel[s] - 1 \in 0 .. ChannelCapacity
            BY <5>1 DEF ReceiveMessage
          <6> QED
            BY <5>1, <6>1 DEF ReceiveMessage
        <5>2. CASE EndUpdates(s) \/ RemoveClient(s)
          <6>1. 0 \in 0 .. ChannelCapacity
            OBVIOUS
          <6>2. channel' = channel \/ channel' = [channel EXCEPT ![s] = 0]
            BY <5>2 DEF EndUpdates, RemoveClient
          <6> QED
            BY <6>1, <6>2
        <5> QED
          BY <3>3, <5>1, <5>2
      <4>2. session' \in [Clients -> SessionState] /\ poller_state' \subseteq Clients
        BY <3>3 DEF ReceiveMessage, EndUpdates, RemoveClient, SessionState
      <4>3. UNCHANGED <<canisterVars, pollerVars, delivered>>
        BY <3>3 DEF ReceiveMessage, EndUpdates, RemoveClient
      <4> QED
        BY <4>1, <4>2, <4>3
    <3>4. CASE call_ws_close(s)
      BY <3>4, SMTT(30) DEF call_ws_close, Call, UpdateCalls, SessionState
    <3>5. CASE DropSession(s)
      BY <3>5 DEF DropSession, SessionState
    <3> QED
      BY <2>1, <3>1, <3>2, <3>3, <3>4, <3>5 DEF SessionStep
  <2>2. ASSUME NEW s \in Clients, ExecuteCall(s)
        PROVE  TypeOK'
    <3>1. CASE ws_open(s)
      <4>1. Enqueue(s)
        BY <3>1 DEF ws_open
      <4> QED
        BY <2>2, <3>1, <4>1, EnqueueTypeOK
           DEF ExecuteCall, ws_open, CanisterTypeOK
    <3>2. CASE ws_close(s)
      <4>1. /\ oldest' \in Nat
            /\ next_nonce' \in Nat
            /\ oldest' <= next_nonce'
            /\ queue' \in [oldest' .. (next_nonce' - 1) -> Message]
        <5>1. CASE CleansUp /\ members = {s}
          <6>1. [n \in {} |-> None] \in [0 .. (0 - 1) -> Message]
            OBVIOUS
          <6>2. oldest' = 0 /\ next_nonce' = 0 /\ queue' = [n \in {} |-> None]
            BY <3>2, <5>1 DEF ws_close
          <6> QED
            BY <6>1, <6>2
        <5>2. CASE ~ (CleansUp /\ members = {s})
          BY <3>2, <5>2 DEF ws_close, CanisterTypeOK
        <5> QED
          BY <5>1, <5>2
      <4> QED
        BY <2>2, <3>2, <4>1 DEF ExecuteCall, ws_close, CanisterTypeOK
    <3> QED
      BY <2>2, <3>1, <3>2 DEF ExecuteCall
  <2>3. ASSUME NEW s \in Clients, CanisterSends(s)
        PROVE  TypeOK'
    <3>1. Enqueue(s)
      BY <2>3 DEF CanisterSends, SendToClient
    <3> QED
      BY <2>3, <3>1, EnqueueTypeOK
         DEF CanisterSends, SendToClient, CanisterTypeOK
  <2>4. CASE PollerStep
    <3> USE DEF PollingState, EndQuery, CanisterTypeOK
    <3>1. CASE SendQuery \/ QueryWithoutResult \/ QueryFails \/ NothingPolled
      BY <3>1 DEF SendQuery, QueryWithoutResult, QueryFails, NothingPolled
    <3>2. CASE MessagesPolled
      <4>1. response \in Seq(Message) /\ response # <<>>
        BY <3>2 DEF MessagesPolled
      <4>2. Len(response) \in 1 .. Len(response)
        BY <4>1, EmptySeq
      <4>3. response[Len(response)] \in Message
        BY <4>1, <4>2, ElementOfSeq
      <4>4. update_nonce(response) \in Nat
        <5>1. response[Len(response)].nonce \in Nat
          BY <4>3 DEF Message
        <5> QED
          BY <5>1 DEF update_nonce
      <4> QED
        <5>1. /\ polling' \in PollingState
              /\ next_message_nonce' \in Nat
              /\ batch' \in Seq(Message)
              /\ response' = None
          BY <3>2, <4>1, <4>4 DEF MessagesPolled
        <5>2. UNCHANGED <<members, queue, oldest, next_nonce, sent, calls,
                          poller_state, session, delivered, channel>>
          BY <3>2 DEF MessagesPolled
        <5> QED
          BY <5>1, <5>2
    <3>3. CASE RelayNext
      <4>1. Tail(batch) \in Seq(Message)
        BY <3>3, HeadTailProperties DEF RelayNext
      <4> QED
        BY <3>3, <4>1 DEF RelayNext
    <3>4. CASE relay_message
      <4>1. Head(batch) \in Message /\ Tail(batch) \in Seq(Message)
        BY <3>4, HeadTailProperties DEF relay_message
      <4>2. ASSUME NEW c \in Clients
            PROVE  [delivered EXCEPT ![c] = Append(@, Head(batch).index)]
                      \in [Clients -> Seq(Nat \ {0})]
        <5>1. Append(delivered[c], Head(batch).index) \in Seq(Nat \ {0})
          BY <4>1, AppendProperties DEF Message
        <5> QED
          BY <5>1
      <4>3. Head(batch).client \in Clients
        BY <4>1 DEF Message
      <4>4. channel' \in [Clients -> 0 .. ChannelCapacity]
        <5>1. channel[Head(batch).client] + 1 \in 0 .. ChannelCapacity
          BY <3>4, <4>3, SMTT(30) DEF relay_message
        <5> QED
          BY <3>4, <5>1 DEF relay_message
      <4> QED
        BY <3>4, <4>1, <4>2, <4>3, <4>4 DEF relay_message
    <3>5. CASE RelayEnds \/ poller_should_terminate \/ PollerFails
      BY <3>5 DEF RelayEnds, poller_should_terminate, PollerFails
    <3> QED
      BY <2>4, <3>1, <3>2, <3>3, <3>4, <3>5 DEF PollerStep
  <2>5. CASE CanisterAnswers
    <3>1. ws_get_messages(next_message_nonce)
      BY <2>5 DEF CanisterAnswers
    <3>2. response' \in Seq(Message)
      BY <3>1, AnswerIsFromQueue
    <3> QED
      BY <2>5, <3>1, <3>2 DEF CanisterAnswers, ws_get_messages, CanisterTypeOK
  <2>6. CASE CanisterDeletes
    BY <2>6 DEF CanisterDeletes, DeleteOldest, CanisterTypeOK
  <2>7. CASE UNCHANGED vars
    BY <2>7 DEF vars, CanisterTypeOK
  <2> QED
    BY <2>1, <2>2, <2>3, <2>4, <2>5, <2>6, <2>7 DEF Next
<1>3. SendInv /\ [Next]_vars => SendInv'
  BY DEF Next, SessionStep, InsertClient, OpenSession, ReceiveMessage,
         EndUpdates, RemoveClient, call_ws_close, DropSession, ExecuteCall,
         CanisterSends, PollerStep, SendQuery, QueryWithoutResult, QueryFails,
         NothingPolled, MessagesPolled, RelayNext, relay_message, RelayEnds,
         poller_should_terminate, PollerFails, CanisterAnswers,
         CanisterDeletes, vars, pollerVars
<1> HIDE DEF SendInv
<1> QED
  BY <1>1, <1>2, <1>3, PTL DEF Spec

-----------------------------------------------------------------------------
(***************************************************************************)
(* The first message for a client, in the queue and in what was polled.    *)
(***************************************************************************)

\* A position that does not hold a message for s can be passed over.
LEMMA PassOver ==
    ASSUME NEW msgs, DOMAIN msgs \subseteq Nat, NEW k \in Nat, NEW s,
           k \in DOMAIN msgs => msgs[k].client # s
    PROVE  /\ Absent(msgs, s, k + 1) => Absent(msgs, s, k)
           /\ \A i : FirstIs(msgs, s, k, i) => FirstIs(msgs, s, k + 1, i)
<1>1. \A n \in DOMAIN msgs : n >= k => n = k \/ n >= k + 1
  OBVIOUS
<1>2. \A n \in DOMAIN msgs : n >= k + 1 => n >= k
  OBVIOUS
<1>3. Absent(msgs, s, k + 1) => Absent(msgs, s, k)
  BY <1>1 DEF Absent
<1>4. ASSUME NEW i, FirstIs(msgs, s, k, i)
      PROVE  FirstIs(msgs, s, k + 1, i)
  BY <1>1, <1>2, <1>4 DEF FirstIs
<1> QED
  BY <1>3, <1>4

\* What is absent has any first message.
LEMMA AbsentFirst ==
    ASSUME NEW msgs, NEW s, NEW k, Absent(msgs, s, k)
    PROVE  \A i : FirstIs(msgs, s, k, i)
  BY DEF Absent, FirstIs

\* The message at position k is the first one for its client.
LEMMA FirstHere ==
    ASSUME NEW msgs, DOMAIN msgs \subseteq Nat, NEW k \in DOMAIN msgs, NEW i,
           FirstIs(msgs, msgs[k].client, k, i)
    PROVE  msgs[k].index = i
<1>1. \A m \in DOMAIN msgs : ~ (m >= k /\ m < k)
  OBVIOUS
<1>2. k >= k
  OBVIOUS
<1> QED
  BY <1>1, <1>2 DEF FirstIs

\* relay_messages takes messages from the front: positions shift by one.
LEMMA TailShifts ==
    ASSUME NEW msgs \in Seq(Message), msgs # <<>>, NEW k \in Nat \ {0}, NEW s
    PROVE  /\ Absent(Tail(msgs), s, k) => Absent(msgs, s, k + 1)
           /\ \A i : FirstIs(msgs, s, k + 1, i) => FirstIs(Tail(msgs), s, k, i)
<1> DEFINE tail == Tail(msgs)
<1>1. /\ tail \in Seq(Message)
      /\ Len(msgs) \in Nat
      /\ Len(tail) = Len(msgs) - 1
      /\ DOMAIN msgs = 1 .. Len(msgs)
      /\ DOMAIN tail = 1 .. (Len(msgs) - 1)
  BY HeadTailProperties, LenProperties
<1>2. \A n \in DOMAIN tail : n + 1 \in DOMAIN msgs /\ tail[n] = msgs[n + 1]
  BY <1>1, HeadTailProperties
<1>3. \A n \in DOMAIN msgs : n >= k + 1 => n - 1 \in DOMAIN tail /\ n - 1 >= k
  BY <1>1
<1> HIDE DEF tail
<1>4. Absent(tail, s, k) => Absent(msgs, s, k + 1)
  <2> SUFFICES ASSUME Absent(tail, s, k), NEW n \in DOMAIN msgs, n >= k + 1
               PROVE  msgs[n].client # s
    BY DEF Absent
  <2>1. tail[n - 1].client # s
    BY <1>3 DEF Absent
  <2>2. tail[n - 1] = msgs[n]
    BY <1>1, <1>2, <1>3
  <2> QED
    BY <2>1, <2>2
<1>5. ASSUME NEW i, FirstIs(msgs, s, k + 1, i)
      PROVE  FirstIs(tail, s, k, i)
  <2> SUFFICES ASSUME NEW n \in DOMAIN tail, n >= k, tail[n].client = s,
                      \A m \in DOMAIN tail : m >= k /\ m < n => tail[m].client # s
               PROVE  tail[n].index = i
    BY DEF FirstIs
  <2>1. n + 1 \in DOMAIN msgs /\ n + 1 >= k + 1 /\ msgs[n + 1].client = s
    BY <1>1, <1>2
  <2>2. ASSUME NEW m \in DOMAIN msgs, m >= k + 1, m < n + 1
        PROVE  msgs[m].client # s
    <3>1. m - 1 \in DOMAIN tail /\ m - 1 >= k /\ m - 1 < n
      BY <1>1, <1>3, <2>2
    <3>2. tail[m - 1] = msgs[m]
      BY <1>1, <1>2, <3>1
    <3> QED
      BY <3>1, <3>2
  <2>3. msgs[n + 1].index = i
    BY <1>5, <2>1, <2>2 DEF FirstIs
  <2> QED
    BY <1>2, <2>3
<1> QED
  BY <1>4, <1>5 DEF tail

\* A message that is queued becomes the first one for its client only if there
\* was none.
LEMMA EnqueueKeepsFirst ==
    ASSUME CanisterTypeOK, NEW c \in Clients, Enqueue(c),
           NEW s \in Clients, NEW lo \in Nat, lo <= next_nonce, NEW i,
           FirstIs(queue, s, lo, i),
           Absent(queue, s, lo) => sent[s] + 1 = i
    PROVE  /\ FirstIs(queue', s, lo, i)
           /\ Absent(queue', s, lo) => sent'[s] + 1 = i
<1>1. /\ DOMAIN queue = oldest .. (next_nonce - 1)
      /\ DOMAIN queue' = oldest .. next_nonce
      /\ oldest \in Nat /\ next_nonce \in Nat /\ oldest <= next_nonce
      /\ \A n \in DOMAIN queue : n \in DOMAIN queue' /\ queue'[n] = queue[n]
      /\ queue'[next_nonce].client = c
      /\ queue'[next_nonce].index = sent[c] + 1
      /\ sent'[s] = IF s = c THEN sent[c] + 1 ELSE sent[s]
  BY DEF CanisterTypeOK, Enqueue
<1>2. \A n \in DOMAIN queue' : n \in DOMAIN queue \/ n = next_nonce
  BY <1>1
<1>3. next_nonce \in DOMAIN queue' /\ next_nonce >= lo
  BY <1>1
<1>4. \A n \in DOMAIN queue : n < next_nonce
  BY <1>1
<1>5. Absent(queue', s, lo) => Absent(queue, s, lo) /\ c # s
  BY <1>1, <1>3 DEF Absent
<1>6. FirstIs(queue', s, lo, i)
  <2> SUFFICES ASSUME NEW n \in DOMAIN queue', n >= lo, queue'[n].client = s,
                      \A m \in DOMAIN queue' :
                          m >= lo /\ m < n => queue'[m].client # s
               PROVE  queue'[n].index = i
    BY DEF FirstIs
  <2>1. CASE n \in DOMAIN queue
    <3>1. \A m \in DOMAIN queue : m >= lo /\ m < n => queue[m].client # s
      BY <1>1
    <3> QED
      BY <1>1, <2>1, <3>1 DEF FirstIs
  <2>2. CASE n = next_nonce
    <3>1. Absent(queue, s, lo)
      BY <1>1, <1>4, <2>2 DEF Absent
    <3> QED
      BY <1>1, <2>2, <3>1
  <2> QED
    BY <1>2, <2>1, <2>2
<1> QED
  BY <1>1, <1>5, <1>6

\* Deleting the oldest message does not matter from the next nonce on.
LEMMA DeletionKeepsFirst ==
    ASSUME CanisterTypeOK, DeleteOldest, NEW s, NEW lo \in Nat, lo > oldest
    PROVE  /\ \A i : FirstIs(queue, s, lo, i) => FirstIs(queue', s, lo, i)
           /\ Absent(queue', s, lo) => Absent(queue, s, lo)
<1>1. /\ DOMAIN queue = oldest .. (next_nonce - 1)
      /\ DOMAIN queue' = (oldest + 1) .. (next_nonce - 1)
      /\ oldest \in Nat /\ next_nonce \in Nat
      /\ \A n \in DOMAIN queue' : n \in DOMAIN queue /\ queue'[n] = queue[n]
  BY DEF CanisterTypeOK, DeleteOldest
<1>2. \A n \in DOMAIN queue : n >= lo => n \in DOMAIN queue'
  BY <1>1
<1>3. Absent(queue', s, lo) => Absent(queue, s, lo)
  BY <1>1, <1>2 DEF Absent
<1>4. ASSUME NEW i, FirstIs(queue, s, lo, i)
      PROVE  FirstIs(queue', s, lo, i)
  BY <1>1, <1>2, <1>4 DEF FirstIs
<1> QED
  BY <1>3, <1>4

\* Nonce 0 stands for the oldest message.
LEMMA OldestIsFirst ==
    ASSUME CanisterTypeOK, NEW s
    PROVE  /\ \A i : FirstIs(queue, s, 0, i) => FirstIs(queue, s, oldest, i)
           /\ Absent(queue, s, oldest) => Absent(queue, s, 0)
<1>1. \A n \in DOMAIN queue : n >= 0 /\ n >= oldest
  BY DEF CanisterTypeOK
<1> QED
  BY <1>1 DEF FirstIs, Absent

\* An answer msgs of n messages from nonce from on is followed by the queue from
\* nonce from + n on.
LEMMA AnswerContinues ==
    ASSUME CanisterTypeOK, NEW msgs, NEW from \in Nat, NEW n \in Nat,
           DOMAIN msgs = 1 .. n,
           \A j \in 1 .. n : /\ from + j - 1 \in DOMAIN queue
                             /\ msgs[j] = queue[from + j - 1],
           NEW s, NEW k \in 1 .. n + 1
    PROVE  \A i : FirstIs(queue, s, from + k - 1, i) =>
             /\ FirstIs(msgs, s, k, i)
             /\ Absent(msgs, s, k) =>
                  /\ FirstIs(queue, s, from + n, i)
                  /\ Absent(queue, s, from + n) => Absent(queue, s, from + k - 1)
<1> SUFFICES ASSUME NEW i, FirstIs(queue, s, from + k - 1, i)
             PROVE  /\ FirstIs(msgs, s, k, i)
                    /\ Absent(msgs, s, k) =>
                         /\ FirstIs(queue, s, from + n, i)
                         /\ Absent(queue, s, from + n)
                              => Absent(queue, s, from + k - 1)
  OBVIOUS
<1>1. DOMAIN queue \subseteq Nat
  BY DEF CanisterTypeOK
<1>2. \A j \in DOMAIN queue : j >= from + k - 1 =>
            j >= from + n \/ (j - from + 1 \in 1 .. n /\ j - from + 1 >= k)
  <2>1. \A j \in Nat : j >= from + k - 1 =>
            j >= from + n \/ (j - from + 1 \in 1 .. n /\ j - from + 1 >= k)
    OBVIOUS
  <2> QED
    BY <1>1, <2>1
<1>3. \A j \in DOMAIN queue : j - from + 1 \in 1 .. n =>
            queue[j] = msgs[j - from + 1]
  BY <1>1
<1>4. FirstIs(msgs, s, k, i)
  <2> SUFFICES ASSUME NEW j \in 1 .. n, j >= k, msgs[j].client = s,
                      \A m \in 1 .. n : m >= k /\ m < j => msgs[m].client # s
               PROVE  msgs[j].index = i
    BY DEF FirstIs
  <2>1. from + j - 1 \in DOMAIN queue /\ from + j - 1 >= from + k - 1
    OBVIOUS
  <2>2. ASSUME NEW m \in DOMAIN queue, m >= from + k - 1, m < from + j - 1
        PROVE  queue[m].client # s
    <3>1. m - from + 1 \in 1 .. n /\ m - from + 1 >= k /\ m - from + 1 < j
      <4>1. m \in Nat
        BY <1>1
      <4> QED
        BY <2>2, <4>1
    <3> QED
      BY <1>3, <3>1
  <2> QED
    BY <2>1, <2>2 DEF FirstIs
<1>5. ASSUME Absent(msgs, s, k)
      PROVE  /\ FirstIs(queue, s, from + n, i)
             /\ Absent(queue, s, from + n) => Absent(queue, s, from + k - 1)
  <2>1. ASSUME NEW j \in DOMAIN queue, j >= from + k - 1, ~ (j >= from + n)
        PROVE  queue[j].client # s
    <3>1. j - from + 1 \in 1 .. n /\ j - from + 1 >= k
      BY <1>2, <2>1
    <3> QED
      BY <1>3, <1>5, <3>1 DEF Absent
  <2>2. \A j \in DOMAIN queue : j >= from + n => j >= from + k - 1
    BY <1>1
  <2> QED
    BY <2>1, <2>2 DEF Absent, FirstIs
<1> QED
  BY <1>4, <1>5

-----------------------------------------------------------------------------
(***************************************************************************)
(* The relay invariant.  First the facts about messages and sessions that  *)
(* the steps have in common.                                               *)
(***************************************************************************)

\* The elements of a sequence of messages.
LEMMA MessageOf ==
    ASSUME NEW msgs \in Seq(Message), NEW k \in 1 .. Len(msgs)
    PROVE  /\ msgs[k] \in Message
           /\ msgs[k].nonce \in Nat
           /\ msgs[k].client \in Clients
           /\ msgs[k].index \in Nat \ {0}
<1>1. msgs[k] \in Message
  BY ElementOfSeq
<1> QED
  BY <1>1 DEF Message

\* An answer with messages sets the nonce to a positive number.
LEMMA AnsweredNonce ==
    ASSUME TypeOK, Answered
    PROVE  /\ response \in Seq(Message)
           /\ response # <<>>
           /\ Len(response) \in 1 .. Len(response)
           /\ update_nonce(response) \in Nat \ {0}
<1>1. response \in Seq(Message) /\ response # <<>>
  BY DEF TypeOK, CanisterTypeOK, Answered
<1>2. Len(response) \in Nat \ {0}
  BY <1>1, EmptySeq
<1>3. Len(response) \in 1 .. Len(response)
  BY <1>2
<1>4. response[Len(response)].nonce \in Nat
  BY <1>1, <1>3, MessageOf
<1> QED
  BY <1>1, <1>3, <1>4 DEF update_nonce

\* A client to which nothing was sent is not in the queue, nor in what was
\* polled, and its first message is expected.
LEMMA NothingSent ==
    ASSUME TypeOK, QueueInv, NEW s \in Clients, sent[s] = 0
    PROVE  /\ \A lo : Expects(s, lo, 1)
           /\ \A msgs \in Seq(Message), lo \in Nat :
                PolledInv(msgs, lo) => \A k : Absent(msgs, s, k)
<1>1. ASSUME NEW lo
      PROVE  Expects(s, lo, 1)
  <2>1. \A n \in DOMAIN queue : queue[n].client # s
    <3> SUFFICES ASSUME NEW n \in DOMAIN queue, queue[n].client = s
                 PROVE  FALSE
      OBVIOUS
    <3>1. queue[n].index <= 0
      BY DEF QueueInv
    <3>2. queue[n].index \in Nat \ {0}
      BY DEF TypeOK, CanisterTypeOK, Message
    <3> QED
      BY <3>1, <3>2
  <2>2. Absent(queue, s, lo)
    BY <2>1 DEF Absent
  <2> QED
    BY <2>2, AbsentFirst DEF Expects
<1>2. ASSUME NEW msgs \in Seq(Message), NEW lo \in Nat, PolledInv(msgs, lo), NEW k
      PROVE  Absent(msgs, s, k)
  <2> SUFFICES ASSUME NEW n \in DOMAIN msgs, msgs[n].client = s
               PROVE  FALSE
    BY DEF Absent
  <2>1. n \in 1 .. Len(msgs)
    BY LenProperties
  <2>2. msgs[n].index <= 0
    BY <1>2, <2>1 DEF PolledInv
  <2> QED
    BY <2>1, <2>2, MessageOf
<1> QED
  BY <1>1, <1>2

\* A client to which nothing was sent has received nothing.
LEMMA NothingDelivered ==
    ASSUME TypeOK, DeliveryInv, NEW s \in Clients, sent[s] = 0
    PROVE  delivered[s] = <<>>
<1> SUFFICES ASSUME delivered[s] # <<>>
             PROVE  FALSE
  OBVIOUS
<1>1. delivered[s] \in Seq(Nat \ {0})
  BY DEF TypeOK
<1>2. 1 \in 1 .. Len(delivered[s])
  BY <1>1, EmptySeq
<1>3. delivered[s][1] \in Nat \ {0}
  BY <1>1, <1>2, ElementOfSeq
<1>4. delivered[s][1] <= 0
  BY <1>2 DEF DeliveryInv
<1> QED
  BY <1>3, <1>4

-----------------------------------------------------------------------------
(***************************************************************************)
(* Steps of the canister.                                                  *)
(***************************************************************************)

\* Queueing a message preserves what is expected by every client.
LEMMA EnqueueStep ==
    ASSUME TypeOK, RelayInv, NEW c \in Clients, Enqueue(c),
           UNCHANGED <<response, pollerVars, poller_state, session, delivered>>
    PROVE  QueueInv' /\ PendingInv' /\ DeliveryInv' /\ NonceInv' /\ PositionInv'
<1> USE CanisterAssumption DEF TypeOK
<1>1. \A s \in Clients, lo \in Nat : \A i :
          lo <= next_nonce /\ Expects(s, lo, i) => Expects(s, lo, i)'
  BY EnqueueKeepsFirst DEF Expects
<1>2. /\ next_nonce \in Nat
      /\ next_nonce' = next_nonce + 1
      /\ UNCHANGED oldest
  BY DEF CanisterTypeOK, Enqueue
<1>3. \A s \in Clients : /\ sent[s] \in Nat
                         /\ sent'[s] \in Nat
                         /\ sent[s] <= sent'[s]
  BY DEF CanisterTypeOK, Enqueue
<1>4. \A msgs, s, k, i : \A lo \in Nat :
          s \in Clients /\ lo <= next_nonce /\ Continues(s, msgs, k, lo, i)
              => Continues(s, msgs, k, lo, i)'
  BY <1>1, <1>2 DEF Continues, Kept
<1>5. QueueInv'
  <2> SUFFICES ASSUME NEW n \in DOMAIN queue'
               PROVE  /\ queue'[n].nonce = n
                      /\ queue'[n].index <= sent'[queue'[n].client]
                      /\ Expects(queue[n].client, n + 1, queue[n].index + 1)'
    BY DEF QueueInv
  <2>1. CASE n \in DOMAIN queue
    <3>1. queue'[n] = queue[n] /\ n + 1 \in Nat /\ n + 1 <= next_nonce
      BY <2>1 DEF CanisterTypeOK, Enqueue
    <3>2. queue[n].client \in Clients /\ queue[n].index \in Nat
      BY <2>1 DEF CanisterTypeOK, Message
    <3>3. /\ queue[n].nonce = n
          /\ queue[n].index <= sent[queue[n].client]
          /\ Expects(queue[n].client, n + 1, queue[n].index + 1)
      BY <2>1 DEF RelayInv, QueueInv
    <3> QED
      BY <1>1, <1>3, <3>1, <3>2, <3>3, SMTT(30)
  <2>2. CASE n \notin DOMAIN queue
    <3>1. n = next_nonce
      BY <2>2 DEF CanisterTypeOK, Enqueue
    <3>2. /\ queue'[n] = [nonce |-> n, client |-> c, index |-> sent[c] + 1]
          /\ sent'[c] = sent[c] + 1
      BY <3>1 DEF CanisterTypeOK, Enqueue
    <3>3. \A m \in DOMAIN queue' : ~ (m >= n + 1)
      BY <3>1 DEF CanisterTypeOK, Enqueue
    <3>4. Absent(queue', c, n + 1)
      BY <3>3 DEF Absent
    <3> QED
      BY <1>3, <3>2, <3>4, AbsentFirst DEF Expects
  <2> QED
    BY <2>1, <2>2
<1>6. ASSUME NEW msgs \in Seq(Message), NEW lo \in Nat, PolledInv(msgs, lo)
      PROVE  PolledInv(msgs, lo)'
  <2> SUFFICES ASSUME NEW k \in 1 .. Len(msgs)
               PROVE  /\ msgs[k].index <= sent'[msgs[k].client]
                      /\ msgs[k].client \in poller_state' =>
                           /\ lo <= next_nonce'
                           /\ Continues(msgs[k].client, msgs, k + 1, lo,
                                        msgs[k].index + 1)'
    BY DEF PolledInv
  <2>1. /\ msgs[k].index <= sent[msgs[k].client]
        /\ msgs[k].client \in poller_state =>
             /\ lo <= next_nonce
             /\ Continues(msgs[k].client, msgs, k + 1, lo, msgs[k].index + 1)
    BY <1>6 DEF PolledInv
  <2> QED
    BY <1>2, <1>3, <1>4, <2>1, MessageOf, SMTT(30)
<1>7. Answered' = Answered /\ update_nonce(response)' = update_nonce(response)
  BY DEF Answered, update_nonce
<1>8. PendingInv'
  BY <1>6, <1>7, AnsweredNonce DEF RelayInv, PendingInv, pollerVars
<1>9. DeliveryInv'
  <2>1. UNCHANGED <<Tracked, Consecutive(response), delivered, batch,
                    next_message_nonce, poller_state>>
    BY DEF Tracked, Consecutive, pollerVars
  <2>2. \A s \in Clients : UNCHANGED LastDelivered(s)
    BY DEF LastDelivered
  <2>3. Tracked \subseteq Clients
    BY DEF Tracked
  <2>4. \A s \in Clients : \A i \in 1 .. Len(delivered[s]) :
            delivered'[s][i] <= sent'[s]
    <3> SUFFICES ASSUME NEW s \in Clients, NEW i \in 1 .. Len(delivered[s])
                 PROVE  delivered[s][i] <= sent'[s]
      BY <2>1
    <3>1. delivered[s][i] \in Nat
      BY ElementOfSeq
    <3>2. delivered[s][i] <= sent[s]
      BY DEF RelayInv, DeliveryInv
    <3> QED
      BY <1>3, <3>1, <3>2
  <2>5. ASSUME NEW s \in Tracked
        PROVE  /\ next_message_nonce <= next_nonce'
               /\ Continues(s, batch, 1, next_message_nonce,
                            LastDelivered(s) + 1)'
    BY <1>2, <1>4, <2>1, <2>2, <2>3 DEF RelayInv, DeliveryInv
  <2>6. ASSUME NEW s \in Tracked, Answered, Consecutive(response)
        PROVE  /\ update_nonce(response) <= next_nonce'
               /\ Continues(s, response, 1, update_nonce(response),
                            LastDelivered(s) + 1)'
    <3>1. update_nonce(response) \in Nat
      BY <2>6, AnsweredNonce
    <3>2. /\ update_nonce(response) <= next_nonce
          /\ Continues(s, response, 1, update_nonce(response),
                       LastDelivered(s) + 1)
      BY <2>6 DEF RelayInv, DeliveryInv
    <3> QED
      BY <1>2, <1>4, <1>7, <2>2, <2>3, <3>1, <3>2
  <2> QED
    BY <1>7, <2>1, <2>4, <2>5, <2>6 DEF RelayInv, DeliveryInv
<1>10. NonceInv'
  BY <1>2, <1>7, AnsweredNonce DEF RelayInv, NonceInv, pollerVars
<1>11. PositionInv'
  BY <1>1, <1>2 DEF RelayInv, PositionInv, pollerVars
<1> QED
  BY <1>5, <1>8, <1>9, <1>10, <1>11

\* Deleting the oldest message disturbs only what is expected from a nonce that
\* is deleted with it.
LEMMA DeletionStep ==
    ASSUME TypeOK, RelayInv, CanisterDeletes
    PROVE  QueueInv' /\ PendingInv' /\ DeliveryInv' /\ NonceInv' /\ PositionInv'
<1> USE CanisterAssumption DEF TypeOK
<1>1. /\ DeleteOldest
      /\ UNCHANGED <<pollerVars, poller_state, session, delivered>>
  BY DEF CanisterDeletes
<1>2. /\ oldest \in Nat
      /\ oldest' = oldest + 1
      /\ UNCHANGED <<next_nonce, sent, response>>
  BY <1>1 DEF CanisterTypeOK, DeleteOldest
<1>3. \A s, i : \A lo \in Nat :
          lo > oldest /\ Expects(s, lo, i) => Expects(s, lo, i)'
  BY <1>1, <1>2, DeletionKeepsFirst DEF Expects
<1>4. \A msgs, s, k, i : \A lo \in Nat \ {0} :
          Continues(s, msgs, k, lo, i) => Continues(s, msgs, k, lo, i)'
  BY <1>2, <1>3 DEF Continues, Kept
<1>5. ASSUME ~ MaySkip
      PROVE  /\ polling \notin {"none", "allocated"}
             /\ oldest < next_message_nonce
  BY <1>5 DEF CanisterDeletes, MaySkip
<1>6. QueueInv'
  <2> SUFFICES ASSUME NEW n \in DOMAIN queue'
               PROVE  /\ queue'[n].nonce = n
                      /\ queue'[n].index <= sent'[queue'[n].client]
                      /\ Expects(queue[n].client, n + 1, queue[n].index + 1)'
    BY DEF QueueInv
  <2>1. /\ n \in DOMAIN queue
        /\ queue'[n] = queue[n]
        /\ n + 1 \in Nat
        /\ n + 1 > oldest
    BY <1>1 DEF CanisterTypeOK, DeleteOldest
  <2> QED
    BY <1>2, <1>3, <2>1 DEF RelayInv, QueueInv
<1>7. ASSUME NEW msgs, NEW lo \in Nat \ {0}, PolledInv(msgs, lo)
      PROVE  PolledInv(msgs, lo)'
  BY <1>1, <1>2, <1>4, <1>7 DEF PolledInv
<1>8. Answered' = Answered /\ update_nonce(response)' = update_nonce(response)
  BY <1>2 DEF Answered, update_nonce
<1>9. PendingInv'
  <2>1. CASE batch = <<>>
    <3>1. PolledInv(batch, next_message_nonce)'
      BY <1>1, <2>1, EmptySeq DEF PolledInv, pollerVars
    <3> QED
      BY <1>2, <1>7, <1>8, <3>1, AnsweredNonce DEF RelayInv, PendingInv
  <2>2. CASE batch # <<>>
    <3>1. next_message_nonce \in Nat \ {0}
      BY <2>2 DEF RelayInv, PositionInv
    <3> QED
      BY <1>1, <1>2, <1>7, <1>8, <3>1, AnsweredNonce
         DEF RelayInv, PendingInv, pollerVars
  <2> QED
    BY <2>1, <2>2
<1>10. DeliveryInv'
  <2>1. UNCHANGED <<Tracked, Consecutive(response), batch,
                    next_message_nonce>>
    BY <1>1, <1>2 DEF Tracked, Consecutive, pollerVars
  <2>2. \A s \in Clients : UNCHANGED LastDelivered(s)
    BY <1>1 DEF LastDelivered
  <2>3. ASSUME NEW s \in Tracked
        PROVE  s \in Clients /\ next_message_nonce \in Nat \ {0}
    BY <1>2, <1>5, <2>3 DEF Tracked, RelayInv, DeliveryInv
  <2>4. ASSUME NEW s \in Tracked
        PROVE  /\ next_message_nonce <= next_nonce
               /\ Continues(s, batch, 1, next_message_nonce,
                            LastDelivered(s) + 1)'
    BY <1>4, <2>1, <2>2, <2>3 DEF RelayInv, DeliveryInv
  <2>5. ASSUME NEW s \in Tracked, Answered, Consecutive(response)
        PROVE  /\ update_nonce(response) <= next_nonce
               /\ Continues(s, response, 1, update_nonce(response),
                            LastDelivered(s) + 1)'
    <3>1. update_nonce(response) \in Nat \ {0}
      BY <2>5, AnsweredNonce
    <3>2. /\ update_nonce(response) <= next_nonce
          /\ Continues(s, response, 1, update_nonce(response),
                       LastDelivered(s) + 1)
      BY <2>5 DEF RelayInv, DeliveryInv
    <3> QED
      BY <1>2, <1>4, <1>8, <2>2, <2>3, <3>1, <3>2
  <2> QED
    BY <1>1, <1>2, <1>8, <2>1, <2>4, <2>5 DEF RelayInv, DeliveryInv
<1>11. NonceInv'
  BY <1>1, <1>2, <1>8 DEF RelayInv, NonceInv, pollerVars
<1>12. PositionInv'
  BY <1>1, <1>2, <1>5 DEF RelayInv, PositionInv, pollerVars
<1> QED
  BY <1>6, <1>9, <1>10, <1>11, <1>12

\* When the canister forgets its queue, nothing was ever sent to a client that
\* is still registered: the client that left was the only one connected.
LEMMA CleanUpStep ==
    ASSUME TypeOK, RelayInv, NEW c \in Clients, ws_close(c),
           CleansUp, members = {c},
           UNCHANGED <<pollerVars, poller_state, session, delivered>>
    PROVE  QueueInv' /\ PendingInv' /\ DeliveryInv' /\ NonceInv' /\ PositionInv'
<1> USE DEF TypeOK
<1>1. /\ next_nonce' = 0
      /\ DOMAIN queue' = {}
      /\ UNCHANGED <<sent, response>>
  BY DEF ws_close
<1>2. ASSUME NEW s \in poller_state
      PROVE  s \in Clients /\ sent[s] = 0
  <2>1. session[c] = "closed"
    BY DEF ws_close, RelayInv, MembersInv
  <2>2. session[s] # "closed" /\ s # c
    BY <2>1 DEF RelayInv, PositionInv
  <2> QED
    BY <2>2 DEF RelayInv, MembersInv
<1>3. MaySkip
  BY DEF MaySkip
<1>4. \A s \in poller_state : delivered[s] = <<>>
  BY <1>2, NothingDelivered DEF RelayInv
<1>5. QueueInv'
  BY <1>1 DEF QueueInv
<1>6. ASSUME NEW msgs \in Seq(Message), NEW lo, NEW lo2, PolledInv(msgs, lo)
      PROVE  PolledInv(msgs, lo2)'
  <2> SUFFICES ASSUME NEW k \in 1 .. Len(msgs)
               PROVE  /\ msgs[k].index <= sent[msgs[k].client]
                      /\ msgs[k].client \notin poller_state
    BY <1>1 DEF PolledInv
  <2>1. msgs[k].index <= sent[msgs[k].client]
    BY <1>6 DEF PolledInv
  <2> QED
    BY <1>2, <2>1, MessageOf
<1>7. PendingInv'
  BY <1>1, <1>6, AnsweredNonce DEF RelayInv, PendingInv, Answered, pollerVars
<1>8. DeliveryInv'
  <2>1. Tracked' = {}
    BY <1>3, <1>4 DEF Tracked, MaySkip
  <2> QED
    BY <1>1, <2>1 DEF RelayInv, DeliveryInv, pollerVars
<1>9. NonceInv'
  BY DEF NonceInv
<1>10. PositionInv'
  BY <1>1, <1>3 DEF RelayInv, PositionInv, pollerVars, MaySkip
<1> QED
  BY <1>5, <1>7, <1>8, <1>9, <1>10

\* An answer to the query continues what was delivered, if update_nonce accepts
\* it, and it is continued by the queue.
LEMMA AnswerStep ==
    ASSUME TypeOK, RelayInv, CanisterAnswers
    PROVE  PendingInv' /\ DeliveryInv' /\ NonceInv'
<1> USE DEF TypeOK
<1>1. /\ polling = "waiting"
      /\ ws_get_messages(next_message_nonce)
      /\ UNCHANGED <<pollerVars, poller_state, session, delivered>>
      /\ UNCHANGED <<queue, oldest, next_nonce, sent>>
  BY DEF CanisterAnswers, ws_get_messages
<1>2. PICK from, n \in Nat :
        /\ from = IF next_message_nonce < oldest THEN oldest
                                                 ELSE next_message_nonce
        /\ n > 0 => from + n <= next_nonce
        /\ response' \in Seq(Message)
        /\ Len(response') = n
        /\ DOMAIN response' = 1 .. n
        /\ \A j \in 1 .. n : /\ from + j - 1 \in DOMAIN queue
                             /\ response'[j] = queue[from + j - 1]
  BY <1>1, AnswerIsFromQueue
<1>3. batch = <<>>
  BY <1>1 DEF RelayInv, PositionInv
<1>4. oldest \in Nat /\ next_nonce \in Nat
  BY DEF CanisterTypeOK
<1>5. ASSUME Answered'
      PROVE  /\ n > 0
             /\ from + n <= next_nonce
             /\ update_nonce(response)' = from + n
             /\ response'[1].nonce = from
  <2>1. n > 0
    BY <1>2, <1>5, EmptySeq DEF Answered
  <2>2. response'[n].nonce = from + n - 1 /\ response'[1].nonce = from
    <3>1. \A j \in DOMAIN queue : queue[j].nonce = j
      BY DEF RelayInv, QueueInv
    <3>2. n \in 1 .. n /\ 1 \in 1 .. n
      BY <2>1
    <3>3. response'[n].nonce = from + n - 1 /\ response'[1].nonce = from + 1 - 1
      BY <1>2, <3>1, <3>2
    <3> QED
      BY <3>3
  <2> QED
    BY <1>2, <2>1, <2>2 DEF update_nonce
<1>6. ASSUME NEW s, NEW k \in 1 .. n + 1, NEW i, Expects(s, from + k - 1, i)
      PROVE  Continues(s, response, k, from + n, i)'
  <2>1. /\ FirstIs(response', s, k, i)
        /\ Absent(response', s, k) =>
             /\ FirstIs(queue, s, from + n, i)
             /\ Absent(queue, s, from + n) => Absent(queue, s, from + k - 1)
    BY <1>2, <1>6, AnswerContinues DEF Expects
  <2> QED
    BY <1>1, <1>6, <2>1 DEF Continues, Expects
<1>7. PendingInv'
  <2>1. PolledInv(batch, next_message_nonce)'
    BY <1>1, <1>3, EmptySeq DEF PolledInv, pollerVars
  <2>2. ASSUME Answered'
        PROVE  PolledInv(response, from + n)'
    <3> SUFFICES ASSUME NEW k \in 1 .. n
                 PROVE  /\ response'[k].index <= sent[response'[k].client]
                        /\ from + n <= next_nonce
                        /\ Continues(response[k].client, response, k + 1,
                                     from + n, response[k].index + 1)'
      BY <1>1, <1>2 DEF PolledInv
    <3>1. k + 1 \in 1 .. n + 1 /\ from + (k + 1) - 1 = (from + k - 1) + 1
      OBVIOUS
    <3>2. /\ response'[k].index <= sent[response'[k].client]
          /\ Expects(response'[k].client, from + (k + 1) - 1,
                     response'[k].index + 1)
      BY <1>2, <3>1 DEF RelayInv, QueueInv
    <3> QED
      BY <1>5, <1>6, <2>2, <3>1, <3>2
  <2> QED
    BY <1>5, <2>1, <2>2 DEF PendingInv
<1>8. DeliveryInv'
  <2>1. UNCHANGED <<Tracked, delivered, sent, poller_state, batch,
                    next_message_nonce, next_nonce>>
    BY <1>1 DEF Tracked, pollerVars
  <2>2. \A s : UNCHANGED LastDelivered(s)
    BY <1>1 DEF LastDelivered
  <2>3. \A s, i : Continues(s, batch, 1, next_message_nonce, i)
                      => Continues(s, batch, 1, next_message_nonce, i)'
    BY <1>1, <2>1 DEF Continues, Expects, Kept
  <2>4. ASSUME NEW s \in Tracked, Answered', Consecutive(response)'
        PROVE  Continues(s, response, 1, from + n, LastDelivered(s) + 1)'
    <3> DEFINE i == LastDelivered(s) + 1
    <3>1. Continues(s, batch, 1, next_message_nonce, i)
      BY DEF RelayInv, DeliveryInv
    <3>2. Absent(batch, s, 1)
      BY <1>3, EmptySeq DEF Absent
    <3>3. UNCHANGED i
      BY <2>2
    <3> HIDE DEF i
    <3>4. Expects(s, from, i)
      <4>1. CASE next_message_nonce = 0
        <5>1. Expects(s, 0, i)
          BY <3>1, <3>2, <4>1 DEF Continues, Kept
        <5>2. from = oldest
          BY <1>2, <1>4, <4>1
        <5> QED
          BY <5>1, <5>2, OldestIsFirst DEF Expects
      <4>2. CASE next_message_nonce # 0
        <5>1. response'[1].nonce = next_message_nonce
          <6>1. 1 \in 1 .. Len(response')
            BY <1>2, <1>5, <2>4
          <6> QED
            BY <1>1, <2>4, <4>2, <6>1 DEF Consecutive, pollerVars
        <5>2. from = next_message_nonce /\ oldest <= next_message_nonce
          BY <1>2, <1>4, <1>5, <2>4, <5>1
        <5> QED
          BY <3>1, <3>2, <5>2 DEF Continues, Kept
      <4> QED
        BY <4>1, <4>2
    <3>5. Continues(s, response, 1, from + n, i)'
      <4>1. 1 \in 1 .. n + 1 /\ from + 1 - 1 = from
        OBVIOUS
      <4> QED
        BY <1>6, <3>4, <3>3, <4>1
    <3> QED
      BY <3>5 DEF i
  <2> QED
    BY <1>5, <2>1, <2>2, <2>3, <2>4 DEF RelayInv, DeliveryInv
<1>9. NonceInv'
  BY <1>1, <1>5 DEF RelayInv, NonceInv, pollerVars
<1> QED
  BY <1>7, <1>8, <1>9

-----------------------------------------------------------------------------
(***************************************************************************)
(* Steps of the poller.                                                    *)
(***************************************************************************)

\* The answer becomes the batch to be relayed, or the poller fails.
LEMMA MessagesPolledStep ==
    ASSUME TypeOK, RelayInv, MessagesPolled
    PROVE  PendingInv' /\ DeliveryInv' /\ NonceInv' /\ PositionInv'
<1> USE DEF TypeOK
<1>1. /\ polling = "waiting"
      /\ Answered
      /\ response' = None
      /\ UNCHANGED <<members, queue, oldest, next_nonce, sent, calls,
                     poller_state, session, delivered>>
  BY DEF MessagesPolled, EndQuery, Answered
<1>2. ~ Answered' /\ batch = <<>>
  BY <1>1 DEF Answered, RelayInv, PositionInv
<1>3. UNCHANGED Tracked /\ \A s : UNCHANGED LastDelivered(s)
  BY <1>1 DEF Tracked, LastDelivered
<1>4. update_nonce(response) \in Nat \ {0}
  BY <1>1, AnsweredNonce
<1>5. \A s, msgs, k, lo, i :
          Continues(s, msgs, k, lo, i) => Continues(s, msgs, k, lo, i)'
  BY <1>1 DEF Continues, Expects, Kept
<1>6. \A msgs, lo : PolledInv(msgs, lo) => PolledInv(msgs, lo)'
  BY <1>1, <1>5 DEF PolledInv
<1>7. \A s \in poller_state : session[s] # "starting"
  BY <1>1 DEF RelayInv, PositionInv
<1>8. CASE Consecutive(response)
  <2>1. /\ polling' = "relay"
        /\ next_message_nonce' = update_nonce(response)
        /\ batch' = response
    BY <1>8 DEF MessagesPolled
  <2>2. PendingInv'
    BY <1>1, <1>2, <1>6, <2>1 DEF RelayInv, PendingInv
  <2>3. DeliveryInv'
    <3>1. ASSUME NEW s \in Tracked'
          PROVE  /\ next_message_nonce' <= next_nonce'
                 /\ Continues(s, batch, 1, next_message_nonce,
                              LastDelivered(s) + 1)'
      <4>1. /\ update_nonce(response) <= next_nonce
            /\ Continues(s, response, 1, update_nonce(response),
                         LastDelivered(s) + 1)
        BY <1>1, <1>3, <1>8, <3>1 DEF RelayInv, DeliveryInv
      <4> QED
        BY <1>1, <1>3, <1>5, <2>1, <4>1
    <3> QED
      BY <1>1, <1>2, <1>4, <2>1, <3>1 DEF RelayInv, DeliveryInv
  <2>4. NonceInv'
    BY <1>1, <1>2, <2>1 DEF RelayInv, NonceInv
  <2>5. PositionInv'
    BY <1>1, <1>4, <1>7, <2>1 DEF RelayInv, PositionInv
  <2> QED
    BY <2>2, <2>3, <2>4, <2>5
<1>9. CASE ~ Consecutive(response)
  <2>1. /\ polling' = "failed"
        /\ UNCHANGED <<next_message_nonce, batch>>
    BY <1>9 DEF MessagesPolled
  <2>2. PendingInv'
    BY <1>2, <1>6, <2>1 DEF RelayInv, PendingInv
  <2>3. DeliveryInv'
    <3>1. ASSUME NEW s \in Tracked'
          PROVE  /\ next_message_nonce' <= next_nonce'
                 /\ Continues(s, batch, 1, next_message_nonce,
                              LastDelivered(s) + 1)'
      BY <1>1, <1>3, <1>5, <2>1, <3>1 DEF RelayInv, DeliveryInv
    <3> QED
      BY <1>1, <1>2, <2>1, <3>1 DEF RelayInv, DeliveryInv
  <2>4. NonceInv'
    BY <1>1, <1>2, <2>1 DEF RelayInv, NonceInv
  <2>5. PositionInv'
    BY <1>1, <1>2, <1>7, <2>1 DEF RelayInv, PositionInv
  <2> QED
    BY <2>2, <2>3, <2>4, <2>5
<1> QED
  BY <1>8, <1>9

\* The message that is relayed next: if the client is registered and its next
\* message is determined, it is that one.
LEMMA RelayedMessage ==
    ASSUME TypeOK, RelayInv, batch # <<>>
    PROVE  /\ batch \in Seq(Message)
           /\ 1 \in 1 .. Len(batch)
           /\ Head(batch) = batch[1]
           /\ batch[1].client \in Clients
           /\ batch[1].index \in Nat \ {0}
           /\ batch[1].index <= sent[batch[1].client]
           /\ batch[1].client \in Tracked =>
                batch[1].index = LastDelivered(batch[1].client) + 1
<1>1. /\ batch \in Seq(Message)
      /\ 1 \in 1 .. Len(batch)
      /\ Head(batch) = batch[1]
      /\ DOMAIN batch = 1 .. Len(batch)
  BY EmptySeq, HeadTailProperties, LenProperties DEF TypeOK
<1>2. batch[1].client \in Clients /\ batch[1].index \in Nat \ {0}
  BY <1>1, MessageOf
<1>3. batch[1].index <= sent[batch[1].client]
  BY <1>1 DEF RelayInv, PendingInv, PolledInv
<1>4. ASSUME batch[1].client \in Tracked
      PROVE  batch[1].index = LastDelivered(batch[1].client) + 1
  <2>1. FirstIs(batch, batch[1].client, 1, LastDelivered(batch[1].client) + 1)
    BY <1>4 DEF RelayInv, DeliveryInv, Continues
  <2>2. DOMAIN batch \subseteq Nat
    BY <1>1
  <2> QED
    BY <1>1, <2>1, <2>2, FirstHere
<1> QED
  BY <1>1, <1>2, <1>3, <1>4

\* What relay_message adds to delivered.
LEMMA DeliveredNext ==
    ASSUME TypeOK, NEW m \in Message,
           delivered' = [delivered EXCEPT ![m.client] = Append(@, m.index)]
    PROVE  /\ m.client \in Clients
           /\ \A s \in Clients : s # m.client => delivered'[s] = delivered[s]
           /\ delivered'[m.client] = Append(delivered[m.client], m.index)
           /\ Len(delivered[m.client]) \in Nat
           /\ Len(delivered'[m.client]) = Len(delivered[m.client]) + 1
           /\ \A i \in 1 .. Len(delivered[m.client]) :
                delivered'[m.client][i] = delivered[m.client][i]
           /\ delivered'[m.client][Len(delivered[m.client]) + 1] = m.index
           /\ delivered'[m.client] # <<>>
<1>1. m.client \in Clients /\ m.index \in Nat \ {0}
  BY DEF Message
<1>2. delivered[m.client] \in Seq(Nat \ {0})
  BY <1>1 DEF TypeOK
<1>3. delivered'[m.client] = Append(delivered[m.client], m.index)
  BY <1>1 DEF TypeOK
<1>4. \A s \in Clients : s # m.client => delivered'[s] = delivered[s]
  BY DEF TypeOK
<1> QED
  BY <1>1, <1>2, <1>3, <1>4, AppendProperties, LenProperties

\* The first message of the batch is taken: sent to its client, if registered.
TakesMessage ==
    LET m == Head(batch) IN
    /\ batch # <<>>
    /\ batch' = Tail(batch)
    /\ delivered' = IF m.client \in poller_state
                    THEN [delivered EXCEPT ![m.client] = Append(@, m.index)]
                    ELSE delivered
    /\ UNCHANGED <<queue, oldest, next_nonce, sent, response,
                   next_message_nonce, poller_state, session>>

\* The poller sends only to registered clients, and skips the others.
LEMMA MessageTaken ==
    ASSUME RelayInv
    PROVE  /\ relay_message => TakesMessage
           /\ RelayNext => TakesMessage \/ UNCHANGED batch
<1>1. relay_message => batch # <<>> /\ Head(batch).client \in poller_state
  BY DEF relay_message, RelayInv, PositionInv
<1>2. relay_message => TakesMessage
  BY <1>1 DEF relay_message, TakesMessage, canisterVars
<1>3. RelayNext => TakesMessage \/ UNCHANGED batch
  BY DEF RelayNext, TakesMessage, canisterVars
<1> QED
  BY <1>2, <1>3

\* The client that gets the first message of the batch expects the one after
\* it, the others what they did.
LEMMA RelayStep ==
    ASSUME TypeOK, RelayInv, TakesMessage
    PROVE  PendingInv' /\ DeliveryInv' /\ NonceInv'
<1> USE DEF TypeOK
<1> DEFINE m == batch[1]
<1>1. /\ batch # <<>>
      /\ batch' = Tail(batch)
      /\ delivered' = IF m.client \in poller_state
                      THEN [delivered EXCEPT ![m.client] = Append(@, m.index)]
                      ELSE delivered
      /\ UNCHANGED <<queue, oldest, next_nonce, sent, response,
                     next_message_nonce, poller_state, session>>
  BY RelayedMessage DEF TakesMessage
<1>2. /\ batch \in Seq(Message)
      /\ batch # <<>>
      /\ 1 \in 1 .. Len(batch)
      /\ Len(batch) \in Nat
      /\ DOMAIN batch = 1 .. Len(batch)
      /\ m \in Message
      /\ m.client \in Clients
      /\ m.index \in Nat \ {0}
      /\ m.index <= sent[m.client]
  BY <1>1, RelayedMessage, MessageOf, LenProperties
<1>3. ~ Answered /\ ~ Answered'
  BY <1>1 DEF RelayInv, PositionInv, Answered
<1>4. /\ Len(Tail(batch)) = Len(batch) - 1
      /\ \A k \in 1 .. Len(batch) - 1 : Tail(batch)[k] = batch[k + 1]
  BY <1>2, HeadTailProperties
<1>5. next_message_nonce # 0
  BY <1>2 DEF RelayInv, PositionInv
<1>6. ASSUME NEW s, NEW k \in Nat \ {0}, NEW i,
             Continues(s, batch, k + 1, next_message_nonce, i)
      PROVE  /\ FirstIs(batch', s, k, i)
             /\ Absent(batch', s, k) /\ Kept(next_message_nonce)'
                    => Expects(s, next_message_nonce, i)'
  <2>1. /\ FirstIs(Tail(batch), s, k, i)
        /\ Absent(Tail(batch), s, k) => Absent(batch, s, k + 1)
    BY <1>2, <1>6, TailShifts DEF Continues
  <2> QED
    BY <1>1, <1>6, <2>1 DEF Continues, Kept, Expects
<1> HIDE DEF m
<1>7. PendingInv'
  <2> SUFFICES ASSUME NEW k \in 1 .. Len(batch')
               PROVE  /\ batch'[k].index <= sent'[batch'[k].client]
                      /\ batch'[k].client \in poller_state' =>
                           /\ next_message_nonce' <= next_nonce'
                           /\ Continues(batch[k].client, batch, k + 1,
                                        next_message_nonce, batch[k].index + 1)'
    BY <1>3 DEF PendingInv, PolledInv
  <2>1. /\ k + 1 \in 1 .. Len(batch)
        /\ batch'[k] = batch[k + 1]
        /\ k + 1 \in Nat \ {0}
    BY <1>1, <1>2, <1>4
  <2>2. /\ batch[k + 1].index <= sent[batch[k + 1].client]
        /\ batch[k + 1].client \in poller_state =>
             /\ next_message_nonce <= next_nonce
             /\ Continues(batch[k + 1].client, batch, (k + 1) + 1,
                          next_message_nonce, batch[k + 1].index + 1)
    BY <2>1 DEF RelayInv, PendingInv, PolledInv
  <2> QED
    BY <1>1, <1>6, <2>1, <2>2 DEF Continues
<1>8. ASSUME NEW s \in Clients, NEW i \in 1 .. Len(delivered'[s])
      PROVE  delivered'[s][i] <= sent'[s]
  <2>1. CASE m.client \in poller_state /\ s = m.client
    <3>1. /\ Len(delivered[s]) \in Nat
          /\ Len(delivered'[s]) = Len(delivered[s]) + 1
          /\ \A j \in 1 .. Len(delivered[s]) : delivered'[s][j] = delivered[s][j]
          /\ delivered'[s][Len(delivered[s]) + 1] = m.index
      BY <1>1, <1>2, <2>1, DeliveredNext
    <3>2. i \in 1 .. Len(delivered[s]) \/ i = Len(delivered[s]) + 1
      BY <3>1
    <3> QED
      BY <1>1, <1>2, <2>1, <3>1, <3>2 DEF RelayInv, DeliveryInv
  <2>2. CASE ~ (m.client \in poller_state /\ s = m.client)
    <3>1. delivered'[s] = delivered[s]
      BY <1>1, <1>2, <2>2, DeliveredNext
    <3> QED
      BY <1>1, <3>1 DEF RelayInv, DeliveryInv
  <2> QED
    BY <2>1, <2>2
<1>9. ASSUME NEW s \in Tracked'
      PROVE  /\ next_message_nonce <= next_nonce
             /\ Continues(s, batch, 1, next_message_nonce,
                          LastDelivered(s) + 1)'
  <2>1. s \in poller_state /\ s \in Clients
    BY <1>1, <1>9 DEF Tracked
  <2>2. CASE s = m.client
    <3>1. LastDelivered(s)' = m.index
      BY <1>1, <1>2, <2>1, <2>2, DeliveredNext DEF LastDelivered
    <3>2. /\ next_message_nonce <= next_nonce
          /\ Continues(s, batch, 1 + 1, next_message_nonce, m.index + 1)
      BY <1>2, <2>1, <2>2 DEF RelayInv, PendingInv, PolledInv, m
    <3>3. 1 \in Nat \ {0}
      OBVIOUS
    <3> QED
      BY <1>6, <3>1, <3>2, <3>3 DEF Continues
  <2>3. CASE s # m.client
    <3>1. delivered'[s] = delivered[s]
      BY <1>1, <1>2, <2>1, <2>3, DeliveredNext
    <3>2. s \in Tracked /\ LastDelivered(s)' = LastDelivered(s)
      BY <1>1, <1>9, <2>1, <3>1 DEF Tracked, MaySkip, LastDelivered
    <3>3. /\ next_message_nonce <= next_nonce
          /\ Continues(s, batch, 1, next_message_nonce, LastDelivered(s) + 1)
      BY <3>2 DEF RelayInv, DeliveryInv
    <3>4. /\ DOMAIN batch \subseteq Nat
          /\ 1 \in Nat
          /\ 1 \in DOMAIN batch => batch[1].client # s
      BY <1>2, <2>3 DEF m
    <3>5. Continues(s, batch, 1 + 1, next_message_nonce, LastDelivered(s) + 1)
      BY <3>3, <3>4, PassOver DEF Continues
    <3>6. 1 \in Nat \ {0}
      OBVIOUS
    <3> QED
      BY <1>6, <3>2, <3>3, <3>5, <3>6 DEF Continues
  <2> QED
    BY <2>2, <2>3
<1>10. DeliveryInv'
  BY <1>1, <1>3, <1>5, <1>8, <1>9 DEF DeliveryInv
<1>11. NonceInv'
  BY <1>1, <1>3 DEF RelayInv, NonceInv
<1> QED
  BY <1>7, <1>10, <1>11

\* Between two messages the poller is at "relay", and at "send" only for a
\* client that is registered.
LEMMA RelayPosition ==
    ASSUME TypeOK, RelayInv, RelayNext \/ relay_message
    PROVE  PositionInv'
<1>1. /\ polling \in {"relay", "send"}
      /\ polling' \in {"relay", "send"}
      /\ polling' = "send" => /\ batch' = batch
                              /\ batch # <<>>
                              /\ Head(batch).client \in poller_state
      /\ batch # <<>>
      /\ UNCHANGED <<response, next_message_nonce, poller_state, session>>
  BY DEF RelayNext, relay_message, canisterVars, RelayInv, PositionInv
<1> QED
  BY <1>1 DEF RelayInv, PositionInv

-----------------------------------------------------------------------------
(***************************************************************************)
(* Steps of the sessions.                                                  *)
(***************************************************************************)

\* Nothing was sent to a client that is inserted: it expects its first message
\* wherever the poller is.
LEMMA InsertStep ==
    ASSUME TypeOK, RelayInv, NEW c \in Clients, InsertClient(c)
    PROVE  PendingInv' /\ DeliveryInv' /\ PositionInv'
<1> USE DEF TypeOK
<1>1. /\ session[c] = "new"
      /\ session' = [session EXCEPT ![c] =
                        IF polling = "none" THEN "starting" ELSE "inserted"]
      /\ poller_state' = poller_state \cup {c}
      /\ polling' = IF polling = "none" THEN "allocated" ELSE polling
      /\ UNCHANGED <<queue, oldest, next_nonce, sent, response,
                     next_message_nonce, batch, delivered>>
  BY DEF InsertClient, GoTo, canisterVars
<1>2. sent[c] = 0
  BY <1>1 DEF RelayInv, MembersInv
<1>3. /\ delivered[c] = <<>>
      /\ \A lo : Expects(c, lo, 1)
      /\ \A msgs \in Seq(Message), lo \in Nat :
           PolledInv(msgs, lo) => \A k : Absent(msgs, c, k)
  BY <1>2, NothingDelivered, NothingSent DEF RelayInv
<1>4. \A s, msgs, k, lo, i :
          Continues(s, msgs, k, lo, i) => Continues(s, msgs, k, lo, i)'
  BY <1>1 DEF Continues, Expects, Kept
<1>5. UNCHANGED <<Answered, update_nonce(response), Consecutive(response)>>
  BY <1>1 DEF Answered, update_nonce, Consecutive
<1>6. ASSUME NEW msgs \in Seq(Message), NEW lo \in Nat, PolledInv(msgs, lo)
      PROVE  PolledInv(msgs, lo)'
  <2>1. \A k \in 1 .. Len(msgs) : msgs[k].client # c
    <3>1. Absent(msgs, c, 1)
      BY <1>3, <1>6
    <3>2. DOMAIN msgs = 1 .. Len(msgs) /\ \A k \in 1 .. Len(msgs) : k >= 1
      BY LenProperties
    <3> QED
      BY <3>1, <3>2 DEF Absent
  <2> QED
    BY <1>1, <1>4, <1>6, <2>1 DEF PolledInv
<1>7. PendingInv'
  BY <1>1, <1>5, <1>6, AnsweredNonce DEF RelayInv, PendingInv
<1>8. ASSUME NEW msgs \in Seq(Message), NEW lo \in Nat, PolledInv(msgs, lo)
      PROVE  Continues(c, msgs, 1, lo, 1)'
  <2>1. Absent(msgs, c, 1)
    BY <1>3, <1>8
  <2>2. Continues(c, msgs, 1, lo, 1)
    BY <1>3, <2>1, AbsentFirst DEF Continues
  <2> QED
    BY <1>4, <2>2
<1>9. ASSUME NEW s \in Tracked'
      PROVE  s \in Tracked \/ (s = c /\ ~ MaySkip)
  BY <1>1, <1>3, <1>9 DEF Tracked, MaySkip
<1>10. \A s : LastDelivered(s)' = LastDelivered(s)
  BY <1>1 DEF LastDelivered
<1>11. LastDelivered(c) + 1 = 1
  BY <1>3 DEF LastDelivered
<1>12. DeliveryInv'
  <2>1. ASSUME NEW s \in Tracked'
        PROVE  /\ next_message_nonce' <= next_nonce'
               /\ Continues(s, batch, 1, next_message_nonce,
                            LastDelivered(s) + 1)'
    <3>1. CASE s \in Tracked
      BY <1>1, <1>4, <1>10, <3>1 DEF RelayInv, DeliveryInv
    <3>2. CASE s = c /\ ~ MaySkip
      <4>1. next_message_nonce <= next_nonce
        BY <3>2 DEF RelayInv, NonceInv, MaySkip
      <4>2. Continues(c, batch, 1, next_message_nonce, 1)'
        BY <1>1, <1>8 DEF RelayInv, PendingInv
      <4> QED
        BY <1>1, <1>10, <1>11, <3>2, <4>1, <4>2
    <3> QED
      BY <1>9, <3>1, <3>2
  <2>2. ASSUME NEW s \in Tracked', Answered, Consecutive(response)
        PROVE  /\ update_nonce(response) <= next_nonce
               /\ Continues(s, response, 1, update_nonce(response),
                            LastDelivered(s) + 1)'
    <3>1. CASE s \in Tracked
      BY <1>1, <1>4, <1>5, <1>10, <2>2, <3>1 DEF RelayInv, DeliveryInv
    <3>2. CASE s = c /\ ~ MaySkip
      <4>1. update_nonce(response) <= next_nonce
        BY <2>2, <3>2 DEF RelayInv, NonceInv, MaySkip
      <4>2. Continues(c, response, 1, update_nonce(response), 1)'
        BY <1>1, <1>5, <1>8, <2>2, AnsweredNonce DEF RelayInv, PendingInv
      <4> QED
        BY <1>10, <1>11, <3>2, <4>1, <4>2
    <3> QED
      BY <1>9, <3>1, <3>2
  <2> QED
    BY <1>1, <1>3, <1>5, <2>1, <2>2 DEF RelayInv, DeliveryInv
<1>13. PositionInv'
  <2>1. ASSUME polling' = "allocated", NEW s \in poller_state'
        PROVE  /\ delivered'[s] = <<>>
               /\ ~ MaySkip => Expects(s, 0, 1)'
    <3>1. /\ delivered[s] = <<>>
          /\ ~ MaySkip => Expects(s, 0, 1)
      BY <1>1, <1>3, <2>1 DEF RelayInv, PositionInv
    <3> QED
      BY <1>1, <3>1 DEF Expects
  <2>2. /\ response' # None => polling' = "waiting"
        /\ batch' # <<>> =>
             polling' \in {"relay", "send"} /\ next_message_nonce' # 0
        /\ polling' = "send" =>
             batch' # <<>> /\ Head(batch').client \in poller_state'
        /\ polling' = "none" => poller_state' = {}
    BY <1>1 DEF RelayInv, PositionInv
  <2>3. /\ \A s \in poller_state' :
             session'[s] \in {"inserted", "starting", "connected", "closing"}
        /\ \A s \in Clients : session'[s] = "starting" => polling' = "allocated"
        /\ \A s, t \in Clients :
             session'[s] = "starting" /\ session'[t] = "starting" => s = t
    BY <1>1 DEF RelayInv, PositionInv
  <2> QED
    BY <2>1, <2>2, <2>3 DEF PositionInv, MaySkip
<1> QED
  BY <1>7, <1>12, <1>13

\* The session that allocated the PollerState starts the poller at nonce 0: no
\* client registered so far has received a message, and unless clients may
\* skip messages they still find their first one in the queue.
LEMMA OpenStep ==
    ASSUME TypeOK, RelayInv, NEW c \in Clients, OpenSession(c)
    PROVE  PendingInv' /\ DeliveryInv' /\ NonceInv' /\ PositionInv'
<1> USE DEF TypeOK
<1>1. /\ session[c] \in {"inserted", "starting"}
      /\ session' = [session EXCEPT ![c] = "connected"]
      /\ UNCHANGED <<queue, oldest, next_nonce, sent, response, poller_state,
                     delivered>>
  BY DEF OpenSession, GoTo, Call
<1>2. \A s, msgs, k, lo, i :
          Continues(s, msgs, k, lo, i) => Continues(s, msgs, k, lo, i)'
  BY <1>1 DEF Continues, Expects, Kept
<1>3. UNCHANGED <<Answered, update_nonce(response), Tracked>>
  BY <1>1 DEF Answered, update_nonce, Tracked
<1>4. \A s : LastDelivered(s)' = LastDelivered(s)
  BY <1>1 DEF LastDelivered
<1>5. CASE session[c] = "inserted"
  <2>1. UNCHANGED <<polling, next_message_nonce, batch>>
    BY <1>5 DEF OpenSession, GoTo, pollerVars
  <2>2. PendingInv'
    BY <1>1, <1>2, <1>3, <2>1 DEF RelayInv, PendingInv, PolledInv
  <2>3. UNCHANGED Consecutive(response)
    BY <1>1, <2>1 DEF Consecutive
  <2>4. DeliveryInv'
    BY <1>1, <1>2, <1>3, <1>4, <2>1, <2>3 DEF RelayInv, DeliveryInv
  <2>5. NonceInv'
    BY <1>1, <1>3, <2>1 DEF RelayInv, NonceInv
  <2>6. PositionInv'
    BY <1>1, <2>1 DEF RelayInv, PositionInv, Expects
  <2> QED
    BY <2>2, <2>4, <2>5, <2>6
<1>6. CASE session[c] = "starting"
  <2>1. /\ polling' = "poll"
        /\ next_message_nonce' = 0
        /\ batch' = <<>>
    BY <1>6 DEF OpenSession, GoTo
  <2>2. polling = "allocated" /\ response = None
    BY <1>6 DEF RelayInv, PositionInv
  <2>3. ~ Answered
    BY <2>2 DEF Answered
  <2>4. PendingInv'
    BY <1>3, <2>1, <2>3, EmptySeq DEF PendingInv, PolledInv
  <2>5. next_nonce \in Nat
    BY DEF CanisterTypeOK
  <2>6. ASSUME NEW s \in Tracked'
        PROVE  Continues(s, batch, 1, next_message_nonce, LastDelivered(s) + 1)'
    <3>1. s \in poller_state /\ delivered[s] = <<>>
      BY <1>1, <1>3, <2>2, <2>6 DEF Tracked, RelayInv, PositionInv
    <3>2. ~ MaySkip
      BY <1>3, <2>6, <3>1 DEF Tracked
    <3>3. Expects(s, 0, 1)
      BY <2>2, <3>1, <3>2 DEF RelayInv, PositionInv
    <3>4. Absent(<<>>, s, 1)
      BY EmptySeq DEF Absent
    <3>5. Continues(s, <<>>, 1, 0, 1)
      BY <3>3, <3>4, AbsentFirst DEF Continues
    <3>6. LastDelivered(s)' + 1 = 1
      BY <1>1, <3>1 DEF LastDelivered
    <3> QED
      BY <1>2, <2>1, <3>5, <3>6
  <2>7. DeliveryInv'
    <3>1. \A s \in poller_state : delivered[s] = <<>>
      BY <2>2 DEF RelayInv, PositionInv
    <3> QED
      BY <1>1, <1>3, <2>1, <2>3, <2>5, <2>6, <3>1 DEF RelayInv, DeliveryInv
  <2>8. NonceInv'
    BY <1>1, <1>3, <2>1, <2>3, <2>5 DEF NonceInv
  <2>9. PositionInv'
    BY <1>1, <1>6, <2>1, <2>2 DEF RelayInv, PositionInv
  <2> QED
    BY <2>4, <2>7, <2>8, <2>9
<1> QED
  BY <1>1, <1>5, <1>6

-----------------------------------------------------------------------------
(***************************************************************************)
(* The invariant, and what follows from it.                                *)
(***************************************************************************)

\* A step that moves no message may end registrations and queries.
LEMMA QuietStep ==
    ASSUME TypeOK, RelayInv,
           UNCHANGED <<queue, oldest, next_nonce, sent, next_message_nonce,
                       batch, delivered>>,
           poller_state' \subseteq poller_state,
           response' = response \/ response' = None
    PROVE  QueueInv' /\ PendingInv' /\ DeliveryInv' /\ NonceInv'
<1>1. \A s, lo, i : Expects(s, lo, i) => Expects(s, lo, i)'
  BY DEF Expects
<1>2. \A s, msgs, k, lo, i :
          Continues(s, msgs, k, lo, i) => Continues(s, msgs, k, lo, i)'
  BY <1>1 DEF Continues, Kept
<1>3. Answered' => /\ Answered
                   /\ response' = response
                   /\ UNCHANGED <<update_nonce(response), Consecutive(response)>>
  BY DEF Answered, update_nonce, Consecutive
<1>4. Tracked' \subseteq Tracked /\ \A s : LastDelivered(s)' = LastDelivered(s)
  BY DEF Tracked, MaySkip, LastDelivered
<1>5. QueueInv'
  BY <1>1 DEF RelayInv, QueueInv
<1>6. \A msgs, lo : PolledInv(msgs, lo) => PolledInv(msgs, lo)'
  BY <1>2 DEF PolledInv
<1>7. PendingInv'
  BY <1>3, <1>6 DEF RelayInv, PendingInv
<1>8. DeliveryInv'
  BY <1>2, <1>3, <1>4 DEF RelayInv, DeliveryInv
<1>9. NonceInv'
  BY <1>3 DEF RelayInv, NonceInv
<1> QED
  BY <1>5, <1>7, <1>8, <1>9

\* The invariant of the relay, from which the properties below follow.
THEOREM RelayInvariant == Spec => []RelayInv
<1> USE CanisterAssumption
<1>1. Init => RelayInv
  <2> SUFFICES ASSUME Init
               PROVE  RelayInv
    OBVIOUS
  <2> USE DEF Init, CanisterInit
  <2>1. QueueInv
    BY DEF QueueInv
  <2>2. PendingInv
    BY EmptySeq DEF PendingInv, PolledInv, Answered
  <2>3. DeliveryInv
    BY EmptySeq DEF DeliveryInv, Tracked
  <2>4. NonceInv
    BY DEF NonceInv, Answered
  <2>5. PositionInv
    BY DEF PositionInv
  <2>6. MembersInv
    BY DEF MembersInv
  <2> QED
    BY <2>1, <2>2, <2>3, <2>4, <2>5, <2>6 DEF RelayInv
<1>2. TypeOK /\ RelayInv /\ [Next]_vars => RelayInv'
  <2> SUFFICES ASSUME TypeOK, RelayInv, [Next]_vars
               PROVE  RelayInv'
    OBVIOUS
  <2> USE DEF canisterVars, pollerVars
  <2>1. ASSUME NEW c \in Clients, SessionStep(c)
        PROVE  RelayInv'
    <3>1. CASE InsertClient(c)
      <4>1. PendingInv' /\ DeliveryInv' /\ PositionInv'
        BY <3>1, InsertStep
      <4>2. QueueInv' /\ NonceInv'
        BY <3>1 DEF InsertClient, RelayInv, QueueInv, Expects, NonceInv,
                    Answered, update_nonce
      <4>3. MembersInv'
        BY <3>1 DEF InsertClient, GoTo, RelayInv, MembersInv, TypeOK
      <4> QED
        BY <4>1, <4>2, <4>3 DEF RelayInv
    <3>2. CASE OpenSession(c)
      <4>1. PendingInv' /\ DeliveryInv' /\ NonceInv' /\ PositionInv'
        BY <3>2, OpenStep
      <4>2. QueueInv'
        BY <3>2 DEF OpenSession, Call, RelayInv, QueueInv, Expects
      <4>3. MembersInv'
        BY <3>2 DEF OpenSession, GoTo, Call, RelayInv, MembersInv, TypeOK
      <4> QED
        BY <4>1, <4>2, <4>3 DEF RelayInv
    <3>3. CASE \/ ReceiveMessage(c) \/ EndUpdates(c) \/ RemoveClient(c)
               \/ call_ws_close(c) \/ DropSession(c)
      <4> USE DEF ReceiveMessage, EndUpdates, RemoveClient, call_ws_close,
                  DropSession
      <4>1. /\ UNCHANGED <<queue, oldest, next_nonce, sent, response, members,
                           pollerVars, delivered>>
            /\ poller_state' \subseteq poller_state
        BY <3>3 DEF Call
      <4>2. QueueInv' /\ PendingInv' /\ DeliveryInv' /\ NonceInv'
        BY <4>1, QuietStep
      <4>3. PositionInv'
        <5>1. polling = "send" => Head(batch).client \in poller_state'
          BY <3>3 DEF GuardCovers, RelayInv, PositionInv
        <5>2. /\ session[c] \notin {"inserted", "starting"}
              /\ session'[c] # "starting"
              /\ session'[c] \in {"connected", "closing"} \/ c \notin poller_state'
              /\ \A s \in Clients : s # c => session'[s] = session[s]
          BY <3>3 DEF GoTo, TypeOK, RelayInv, PositionInv
        <5>3. poller_state' \subseteq Clients
          BY <4>1 DEF TypeOK
        <5> QED
          BY <4>1, <5>1, <5>2, <5>3 DEF RelayInv, PositionInv, Expects
      <4>4. MembersInv'
        <5>1. \A s : <<"ws_open", s>> \in calls' => <<"ws_open", s>> \in calls
          BY <3>3 DEF Call
        <5>2. \A s : <<"ws_close", s>> \in calls' =>
                        \/ <<"ws_close", s>> \in calls
                        \/ s = c /\ session'[c] = "closed"
          BY <3>3 DEF Call, GoTo, TypeOK
        <5>3. /\ session[c] \in {"connected", "closing", "removed"}
              /\ session'[c] \in {"connected", "closing", "removed", "closed",
                                  "dropped"}
              /\ \A s \in Clients : s # c => session'[s] = session[s]
          BY <3>3 DEF GoTo, TypeOK
        <5> QED
          BY <4>1, <5>1, <5>2, <5>3 DEF RelayInv, MembersInv
      <4> QED
        BY <4>2, <4>3, <4>4 DEF RelayInv
    <3> QED
      BY <2>1, <3>1, <3>2, <3>3 DEF SessionStep
  <2>2. ASSUME NEW c \in Clients, ExecuteCall(c)
        PROVE  RelayInv'
    <3>1. UNCHANGED <<pollerVars, poller_state, session, delivered>>
      BY <2>2 DEF ExecuteCall
    <3>2. CASE ws_open(c)
      <4>1. QueueInv' /\ PendingInv' /\ DeliveryInv' /\ NonceInv' /\ PositionInv'
        BY <3>1, <3>2, EnqueueStep DEF ws_open
      <4>2. MembersInv'
        BY <3>1, <3>2 DEF ws_open, Enqueue, RelayInv, MembersInv, TypeOK,
                          CanisterTypeOK
      <4> QED
        BY <4>1, <4>2 DEF RelayInv
    <3>3. CASE ws_close(c)
      <4>1. QueueInv' /\ PendingInv' /\ DeliveryInv' /\ NonceInv' /\ PositionInv'
        <5>1. CASE CleansUp /\ members = {c}
          BY <3>1, <3>3, <5>1, CleanUpStep
        <5>2. CASE ~ (CleansUp /\ members = {c})
          <6>1. UNCHANGED <<queue, oldest, next_nonce, sent, response>>
            BY <3>3, <5>2 DEF ws_close
          <6>2. PositionInv'
            BY <3>1, <6>1 DEF RelayInv, PositionInv, Expects
          <6> QED
            BY <3>1, <6>1, <6>2, QuietStep
        <5> QED
          BY <5>1, <5>2
      <4>2. MembersInv'
        BY <3>1, <3>3 DEF ws_close, RelayInv, MembersInv
      <4> QED
        BY <4>1, <4>2 DEF RelayInv
    <3> QED
      BY <2>2, <3>2, <3>3 DEF ExecuteCall
  <2>3. ASSUME NEW c \in Clients, CanisterSends(c)
        PROVE  RelayInv'
    <3>1. /\ Enqueue(c)
          /\ c \in members
          /\ UNCHANGED <<members, calls, response, pollerVars, poller_state,
                         session, delivered>>
      BY <2>3 DEF CanisterSends, SendToClient
    <3>2. QueueInv' /\ PendingInv' /\ DeliveryInv' /\ NonceInv' /\ PositionInv'
      BY <3>1, EnqueueStep
    <3>3. MembersInv'
      BY <3>1 DEF Enqueue, RelayInv, MembersInv, TypeOK, CanisterTypeOK
    <3> QED
      BY <3>2, <3>3 DEF RelayInv
  <2>4. CASE PollerStep
    <3>1. UNCHANGED <<members, calls, sent, session, queue, oldest, next_nonce>>
      BY <2>4 DEF PollerStep, SendQuery, QueryWithoutResult, QueryFails,
                  NothingPolled, MessagesPolled, RelayNext, relay_message,
                  RelayEnds, poller_should_terminate, PollerFails, EndQuery
    <3>2. QueueInv' /\ MembersInv'
      BY <3>1 DEF RelayInv, QueueInv, Expects, MembersInv
    <3>3. CASE MessagesPolled
      BY <3>2, <3>3, MessagesPolledStep DEF RelayInv
    <3>4. CASE RelayNext \/ relay_message
      <4>1. PositionInv'
        BY <3>4, RelayPosition
      <4>2. PendingInv' /\ DeliveryInv' /\ NonceInv'
        <5>1. CASE TakesMessage
          BY <5>1, RelayStep
        <5>2. CASE RelayNext /\ UNCHANGED batch
          BY <5>2, QuietStep DEF RelayNext
        <5> QED
          BY <3>4, <5>1, <5>2, MessageTaken
      <4> QED
        BY <3>2, <4>1, <4>2 DEF RelayInv
    <3>5. CASE ~ MessagesPolled /\ ~ RelayNext /\ ~ relay_message
      <4>1. /\ UNCHANGED <<next_message_nonce, batch, delivered>>
            /\ poller_state' \subseteq poller_state
            /\ response' = response \/ response' = None
        BY <2>4, <3>5 DEF PollerStep, SendQuery, QueryWithoutResult, QueryFails,
             NothingPolled, RelayEnds, poller_should_terminate, PollerFails,
             EndQuery
      <4>2. PendingInv' /\ DeliveryInv' /\ NonceInv'
        BY <3>1, <4>1, QuietStep
      <4>3. PositionInv'
        <5>1. polling \notin {"none", "allocated"}
          BY <2>4, <3>5 DEF PollerStep, SendQuery, QueryWithoutResult,
               QueryFails, NothingPolled, RelayEnds, poller_should_terminate,
               PollerFails
        <5>2. /\ polling' # "allocated"
              /\ polling' = "none" => poller_state' = {}
              /\ response' # None => polling' = "waiting"
              /\ batch = <<>> /\ polling' # "send"
          BY <2>4, <3>5 DEF PollerStep, SendQuery, QueryWithoutResult,
               QueryFails, NothingPolled, RelayEnds, poller_should_terminate,
               PollerFails, EndQuery, RelayInv, PositionInv
        <5> QED
          BY <3>1, <4>1, <5>1, <5>2 DEF RelayInv, PositionInv
      <4> QED
        BY <3>2, <4>2, <4>3 DEF RelayInv
    <3> QED
      BY <3>3, <3>4, <3>5
  <2>5. CASE CanisterAnswers
    <3>1. PendingInv' /\ DeliveryInv' /\ NonceInv'
      BY <2>5, AnswerStep
    <3>2. QueueInv' /\ MembersInv' /\ PositionInv'
      BY <2>5 DEF CanisterAnswers, ws_get_messages, RelayInv, QueueInv, Expects,
                  MembersInv, PositionInv
    <3> QED
      BY <3>1, <3>2 DEF RelayInv
  <2>6. CASE CanisterDeletes
    <3>1. QueueInv' /\ PendingInv' /\ DeliveryInv' /\ NonceInv' /\ PositionInv'
      BY <2>6, DeletionStep
    <3>2. MembersInv'
      BY <2>6 DEF CanisterDeletes, DeleteOldest, RelayInv, MembersInv
    <3> QED
      BY <3>1, <3>2 DEF RelayInv
  <2>7. CASE UNCHANGED vars
    <3>1. QueueInv' /\ PendingInv' /\ DeliveryInv' /\ NonceInv'
      BY <2>7, QuietStep DEF vars
    <3>2. PositionInv' /\ MembersInv'
      BY <2>7 DEF vars, RelayInv, PositionInv, MembersInv, Expects
    <3> QED
      BY <3>1, <3>2 DEF RelayInv
  <2> QED
    BY <2>1, <2>2, <2>3, <2>4, <2>5, <2>6, <2>7 DEF Next
<1> QED
  BY <1>1, <1>2, PollerTypeCorrect, PTL DEF Spec

\* What a step does to the messages delivered: nothing, or it adds one to those
\* of a client, which has the next index if that is determined.
LEMMA DeliveryStep ==
    ASSUME TypeOK, RelayInv, [Next]_vars, delivered' # delivered
    PROVE  \E m \in Message :
             /\ m.client \in poller_state
             /\ m.index <= sent[m.client]
             /\ m.client \in Tracked => m.index = LastDelivered(m.client) + 1
             /\ delivered' = [delivered EXCEPT ![m.client] = Append(@, m.index)]
             /\ UNCHANGED <<sent, poller_state>>
<1>1. relay_message
  BY DEF Next, vars, SessionStep, InsertClient, OpenSession, ReceiveMessage,
         EndUpdates, RemoveClient, RelayNext, call_ws_close, DropSession, ExecuteCall, CanisterSends, PollerStep,
         SendQuery, QueryWithoutResult, QueryFails, NothingPolled,
         MessagesPolled, RelayEnds, poller_should_terminate, PollerFails,
         CanisterAnswers, CanisterDeletes
<1>2. batch # <<>> /\ Head(batch).client \in poller_state
  BY <1>1 DEF relay_message, RelayInv, PositionInv
<1>3. /\ batch[1].client \in poller_state
      /\ delivered' = [delivered EXCEPT ![batch[1].client] =
                                            Append(@, batch[1].index)]
      /\ UNCHANGED <<sent, poller_state>>
  BY <1>1, <1>2, RelayedMessage DEF relay_message, canisterVars
<1> QED
  BY <1>2, <1>3, RelayedMessage, MessageOf

\* What a client receives has no gap, no duplicate and no reordering.
THEOREM NoGapsHolds == Spec => []NoGaps
<1>1. Init => NoGaps
  BY EmptySeq DEF Init, NoGaps
<1>2. TypeOK /\ RelayInv /\ NoGaps /\ [Next]_vars => NoGaps'
  <2> SUFFICES ASSUME TypeOK, RelayInv, NoGaps, [Next]_vars,
                      NEW s \in Clients, NEW i \in 1 .. Len(delivered'[s]) - 1
               PROVE  delivered'[s][i + 1] = delivered'[s][i] + 1
    BY DEF NoGaps
  <2>1. CASE delivered'[s] = delivered[s]
    BY <2>1 DEF NoGaps
  <2>2. CASE delivered'[s] # delivered[s]
    <3>1. PICK m \in Message :
             /\ m.client \in poller_state
             /\ m.client \in Tracked => m.index = LastDelivered(m.client) + 1
             /\ delivered' = [delivered EXCEPT ![m.client] = Append(@, m.index)]
      BY <2>2, DeliveryStep
    <3>2. /\ s = m.client
          /\ Len(delivered[s]) \in Nat
          /\ Len(delivered'[s]) = Len(delivered[s]) + 1
          /\ \A j \in 1 .. Len(delivered[s]) : delivered'[s][j] = delivered[s][j]
          /\ delivered'[s][Len(delivered[s]) + 1] = m.index
      BY <2>2, <3>1, DeliveredNext
    <3>3. CASE i = Len(delivered[s])
      <4>1. delivered[s] # <<>>
        BY <3>2, <3>3, EmptySeq
      <4>2. m.index = delivered[s][Len(delivered[s])] + 1
        BY <3>1, <3>2, <4>1 DEF Tracked, LastDelivered
      <4> QED
        BY <3>2, <3>3, <4>2
    <3>4. CASE i # Len(delivered[s])
      <4>1. i \in 1 .. Len(delivered[s]) - 1
        BY <3>2, <3>4
      <4>2. i \in 1 .. Len(delivered[s]) /\ i + 1 \in 1 .. Len(delivered[s])
        BY <3>2, <4>1
      <4> QED
        BY <3>2, <4>1, <4>2 DEF NoGaps
    <3> QED
      BY <3>3, <3>4
  <2> QED
    BY <2>1, <2>2
<1> QED
  BY <1>1, <1>2, PollerTypeCorrect, RelayInvariant, PTL DEF Spec

\* The poller implements OrderedRelay: whatever a session, a query, a timeout
\* or the canister does, a delivery is of the message that is next for a client
\* registered at that moment.
THEOREM RelayImplemented == Spec => ImplementsRelay
<1>1. Init => Relay!Init
  BY DEF Init, CanisterInit, Relay!Init
<1>2. TypeOK /\ RelayInv /\ [Next]_vars => [Relay!Next]_Relay!vars
  <2> SUFFICES ASSUME TypeOK, RelayInv, [Next]_vars
               PROVE  [Relay!Next]_Relay!vars
    OBVIOUS
  <2> USE DEF Relay!Next, Relay!vars
  <2>1. CASE delivered' # delivered
    <3>1. PICK m \in Message :
             /\ m.client \in poller_state
             /\ m.index <= sent[m.client]
             /\ m.client \in Tracked => m.index = LastDelivered(m.client) + 1
             /\ delivered' = [delivered EXCEPT ![m.client] = Append(@, m.index)]
             /\ UNCHANGED <<sent, poller_state>>
      BY <2>1, DeliveryStep
    <3>2. m.client \in Clients /\ m.index \in Nat \ {0} /\ sent[m.client] \in Nat
      BY DEF Message, TypeOK, CanisterTypeOK
    <3>3. m.index \in 1 .. sent[m.client]
      BY <3>1, <3>2, CanisterAssumption
    <3>4. m.index \in Relay!NextMessages(m.client)
      <4>1. CASE delivered[m.client] # <<>>
        <5>1. m.index = delivered[m.client][Len(delivered[m.client])] + 1
          BY <3>1, <4>1 DEF Tracked, LastDelivered
        <5> QED
          BY <4>1, <5>1 DEF Relay!NextMessages
      <4>2. CASE delivered[m.client] = <<>> /\ MaySkip
        BY <3>3, <4>2 DEF Relay!NextMessages
      <4>3. CASE delivered[m.client] = <<>> /\ ~ MaySkip
        <5>1. m.index = 0 + 1
          BY <3>1, <4>3 DEF Tracked, LastDelivered
        <5> QED
          BY <4>3, <5>1 DEF Relay!NextMessages
      <4> QED
        BY <4>1, <4>2, <4>3
    <3>5. Relay!Deliver(m.client)
      BY <3>1, <3>3, <3>4 DEF Relay!Deliver
    <3> QED
      BY <3>2, <3>5
  <2>2. CASE delivered' = delivered
    <3>1. ASSUME NEW c \in Clients, Enqueue(c), UNCHANGED poller_state
          PROVE  Relay!Next
      BY <2>2, <3>1 DEF Enqueue, Relay!SendMessage
    <3>2. ASSUME NEW c \in Clients, SessionStep(c)
          PROVE  Relay!Next
      <4>1. UNCHANGED sent
        BY <3>2 DEF SessionStep, InsertClient, OpenSession, ReceiveMessage,
             EndUpdates, RemoveClient, call_ws_close, DropSession, Call,
             canisterVars
      <4>2. CASE InsertClient(c)
        BY <2>2, <4>1, <4>2 DEF InsertClient, Relay!Register
      <4>3. CASE ~ InsertClient(c)
        BY <2>2, <3>2, <4>1, <4>3
           DEF SessionStep, OpenSession, ReceiveMessage, EndUpdates,
               RemoveClient, call_ws_close, DropSession, Relay!Unregister
      <4> QED
        BY <4>2, <4>3
    <3>3. ASSUME NEW c \in Clients, ExecuteCall(c)
          PROVE  [Relay!Next]_Relay!vars
      <4>1. UNCHANGED poller_state
        BY <3>3 DEF ExecuteCall
      <4>2. CASE ws_open(c)
        BY <3>1, <4>1, <4>2 DEF ws_open
      <4>3. CASE ws_close(c)
        BY <2>2, <4>1, <4>3 DEF ws_close
      <4> QED
        BY <3>3, <4>2, <4>3 DEF ExecuteCall
    <3>4. ASSUME NEW c \in Clients, CanisterSends(c)
          PROVE  [Relay!Next]_Relay!vars
      BY <3>1, <3>4 DEF CanisterSends, SendToClient
    <3>5. CASE PollerStep \/ CanisterAnswers \/ CanisterDeletes \/ UNCHANGED vars
      <4>1. UNCHANGED sent /\ poller_state' \subseteq poller_state
        BY <3>5 DEF PollerStep, SendQuery, QueryWithoutResult, QueryFails,
             NothingPolled, MessagesPolled, RelayNext, relay_message,
             RelayEnds, poller_should_terminate, PollerFails, CanisterAnswers,
             CanisterDeletes, EndQuery, ws_get_messages, DeleteOldest, vars,
             canisterVars
      <4> QED
        BY <2>2, <4>1 DEF Relay!Unregister
    <3> QED
      BY <3>2, <3>3, <3>4, <3>5 DEF Next
  <2> QED
    BY <2>1, <2>2
<1> QED
  BY <1>1, <1>2, PollerTypeCorrect, RelayInvariant, PTL
     DEF Spec, ImplementsRelay, Relay!Spec

\* With a canister that keeps its queue and deletes only what was polled, the
\* messages that a client has received are the first ones sent to it.
THEOREM NothingLostHolds ==
    ASSUME ~ CleansUp, ~ DeletesUnpolled
    PROVE  Spec => []NothingLost
<1>1. Init => NothingLost
  BY EmptySeq DEF Init, NothingLost
<1>2. TypeOK /\ RelayInv /\ NothingLost /\ [Next]_vars => NothingLost'
  <2> SUFFICES ASSUME TypeOK, RelayInv, NothingLost, [Next]_vars,
                      NEW s \in Clients, NEW i \in 1 .. Len(delivered'[s])
               PROVE  delivered'[s][i] = i
    BY DEF NothingLost
  <2>1. CASE delivered'[s] = delivered[s]
    BY <2>1 DEF NothingLost
  <2>2. CASE delivered'[s] # delivered[s]
    <3>1. PICK m \in Message :
             /\ m.client \in poller_state
             /\ m.client \in Tracked => m.index = LastDelivered(m.client) + 1
             /\ delivered' = [delivered EXCEPT ![m.client] = Append(@, m.index)]
      BY <2>2, DeliveryStep
    <3>2. /\ s = m.client
          /\ Len(delivered[s]) \in Nat
          /\ Len(delivered'[s]) = Len(delivered[s]) + 1
          /\ \A j \in 1 .. Len(delivered[s]) : delivered'[s][j] = delivered[s][j]
          /\ delivered'[s][Len(delivered[s]) + 1] = m.index
      BY <2>2, <3>1, DeliveredNext
    <3>3. LastDelivered(s) = Len(delivered[s])
      <4>1. delivered[s] \in Seq(Nat \ {0})
        BY DEF TypeOK
      <4>2. CASE delivered[s] = <<>>
        BY <4>2, EmptySeq DEF LastDelivered
      <4>3. CASE delivered[s] # <<>>
        <5>1. Len(delivered[s]) \in 1 .. Len(delivered[s])
          BY <3>2, <4>1, <4>3, EmptySeq
        <5> QED
          BY <4>3, <5>1 DEF LastDelivered, NothingLost
      <4> QED
        BY <4>2, <4>3
    <3>4. m.index = Len(delivered[s]) + 1
      BY <3>1, <3>2, <3>3 DEF Tracked, MaySkip
    <3>5. i \in 1 .. Len(delivered[s]) \/ i = Len(delivered[s]) + 1
      BY <3>2
    <3> QED
      BY <3>2, <3>4, <3>5 DEF NothingLost
  <2> QED
    BY <2>1, <2>2
<1> QED
  BY <1>1, <1>2, PollerTypeCorrect, RelayInvariant, PTL DEF Spec

\* With a canister that keeps its nonces, the poller never asks for messages
\* beyond those that will be numbered next.
THEOREM NonceNeverAheadHolds ==
    ASSUME ~ CleansUp
    PROVE  Spec => []NonceNeverAhead
<1>1. RelayInv => NonceNeverAhead
  BY DEF RelayInv, NonceInv, NonceNeverAhead
<1> QED
  BY <1>1, RelayInvariant, PTL

=============================================================================
