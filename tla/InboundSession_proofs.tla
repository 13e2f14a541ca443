------------------------ MODULE InboundSession_proofs ------------------------
(***************************************************************************)
(* Proofs about InboundSession: with a persistent store and the            *)
(* application calling MQTTClient_receive, the store mirrors the inbound   *)
(* list and the queue whatever the network, the broker and crashes do; and *)
(* the message messageArrived works on stays in the queue.                 *)
(*                                                                         *)
(* And what a kept session does with the messages it receives while the    *)
(* process goes on: the application gets a QoS 2 message once, no          *)
(* acknowledged message is lost, and none overtakes another of its quality *)
(* of service, however often the connection breaks, however the callback   *)
(* is answered, with and without a store, for any number of ids.           *)
(* FlightInv follows a message from the broker's list through the packet   *)
(* under way, the inbound list, the hands of the thread and the queue;     *)
(* OrderInv adds in which order all of these hold their messages.          *)
(***************************************************************************)
EXTENDS InboundSession, SequenceTheorems, FiniteSetTheorems, TLAPS

USE MaxMsgIdAssumption, OptionsAssumption, QossAssumption, BoundsAssumption

\* The inductive invariant of the store: what was stored and not yet entered
\* in the list is the publication being received.
StoreInv == /\ TypeOK
            /\ NumberedInOrder
            /\ StoreMirrorsMemory
            /\ step = "pubrec" => rcvd = InboundWith(cur) /\ cur.id \in MsgIds
            /\ step \notin {"call", "called"}

-----------------------------------------------------------------------------
(* Types *)

LEMMA DisturbType ==
  ASSUME TypeOK, NEW kind \in Kinds, Disturb(kind)
  PROVE  used' \in [Kinds -> Nat]
BY DEF TypeOK, Disturb

\* A step of the history keeps it a history of the same length.
LEMMA LedgerStep ==
  ASSUME NEW lg \in Seq(Entry), NEW new, DOMAIN new = DOMAIN lg, new = [k \in DOMAIN new |-> new[k]],
         \A k \in DOMAIN lg : new[k] \in Entry
  PROVE  new \in Seq(Entry)
<1>1. Len(lg) \in Nat /\ DOMAIN lg = 1..Len(lg)
  BY LenProperties
<1>2. new \in [1..Len(lg) -> Entry]
  BY <1>1
<1> QED BY <1>1, <1>2, SeqDef

LEMMA DropType ==
  ASSUME TypeOK, NEW P PROVE Drop(P) \in Seq(Entry)
<1>1. \A k \in DOMAIN ledger : ledger[k] \in Entry
  BY ElementOfSeq DEF TypeOK
<1>2. \A k \in DOMAIN ledger : [ledger[k] EXCEPT !.fate = "dropped"] \in Entry
  BY <1>1 DEF Entry
<1> DEFINE new == Drop(P)
<1>3. /\ DOMAIN new = DOMAIN ledger /\ new = [k \in DOMAIN new |-> new[k]]
      /\ \A k \in DOMAIN ledger : new[k] \in Entry
  BY <1>1, <1>2 DEF Drop
<1> HIDE DEF new
<1>4. new \in Seq(Entry)
  BY <1>3, LedgerStep DEF TypeOK
<1> QED BY <1>4 DEF new

LEMMA HandOverType ==
  ASSUME TypeOK, NEW pub, HandOver(pub) PROVE ledger' \in Seq(Entry)
<1>1. \A k \in DOMAIN ledger : ledger[k] \in Entry
  BY ElementOfSeq DEF TypeOK
<1>2. \A k \in DOMAIN ledger : [ledger[k] EXCEPT !.got = @ + 1] \in Entry
  BY <1>1 DEF Entry
<1>3. /\ DOMAIN ledger' = DOMAIN ledger /\ ledger' = [k \in DOMAIN ledger' |-> ledger'[k]]
      /\ \A k \in DOMAIN ledger : ledger'[k] \in Entry
  BY <1>1, <1>2 DEF HandOver, TypeOK
<1> QED BY <1>3, LedgerStep DEF TypeOK

LEMMA SettleType ==
  ASSUME TypeOK, NEW pub, ledger' = [ledger EXCEPT ![pub].fate = "settled"]
  PROVE  ledger' \in Seq(Entry)
<1>1. \A k \in DOMAIN ledger : ledger[k] \in Entry
  BY ElementOfSeq DEF TypeOK
<1>2. \A k \in DOMAIN ledger : [ledger[k] EXCEPT !.fate = "settled"] \in Entry
  BY <1>1 DEF Entry
<1>3. /\ DOMAIN ledger' = DOMAIN ledger /\ ledger' = [k \in DOMAIN ledger' |-> ledger'[k]]
      /\ \A k \in DOMAIN ledger : ledger'[k] \in Entry
  BY <1>1, <1>2 DEF TypeOK
<1> QED BY <1>3, LedgerStep DEF TypeOK

LEMMA SendType ==
  ASSUME TypeOK, NEW type \in {"PUBACK", "PUBREC", "PUBCOMP"}, NEW id \in MsgIds, Send(type, id)
  PROVE  c2b' \in Seq(Ack)
<1>1. [type |-> type, id |-> id] \in Ack
  BY DEF Ack
<1>2. c2b \in Seq(Ack)
  BY DEF TypeOK
<1>3. Append(c2b, [type |-> type, id |-> id]) \in Seq(Ack)
  BY <1>1, <1>2, AppendProperties
<1> QED BY <1>2, <1>3 DEF Send

LEMMA ReceiveType ==
  ASSUME TypeOK, NEW type, Receive(type)
  PROVE  /\ b2c' \in Seq(Packet) /\ step = "idle"
         /\ Head(b2c) \in Packet /\ Head(b2c).type = type
         /\ type = "PUBLISH" => Head(b2c).msg \in Msg
         /\ type = "PUBREL" => Head(b2c).id \in MsgIds
<1>1. b2c' \in Seq(Packet) /\ step = "idle" /\ Head(b2c) \in Packet /\ Head(b2c).type = type
  BY HeadTailProperties DEF TypeOK, Receive
<1> QED BY <1>1 DEF Packet

\* A message the broker publishes has an id unless its quality of service is 0.
LEMMA MsgTypes ==
  /\ \A m \in Msg \cup Called : m.qos \in 0..2 /\ m.pub \in Pubs
  /\ \A m \in Msg : m.qos > 0 => m.id \in MsgIds
  /\ Nobody \in Msg
BY DEF Msg, Called, Nobody, Pubs

LEMMA EndOfCycleType ==
  ASSUME ~Callback, NEW sent \in BOOLEAN, EndOfCycle(sent)
  PROVE  /\ step' \in Steps /\ cur' \in Msg \cup Called /\ ok' \in BOOLEAN
         /\ step' \in {"error", "idle"}
BY MsgTypes DEF EndOfCycle, Steps

LEMMA EndBrokerSessionType ==
  ASSUME TypeOK, EndBrokerSession
  PROVE  unacked' \in Seq(Unacked) /\ ledger' \in Seq(Entry)
<1>1. Drop(DOMAIN ledger) \in Seq(Entry)
  BY DropType
<1> QED BY <1>1, EmptySeq DEF TypeOK, EndBrokerSession

\* The broker's bookkeeping: its packets and its in-flight list.
LEMMA BrokerPublishType ==
  ASSUME TypeOK, NEW qos \in Qoss, brokerPublish(qos)
  PROVE  /\ b2c' \in Seq(Packet) /\ unacked' \in Seq(Unacked) /\ ledger' \in Seq(Entry)
<1> DEFINE k == Len(ledger) + 1
<1>1. PICK id \in IF qos = 0 THEN {0} ELSE MsgIds :
        /\ Reply([type |-> "PUBLISH", msg |-> [id |-> id, qos |-> qos, pub |-> k]])
        /\ unacked' = IF qos = 0 THEN unacked
                      ELSE Append(unacked, [id |-> id, qos |-> qos, pub |-> k, released |-> FALSE])
  BY DEF brokerPublish
<1>2. k \in Pubs /\ qos \in 0..2
  BY LenProperties DEF TypeOK, Pubs
<1>3. ledger' \in Seq(Entry)
  <2>1. [qos |-> qos, fate |-> IF qos = 0 THEN "settled" ELSE "open", got |-> 0] \in Entry
    BY <1>2 DEF Entry
  <2> QED BY <2>1, AppendProperties DEF TypeOK, brokerPublish
<1> HIDE DEF k
<1>4. b2c' \in Seq(Packet)
  <2>1. [id |-> id, qos |-> qos, pub |-> k] \in Msg
    BY <1>1, <1>2 DEF Msg, MsgIds
  <2>2. [type |-> "PUBLISH", msg |-> [id |-> id, qos |-> qos, pub |-> k]] \in Packet
    BY <2>1 DEF Packet
  <2> QED BY <1>1, <2>2, AppendProperties DEF TypeOK, Reply
<1>5. unacked' \in Seq(Unacked)
  <2>1. CASE qos = 0
    BY <1>1, <2>1 DEF TypeOK
  <2>2. CASE qos # 0
    <3>1. [id |-> id, qos |-> qos, pub |-> k, released |-> FALSE] \in Unacked
      BY <1>1, <1>2, <2>2 DEF Unacked
    <3> QED BY <1>1, <2>2, <3>1, AppendProperties DEF TypeOK
  <2> QED BY <2>1, <2>2
<1> QED BY <1>3, <1>4, <1>5

LEMMA BrokerAckType ==
  ASSUME TypeOK, brokerAck
  PROVE  /\ b2c' \in Seq(Packet) /\ unacked' \in Seq(Unacked) /\ ledger' \in Seq(Entry)
         /\ c2b' \in Seq(Ack)
<1>1. c2b' \in Seq(Ack) /\ Head(c2b) \in Ack
  BY HeadTailProperties DEF TypeOK, brokerAck
<1> DEFINE a == Head(c2b)
           I == {i \in DOMAIN unacked : unacked[i].id = a.id /\ (unacked[i].qos = 1 <=> a.type = "PUBACK")}
<1>2. a.id \in MsgIds
  BY <1>1 DEF Ack
<1>3. CASE UNCHANGED <<b2c, unacked, ledger>>
  BY <1>1, <1>3 DEF TypeOK
<1>4. ASSUME NEW i \in I, unacked' = [unacked EXCEPT ![i].released = TRUE],
             Reply([type |-> "PUBREL", id |-> a.id, dup |-> FALSE]), UNCHANGED ledger
      PROVE  b2c' \in Seq(Packet) /\ unacked' \in Seq(Unacked) /\ ledger' \in Seq(Entry)
  <2>1. unacked[i] \in Unacked /\ i \in DOMAIN unacked
    BY ElementOfSeq DEF TypeOK
  <2>2. [unacked[i] EXCEPT !.released = TRUE] \in Unacked
    BY <2>1 DEF Unacked
  <2>3. unacked' = [unacked EXCEPT ![i] = [unacked[i] EXCEPT !.released = TRUE]]
    BY <1>4
  <2>4. unacked' \in Seq(Unacked)
    BY <2>1, <2>2, <2>3, ExceptSeq DEF TypeOK
  <2>5. [type |-> "PUBREL", id |-> a.id, dup |-> FALSE] \in Packet
    BY <1>2 DEF Packet
  <2> QED BY <1>4, <2>4, <2>5, AppendProperties DEF TypeOK, Reply
<1>5. ASSUME NEW i \in I, unacked' = Remove(unacked, i),
             ledger' = [ledger EXCEPT ![unacked[i].pub].fate = "settled"], UNCHANGED b2c
      PROVE  b2c' \in Seq(Packet) /\ unacked' \in Seq(Unacked) /\ ledger' \in Seq(Entry)
  <2>1. ledger' \in Seq(Entry)
    BY <1>5, SettleType
  <2>2. unacked' \in Seq(Unacked)
    <3>1. Len(unacked) \in Nat \ {0} /\ DOMAIN unacked = 1..Len(unacked)
          /\ unacked \in [1..Len(unacked) -> Unacked]
      BY LenProperties DEF TypeOK
    <3>2. Remove(unacked, i) \in [1..(Len(unacked) - 1) -> Unacked]
      BY <3>1 DEF Remove
    <3> QED BY SMTT(30), <1>5, <3>1, <3>2, SeqDef
  <2> QED BY <1>5, <2>1, <2>2 DEF TypeOK
<1>6. \/ UNCHANGED <<b2c, unacked, ledger>>
      \/ \E i \in I : \/ /\ unacked' = [unacked EXCEPT ![i].released = TRUE]
                          /\ Reply([type |-> "PUBREL", id |-> a.id, dup |-> FALSE])
                          /\ UNCHANGED ledger
                       \/ /\ unacked' = Remove(unacked, i)
                          /\ ledger' = [ledger EXCEPT ![unacked[i].pub].fate = "settled"]
                          /\ UNCHANGED b2c
  BY DEF brokerAck
<1> HIDE DEF I, a
<1> QED BY <1>1, <1>3, <1>4, <1>5, <1>6

\* What the broker resends when a session is resumed.
LEMMA ResendType ==
  ASSUME TypeOK PROVE [i \in DOMAIN unacked |-> Resend(unacked[i])] \in Seq(Packet)
<1>1. \A i \in DOMAIN unacked : unacked[i] \in Unacked
  BY ElementOfSeq DEF TypeOK
<1>2. \A u \in Unacked : Resend(u) \in Packet
  BY DEF Resend, Unacked, Packet, Msg
<1>3. Len(unacked) \in Nat /\ DOMAIN unacked = 1..Len(unacked)
  BY LenProperties DEF TypeOK
<1>4. [i \in DOMAIN unacked |-> Resend(unacked[i])] \in [1..Len(unacked) -> Packet]
  BY <1>1, <1>2, <1>3
<1> QED BY <1>3, <1>4, SeqDef

-----------------------------------------------------------------------------
(* The queue and its records *)

\* A new entry has the next number: it is the largest in the queue and in the store.
LEMMA EnqueueStep ==
  ASSUME Persistent, TypeOK, NumberedInOrder, queued = {messageQueue[i] : i \in DOMAIN messageQueue},
         NEW m \in Msg \cup Called, Enqueue(m)
  PROVE  /\ messageQueue' \in Seq(QEntry) /\ queued' \in SUBSET QEntry /\ qentry_seqno' \in Nat
         /\ NumberedInOrder'
         /\ queued' = {messageQueue'[i] : i \in DOMAIN messageQueue'}
<1> DEFINE e == [seqno |-> qentry_seqno + 1, qos |-> m.qos, pub |-> m.pub]
<1>1. /\ e \in QEntry /\ e.seqno = qentry_seqno + 1
      /\ messageQueue \in Seq(QEntry) /\ queued \in SUBSET QEntry /\ qentry_seqno \in Nat
  BY MsgTypes DEF TypeOK, QEntry
<1>2. /\ qentry_seqno' = qentry_seqno + 1 /\ messageQueue' = Append(messageQueue, e)
      /\ queued' = {q \in queued : q.seqno # e.seqno} \cup {e}
  BY DEF Enqueue, persistQueueEntry
<1>3. \A q \in queued : q.seqno \in Nat /\ q.seqno <= qentry_seqno
  BY <1>1 DEF NumberedInOrder, QEntry
<1>4. queued' = queued \cup {e}
  BY <1>1, <1>2, <1>3
<1> HIDE DEF e
<1>5. /\ messageQueue' \in Seq(QEntry) /\ Len(messageQueue) \in Nat
      /\ DOMAIN messageQueue = 1..Len(messageQueue)
      /\ DOMAIN messageQueue' = 1..(Len(messageQueue) + 1)
      /\ \A i \in 1..Len(messageQueue) : messageQueue'[i] = messageQueue[i]
      /\ messageQueue'[Len(messageQueue) + 1] = e
  BY <1>1, <1>2, AppendProperties, LenProperties
<1>6. queued' = {messageQueue'[i] : i \in DOMAIN messageQueue'}
  BY <1>4, <1>5
<1>7. \A i \in DOMAIN messageQueue : messageQueue[i].seqno \in Nat /\ messageQueue[i].seqno < e.seqno
  BY <1>1, <1>3
<1>8. NumberedInOrder'
  <2>1. \A i, j \in DOMAIN messageQueue' : i < j => messageQueue'[i].seqno < messageQueue'[j].seqno
    BY <1>5, <1>7 DEF NumberedInOrder
  <2>2. \A q \in queued' : q.seqno <= qentry_seqno'
    BY <1>1, <1>2, <1>3, <1>4
  <2> QED BY <2>1, <2>2 DEF NumberedInOrder
<1> QED BY <1>1, <1>2, <1>4, <1>5, <1>6, <1>8

\* Taking the first entry removes its record and no other: numbers are unique.
LEMMA DeliverStep ==
  ASSUME TypeOK, NumberedInOrder, queued = {messageQueue[i] : i \in DOMAIN messageQueue},
         messageQueue # <<>>, deliverMessage, qentry_seqno' = qentry_seqno
  PROVE  /\ messageQueue' \in Seq(QEntry) /\ queued' \in SUBSET QEntry
         /\ NumberedInOrder'
         /\ queued' = {messageQueue'[i] : i \in DOMAIN messageQueue'}
<1>1. /\ messageQueue \in Seq(QEntry) /\ Len(messageQueue) \in Nat \ {0}
      /\ DOMAIN messageQueue = 1..Len(messageQueue) /\ Head(messageQueue) = messageQueue[1]
  BY LenProperties, EmptySeq DEF TypeOK
<1>2. /\ messageQueue' = Tail(messageQueue)
      /\ queued' = {q \in queued : q.seqno # messageQueue[1].seqno}
  BY <1>1 DEF deliverMessage, unpersistQueueEntry
<1>3. /\ messageQueue' \in Seq(QEntry) /\ DOMAIN messageQueue' = 1..(Len(messageQueue) - 1)
      /\ \A i \in 1..(Len(messageQueue) - 1) : messageQueue'[i] = messageQueue[i + 1]
  BY <1>1, <1>2, HeadTailProperties, LenProperties
<1>4. \A i \in DOMAIN messageQueue : messageQueue[i].seqno \in Nat
  <2>1. \A i \in DOMAIN messageQueue : messageQueue[i] \in QEntry
    BY <1>1, ElementOfSeq
  <2> QED BY <2>1 DEF QEntry
<1>5. \A i \in DOMAIN messageQueue : messageQueue[i].seqno = messageQueue[1].seqno <=> i = 1
  BY <1>1, <1>4 DEF NumberedInOrder
<1>6. queued' = {messageQueue[i] : i \in 2..Len(messageQueue)}
  BY <1>1, <1>2, <1>5
<1>7. queued' = {messageQueue'[i] : i \in DOMAIN messageQueue'}
  <2>1. ASSUME NEW i \in 2..Len(messageQueue)
        PROVE  \E j \in DOMAIN messageQueue' : messageQueue'[j] = messageQueue[i]
    <3>1. i - 1 \in 1..(Len(messageQueue) - 1) /\ (i - 1) + 1 = i
      BY <1>1
    <3>2. i - 1 \in DOMAIN messageQueue' /\ messageQueue'[i - 1] = messageQueue[i]
      BY <1>3, <3>1
    <3> QED BY <3>2
  <2>2. ASSUME NEW i \in DOMAIN messageQueue'
        PROVE  \E j \in 2..Len(messageQueue) : messageQueue'[i] = messageQueue[j]
    <3>1. i \in 1..(Len(messageQueue) - 1)
      BY <1>3
    <3>2. i + 1 \in 2..Len(messageQueue) /\ messageQueue'[i] = messageQueue[i + 1]
      BY <1>1, <1>3, <3>1
    <3> QED BY <3>2
  <2> QED BY <1>6, <2>1, <2>2
<1>8. NumberedInOrder'
  <2>1. \A i, j \in DOMAIN messageQueue' : i < j => messageQueue'[i].seqno < messageQueue'[j].seqno
    <3> TAKE i, j \in DOMAIN messageQueue'
    <3>1. i + 1 \in DOMAIN messageQueue /\ j + 1 \in DOMAIN messageQueue /\ (i < j => i + 1 < j + 1)
      BY <1>1, <1>3
    <3> QED BY <1>3, <3>1 DEF NumberedInOrder
  <2>2. \A q \in queued' : q.seqno <= qentry_seqno'
    BY <1>2 DEF NumberedInOrder
  <2> QED BY <2>1, <2>2 DEF NumberedInOrder
<1> QED BY <1>2, <1>3, <1>7, <1>8 DEF TypeOK

LEMMA FunctionIsSeq ==
  ASSUME NEW S, NEW n \in Nat, NEW f \in [1..n -> S] PROVE f \in Seq(S)
BY SeqDef

LEMMA IntervalCardinality ==
  ASSUME NEW n \in Nat PROVE IsFiniteSet(1..n) /\ Cardinality(1..n) = n
<1>1. 1 \in Int /\ n \in Int
  OBVIOUS
<1>2. IsFiniteSet(1..n) /\ Cardinality(1..n) = IF 1 > n THEN 0 ELSE n - 1 + 1
  BY ONLY <1>1, FS_Interval
<1> QED BY <1>2

\* What MQTTPersistence_insertInSeqOrder restores is in order and complete: the
\* queue before the crash was such a sequence, and so there is one.
LEMMA RestoreStep ==
  ASSUME TypeOK, NumberedInOrder, queued = {messageQueue[i] : i \in DOMAIN messageQueue},
         UNCHANGED queued, messageQueue' = InSeqOrder(queued),
         qentry_seqno' = IF queued = {} THEN 0
                         ELSE (CHOOSE q \in queued : \A r \in queued : r.seqno <= q.seqno).seqno
  PROVE  /\ messageQueue' \in Seq(QEntry) /\ qentry_seqno' \in Nat
         /\ NumberedInOrder'
         /\ queued' = {messageQueue'[i] : i \in DOMAIN messageQueue'}
<1> DEFINE n == Len(messageQueue)
           InOrder(s) == \A i, j \in DOMAIN s : i < j => s[i].seqno < s[j].seqno
<1>1. n \in Nat /\ DOMAIN messageQueue = 1..n /\ messageQueue \in [1..n -> queued]
      /\ queued \in SUBSET QEntry
  BY LenProperties DEF TypeOK
<1>2. \A q \in queued : q.seqno \in Nat
  BY <1>1 DEF QEntry
<1>3. InOrder(messageQueue)
  BY DEF NumberedInOrder
<1> HIDE DEF n
<1>4. ASSUME NEW s \in [1..n -> queued], InOrder(s) PROVE s \in Injection(1..n, queued)
  <2>1. \A i, j \in 1..n : i < j => s[i] # s[j]
    BY <1>2, <1>4
  <2>2. \A i, j \in 1..n : s[i] = s[j] => i = j
    BY SMTT(30), <1>1, <2>1
  <2> QED BY <2>2 DEF Injection, IsInjective
<1>5. IsFiniteSet(queued) /\ Cardinality(queued) = n
  <2>1. IsFiniteSet(1..n) /\ Cardinality(1..n) = n
    BY <1>1, IntervalCardinality
  <2>2. messageQueue \in Surjection(1..n, queued)
    BY <1>1 DEF Surjection
  <2>3. messageQueue \in Bijection(1..n, queued)
    BY <1>1, <1>3, <1>4, <2>2 DEF Bijection
  <2> QED BY <2>1, <2>3, FS_Bijection DEF ExistsBijection
<1>c. Cardinality(1..n) = n
  BY <1>1, IntervalCardinality
<1> DEFINE s == InSeqOrder(queued)
<1>6. s \in [1..n -> queued] /\ InOrder(s)
  <2>1. \E t \in [1..n -> queued] : InOrder(t)
    BY <1>1, <1>3
  <2> QED BY <1>5, <2>1 DEF InSeqOrder
<1>s. messageQueue' = s
  OBVIOUS
<1> HIDE DEF s
<1>7. s \in Surjection(1..n, queued)
  <2>1. s \in Injection(1..n, queued)
    BY <1>4, <1>6
  <2> QED BY <1>5, <1>c, <2>1, FS_Injection
<1>8. queued = {s[i] : i \in 1..n} /\ DOMAIN s = 1..n
  BY <1>6, <1>7 DEF Surjection
<1>9. messageQueue' \in Seq(QEntry)
  <2>1. s \in [1..n -> QEntry]
    BY <1>1, <1>6
  <2>2. s \in Seq(QEntry)
    BY <1>1, <2>1, FunctionIsSeq
  <2> QED BY <1>s, <2>2
<1>10. qentry_seqno' \in Nat /\ \A q \in queued : q.seqno <= qentry_seqno'
  <2>1. CASE queued = {}
    BY <2>1
  <2>2. CASE queued # {}
    <3>1. n \in 1..n
      BY <1>1, <2>2
    <3>2. \A i \in 1..n : messageQueue[i].seqno <= messageQueue[n].seqno
      <4> TAKE i \in 1..n
      <4>1. messageQueue[i].seqno \in Nat /\ messageQueue[n].seqno \in Nat
        <5>1. messageQueue[i] \in queued /\ messageQueue[n] \in queued
          BY <1>1, <3>1
        <5> QED BY <1>2, <5>1
      <4>2. i < n => messageQueue[i].seqno < messageQueue[n].seqno
        BY <1>1, <1>3, <3>1
      <4>3. i < n \/ i = n
        BY <1>1
      <4> QED BY <4>1, <4>2, <4>3
    <3>3. \E q \in queued : \A r \in queued : r.seqno <= q.seqno
      BY <1>1, <3>1, <3>2
    <3> QED BY <1>2, <2>2, <3>3
  <2> QED BY <2>1, <2>2
<1> QED BY <1>6, <1>8, <1>9, <1>10, <1>s DEF NumberedInOrder

-----------------------------------------------------------------------------
(* The invariant of the store *)

\* Emptying everything, and leaving it alone.
LEMMA StoreUnchanged ==
  ASSUME StoreInv, UNCHANGED <<messageQueue, qentry_seqno, queued>>
  PROVE  /\ NumberedInOrder' /\ messageQueue' \in Seq(QEntry) /\ queued' \in SUBSET QEntry /\ qentry_seqno' \in Nat
         /\ queued' = {messageQueue'[i] : i \in DOMAIN messageQueue'}
BY DEF StoreInv, TypeOK, NumberedInOrder, StoreMirrorsMemory

LEMMA CleanSessionStep ==
  ASSUME StoreInv, cleanSession
  PROVE  /\ NumberedInOrder' /\ messageQueue' \in Seq(QEntry) /\ queued' \in SUBSET QEntry /\ qentry_seqno' \in Nat
         /\ queued' = {messageQueue'[i] : i \in DOMAIN messageQueue'}
         /\ inboundMsgs' \in SUBSET Inbound /\ rcvd' = inboundMsgs'
BY DEF StoreInv, TypeOK, NumberedInOrder, cleanSession, emptyMessageQueue

\* The publication entered in the list.
LEMMA InboundWithType ==
  ASSUME TypeOK, NEW m \in Msg \cup Called, m.id \in MsgIds
  PROVE  InboundWith(m) \in SUBSET Inbound
BY MsgTypes DEF TypeOK, InboundWith, Inbound

LEMMA StoreInit == Init => StoreInv
<1> SUFFICES ASSUME Init PROVE StoreInv
  OBVIOUS
<1>1. DOMAIN messageQueue = {}
  BY EmptySeq DEF Init
<1>2. TypeOK
  BY MsgTypes, EmptySeq DEF Init, TypeOK, Steps, Kinds
<1>3. NumberedInOrder /\ StoreMirrorsMemory
  BY <1>1 DEF Init, NumberedInOrder, StoreMirrorsMemory
<1> QED BY <1>2, <1>3 DEF Init, StoreInv

LEMMA CloseSessionStep ==
  ASSUME StoreInv, step # "pubrec", closeSession
  PROVE  /\ NumberedInOrder' /\ messageQueue' \in Seq(QEntry) /\ queued' \in SUBSET QEntry /\ qentry_seqno' \in Nat
         /\ queued' = {messageQueue'[i] : i \in DOMAIN messageQueue'}
         /\ inboundMsgs' \in SUBSET Inbound /\ rcvd' = inboundMsgs'
         /\ unacked' \in Seq(Unacked) /\ ledger' \in Seq(Entry)
         /\ b2c' \in Seq(Packet) /\ c2b' \in Seq(Ack)
         /\ connected' \in BOOLEAN /\ cleansession' \in BOOLEAN /\ version' \in Versions /\ link' \in BOOLEAN
<1>1. TypeOK
  BY DEF StoreInv
<1>2. unacked' \in Seq(Unacked) /\ ledger' \in Seq(Entry)
  BY <1>1, EndBrokerSessionType DEF closeSession
<1>3. /\ b2c' \in Seq(Packet) /\ c2b' \in Seq(Ack)
      /\ connected' \in BOOLEAN /\ cleansession' \in BOOLEAN /\ version' \in Versions /\ link' \in BOOLEAN
  BY <1>1, EmptySeq DEF closeSession, TypeOK
<1>4. CASE cleansession
  BY <1>2, <1>3, <1>4, CleanSessionStep DEF closeSession
<1>5. CASE ~cleansession
  <2>1. UNCHANGED <<memory, store>>
    BY <1>5 DEF closeSession
  <2>2. inboundMsgs' \in SUBSET Inbound /\ rcvd' = inboundMsgs'
    BY <2>1 DEF memory, store, StoreInv, TypeOK, StoreMirrorsMemory
  <2>3. UNCHANGED <<messageQueue, qentry_seqno, queued>>
    BY <2>1 DEF memory, store
  <2> QED BY <1>2, <1>3, <2>2, <2>3, StoreUnchanged
<1> QED BY <1>4, <1>5

LEMMA StoreStep ==
  ASSUME Persistent, ~Callback, StoreInv, [Next]_vars
  PROVE  StoreInv'
<1>t. TypeOK
  BY DEF StoreInv
<1>m. /\ NumberedInOrder /\ queued = {messageQueue[i] : i \in DOMAIN messageQueue}
      /\ step # "pubrec" => rcvd = inboundMsgs
      /\ step = "pubrec" => rcvd = InboundWith(cur) /\ cur.id \in MsgIds
      /\ step \notin {"call", "called"}
  BY DEF StoreInv, StoreMirrorsMemory
\* What is left to show of a step that has these parts.
<1>i. ASSUME NumberedInOrder', messageQueue' \in Seq(QEntry), queued' \in SUBSET QEntry, qentry_seqno' \in Nat,
             queued' = {messageQueue'[i] : i \in DOMAIN messageQueue'},
             inboundMsgs' \in SUBSET Inbound, rcvd' \in SUBSET Inbound,
             step' # "pubrec" => rcvd' = inboundMsgs',
             step' = "pubrec" => rcvd' = InboundWith(cur)' /\ cur.id' \in MsgIds,
             step' \in Steps \ {"call", "called"}, cur' \in Msg \cup Called, ok' \in BOOLEAN,
             connected' \in BOOLEAN, cleansession' \in BOOLEAN, version' \in Versions, link' \in BOOLEAN,
             c2b' \in Seq(Ack), b2c' \in Seq(Packet),
             unacked' \in Seq(Unacked), ledger' \in Seq(Entry), used' \in [Kinds -> Nat]
      PROVE  StoreInv'
  BY <1>i DEF StoreInv, TypeOK, StoreMirrorsMemory
<1>1. CASE handlePublish0
  <2>1. Head(b2c).msg \in Msg /\ b2c' \in Seq(Packet) /\ step = "idle"
    BY <1>1, <1>t, ReceiveType DEF handlePublish0
  <2>2. /\ messageQueue' \in Seq(QEntry) /\ queued' \in SUBSET QEntry /\ qentry_seqno' \in Nat
        /\ NumberedInOrder' /\ queued' = {messageQueue'[i] : i \in DOMAIN messageQueue'}
    BY <1>1, <1>t, <1>m, <2>1, EnqueueStep DEF handlePublish0
  <2>3. step' \in Steps \ {"pubrec", "call", "called"} /\ cur' \in Msg \cup Called /\ ok' \in BOOLEAN
    BY <1>1, EndOfCycleType DEF handlePublish0
  <2> QED BY <1>1, <1>t, <1>m, <1>i, <2>1, <2>2, <2>3 DEF handlePublish0, conn, TypeOK
<1>2. CASE handlePublish1
  <2>1. Head(b2c).msg \in Msg /\ b2c' \in Seq(Packet) /\ step = "idle" /\ Head(b2c).msg.id \in MsgIds
    BY <1>2, <1>t, ReceiveType, MsgTypes DEF handlePublish1
  <2>2. c2b' \in Seq(Ack)
    BY <1>2, <1>t, <2>1, SendType DEF handlePublish1
  <2>3. UNCHANGED <<messageQueue, qentry_seqno, queued, inboundMsgs, rcvd>> /\ step' = "process" /\ step' \in Steps
    BY <1>2 DEF handlePublish1, memory, store, Steps
  <2> QED BY <1>2, <1>t, <1>m, <1>i, <2>1, <2>2, <2>3, StoreUnchanged DEF handlePublish1, conn, TypeOK
<1>3. CASE processPublication
  <2>1. /\ messageQueue' \in Seq(QEntry) /\ queued' \in SUBSET QEntry /\ qentry_seqno' \in Nat
        /\ NumberedInOrder' /\ queued' = {messageQueue'[i] : i \in DOMAIN messageQueue'}
    <3>1. cur \in Msg \cup Called
      BY <1>t DEF TypeOK
    <3> QED BY <1>3, <1>t, <1>m, <3>1, EnqueueStep DEF processPublication
  <2>2. step' \in Steps \ {"pubrec", "call", "called"} /\ cur' \in Msg \cup Called /\ ok' \in BOOLEAN
    <3>1. ok \in BOOLEAN
      BY <1>t DEF TypeOK
    <3> QED BY <1>3, <3>1, EndOfCycleType DEF processPublication
  <2> QED BY <1>3, <1>t, <1>m, <1>i, <2>1, <2>2 DEF processPublication, conn, network, TypeOK
<1>4. CASE storePublish2
  <2> DEFINE m == Head(b2c).msg
  <2>1. m \in Msg /\ b2c' \in Seq(Packet) /\ step = "idle" /\ m.id \in MsgIds
    BY <1>4, <1>t, ReceiveType, MsgTypes DEF storePublish2
  <2> HIDE DEF m
  <2>2. /\ rcvd' = {r \in rcvd : r.id # m.id} \cup {[id |-> m.id, pub |-> m.pub]}
        /\ step' = "pubrec" /\ cur' = m /\ ok' = TRUE
    BY <1>4 DEF storePublish2, m
  <2>3. /\ UNCHANGED <<messageQueue, qentry_seqno, queued, inboundMsgs>>
        /\ UNCHANGED <<connected, cleansession, version, link, c2b, unacked, ledger, used>>
    BY <1>4 DEF storePublish2, memory, conn
  <2>4. rcvd' = InboundWith(m) /\ rcvd' = InboundWith(cur)' /\ rcvd' \in SUBSET Inbound
    BY <1>t, <1>m, <2>1, <2>2, <2>3, InboundWithType DEF InboundWith
  <2> QED BY <1>t, <1>i, <2>1, <2>2, <2>3, <2>4, StoreUnchanged DEF TypeOK, StoreInv, Steps
<1>5. CASE handlePublish2
  <2>1. step = "pubrec" /\ cur.id \in MsgIds /\ cur \in Msg \cup Called
    BY <1>5, <1>m, <1>t DEF handlePublish2, TypeOK
  <2>2. inboundMsgs' = InboundWith(cur) /\ rcvd' = inboundMsgs' /\ inboundMsgs' \in SUBSET Inbound
    BY <1>5, <1>m, <1>t, <2>1, InboundWithType DEF handlePublish2, store
  <2>3. c2b' \in Seq(Ack)
    BY <1>5, <1>t, <2>1, SendType DEF handlePublish2
  <2>4. step' \in Steps \ {"pubrec", "call", "called"} /\ cur' \in Msg \cup Called /\ ok' \in BOOLEAN
    <3>1. link \in BOOLEAN
      BY <1>t DEF TypeOK
    <3> QED BY <1>5, <3>1, EndOfCycleType DEF handlePublish2
  <2>5. UNCHANGED <<messageQueue, qentry_seqno, queued>>
    BY <1>5 DEF handlePublish2, store
  <2> QED BY <1>5, <1>t, <1>i, <2>2, <2>3, <2>4, <2>5, StoreUnchanged DEF handlePublish2, conn, TypeOK
<1>6. CASE handlePubrels
  <2> DEFINE id == Head(b2c).id
             M == {m \in inboundMsgs : m.id = id}
  <2>1. id \in MsgIds /\ b2c' \in Seq(Packet) /\ step = "idle" /\ Head(b2c) \in Packet
    BY <1>6, <1>t, ReceiveType DEF handlePubrels
  <2>2. \A m \in M : m.pub \in Pubs /\ [id |-> id, qos |-> 2, pub |-> m.pub] \in Msg
    BY <1>t, <2>1 DEF TypeOK, Inbound, Msg
  <2>3. \/ \E m \in M : /\ Send("PUBCOMP", id)
                         /\ step' = "release" /\ ok' = link
                         /\ cur' = [id |-> id, qos |-> 2, pub |-> m.pub]
        \/ Send("PUBCOMP", id) /\ EndOfCycle(link)
        \/ c2b' = c2b /\ EndOfCycle(TRUE)
    BY <1>6 DEF handlePubrels
  <2>4. link \in BOOLEAN
    BY <1>t DEF TypeOK
  <2> HIDE DEF id, M
  <2>5. step' \in Steps \ {"pubrec", "call", "called"} /\ cur' \in Msg \cup Called /\ ok' \in BOOLEAN
    <3>1. CASE \E m \in M : step' = "release" /\ ok' = link /\ cur' = [id |-> id, qos |-> 2, pub |-> m.pub]
      BY <2>2, <2>4, <3>1 DEF Steps
    <3> QED BY <2>3, <2>4, <3>1, EndOfCycleType
  <2>6. c2b' \in Seq(Ack)
    <3>1. c2b \in Seq(Ack)
      BY <1>t DEF TypeOK
    <3> QED BY <1>t, <2>1, <2>3, <3>1, SendType
  <2>7. UNCHANGED <<messageQueue, qentry_seqno, queued, inboundMsgs, rcvd>>
    BY <1>6 DEF handlePubrels, memory, store
  <2> QED BY <1>6, <1>t, <1>m, <1>i, <2>1, <2>5, <2>6, <2>7, StoreUnchanged DEF handlePubrels, conn, TypeOK
<1>7. CASE releasePublication
  <2>1. /\ messageQueue' \in Seq(QEntry) /\ queued' \in SUBSET QEntry /\ qentry_seqno' \in Nat
        /\ NumberedInOrder' /\ queued' = {messageQueue'[i] : i \in DOMAIN messageQueue'}
    <3>1. cur \in Msg \cup Called
      BY <1>t DEF TypeOK
    <3> QED BY <1>7, <1>t, <1>m, <3>1, EnqueueStep DEF releasePublication
  <2> QED BY <1>7, <1>t, <1>m, <1>i, <2>1 DEF releasePublication, conn, network, TypeOK, Steps
<1>8. CASE forgetInbound
  <2>1. rcvd' = inboundMsgs' /\ inboundMsgs' \in SUBSET Inbound
    BY <1>8, <1>m, <1>t DEF forgetInbound, TypeOK
  <2>2. step' \in Steps \ {"pubrec", "call", "called"} /\ cur' \in Msg \cup Called /\ ok' \in BOOLEAN
    <3>1. ok \in BOOLEAN
      BY <1>t DEF TypeOK
    <3> QED BY <1>8, <3>1, EndOfCycleType DEF forgetInbound
  <2>3. UNCHANGED <<messageQueue, qentry_seqno, queued>>
    BY <1>8 DEF forgetInbound
  <2> QED BY <1>8, <1>t, <1>i, <2>1, <2>2, <2>3, StoreUnchanged DEF forgetInbound, conn, network, TypeOK
<1>9. CASE handlePingresps
  <2>1. b2c' \in Seq(Packet) /\ step = "idle"
    BY <1>9, <1>t, ReceiveType DEF handlePingresps
  <2>2. step' \in Steps \ {"pubrec", "call", "called"} /\ cur' \in Msg \cup Called /\ ok' \in BOOLEAN
    BY <1>9, EndOfCycleType DEF handlePingresps
  <2>3. UNCHANGED <<messageQueue, qentry_seqno, queued, inboundMsgs, rcvd>>
    BY <1>9 DEF handlePingresps, memory, store
  <2> QED BY <1>9, <1>t, <1>m, <1>i, <2>1, <2>2, <2>3, StoreUnchanged DEF handlePingresps, conn, TypeOK
<1>10. CASE readFails
  <2>1. UNCHANGED <<messageQueue, qentry_seqno, queued, inboundMsgs, rcvd>> /\ step = "idle" /\ step' = "error"
    BY <1>10 DEF readFails, memory, store
  <2> QED BY <1>10, <1>t, <1>m, <1>i, <2>1, StoreUnchanged DEF readFails, conn, network, TypeOK, Steps
<1>11. CASE receive
  <2>1. /\ messageQueue' \in Seq(QEntry) /\ queued' \in SUBSET QEntry
        /\ NumberedInOrder' /\ queued' = {messageQueue'[i] : i \in DOMAIN messageQueue'}
    BY <1>11, <1>t, <1>m, DeliverStep DEF receive
  <2>2. ledger' \in Seq(Entry)
    BY <1>11, <1>t, HandOverType DEF receive, deliverMessage
  <2>3. step # "pubrec" /\ step' \in Steps \ {"pubrec", "call", "called"}
    BY <1>11 DEF receive, Steps
  <2> QED BY <1>11, <1>t, <1>m, <1>i, <2>1, <2>2, <2>3 DEF receive, conn, network, TypeOK
\* There is no callback: the run thread's steps are not taken.
<1>12. ~run /\ ~messageArrived(FALSE)
  BY <1>m DEF run, callMessageArrived, messageArrived
<1>13. ASSUME NEW cs \in CleanSessions, connect(cs) PROVE StoreInv'
  <2>1. UNCHANGED <<step, cur, ok, used>> /\ step = "idle"
    BY <1>13 DEF connect, thread
  <2>2. connected' \in BOOLEAN /\ cleansession' \in BOOLEAN /\ version' \in Versions /\ link' \in BOOLEAN /\ c2b' \in Seq(Ack)
    BY <1>13, <1>t, EmptySeq DEF connect, TypeOK
  <2>3. CASE cs
    <3>1. cleanSession /\ b2c' = <<>> /\ unacked' = <<>> /\ ledger' = Drop(DOMAIN ledger)
      BY <1>13, <2>3 DEF connect
    <3>2. ledger' \in Seq(Entry) /\ b2c' \in Seq(Packet) /\ unacked' \in Seq(Unacked)
      BY <1>t, <3>1, DropType, EmptySeq
    <3> QED BY <1>t, <1>m, <1>i, <2>1, <2>2, <3>1, <3>2, CleanSessionStep DEF TypeOK
  <2>4. CASE ~cs
    <3>1. b2c' = [i \in DOMAIN unacked |-> Resend(unacked[i])]
          /\ UNCHANGED <<inboundMsgs, messageQueue, qentry_seqno, rcvd, queued, unacked, ledger>>
      BY <1>13, <2>4 DEF connect, memory, store
    <3>2. b2c' \in Seq(Packet)
      BY <1>t, <3>1, ResendType
    <3> QED BY <1>t, <1>m, <1>i, <2>1, <2>2, <3>1, <3>2, StoreUnchanged DEF TypeOK
  <2> QED BY <2>3, <2>4
<1>14. CASE disconnect
  <2>1. step # "pubrec" /\ closeSession /\ UNCHANGED <<step, cur, ok>> /\ used' \in [Kinds -> Nat]
    <3>1. "loss" \in Kinds
      BY DEF Kinds
    <3> QED BY <1>14, <1>t, <3>1, DisturbType DEF disconnect, thread
  <2> QED BY <1>t, <1>m, <1>i, <2>1, CloseSessionStep DEF TypeOK
<1>15. CASE disconnect_internal
  <2>1. step # "pubrec" /\ step' = "idle" /\ UNCHANGED <<cur, ok, used>>
    BY <1>15 DEF disconnect_internal
  <2>2. CASE connected
    <3>1. closeSession
      BY <1>15, <2>2 DEF disconnect_internal
    <3> QED BY <1>t, <1>i, <2>1, <3>1, CloseSessionStep DEF TypeOK, Steps
  <2>3. CASE ~connected
    <3>1. /\ UNCHANGED <<inboundMsgs, messageQueue, qentry_seqno, rcvd, queued>>
          /\ UNCHANGED <<connected, cleansession, version, link, c2b, b2c, unacked, ledger>>
      BY <1>15, <2>3 DEF disconnect_internal, memory, store, conn, network
    <3> QED BY <1>t, <1>m, <1>i, <2>1, <3>1, StoreUnchanged DEF TypeOK, Steps
  <2> QED BY <2>2, <2>3
<1>16. CASE crash
  <2>1. UNCHANGED <<rcvd, queued, c2b>> /\ inboundMsgs' = rcvd
    BY <1>16 DEF crash, store
  <2>2. /\ messageQueue' \in Seq(QEntry) /\ qentry_seqno' \in Nat /\ NumberedInOrder'
        /\ queued' = {messageQueue'[i] : i \in DOMAIN messageQueue'}
    BY <1>16, <1>t, <1>m, <2>1, RestoreStep DEF crash
  <2>3. unacked' \in Seq(Unacked) /\ ledger' \in Seq(Entry) /\ used' \in [Kinds -> Nat]
    <3>1. "restart" \in Kinds
      BY DEF Kinds
    <3> QED BY <1>16, <1>t, <3>1, EndBrokerSessionType, DisturbType DEF crash
  <2>4. /\ step' = "idle" /\ cur' \in Msg \cup Called /\ ok' \in BOOLEAN
        /\ connected' \in BOOLEAN /\ cleansession' \in BOOLEAN /\ version' \in Versions /\ link' \in BOOLEAN /\ b2c' \in Seq(Packet)
    <3>1. version \in Versions
      BY <1>t DEF TypeOK
    <3> QED BY <1>16, <3>1, MsgTypes, EmptySeq DEF crash
  <2> QED BY <1>t, <1>i, <2>1, <2>2, <2>3, <2>4 DEF TypeOK, Steps
<1>17. CASE linkBreaks
  <2>1. /\ UNCHANGED <<inboundMsgs, messageQueue, qentry_seqno, rcvd, queued>>
        /\ UNCHANGED <<step, cur, ok, connected, cleansession, version>>
    BY <1>17 DEF linkBreaks, memory, store, thread, conn
  <2>2. unacked' \in Seq(Unacked) /\ ledger' \in Seq(Entry) /\ used' \in [Kinds -> Nat]
    <3>1. "loss" \in Kinds
      BY DEF Kinds
    <3> QED BY <1>17, <1>t, <3>1, EndBrokerSessionType, DisturbType DEF linkBreaks
  <2>3. b2c' \in Seq(Packet)
    <3>1. PICK n \in 0..Len(b2c) : b2c' = SubSeq(b2c, 1, n)
      BY <1>17 DEF linkBreaks
    <3>2. b2c \in Seq(Packet)
      BY <1>t DEF TypeOK
    <3> QED BY <3>1, <3>2
  <2>4. link' \in BOOLEAN /\ c2b' \in Seq(Ack)
    BY <1>17, EmptySeq DEF linkBreaks
  <2>5. step = "pubrec" => rcvd' = InboundWith(cur)' /\ cur.id' \in MsgIds
    BY <1>m, <2>1 DEF InboundWith
  <2> QED BY <1>t, <1>m, <1>i, <2>1, <2>2, <2>3, <2>4, <2>5, StoreUnchanged DEF TypeOK
<1>18. CASE keepalive
  <2>1. /\ UNCHANGED <<inboundMsgs, messageQueue, qentry_seqno, rcvd, queued>> /\ step = "idle"
        /\ UNCHANGED <<step, cur, ok, connected, cleansession, version, link, c2b, unacked, ledger, used>>
        /\ b2c' = <<[type |-> "PINGRESP"]>>
    BY <1>18 DEF keepalive, memory, store, thread, conn
  <2>2. b2c' \in Seq(Packet)
    BY <2>1 DEF Packet
  <2> QED BY <1>t, <1>m, <1>i, <2>1, <2>2, StoreUnchanged DEF TypeOK
<1>19. ASSUME NEW qos \in Qoss, brokerPublish(qos) PROVE StoreInv'
  <2>1. /\ UNCHANGED <<inboundMsgs, messageQueue, qentry_seqno, rcvd, queued>>
        /\ UNCHANGED <<step, cur, ok, connected, cleansession, version, link, c2b, used>>
    BY <1>19 DEF brokerPublish, memory, store, thread, conn
  <2>2. b2c' \in Seq(Packet) /\ unacked' \in Seq(Unacked) /\ ledger' \in Seq(Entry)
    BY <1>19, <1>t, BrokerPublishType
  <2>3. step = "pubrec" => rcvd' = InboundWith(cur)' /\ cur.id' \in MsgIds
    BY <1>m, <2>1 DEF InboundWith
  <2> QED BY <1>t, <1>m, <1>i, <2>1, <2>2, <2>3, StoreUnchanged DEF TypeOK
<1>20. CASE brokerAck
  <2>1. /\ UNCHANGED <<inboundMsgs, messageQueue, qentry_seqno, rcvd, queued>>
        /\ UNCHANGED <<step, cur, ok, connected, cleansession, version, link, used>>
    BY <1>20 DEF brokerAck, memory, store, thread, conn
  <2>2. b2c' \in Seq(Packet) /\ unacked' \in Seq(Unacked) /\ ledger' \in Seq(Entry) /\ c2b' \in Seq(Ack)
    BY <1>20, <1>t, BrokerAckType
  <2>3. step = "pubrec" => rcvd' = InboundWith(cur)' /\ cur.id' \in MsgIds
    BY <1>m, <2>1 DEF InboundWith
  <2> QED BY <1>t, <1>m, <1>i, <2>1, <2>2, <2>3, StoreUnchanged DEF TypeOK
<1>21. CASE UNCHANGED vars
  <2>1. /\ UNCHANGED <<messageQueue, qentry_seqno, rcvd, queued, inboundMsgs, step, cur, ok>>
        /\ UNCHANGED <<connected, cleansession, version, link, c2b, b2c, unacked, ledger, used>>
    BY <1>21 DEF vars, memory, store, thread, conn, network
  <2>2. step = "pubrec" => rcvd' = InboundWith(cur)' /\ cur.id' \in MsgIds
    BY <1>m, <2>1 DEF InboundWith
  <2>3. /\ NumberedInOrder' /\ messageQueue' \in Seq(QEntry) /\ queued' \in SUBSET QEntry /\ qentry_seqno' \in Nat
        /\ queued' = {messageQueue'[i] : i \in DOMAIN messageQueue'}
    BY <2>1, StoreUnchanged
  <2>4. /\ inboundMsgs' \in SUBSET Inbound /\ rcvd' \in SUBSET Inbound
        /\ step' \in Steps \ {"call", "called"} /\ cur' \in Msg \cup Called /\ ok' \in BOOLEAN
        /\ connected' \in BOOLEAN /\ cleansession' \in BOOLEAN /\ version' \in Versions /\ link' \in BOOLEAN
        /\ c2b' \in Seq(Ack) /\ b2c' \in Seq(Packet)
        /\ unacked' \in Seq(Unacked) /\ ledger' \in Seq(Entry) /\ used' \in [Kinds -> Nat]
    BY <1>t, <1>m, <2>1 DEF TypeOK
  <2>5. step' # "pubrec" => rcvd' = inboundMsgs'
    BY <1>m, <2>1
  <2> QED BY <1>i, <2>1, <2>2, <2>3, <2>4, <2>5
<1> QED
  BY <1>1, <1>2, <1>3, <1>4, <1>5, <1>6, <1>7, <1>8, <1>9, <1>10, <1>11, <1>12, <1>13, <1>14, <1>15,
     <1>16, <1>17, <1>18, <1>19, <1>20, <1>21 DEF Next, handlers

-----------------------------------------------------------------------------
(* The theorems *)

\* The invariant of the store: the records are those of the list, of the queue in
\* its order, and of the publication being received, whatever the network, the
\* broker and crashes do.
THEOREM StoreSafe == ASSUME Persistent, ~Callback PROVE Spec => []StoreInv
BY StoreInit, StoreStep, PTL DEF Spec

\* MQTTPersistence_restore finds what the client had: no message already taken
\* or released comes back, and none is missing.
THEOREM Mirrored == ASSUME Persistent, ~Callback PROVE Spec => []StoreMirrorsMemory
<1>1. StoreInv => StoreMirrorsMemory
  BY DEF StoreInv
<1> QED BY <1>1, StoreSafe, PTL

\* Its entries come back in the order they had, and their numbers go on.
THEOREM InOrderAgain == ASSUME Persistent, ~Callback PROVE Spec => []NumberedInOrder
<1>1. StoreInv => NumberedInOrder
  BY DEF StoreInv
<1> QED BY <1>1, StoreSafe, PTL

\* Unless a clean session empties the queue, the message that messageArrived is
\* working on stays first in it, whoever disconnects or reconnects meanwhile.
THEOREM CalledStays == ASSUME TRUE \notin CleanSessions PROVE Spec => []CalledIsQueued
<1> DEFINE Inv == CalledIsQueued /\ cleansession = FALSE
<1>1. Init => Inv
  BY DEF Init, CalledIsQueued
<1>2. Inv /\ [Next]_vars => Inv'
  <2> SUFFICES ASSUME Inv, [Next]_vars PROVE Inv'
    OBVIOUS
  <2>1. CASE handlers
    BY <2>1 DEF handlers, handlePublish0, handlePublish1, processPublication, storePublish2, handlePublish2,
                handlePubrels, releasePublication, forgetInbound, handlePingresps, EndOfCycle, Receive,
                CalledIsQueued, conn
  <2>2. CASE readFails \/ receive
    BY <2>2 DEF readFails, receive, CalledIsQueued, conn
  <2>3. CASE callMessageArrived
    BY <2>3 DEF callMessageArrived, CalledIsQueued, conn, memory
  <2>4. ASSUME NEW accepted \in BOOLEAN, messageArrived(accepted) PROVE Inv'
    BY <2>4 DEF messageArrived, CalledIsQueued, conn
  <2>5. ASSUME NEW cs \in CleanSessions, connect(cs) PROVE Inv'
    BY <2>5, OptionsAssumption DEF connect, CalledIsQueued, thread
  <2>6. CASE disconnect \/ disconnect_internal
    BY <2>6 DEF disconnect, disconnect_internal, closeSession, CalledIsQueued, conn, thread, memory
  <2>7. CASE crash
    BY <2>7 DEF crash, CalledIsQueued
  <2>8. CASE linkBreaks \/ keepalive \/ brokerAck \/ \E qos \in Qoss : brokerPublish(qos)
    BY <2>8 DEF linkBreaks, keepalive, brokerAck, brokerPublish, CalledIsQueued, conn, thread, memory
  <2>9. CASE UNCHANGED vars
    BY <2>9 DEF vars, CalledIsQueued, conn, thread, memory
  <2> QED BY <2>1, <2>2, <2>3, <2>4, <2>5, <2>6, <2>7, <2>8, <2>9 DEF Next, run
<1>3. Inv => CalledIsQueued
  OBVIOUS
<1> QED BY <1>1, <1>2, <1>3, PTL DEF Spec

-----------------------------------------------------------------------------
(* Types without the assumptions of the store *)

LEMMA EnqueueType ==
  ASSUME TypeOK, NEW m \in Msg \cup Called, Enqueue(m)
  PROVE  messageQueue' \in Seq(QEntry) /\ queued' \in SUBSET QEntry /\ qentry_seqno' \in Nat
<1> DEFINE e == [seqno |-> qentry_seqno + 1, qos |-> m.qos, pub |-> m.pub]
<1>1. e \in QEntry /\ messageQueue \in Seq(QEntry) /\ queued \in SUBSET QEntry /\ qentry_seqno \in Nat
  BY MsgTypes DEF TypeOK, QEntry
<1>2. /\ messageQueue' = Append(messageQueue, e)
      /\ qentry_seqno' \in {qentry_seqno + 1, qentry_seqno}
      /\ queued' \in {queued, {q \in queued : q.seqno # e.seqno} \cup {e}}
  BY DEF Enqueue, persistQueueEntry
<1> HIDE DEF e
<1> QED BY <1>1, <1>2, AppendProperties

LEMMA TakeType ==
  ASSUME TypeOK, messageQueue # <<>>
  PROVE  /\ Tail(messageQueue) \in Seq(QEntry)
         /\ \A e \in QEntry : [id |-> 0, qos |-> e.qos, pub |-> e.pub] \in Called
         /\ Head(messageQueue) \in QEntry
BY HeadTailProperties DEF TypeOK, QEntry, Called

LEMMA EndOfCycleTypes ==
  ASSUME NEW sent \in BOOLEAN, EndOfCycle(sent)
  PROVE  /\ step' \in {"error", "call", "idle"} /\ step' \in Steps
         /\ cur' = Nobody /\ cur' \in Msg \cup Called /\ ok' = TRUE
BY MsgTypes DEF EndOfCycle, Steps

\* The steps that the session proofs are about: the session is kept and the
\* process goes on.
Steady == TRUE \notin CleanSessions /\ Limit["restart"] = 0

LEMMA NoCrash == ASSUME TypeOK, Steady PROVE ~crash
BY DEF TypeOK, Steady, crash, Disturb, Kinds

LEMMA HandlerTypes ==
  ASSUME TypeOK, step = "pubrec" => cur.id \in MsgIds, handlers
  PROVE  TypeOK'
<1>l. link \in BOOLEAN /\ ok \in BOOLEAN /\ cur \in Msg \cup Called
  BY DEF TypeOK
<1>1. CASE handlePublish0
  <2>1. Head(b2c).msg \in Msg /\ b2c' \in Seq(Packet)
    BY <1>1, ReceiveType DEF handlePublish0
  <2>2. messageQueue' \in Seq(QEntry) /\ queued' \in SUBSET QEntry /\ qentry_seqno' \in Nat
    BY <1>1, <2>1, EnqueueType DEF handlePublish0
  <2>3. step' \in Steps /\ cur' \in Msg \cup Called /\ ok' = TRUE
    BY <1>1, EndOfCycleTypes DEF handlePublish0
  <2> QED BY <1>1, <2>1, <2>2, <2>3 DEF handlePublish0, conn, TypeOK
<1>2. CASE handlePublish1
  <2>1. Head(b2c).msg \in Msg /\ b2c' \in Seq(Packet) /\ Head(b2c).msg.id \in MsgIds
    BY <1>2, ReceiveType, MsgTypes DEF handlePublish1
  <2>2. c2b' \in Seq(Ack)
    BY <1>2, <2>1, SendType DEF handlePublish1
  <2> QED BY <1>2, <2>1, <2>2 DEF handlePublish1, memory, store, conn, TypeOK, Steps
<1>3. CASE processPublication
  <2>1. messageQueue' \in Seq(QEntry) /\ queued' \in SUBSET QEntry /\ qentry_seqno' \in Nat
    BY <1>3, <1>l, EnqueueType DEF processPublication
  <2>2. step' \in Steps /\ cur' \in Msg \cup Called /\ ok' = TRUE
    BY <1>3, <1>l, EndOfCycleTypes DEF processPublication
  <2> QED BY <1>3, <2>1, <2>2 DEF processPublication, conn, network, TypeOK
<1>4. CASE storePublish2
  <2> DEFINE m == Head(b2c).msg
  <2>1. m \in Msg /\ b2c' \in Seq(Packet) /\ m.id \in MsgIds /\ m.pub \in Pubs
    BY <1>4, ReceiveType, MsgTypes DEF storePublish2
  <2> HIDE DEF m
  <2>2. /\ rcvd' = IF Persistent THEN {r \in rcvd : r.id # m.id} \cup {[id |-> m.id, pub |-> m.pub]} ELSE rcvd
        /\ step' = "pubrec" /\ cur' = m /\ ok' = TRUE
    BY <1>4 DEF storePublish2, m
  <2>3. rcvd' \in SUBSET Inbound
    BY <2>1, <2>2 DEF TypeOK, Inbound
  <2> QED BY <1>4, <2>1, <2>2, <2>3 DEF storePublish2, memory, conn, TypeOK, Steps
<1>5. CASE handlePublish2
  <2>1. cur.id \in MsgIds /\ inboundMsgs' = InboundWith(cur)
    BY <1>5 DEF handlePublish2
  <2>2. inboundMsgs' \in SUBSET Inbound
    BY <1>l, <2>1, InboundWithType
  <2>3. c2b' \in Seq(Ack)
    BY <1>5, <2>1, SendType DEF handlePublish2
  <2>4. step' \in Steps /\ cur' \in Msg \cup Called /\ ok' = TRUE
    BY <1>5, <1>l, EndOfCycleTypes DEF handlePublish2
  <2> QED BY <1>5, <2>2, <2>3, <2>4 DEF handlePublish2, store, conn, TypeOK
<1>6. CASE handlePubrels
  <2> DEFINE id == Head(b2c).id
             M == {m \in inboundMsgs : m.id = id}
  <2>1. id \in MsgIds /\ b2c' \in Seq(Packet)
    BY <1>6, ReceiveType DEF handlePubrels
  <2>2. \A m \in M : [id |-> id, qos |-> 2, pub |-> m.pub] \in Msg
    BY <2>1 DEF TypeOK, Inbound, Msg
  <2>3. \/ \E m \in M : /\ Send("PUBCOMP", id)
                         /\ step' = "release" /\ ok' = link
                         /\ cur' = [id |-> id, qos |-> 2, pub |-> m.pub]
        \/ Send("PUBCOMP", id) /\ EndOfCycle(link)
        \/ c2b' = c2b /\ EndOfCycle(TRUE)
    BY <1>6 DEF handlePubrels
  <2> HIDE DEF id, M
  <2>4. step' \in Steps /\ cur' \in Msg \cup Called /\ ok' \in BOOLEAN
    <3>1. CASE \E m \in M : step' = "release" /\ ok' = link /\ cur' = [id |-> id, qos |-> 2, pub |-> m.pub]
      BY <1>l, <2>2, <3>1 DEF Steps
    <3> QED BY <1>l, <2>3, <3>1, EndOfCycleTypes
  <2>5. c2b' \in Seq(Ack)
    <3>1. c2b \in Seq(Ack)
      BY DEF TypeOK
    <3> QED BY <2>1, <2>3, <3>1, SendType
  <2> QED BY <1>6, <2>1, <2>4, <2>5 DEF handlePubrels, memory, store, conn, TypeOK
<1>7. CASE releasePublication
  <2>1. messageQueue' \in Seq(QEntry) /\ queued' \in SUBSET QEntry /\ qentry_seqno' \in Nat
    BY <1>7, <1>l, EnqueueType DEF releasePublication
  <2> QED BY <1>7, <2>1 DEF releasePublication, conn, network, TypeOK, Steps
<1>8. CASE forgetInbound
  <2>1. step' \in Steps /\ cur' \in Msg \cup Called /\ ok' = TRUE
    BY <1>8, <1>l, EndOfCycleTypes DEF forgetInbound
  <2>2. inboundMsgs' \in SUBSET Inbound /\ rcvd' \in SUBSET Inbound
    BY <1>8 DEF forgetInbound, TypeOK
  <2> QED BY <1>8, <2>1, <2>2 DEF forgetInbound, conn, network, TypeOK
<1>9. CASE handlePingresps
  <2>1. b2c' \in Seq(Packet)
    BY <1>9, ReceiveType DEF handlePingresps
  <2>2. step' \in Steps /\ cur' \in Msg \cup Called /\ ok' = TRUE
    BY <1>9, EndOfCycleTypes DEF handlePingresps
  <2> QED BY <1>9, <2>1, <2>2 DEF handlePingresps, memory, store, conn, TypeOK
<1> QED BY <1>1, <1>2, <1>3, <1>4, <1>5, <1>6, <1>7, <1>8, <1>9 DEF handlers

LEMMA ApplicationTypes ==
  ASSUME TypeOK, readFails \/ receive \/ callMessageArrived \/ \E accepted \in BOOLEAN : messageArrived(accepted)
  PROVE  TypeOK'
<1>1. CASE readFails
  BY <1>1 DEF readFails, memory, store, conn, network, TypeOK, Steps
<1>2. CASE receive
  <2>1. ledger' \in Seq(Entry)
    BY <1>2, HandOverType DEF receive, deliverMessage
  <2>2. messageQueue' \in Seq(QEntry) /\ queued' \in SUBSET QEntry
    BY <1>2, TakeType DEF receive, deliverMessage, unpersistQueueEntry, TypeOK
  <2>3. step' \in Steps
    BY <1>2 DEF receive, Steps
  <2> QED BY <1>2, <2>1, <2>2, <2>3 DEF receive, conn, network, TypeOK
<1>3. CASE callMessageArrived
  <2>1. step' \in Steps /\ cur' \in Msg \cup Called
    BY <1>3, TakeType DEF callMessageArrived, TypeOK, Steps
  <2> QED BY <1>3, <2>1 DEF callMessageArrived, memory, store, conn, network, TypeOK
<1>4. ASSUME NEW accepted \in BOOLEAN, messageArrived(accepted) PROVE TypeOK'
  <2>1. ledger' \in Seq(Entry) /\ used' \in [Kinds -> Nat]
    <3>1. "refuse" \in Kinds
      BY DEF Kinds
    <3> QED BY <1>4, <3>1, HandOverType, DisturbType DEF messageArrived, TypeOK
  <2>2. messageQueue' \in Seq(QEntry)
    BY <1>4, TakeType, EmptySeq DEF messageArrived, WithoutFirst, TypeOK
  <2>3. step' \in Steps /\ cur' \in Msg \cup Called
    BY <1>4, MsgTypes DEF messageArrived, Steps
  <2> QED BY <1>4, <2>1, <2>2, <2>3 DEF messageArrived, store, conn, network, TypeOK
<1> QED BY <1>1, <1>2, <1>3, <1>4

\* A session that is kept is closed and resumed without touching its state.
LEMMA KeptClose ==
  ASSUME ~cleansession, closeSession
  PROVE  /\ connected' = FALSE /\ link' = FALSE /\ b2c' = <<>>
         /\ UNCHANGED <<memory, store, unacked, ledger, cleansession, version, c2b>>
BY DEF closeSession, EndBrokerSession

LEMMA ConnectionTypes ==
  ASSUME TypeOK, ~cleansession, TRUE \notin CleanSessions,
         \/ \E cs \in CleanSessions : connect(cs)
         \/ disconnect \/ disconnect_internal \/ linkBreaks \/ keepalive
         \/ \E qos \in Qoss : brokerPublish(qos)
         \/ brokerAck
  PROVE  TypeOK'
<1>k. "loss" \in Kinds /\ <<>> \in Seq(Packet) /\ <<>> \in Seq(Ack)
  BY EmptySeq DEF Kinds
<1>1. ASSUME connect(FALSE) PROVE TypeOK'
  <2>1. [i \in DOMAIN unacked |-> Resend(unacked[i])] \in Seq(Packet)
    BY ResendType
  <2> QED BY <1>1, <1>k, <2>1 DEF connect, memory, store, thread, TypeOK
<1>2. CASE disconnect
  <2>1. closeSession /\ used' \in [Kinds -> Nat]
    BY <1>2, <1>k, DisturbType DEF disconnect
  <2>2. /\ connected' = FALSE /\ link' = FALSE /\ b2c' = <<>>
        /\ UNCHANGED <<memory, store, unacked, ledger, cleansession, version, c2b>>
    BY <2>1, KeptClose
  <2> QED BY <1>2, <1>k, <2>1, <2>2 DEF disconnect, memory, store, thread, TypeOK
<1>3. CASE disconnect_internal
  <2>1. CASE connected
    <3>1. closeSession
      BY <1>3, <2>1 DEF disconnect_internal
    <3>2. /\ connected' = FALSE /\ link' = FALSE /\ b2c' = <<>>
          /\ UNCHANGED <<memory, store, unacked, ledger, cleansession, version, c2b>>
      BY <3>1, KeptClose
    <3> QED BY <1>3, <1>k, <3>2 DEF disconnect_internal, memory, store, TypeOK, Steps
  <2>2. CASE ~connected
    BY <1>3, <2>2 DEF disconnect_internal, memory, store, conn, network, TypeOK, Steps
  <2> QED BY <2>1, <2>2 DEF TypeOK
<1>4. CASE linkBreaks
  <2>1. PICK n \in 0..Len(b2c) : b2c' = SubSeq(b2c, 1, n)
    BY <1>4 DEF linkBreaks
  <2>2. b2c' \in Seq(Packet)
    <3>1. b2c \in Seq(Packet)
      BY DEF TypeOK
    <3> QED BY <2>1, <3>1
  <2>3. used' \in [Kinds -> Nat]
    BY <1>4, <1>k, DisturbType DEF linkBreaks
  <2> QED BY <1>4, <1>k, <2>2, <2>3 DEF linkBreaks, EndBrokerSession, memory, store, thread, conn, TypeOK
<1>5. CASE keepalive
  <2>1. <<[type |-> "PINGRESP"]>> \in Seq(Packet)
    BY DEF Packet
  <2> QED BY <1>5, <2>1 DEF keepalive, memory, store, thread, conn, TypeOK
<1>6. ASSUME NEW qos \in Qoss, brokerPublish(qos) PROVE TypeOK'
  <2>1. b2c' \in Seq(Packet) /\ unacked' \in Seq(Unacked) /\ ledger' \in Seq(Entry)
    BY <1>6, BrokerPublishType
  <2> QED BY <1>6, <2>1 DEF brokerPublish, memory, store, thread, conn, TypeOK
<1>7. CASE brokerAck
  <2>1. b2c' \in Seq(Packet) /\ unacked' \in Seq(Unacked) /\ ledger' \in Seq(Entry) /\ c2b' \in Seq(Ack)
    BY <1>7, BrokerAckType
  <2> QED BY <1>7, <2>1 DEF brokerAck, memory, store, thread, conn, TypeOK
<1>8. \A cs \in CleanSessions : cs = FALSE
  BY OptionsAssumption
<1> QED BY <1>1, <1>2, <1>3, <1>4, <1>5, <1>6, <1>7, <1>8

-----------------------------------------------------------------------------
(* Packets under way *)

\* What has arrived or will, and was not handled: the packet being stored first.
Incoming == IF step = "pubrec" THEN <<[type |-> "PUBLISH", msg |-> cur]>> \o b2c ELSE b2c
Arriving == {Incoming[i] : i \in DOMAIN Incoming}
Answers  == {c2b[i] : i \in DOMAIN c2b}
Flows    == {unacked[i] : i \in DOMAIN unacked}

IdOf(p) == CASE p.type = "PUBLISH" -> p.msg.id
             [] p.type = "PUBREL" -> p.id
             [] OTHER -> 0

Apart(p, q) == IF IdOf(p) = 0 /\ IdOf(q) = 0
                 THEN p.type = "PUBLISH" /\ q.type = "PUBLISH" => p.msg.pub # q.msg.pub
                 ELSE IdOf(p) # IdOf(q)

\* A flow has one packet under way, in one direction.
OnePacketIn(in, out) ==
  /\ \A i, j \in DOMAIN in : i # j => Apart(in[i], in[j])
  /\ \A i, j \in DOMAIN out : i # j => out[i].id # out[j].id
  /\ \A i \in DOMAIN in, j \in DOMAIN out : IdOf(in[i]) # out[j].id

LEMMA AppendFacts ==
  ASSUME NEW S, NEW s \in Seq(S), NEW e
  PROVE  /\ DOMAIN Append(s, e) = DOMAIN s \cup {Len(s) + 1}
         /\ Len(s) + 1 \notin DOMAIN s
         /\ \A a \in DOMAIN s : Append(s, e)[a] = s[a] /\ a \in 1..Len(s)
         /\ Append(s, e)[Len(s) + 1] = e
<1>1. Len(s) \in Nat /\ DOMAIN s = 1..Len(s)
  BY LenProperties
<1> QED BY <1>1

LEMMA TailFacts ==
  ASSUME NEW S, NEW s \in Seq(S), s # <<>>
  PROVE  /\ 1 \in DOMAIN s /\ Head(s) = s[1] /\ Head(s) \in S
         /\ \A a \in DOMAIN Tail(s) : /\ a \in Nat \ {0} /\ a + 1 \in DOMAIN s
                                      /\ Tail(s)[a] = s[a + 1]
         /\ \A a \in DOMAIN s : /\ a \in Nat \ {0}
                                /\ a # 1 => a - 1 \in DOMAIN Tail(s) /\ Tail(s)[a - 1] = s[a]
<1>1. Len(s) \in Nat \ {0} /\ DOMAIN s = 1..Len(s)
  BY LenProperties, EmptySeq
<1>2. /\ Head(s) = s[1] /\ Head(s) \in S
      /\ Tail(s) \in Seq(S) /\ Len(Tail(s)) = Len(s) - 1
      /\ \A a \in 1..Len(Tail(s)) : Tail(s)[a] = s[a + 1]
  BY HeadTailProperties
<1>3. DOMAIN Tail(s) = 1..Len(Tail(s))
  BY <1>2, LenProperties
<1> QED BY <1>1, <1>2, <1>3

\* One packet in front of the others.
LEMMA InFrontFacts ==
  ASSUME NEW S, NEW s \in Seq(S), NEW e \in S
  PROVE  /\ <<e>> \o s \in Seq(S) /\ <<e>> \o s # <<>>
         /\ Head(<<e>> \o s) = e /\ Tail(<<e>> \o s) = s
         /\ s # <<>> => <<Head(s)>> \o Tail(s) = s
<1>1. <<e>> \in Seq(S) /\ Len(<<e>>) = 1 /\ Len(s) \in Nat /\ DOMAIN s = 1..Len(s)
  BY LenProperties
<1> DEFINE t == <<e>> \o s
<1>2. t \in Seq(S) /\ Len(t) = 1 + Len(s) /\ t[1] = e /\ \A i \in 1..Len(s) : t[i + 1] = s[i]
  BY <1>1, ConcatProperties
<1> HIDE DEF t
<1>3. t # <<>>
  BY <1>1, <1>2
<1>4. /\ Head(t) = t[1] /\ Tail(t) \in Seq(S) /\ Len(Tail(t)) = Len(t) - 1
      /\ \A i \in 1..Len(Tail(t)) : Tail(t)[i] = t[i + 1]
  BY <1>2, <1>3, HeadTailProperties
<1>5. Tail(t) = s
  BY <1>1, <1>2, <1>4, SeqEqual
<1>6. ASSUME s # <<>> PROVE <<Head(s)>> \o Tail(s) = s
  <2>1. /\ Head(s) = s[1] /\ Head(s) \in S /\ Tail(s) \in Seq(S) /\ Len(Tail(s)) = Len(s) - 1
        /\ Len(s) \in Nat \ {0}
        /\ \A i \in 1..Len(Tail(s)) : Tail(s)[i] = s[i + 1]
    BY <1>1, <1>6, HeadTailProperties, EmptySeq
  <2> DEFINE h == Head(s)
             r == Tail(s)
  <2>2. <<h>> \in Seq(S) /\ Len(<<h>>) = 1
    BY <2>1
  <2> HIDE DEF h, r
  <2>3. /\ <<h>> \o r \in Seq(S) /\ Len(<<h>> \o r) = 1 + Len(r) /\ (<<h>> \o r)[1] = h
        /\ \A i \in 1..Len(r) : (<<h>> \o r)[i + 1] = r[i]
    BY <2>1, <2>2, ConcatProperties DEF r
  <2>4. \A i \in 1..Len(s) : i = 1 \/ (i - 1 \in 1..Len(r) /\ (i - 1) + 1 = i)
    BY <2>1 DEF r
  <2>5. \A i \in 1..Len(s) : (<<h>> \o r)[i] = s[i]
    BY <2>1, <2>3, <2>4 DEF h, r
  <2>6. Len(<<h>> \o r) = Len(s)
    BY <2>1, <2>3 DEF r
  <2> QED BY <2>3, <2>5, <2>6, SeqEqual DEF h, r
<1> QED BY <1>2, <1>3, <1>4, <1>5, <1>6 DEF t

\* A part of s, in the same order: what is left after packets were read from
\* its front or lost at its end.
Part(t, s) == \E d \in Nat : \A i \in DOMAIN t : i \in Nat \ {0} /\ i + d \in DOMAIN s /\ t[i] = s[i + d]

LEMMA PartFacts ==
  ASSUME NEW S, NEW s \in Seq(S)
  PROVE  /\ Part(<<>>, s) /\ Part(s, s)
         /\ s # <<>> => Part(Tail(s), s)
         /\ \A n \in 0..Len(s) : Part(SubSeq(s, 1, n), s)
<1>1. Len(s) \in Nat /\ DOMAIN s = 1..Len(s)
  BY LenProperties
<1>2. Part(<<>>, s)
  BY DEF Part
<1>3. Part(s, s)
  <2>1. \A i \in DOMAIN s : i \in Nat \ {0} /\ i + 0 = i
    BY <1>1
  <2> QED BY <2>1 DEF Part
<1>4. s # <<>> => Part(Tail(s), s)
  BY TailFacts DEF Part
<1>5. ASSUME NEW n \in 0..Len(s) PROVE Part(SubSeq(s, 1, n), s)
  <2>1. DOMAIN SubSeq(s, 1, n) = 1..n /\ \A i \in 1..n : SubSeq(s, 1, n)[i] = s[i]
    BY <1>1
  <2>2. \A i \in 1..n : i \in Nat \ {0} /\ i + 0 = i /\ i \in DOMAIN s
    BY <1>1
  <2> QED BY <2>1, <2>2 DEF Part
<1> QED BY <1>2, <1>3, <1>4, <1>5

LEMMA PartElements ==
  ASSUME NEW s, NEW t, Part(t, s)
  PROVE  /\ \A i \in DOMAIN t : \E j \in DOMAIN s : t[i] = s[j]
         /\ \A i, j \in DOMAIN t : i # j => \E x, y \in DOMAIN s : x # y /\ t[i] = s[x] /\ t[j] = s[y]
<1>1. PICK d \in Nat : \A i \in DOMAIN t : i \in Nat \ {0} /\ i + d \in DOMAIN s /\ t[i] = s[i + d]
  BY DEF Part
<1>2. \A i, j \in DOMAIN t : i # j => i + d # j + d
  BY <1>1
<1> QED BY <1>1, <1>2

LEMMA FewerPackets ==
  ASSUME NEW in, NEW out, NEW in1, NEW out1, OnePacketIn(in, out), Part(in1, in), Part(out1, out)
  PROVE  OnePacketIn(in1, out1)
<1>1. \A i, j \in DOMAIN in1 : i # j => Apart(in1[i], in1[j])
  BY PartElements DEF OnePacketIn
<1>2. \A i, j \in DOMAIN out1 : i # j => out1[i].id # out1[j].id
  BY PartElements DEF OnePacketIn
<1>3. \A i \in DOMAIN in1, j \in DOMAIN out1 : IdOf(in1[i]) # out1[j].id
  BY PartElements DEF OnePacketIn
<1> QED BY <1>1, <1>2, <1>3 DEF OnePacketIn

LEMMA OneMoreOut ==
  ASSUME NEW S, NEW in, NEW out \in Seq(S), NEW a, OnePacketIn(in, out),
         \A i \in DOMAIN in : IdOf(in[i]) # a.id,
         \A i \in DOMAIN out : out[i].id # a.id
  PROVE  OnePacketIn(in, Append(out, a))
<1> DEFINE s == Append(out, a)
           n == Len(out) + 1
<1>1. /\ DOMAIN s = DOMAIN out \cup {n} /\ n \notin DOMAIN out
      /\ \A i \in DOMAIN out : s[i] = out[i]
      /\ s[n] = a
  BY AppendFacts
<1> HIDE DEF s, n
<1>2. \A i, j \in DOMAIN s : i # j => s[i].id # s[j].id
  BY <1>1 DEF OnePacketIn
<1>3. \A i \in DOMAIN in, j \in DOMAIN s : IdOf(in[i]) # s[j].id
  BY <1>1 DEF OnePacketIn
<1>4. OnePacketIn(in, s)
  BY <1>2, <1>3 DEF OnePacketIn
<1> QED BY <1>4 DEF s

LEMMA OneMoreIn ==
  ASSUME NEW S, NEW in \in Seq(S), NEW out, NEW p, OnePacketIn(in, out),
         \A i \in DOMAIN in : Apart(in[i], p) /\ Apart(p, in[i]),
         \A i \in DOMAIN out : out[i].id # IdOf(p)
  PROVE  OnePacketIn(Append(in, p), out)
<1> DEFINE s == Append(in, p)
           n == Len(in) + 1
<1>1. /\ DOMAIN s = DOMAIN in \cup {n} /\ n \notin DOMAIN in
      /\ \A i \in DOMAIN in : s[i] = in[i]
      /\ s[n] = p
  BY AppendFacts
<1> HIDE DEF s, n
<1>2. \A i, j \in DOMAIN s : i # j => Apart(s[i], s[j])
  BY <1>1 DEF OnePacketIn
<1>3. \A i \in DOMAIN s, j \in DOMAIN out : IdOf(s[i]) # out[j].id
  BY <1>1 DEF OnePacketIn
<1>4. OnePacketIn(s, out)
  BY <1>2, <1>3 DEF OnePacketIn
<1> QED BY <1>4 DEF s

\* The packet handled next has nothing in common with the others.
LEMMA FirstIn ==
  ASSUME NEW S, NEW in \in Seq(S), NEW out, OnePacketIn(in, out), in # <<>>
  PROVE  /\ \A i \in DOMAIN Tail(in) : Apart(Tail(in)[i], Head(in))
         /\ \A i \in DOMAIN out : out[i].id # IdOf(Head(in))
<1>1. 1 \in DOMAIN in /\ Head(in) = in[1]
  BY TailFacts
<1>2. ASSUME NEW i \in DOMAIN Tail(in) PROVE Apart(Tail(in)[i], Head(in))
  <2>1. i \in Nat \ {0} /\ i + 1 \in DOMAIN in /\ Tail(in)[i] = in[i + 1]
    BY TailFacts
  <2>2. i + 1 # 1
    BY <2>1
  <2> QED BY <1>1, <2>1, <2>2 DEF OnePacketIn
<1>3. \A i \in DOMAIN out : out[i].id # IdOf(Head(in))
  BY <1>1 DEF OnePacketIn
<1> QED BY <1>2, <1>3

LEMMA FirstOut ==
  ASSUME NEW S, NEW in, NEW out \in Seq(S), OnePacketIn(in, out), out # <<>>
  PROVE  /\ \A i \in DOMAIN Tail(out) : Tail(out)[i].id # Head(out).id
         /\ \A i \in DOMAIN in : IdOf(in[i]) # Head(out).id
<1>1. 1 \in DOMAIN out /\ Head(out) = out[1]
  BY TailFacts
<1>2. ASSUME NEW i \in DOMAIN Tail(out) PROVE Tail(out)[i].id # Head(out).id
  <2>1. i \in Nat \ {0} /\ i + 1 \in DOMAIN out /\ Tail(out)[i] = out[i + 1]
    BY TailFacts
  <2>2. i + 1 # 1
    BY <2>1
  <2> QED BY <1>1, <2>1, <2>2 DEF OnePacketIn
<1>3. \A i \in DOMAIN in : IdOf(in[i]) # Head(out).id
  BY <1>1 DEF OnePacketIn
<1> QED BY <1>2, <1>3

-----------------------------------------------------------------------------
(* The flows of a kept session *)

Got(k)    == k \in DOMAIN ledger /\ ledger[k].got > 0
QoS(k, q) == k \in DOMAIN ledger /\ ledger[k].qos = q

\* The message has reached the queue or is about to.
Held(k)   == Got(k) \/ InQueue(k) \/ InHand(k)

\* The message with this id has been released to the queue, and is still listed.
Releasing(id) == step \in {"release", "forget"} /\ cur.id = id

OnePacket == OnePacketIn(Incoming, c2b)

\* A packet on its way to the client is the next of its flow, or of QoS 0 and new.
ArrivalTrue(p) ==
  /\ p.type = "PUBLISH" /\ p.msg.qos = 0 => QoS(p.msg.pub, 0) /\ ~Held(p.msg.pub)
  /\ p.type = "PUBLISH" /\ p.msg.qos > 0 =>
       \E u \in Flows : u.id = p.msg.id /\ u.qos = p.msg.qos /\ u.pub = p.msg.pub /\ ~u.released
  /\ p.type = "PUBREL" => \E u \in Flows : u.id = p.id /\ u.released

\* An acknowledgement means what it says: only the client's PUBREC leaves the
\* message where it is.
AnswerTrue(a) ==
  \E u \in Flows :
    /\ u.id = a.id
    /\ a.type = "PUBACK" => u.qos = 1 /\ Held(u.pub)
    /\ a.type = "PUBREC" => u.qos = 2 /\ ~u.released /\ [id |-> u.id, pub |-> u.pub] \in inboundMsgs
    /\ a.type = "PUBCOMP" => u.released /\ Held(u.pub)

\* A QoS 2 message is queued only after its release, and kept until then.
FlowTrue(u) ==
  /\ QoS(u.pub, u.qos)
  /\ u.qos = 2 /\ ~u.released => ~Held(u.pub)
  /\ u.released => u.qos = 2 /\ ([id |-> u.id, pub |-> u.pub] \in inboundMsgs \/ Held(u.pub))

\* What waits in the inbound list has not been queued, and its flow goes on.
ListedTrue(m) == \/ Releasing(m.id)
                 \/ ~Held(m.pub) /\ \E u \in Flows : u.id = m.id /\ u.qos = 2 /\ u.pub = m.pub

FlowsOrdered ==
  \A i, j \in DOMAIN unacked : i < j => unacked[i].id # unacked[j].id /\ unacked[i].pub < unacked[j].pub

NetMatch == /\ OnePacket /\ FlowsOrdered
            /\ \A p \in Arriving : ArrivalTrue(p)
            /\ \A a \in Answers : AnswerTrue(a)
            /\ \A u \in Flows : FlowTrue(u)
            /\ \A m \in inboundMsgs : ListedTrue(m)

HandMatch ==
  /\ step = "pubrec" => cur \in Msg /\ cur.qos = 2
  /\ step = "process" => QoS(cur.pub, 1)
  /\ step = "release" => QoS(cur.pub, 2) /\ ~Got(cur.pub) /\ ~InQueue(cur.pub)
  /\ step = "forget" => InQueue(cur.pub)
  /\ \A a \in Answers : Releasing(a.id) => a.type # "PUBREC"
  /\ \A u \in Flows : Releasing(u.id) /\ u.released => u.pub = cur.pub

\* Only a QoS 1 message is in the queue twice, or again after it was taken.
QueueMatch ==
  \A i \in DOMAIN messageQueue :
    LET k == messageQueue[i].pub
    IN /\ k \in DOMAIN ledger
       /\ ledger[k].qos # 1 =>
            ledger[k].got = 0 /\ \A j \in DOMAIN messageQueue : j # i => messageQueue[j].pub # k

SettledHeld == \A k \in DOMAIN ledger : ledger[k].qos > 0 /\ ledger[k].fate = "settled" => Held(k)

Kept == ~cleansession /\ (link => connected)

FlightInv == /\ TypeOK /\ Kept
             /\ NetMatch /\ HandMatch
             /\ QueueMatch /\ CalledIsQueued
             /\ SettledHeld /\ NeverTwice

LEMMA FlowsFacts ==
  ASSUME TypeOK, FlowsOrdered
  PROVE  /\ \A u \in Flows : u \in Unacked
         /\ \A u, v \in Flows : u.id = v.id \/ u.pub = v.pub => u = v
<1>1. Len(unacked) \in Nat /\ DOMAIN unacked = 1..Len(unacked)
  BY LenProperties DEF TypeOK
<1>2. \A i \in DOMAIN unacked : unacked[i] \in Unacked /\ unacked[i].pub \in Nat
  <2>1. \A i \in DOMAIN unacked : unacked[i] \in Unacked
    BY ElementOfSeq DEF TypeOK
  <2> QED BY <2>1 DEF Unacked, Pubs
<1>3. \A i, j \in DOMAIN unacked : i = j \/ i < j \/ j < i
  BY <1>1
<1>4. \A i, j \in DOMAIN unacked : unacked[i].id = unacked[j].id \/ unacked[i].pub = unacked[j].pub => i = j
  BY <1>2, <1>3 DEF FlowsOrdered
<1> QED BY <1>2, <1>4 DEF Flows

LEMMA FlowBegins ==
  ASSUME TypeOK, FlowsOrdered, NEW f \in Unacked, unacked' = Append(unacked, f),
         \A u \in Flows : u.id # f.id /\ u.pub < f.pub
  PROVE  Flows' = Flows \cup {f} /\ FlowsOrdered'
<1> DEFINE s == Append(unacked, f)
           n == Len(unacked) + 1
<1>1. /\ DOMAIN s = DOMAIN unacked \cup {n} /\ n \notin DOMAIN unacked
      /\ \A i \in DOMAIN unacked : s[i] = unacked[i] /\ i \in 1..Len(unacked)
      /\ s[n] = f
  BY AppendFacts DEF TypeOK
<1>2. Len(unacked) \in Nat /\ unacked' = s /\ \A i \in DOMAIN unacked : i < n
  BY <1>1, LenProperties DEF TypeOK
<1>3. n \in Nat /\ \A i \in DOMAIN unacked : ~(n < i)
  BY <1>1, <1>2
<1> HIDE DEF s, n
<1>4. Flows' = Flows \cup {f}
  BY <1>1, <1>2 DEF Flows
<1>5. \A i, j \in DOMAIN s : i < j => s[i].id # s[j].id /\ s[i].pub < s[j].pub
  <2> SUFFICES ASSUME NEW i \in DOMAIN s, NEW j \in DOMAIN s, i < j
               PROVE  s[i].id # s[j].id /\ s[i].pub < s[j].pub
    OBVIOUS
  <2>1. i \in DOMAIN unacked
    BY <1>1, <1>3
  <2>2. CASE j = n
    BY <1>1, <2>1, <2>2 DEF Flows
  <2>3. CASE j \in DOMAIN unacked
    BY <1>1, <2>1, <2>3 DEF FlowsOrdered
  <2> QED BY <1>1, <2>2, <2>3
<1> QED BY <1>2, <1>4, <1>5 DEF FlowsOrdered

LEMMA FlowReleased ==
  ASSUME TypeOK, FlowsOrdered, NEW i \in DOMAIN unacked,
         unacked' = [unacked EXCEPT ![i].released = TRUE]
  PROVE  /\ Flows' = (Flows \ {unacked[i]}) \cup {[unacked[i] EXCEPT !.released = TRUE]}
         /\ FlowsOrdered'
<1> DEFINE u == unacked[i]
           f == [u EXCEPT !.released = TRUE]
<1>1. DOMAIN unacked' = DOMAIN unacked /\ unacked'[i] = f /\ \A j \in DOMAIN unacked : j # i => unacked'[j] = unacked[j]
  BY DEF TypeOK
<1>u. u \in Unacked
  BY ElementOfSeq DEF TypeOK
<1>2. f.id = u.id /\ f.pub = u.pub
  BY <1>u DEF Unacked
<1>3. \A j \in DOMAIN unacked : unacked'[j].id = unacked[j].id /\ unacked'[j].pub = unacked[j].pub
  BY <1>1, <1>2
<1>4. FlowsOrdered'
  BY <1>1, <1>3 DEF FlowsOrdered
<1>5. \A j \in DOMAIN unacked : j # i => unacked[j] # u
  <2>1. Len(unacked) \in Nat /\ DOMAIN unacked = 1..Len(unacked)
    BY LenProperties DEF TypeOK
  <2>2. \A j \in DOMAIN unacked : j # i => j < i \/ i < j
    BY <2>1
  <2> QED BY <2>2 DEF FlowsOrdered
<1> HIDE DEF u, f
<1>6. Flows' = (Flows \ {u}) \cup {f}
  BY <1>1, <1>5 DEF Flows, u
<1> QED BY <1>4, <1>6 DEF u, f

LEMMA FlowEnded ==
  ASSUME TypeOK, FlowsOrdered, NEW i \in DOMAIN unacked, unacked' = Remove(unacked, i)
  PROVE  Flows' = Flows \ {unacked[i]} /\ FlowsOrdered'
<1> DEFINE n == Len(unacked)
<1>1. n \in Nat /\ DOMAIN unacked = 1..n /\ i \in 1..n
  BY LenProperties DEF TypeOK
<1>2. /\ DOMAIN unacked' = 1..(n - 1)
      /\ \A j \in 1..(n - 1) : unacked'[j] = IF j < i THEN unacked[j] ELSE unacked[j + 1]
  BY DEF Remove
<1> HIDE DEF n
<1>3. \A j \in 1..(n - 1) : \E x \in 1..n : /\ x = (IF j < i THEN j ELSE j + 1)
                                             /\ unacked'[j] = unacked[x] /\ x # i
  BY <1>1, <1>2
<1>4. \A x \in 1..n : x # i => \E j \in 1..(n - 1) : unacked'[j] = unacked[x]
  <2> TAKE x \in 1..n
  <2>1. CASE x < i
    <3>1. x \in 1..(n - 1)
      BY <1>1, <2>1
    <3> QED BY <1>2, <2>1, <3>1
  <2>2. CASE i < x
    <3>1. x - 1 \in 1..(n - 1) /\ ~(x - 1 < i) /\ (x - 1) + 1 = x
      BY <1>1, <2>2
    <3> QED BY <1>2, <3>1
  <2> QED BY <1>1, <2>1, <2>2
<1>5. \A j \in 1..n : j # i => unacked[j] # unacked[i]
  <2>1. \A j \in 1..n : j # i => j < i \/ i < j
    BY <1>1
  <2> QED BY <1>1, <2>1 DEF FlowsOrdered
<1>6. Flows' = Flows \ {unacked[i]}
  <2>1. \A v \in Flows' : v \in Flows \ {unacked[i]}
    BY <1>1, <1>2, <1>3, <1>5 DEF Flows
  <2>2. \A v \in Flows \ {unacked[i]} : v \in Flows'
    BY <1>1, <1>2, <1>4 DEF Flows
  <2> QED BY <2>1, <2>2
<1>7. ASSUME NEW a \in 1..(n - 1), NEW b \in 1..(n - 1), a < b
      PROVE  unacked'[a].id # unacked'[b].id /\ unacked'[a].pub < unacked'[b].pub
  <2>1. PICK x \in 1..n : x = (IF a < i THEN a ELSE a + 1) /\ unacked'[a] = unacked[x]
    BY <1>3
  <2>2. PICK y \in 1..n : y = (IF b < i THEN b ELSE b + 1) /\ unacked'[b] = unacked[y]
    BY <1>3
  <2>3. x < y
    BY <1>1, <1>7, <2>1, <2>2
  <2> QED BY <1>1, <2>1, <2>2, <2>3 DEF FlowsOrdered
<1> QED BY <1>2, <1>6, <1>7 DEF FlowsOrdered

-----------------------------------------------------------------------------
(* What a step must leave alone *)

LEMMA ArrivalStep ==
  ASSUME NEW p, ArrivalTrue(p),
         \A u \in Flows : u.id = IdOf(p) => u \in Flows',
         \A k : QoS(k, 0) => QoS(k, 0)',
         p.type = "PUBLISH" /\ p.msg.qos = 0 => (Held(p.msg.pub)' => Held(p.msg.pub))
  PROVE  ArrivalTrue(p)'
<1>1. CASE p.type = "PUBLISH"
  <2>1. IdOf(p) = p.msg.id
    BY <1>1 DEF IdOf
  <2> QED BY <1>1, <2>1 DEF ArrivalTrue
<1>2. CASE p.type = "PUBREL"
  <2>1. IdOf(p) = p.id
    BY <1>2 DEF IdOf
  <2> QED BY <1>2, <2>1 DEF ArrivalTrue
<1> QED BY <1>1, <1>2 DEF ArrivalTrue

LEMMA AnswerStep ==
  ASSUME NEW a, AnswerTrue(a),
         \A u \in Flows : u.id = a.id => u \in Flows',
         \A k : Held(k) => Held(k)',
         \A m \in inboundMsgs : m.id = a.id /\ a.type = "PUBREC" => m \in inboundMsgs'
  PROVE  AnswerTrue(a)'
<1>1. PICK u \in Flows :
        /\ u.id = a.id
        /\ a.type = "PUBACK" => u.qos = 1 /\ Held(u.pub)
        /\ a.type = "PUBREC" => u.qos = 2 /\ ~u.released /\ [id |-> u.id, pub |-> u.pub] \in inboundMsgs
        /\ a.type = "PUBCOMP" => u.released /\ Held(u.pub)
  BY DEF AnswerTrue
<1>2. a.type = "PUBREC" => [id |-> u.id, pub |-> u.pub] \in inboundMsgs'
  <2>1. [id |-> u.id, pub |-> u.pub].id = u.id
    OBVIOUS
  <2> QED BY <1>1, <2>1
<1>3. u \in Flows' /\ (Held(u.pub) => Held(u.pub)')
  BY <1>1
<1> QED BY <1>1, <1>2, <1>3 DEF AnswerTrue

LEMMA FlowStep ==
  ASSUME NEW u, FlowTrue(u),
         \A k, q : QoS(k, q) => QoS(k, q)',
         Held(u.pub) => Held(u.pub)',
         u.qos = 2 /\ ~u.released /\ Held(u.pub)' => Held(u.pub),
         u.released /\ [id |-> u.id, pub |-> u.pub] \in inboundMsgs =>
           [id |-> u.id, pub |-> u.pub] \in inboundMsgs' \/ Held(u.pub)'
  PROVE  FlowTrue(u)'
<1>1. QoS(u.pub, u.qos)'
  BY DEF FlowTrue
<1> QED BY <1>1 DEF FlowTrue

LEMMA ListedStep ==
  ASSUME NEW m, ListedTrue(m),
         Releasing(m.id) => Releasing(m.id)',
         Held(m.pub)' => Held(m.pub) \/ Releasing(m.id)',
         \A u \in Flows : u.id = m.id /\ u.pub = m.pub =>
           \E v \in Flows' : v.id = u.id /\ v.qos = u.qos /\ v.pub = u.pub
  PROVE  ListedTrue(m)'
<1>1. CASE Releasing(m.id)
  BY <1>1 DEF ListedTrue
<1>2. CASE ~Releasing(m.id) /\ ~Releasing(m.id)'
  <2>1. ~Held(m.pub)'
    BY <1>2 DEF ListedTrue
  <2>2. PICK u \in Flows : u.id = m.id /\ u.qos = 2 /\ u.pub = m.pub
    BY <1>2 DEF ListedTrue
  <2>3. \E v \in Flows' : v.id = m.id /\ v.qos = 2 /\ v.pub = m.pub
    BY <2>2
  <2> QED BY <2>1, <2>3 DEF ListedTrue
<1> QED BY <1>1, <1>2 DEF ListedTrue

LEMMA PartsAmong ==
  ASSUME Part(Incoming', Incoming), Part(c2b', c2b)
  PROVE  (\A p \in Arriving' : p \in Arriving) /\ (\A a \in Answers' : a \in Answers)
BY PartElements DEF Arriving, Answers

\* A step that takes packets off, and leaves the flows and the list alone.
LEMMA QuietStep ==
  ASSUME FlightInv, UNCHANGED <<unacked, inboundMsgs>>,
         Part(Incoming', Incoming), Part(c2b', c2b),
         \A k, q : QoS(k, q) => QoS(k, q)',
         \A k : Held(k)' <=> Held(k),
         \A id : Releasing(id)' <=> Releasing(id)
  PROVE  NetMatch'
<1>1. OnePacket' /\ FlowsOrdered'
  <2>1. OnePacket /\ FlowsOrdered
    BY DEF FlightInv, NetMatch
  <2> QED BY <2>1, FewerPackets DEF OnePacket, FlowsOrdered
<1>2. Flows' = Flows /\ inboundMsgs' = inboundMsgs
  BY DEF Flows
<1>3. \A p \in Arriving' : ArrivalTrue(p)'
  <2> TAKE p \in Arriving'
  <2>1. ArrivalTrue(p)
    BY PartsAmong DEF FlightInv, NetMatch
  <2> QED BY <1>2, <2>1, ArrivalStep
<1>4. \A a \in Answers' : AnswerTrue(a)'
  <2> TAKE a \in Answers'
  <2>1. AnswerTrue(a)
    BY PartsAmong DEF FlightInv, NetMatch
  <2> QED BY <1>2, <2>1, AnswerStep
<1>5. \A u \in Flows' : FlowTrue(u)'
  <2> TAKE u \in Flows'
  <2>1. FlowTrue(u)
    BY <1>2 DEF FlightInv, NetMatch
  <2> QED BY <1>2, <2>1, FlowStep
<1>6. \A m \in inboundMsgs' : ListedTrue(m)'
  <2> TAKE m \in inboundMsgs'
  <2>1. ListedTrue(m)
    BY <1>2 DEF FlightInv, NetMatch
  <2> QED BY <1>2, <2>1, ListedStep
<1> QED BY <1>1, <1>3, <1>4, <1>5, <1>6 DEF NetMatch

\* Where the thread is not between a packet and the queue, its hands are empty.
LEMMA IdleHand ==
  ASSUME step \notin {"pubrec", "process", "release", "forget"}
  PROVE  HandMatch /\ Incoming = b2c /\ (\A k : ~InHand(k)) /\ (\A id : ~Releasing(id))
BY DEF HandMatch, Incoming, InHand, Releasing

LEMMA IncomingType ==
  ASSUME TypeOK, HandMatch PROVE Incoming \in Seq(Packet) /\ c2b \in Seq(Ack)
<1>1. CASE step = "pubrec"
  <2>1. [type |-> "PUBLISH", msg |-> cur] \in Packet
    BY <1>1 DEF HandMatch, Packet
  <2> QED BY <1>1, <2>1, InFrontFacts DEF Incoming, TypeOK
<1> QED BY <1>1 DEF Incoming, TypeOK

\* The history of a message that is only handed over or settled.
LEMMA HandOverFacts ==
  ASSUME TypeOK, NEW pub \in DOMAIN ledger, HandOver(pub)
  PROVE  /\ DOMAIN ledger' = DOMAIN ledger
         /\ ledger'[pub].got = ledger[pub].got + 1 /\ ledger[pub].got \in Nat
         /\ \A k \in DOMAIN ledger : /\ ledger'[k].qos = ledger[k].qos /\ ledger'[k].fate = ledger[k].fate
                                     /\ k # pub => ledger'[k].got = ledger[k].got
<1>1. \A k \in DOMAIN ledger : ledger[k] \in Entry
  BY ElementOfSeq DEF TypeOK
<1>2. ledger' = [k \in DOMAIN ledger |-> IF k = pub THEN [ledger[k] EXCEPT !.got = @ + 1] ELSE ledger[k]]
  BY DEF HandOver, TypeOK
<1>3. \A k \in DOMAIN ledger : LET e == [ledger[k] EXCEPT !.got = @ + 1]
                               IN e.qos = ledger[k].qos /\ e.fate = ledger[k].fate /\ e.got = ledger[k].got + 1
  BY <1>1 DEF Entry
<1>4. \A k \in DOMAIN ledger : ledger[k].got \in Nat
  BY <1>1 DEF Entry
<1> QED BY <1>2, <1>3, <1>4

-----------------------------------------------------------------------------
(* Steps that hand nothing on *)

\* Neither queue nor history change, and no message is in hand before or after,
\* or the thread does not take part.
LEMMA PassiveStep ==
  ASSUME FlightInv, TypeOK', Kept', CalledIsQueued',
         UNCHANGED <<unacked, inboundMsgs, messageQueue, ledger>>,
         Part(Incoming', Incoming), Part(c2b', c2b),
         \/ {step, step'} \cap {"pubrec", "process", "release", "forget"} = {}
         \/ UNCHANGED <<step, cur>>
  PROVE  FlightInv'
<1>1. \A k : InHand(k)' <=> InHand(k)
  BY DEF InHand
<1>2. /\ \A id : Releasing(id)' <=> Releasing(id)
      /\ \A k : (Got(k)' <=> Got(k)) /\ (InQueue(k)' <=> InQueue(k))
      /\ \A k, q : QoS(k, q)' <=> QoS(k, q)
  BY DEF Releasing, Got, InQueue, QoS
<1>3. \A k : Held(k)' <=> Held(k)
  BY <1>1, <1>2 DEF Held
<1>4. NetMatch'
  BY <1>2, <1>3, QuietStep
<1>5. HandMatch'
  <2>1. CASE {step, step'} \cap {"pubrec", "process", "release", "forget"} = {}
    BY <2>1 DEF HandMatch, Releasing
  <2>2. CASE UNCHANGED <<step, cur>>
    <3>1. HandMatch /\ Flows' = Flows
      BY DEF FlightInv, Flows
    <3>2. \A a \in Answers' : Releasing(a.id)' => a.type # "PUBREC"
      BY <1>2, <3>1, PartsAmong DEF HandMatch
    <3>3. \A u \in Flows' : Releasing(u.id)' /\ u.released => u.pub = cur'.pub
      BY <1>2, <2>2, <3>1 DEF HandMatch
    <3>4. /\ (step = "pubrec" => cur \in Msg /\ cur.qos = 2)'
          /\ (step = "process" => QoS(cur.pub, 1))'
          /\ (step = "release" => QoS(cur.pub, 2) /\ ~Got(cur.pub) /\ ~InQueue(cur.pub))'
          /\ (step = "forget" => InQueue(cur.pub))'
      BY <2>2, <3>1 DEF HandMatch, QoS, Got, InQueue
    <3> QED BY <3>2, <3>3, <3>4 DEF HandMatch
  <2> QED BY <2>1, <2>2
<1>6. QueueMatch' /\ SettledHeld' /\ NeverTwice'
  BY <1>3 DEF FlightInv, QueueMatch, SettledHeld, NeverTwice
<1> QED BY <1>4, <1>5, <1>6 DEF FlightInv

LEMMA PrefixInFront ==
  ASSUME NEW S, NEW s \in Seq(S), NEW e \in S, NEW n \in 0..Len(s)
  PROVE  /\ Part(<<e>> \o SubSeq(s, 1, n), <<e>> \o s)
         /\ \A i \in DOMAIN (<<e>> \o SubSeq(s, 1, n)) :
              i \in DOMAIN (<<e>> \o s) /\ (<<e>> \o SubSeq(s, 1, n))[i] = (<<e>> \o s)[i]
<1> DEFINE r == SubSeq(s, 1, n)
<1>1. r \in Seq(S) /\ Len(r) = n /\ \A i \in 1..n : r[i] = s[i]
  BY LenProperties
<1>2. <<e>> \in Seq(S) /\ Len(<<e>>) = 1 /\ <<e>>[1] = e /\ Len(s) \in Nat
  BY LenProperties
<1> HIDE DEF r
<1>3. /\ Len(<<e>> \o r) = 1 + n /\ (<<e>> \o r)[1] = e
      /\ \A i \in 1..n : (<<e>> \o r)[i + 1] = r[i]
      /\ <<e>> \o r \in Seq(S)
  BY <1>1, <1>2, ConcatProperties
<1>4. /\ Len(<<e>> \o s) = 1 + Len(s) /\ (<<e>> \o s)[1] = e
      /\ \A i \in 1..Len(s) : (<<e>> \o s)[i + 1] = s[i]
      /\ <<e>> \o s \in Seq(S)
  BY <1>2, ConcatProperties
<1>5. DOMAIN (<<e>> \o r) = 1..(n + 1) /\ DOMAIN (<<e>> \o s) = 1..(Len(s) + 1)
  BY <1>2, <1>3, <1>4, LenProperties
<1>6. \A i \in 1..(n + 1) : i = 1 \/ (i - 1 \in 1..n /\ i - 1 \in 1..Len(s) /\ (i - 1) + 1 = i)
  BY <1>2
<1>7. \A i \in 1..(n + 1) : /\ i \in Nat \ {0} /\ i + 0 = i /\ i \in 1..(Len(s) + 1)
                            /\ (<<e>> \o r)[i] = (<<e>> \o s)[i]
  BY <1>1, <1>2, <1>3, <1>4, <1>6
<1>8. Part(<<e>> \o r, <<e>> \o s)
  BY <1>5, <1>7 DEF Part
<1>9. \A i \in DOMAIN (<<e>> \o r) : i \in DOMAIN (<<e>> \o s) /\ (<<e>> \o r)[i] = (<<e>> \o s)[i]
  BY <1>5, <1>7
<1> QED BY <1>8, <1>9 DEF r

LEMMA PassiveFlight ==
  ASSUME FlightInv, Steady, TypeOK',
         handlePingresps \/ readFails \/ callMessageArrived \/ disconnect \/ disconnect_internal \/ linkBreaks
  PROVE  FlightInv'
<1>t. /\ TypeOK /\ Kept /\ HandMatch /\ CalledIsQueued
      /\ b2c \in Seq(Packet) /\ c2b \in Seq(Ack)
  BY DEF FlightInv, TypeOK
<1>p. Part(c2b, c2b) /\ Part(b2c, b2c) /\ Part(<<>>, b2c) /\ Part(<<>>, c2b) /\ (b2c # <<>> => Part(Tail(b2c), b2c))
  BY <1>t, PartFacts
<1>1. CASE handlePingresps
  <2>1. step = "idle" /\ b2c # <<>> /\ b2c' = Tail(b2c) /\ step' \in {"call", "idle"}
    BY <1>1 DEF handlePingresps, Receive, EndOfCycle
  <2>2. UNCHANGED <<unacked, inboundMsgs, messageQueue, ledger, connected, cleansession, version, link, c2b>>
    BY <1>1 DEF handlePingresps, memory, conn
  <2>3. Part(Incoming', Incoming)
    BY <1>p, <2>1 DEF Incoming
  <2>4. Kept' /\ CalledIsQueued'
    BY <1>t, <2>1, <2>2 DEF Kept, CalledIsQueued
  <2> QED BY <1>p, <2>1, <2>2, <2>3, <2>4, PassiveStep
<1>2. CASE readFails
  <2>1. step = "idle" /\ step' = "error"
        /\ UNCHANGED <<unacked, inboundMsgs, messageQueue, ledger, connected, cleansession, version, link, c2b, b2c>>
    BY <1>2 DEF readFails, memory, conn, network
  <2>2. Part(Incoming', Incoming) /\ Kept' /\ CalledIsQueued'
    BY <1>t, <1>p, <2>1 DEF Incoming, Kept, CalledIsQueued
  <2> QED BY <1>p, <2>1, <2>2, PassiveStep
<1>3. CASE callMessageArrived
  <2>1. step = "call" /\ step' \in {"called", "idle"}
        /\ UNCHANGED <<unacked, inboundMsgs, messageQueue, ledger, connected, cleansession, version, link, c2b, b2c>>
    BY <1>3 DEF callMessageArrived, memory, conn, network
  <2>2. Part(Incoming', Incoming) /\ Kept'
    BY <1>t, <1>p, <2>1 DEF Incoming, Kept
  <2>3. CalledIsQueued'
    BY <1>3, <2>1 DEF callMessageArrived, CalledIsQueued
  <2> QED BY <1>p, <2>1, <2>2, <2>3, PassiveStep
<1>4. ASSUME closeSession, step \notin {"pubrec", "process", "release", "forget"},
             step' \in {step, "idle"}, UNCHANGED cur
      PROVE  FlightInv'
  <2>1. /\ connected' = FALSE /\ link' = FALSE /\ b2c' = <<>>
        /\ UNCHANGED <<unacked, inboundMsgs, messageQueue, ledger, cleansession, c2b>>
    BY <1>4, <1>t, KeptClose DEF Kept, memory
  <2>2. Part(Incoming', Incoming) /\ Kept' /\ CalledIsQueued'
    BY <1>4, <1>t, <1>p, <2>1 DEF Incoming, Kept, CalledIsQueued
  <2>3. {step, step'} \cap {"pubrec", "process", "release", "forget"} = {}
    BY <1>4
  <2> QED BY <1>p, <2>1, <2>2, <2>3, PassiveStep
<1>5. CASE disconnect
  BY <1>4, <1>5 DEF disconnect, thread
<1>6. CASE disconnect_internal
  <2>1. CASE connected
    BY <1>4, <1>6, <2>1 DEF disconnect_internal
  <2>2. CASE ~connected
    <3>1. step \in {"error", "failed"} /\ step' = "idle"
          /\ UNCHANGED <<unacked, inboundMsgs, messageQueue, ledger, connected, cleansession, version, link, c2b, b2c>>
      BY <1>6, <2>2 DEF disconnect_internal, memory, conn, network
    <3>2. Part(Incoming', Incoming) /\ Kept' /\ CalledIsQueued'
      BY <1>t, <1>p, <3>1 DEF Incoming, Kept, CalledIsQueued
    <3> QED BY <1>p, <3>1, <3>2, PassiveStep
  <2> QED BY <2>1, <2>2
<1>7. CASE linkBreaks
  <2>1. PICK n \in 0..Len(b2c) : b2c' = SubSeq(b2c, 1, n)
    BY <1>7 DEF linkBreaks
  <2>2. link' = FALSE /\ c2b' = <<>>
        /\ UNCHANGED <<unacked, inboundMsgs, messageQueue, ledger, connected, cleansession, step, cur>>
    BY <1>7, <1>t DEF linkBreaks, EndBrokerSession, Kept, memory, thread, conn
  <2>3. Part(Incoming', Incoming)
    <3>1. CASE step = "pubrec"
      <4>1. [type |-> "PUBLISH", msg |-> cur] \in Packet
        BY <1>t, <3>1 DEF HandMatch, Packet
      <4> QED BY <1>t, <2>1, <2>2, <3>1, <4>1, PrefixInFront DEF Incoming
    <3>2. CASE step # "pubrec"
      BY <1>t, <2>1, <2>2, <3>2, PartFacts DEF Incoming
    <3> QED BY <3>1, <3>2
  <2>4. Kept' /\ CalledIsQueued'
    BY <1>t, <2>2 DEF Kept, CalledIsQueued
  <2> QED BY <1>p, <2>2, <2>3, <2>4, PassiveStep
<1> QED BY <1>1, <1>2, <1>3, <1>5, <1>6, <1>7

-----------------------------------------------------------------------------
(* The application takes a message *)

LEMMA TakenStep ==
  ASSUME FlightInv, TypeOK', messageQueue # <<>>,
         messageQueue' = Tail(messageQueue), HandOver(Head(messageQueue).pub),
         UNCHANGED <<unacked, inboundMsgs, b2c, c2b, connected, cleansession, link>>,
         {step, step'} \cap {"pubrec", "process", "release", "forget"} = {}, step' # "called"
  PROVE  FlightInv'
<1> DEFINE pub == Head(messageQueue).pub
<1>t. TypeOK /\ messageQueue \in Seq(QEntry) /\ QueueMatch
  BY DEF FlightInv, TypeOK
<1>1. /\ 1 \in DOMAIN messageQueue /\ Head(messageQueue) = messageQueue[1]
      /\ \A i \in DOMAIN messageQueue' : /\ i \in Nat \ {0} /\ i + 1 \in DOMAIN messageQueue
                                         /\ messageQueue'[i] = messageQueue[i + 1]
      /\ \A i \in DOMAIN messageQueue : i # 1 => i - 1 \in DOMAIN messageQueue' /\ messageQueue'[i - 1] = messageQueue[i]
  BY <1>t, TailFacts
<1>2. pub \in DOMAIN ledger
  BY <1>t, <1>1 DEF QueueMatch
<1>3. HandOver(pub)
  OBVIOUS
<1>h. pub = messageQueue[1].pub
  BY <1>1
<1> HIDE DEF pub
<1>4. /\ DOMAIN ledger' = DOMAIN ledger
      /\ ledger'[pub].got = ledger[pub].got + 1 /\ ledger[pub].got \in Nat
      /\ \A k \in DOMAIN ledger : /\ ledger'[k].qos = ledger[k].qos /\ ledger'[k].fate = ledger[k].fate
                                  /\ k # pub => ledger'[k].got = ledger[k].got
  BY <1>t, <1>2, <1>3, HandOverFacts
<1>5. \A k : Got(k)' <=> Got(k) \/ k = pub
  BY <1>2, <1>4 DEF Got
<1>6. \A k : InQueue(k) <=> InQueue(k)' \/ k = pub
  <2>1. ASSUME NEW k, InQueue(k)' PROVE InQueue(k)
    <3>1. PICK i \in DOMAIN messageQueue' : messageQueue'[i].pub = k
      BY <2>1, Zenon DEF InQueue
    <3>2. i + 1 \in DOMAIN messageQueue /\ messageQueue[i + 1].pub = k
      BY <1>1, <3>1
    <3> QED BY <3>2, Zenon DEF InQueue
  <2>2. InQueue(pub)
    BY <1>1, <1>h, Zenon DEF InQueue
  <2>3. ASSUME NEW k, InQueue(k), k # pub PROVE InQueue(k)'
    <3>1. PICK i \in DOMAIN messageQueue : messageQueue[i].pub = k
      BY <2>3, Zenon DEF InQueue
    <3>2. i # 1
      BY <1>h, <2>3, <3>1
    <3>3. i - 1 \in DOMAIN messageQueue' /\ messageQueue'[i - 1].pub = k
      BY <1>1, <3>1, <3>2
    <3> QED BY <3>3, Zenon DEF InQueue
  <2> QED BY <2>1, <2>2, <2>3, Zenon
<1>7. \A k : (InHand(k)' <=> InHand(k)) /\ (Releasing(k)' <=> Releasing(k))
  BY DEF InHand, Releasing
<1>8. \A k : Held(k)' <=> Held(k)
  BY <1>5, <1>6, <1>7 DEF Held
<1>9. \A k, q : QoS(k, q) => QoS(k, q)'
  BY <1>4 DEF QoS
<1>10. NetMatch'
  <2>1. Part(c2b, c2b) /\ Part(b2c, b2c)
    BY <1>t, PartFacts DEF TypeOK
  <2>2. Part(Incoming', Incoming)
    BY <2>1 DEF Incoming
  <2> QED BY <1>7, <1>8, <1>9, <2>1, <2>2, QuietStep
<1>11. HandMatch' /\ Kept' /\ CalledIsQueued'
  BY DEF HandMatch, Releasing, FlightInv, Kept, CalledIsQueued
<1>12. QueueMatch'
  <2> SUFFICES ASSUME NEW i \in DOMAIN messageQueue'
               PROVE  LET k == messageQueue'[i].pub
                      IN /\ k \in DOMAIN ledger'
                         /\ ledger'[k].qos # 1 =>
                              ledger'[k].got = 0 /\ \A j \in DOMAIN messageQueue' : j # i => messageQueue'[j].pub # k
    BY DEF QueueMatch
  <2> DEFINE k == messageQueue'[i].pub
  <2>1. i \in Nat \ {0} /\ i + 1 \in DOMAIN messageQueue /\ k = messageQueue[i + 1].pub /\ i + 1 # 1
    BY <1>1
  <2>2. /\ k \in DOMAIN ledger
        /\ ledger[k].qos # 1 => ledger[k].got = 0 /\ \A j \in DOMAIN messageQueue : j # i + 1 => messageQueue[j].pub # k
    BY <1>t, <2>1 DEF QueueMatch
  <2> HIDE DEF k
  <2>3. ledger[k].qos # 1 => k # pub
    BY <1>1, <1>h, <2>1, <2>2
  <2>4. ASSUME ledger[k].qos # 1, NEW j \in DOMAIN messageQueue', j # i PROVE messageQueue'[j].pub # k
    <3>1. j + 1 \in DOMAIN messageQueue /\ messageQueue'[j] = messageQueue[j + 1] /\ j + 1 # i + 1
      BY <1>1, <2>1, <2>4
    <3> QED BY <2>2, <2>4, <3>1
  <2> QED BY <1>4, <2>2, <2>3, <2>4 DEF k
<1>13. SettledHeld'
  BY <1>4, <1>8 DEF FlightInv, SettledHeld
<1>14. NeverTwice'
  <2>1. ledger[pub].qos # 1 => ledger[pub].got = 0
    BY <1>t, <1>1, <1>h DEF QueueMatch
  <2>2. \A k \in DOMAIN ledger : ledger[k].qos # 1 => ledger[k].got <= 1
    BY DEF FlightInv, NeverTwice
  <2> QED BY <1>4, <2>1, <2>2 DEF NeverTwice
<1> QED BY <1>10, <1>11, <1>12, <1>13, <1>14 DEF FlightInv

LEMMA ApplicationFlight ==
  ASSUME FlightInv, TypeOK', receive \/ \E accepted \in BOOLEAN : messageArrived(accepted)
  PROVE  FlightInv'
<1>t. /\ TypeOK /\ Kept /\ CalledIsQueued /\ messageQueue \in Seq(QEntry)
      /\ b2c \in Seq(Packet) /\ c2b \in Seq(Ack)
  BY DEF FlightInv, TypeOK
<1>1. CASE receive
  <2>1. /\ messageQueue # <<>> /\ messageQueue' = Tail(messageQueue) /\ HandOver(Head(messageQueue).pub)
        /\ step \in {"idle", "error"} /\ step' \in {"idle", "failed"}
        /\ UNCHANGED <<unacked, inboundMsgs, b2c, c2b, connected, cleansession, link>>
    BY <1>1 DEF receive, deliverMessage, conn, network
  <2> QED BY <2>1, TakenStep
<1>2. ASSUME messageArrived(TRUE) PROVE FlightInv'
  <2>1. /\ step = "called" /\ step' = "idle" /\ HandOver(cur.pub)
        /\ messageQueue' = WithoutFirst
        /\ UNCHANGED <<unacked, inboundMsgs, b2c, c2b, connected, cleansession, link>>
    BY <1>2 DEF messageArrived, conn, network
  <2>2. messageQueue # <<>> /\ cur.pub = Head(messageQueue).pub
    BY <1>t, <2>1 DEF CalledIsQueued
  <2>3. messageQueue' = Tail(messageQueue) /\ HandOver(Head(messageQueue).pub)
    BY <2>1, <2>2 DEF WithoutFirst, HandOver
  <2> QED BY <2>1, <2>2, <2>3, TakenStep
<1>3. ASSUME messageArrived(FALSE) PROVE FlightInv'
  <2>1. /\ step = "called" /\ step' = "idle"
        /\ UNCHANGED <<unacked, inboundMsgs, messageQueue, ledger, b2c, c2b, connected, cleansession, link>>
    BY <1>3 DEF messageArrived, conn, network
  <2>2. Part(c2b', c2b) /\ Part(Incoming', Incoming)
    BY <1>t, <2>1, PartFacts DEF Incoming
  <2>3. Kept' /\ CalledIsQueued'
    BY <1>t, <2>1 DEF Kept, CalledIsQueued
  <2> QED BY <2>1, <2>2, <2>3, PassiveStep
<1> QED BY <1>1, <1>2, <1>3

-----------------------------------------------------------------------------
(* Messages are queued *)

LEMMA EnqueueFlight ==
  ASSUME TypeOK, QueueMatch, NEW m, Enqueue(m), UNCHANGED ledger,
         m.pub \in DOMAIN ledger,
         ledger[m.pub].qos # 1 => ledger[m.pub].got = 0 /\ ~InQueue(m.pub)
  PROVE  /\ QueueMatch'
         /\ \A k : InQueue(k)' <=> InQueue(k) \/ k = m.pub
<1> DEFINE e == [seqno |-> qentry_seqno + 1, qos |-> m.qos, pub |-> m.pub]
           n == Len(messageQueue) + 1
<1>1. messageQueue' = Append(messageQueue, e) /\ e.pub = m.pub
  BY DEF Enqueue
<1>2. messageQueue \in Seq(QEntry)
  BY DEF TypeOK
<1> HIDE DEF e
<1>3. /\ DOMAIN messageQueue' = DOMAIN messageQueue \cup {n} /\ n \notin DOMAIN messageQueue
      /\ \A i \in DOMAIN messageQueue : messageQueue'[i] = messageQueue[i]
      /\ messageQueue'[n] = e
  BY <1>1, <1>2, AppendFacts
<1> HIDE DEF n
<1>4. \A k : InQueue(k)' <=> InQueue(k) \/ k = m.pub
  BY <1>1, <1>3 DEF InQueue
<1>5. QueueMatch'
  <2> SUFFICES ASSUME NEW i \in DOMAIN messageQueue'
               PROVE  LET k == messageQueue'[i].pub
                      IN /\ k \in DOMAIN ledger'
                         /\ ledger'[k].qos # 1 =>
                              ledger'[k].got = 0 /\ \A j \in DOMAIN messageQueue' : j # i => messageQueue'[j].pub # k
    BY DEF QueueMatch
  <2>1. CASE i = n
    BY <1>1, <1>3, <2>1 DEF InQueue
  <2>2. CASE i \in DOMAIN messageQueue
    <3> DEFINE k == messageQueue[i].pub
    <3>1. /\ k \in DOMAIN ledger
          /\ ledger[k].qos # 1 => ledger[k].got = 0 /\ \A j \in DOMAIN messageQueue : j # i => messageQueue[j].pub # k
      BY <2>2 DEF QueueMatch
    <3>2. ledger[k].qos # 1 => k # m.pub
      BY <2>2 DEF InQueue
    <3> HIDE DEF k
    <3>3. messageQueue'[i].pub = k
      BY <1>3, <2>2 DEF k
    <3> QED BY <1>1, <1>3, <3>1, <3>2, <3>3
  <2> QED BY <1>3, <2>1, <2>2
<1> QED BY <1>4, <1>5

\* A message comes into the hands of the thread or into the queue.
LEMMA NewlyHeld ==
  ASSUME FlightInv, NEW N, UNCHANGED <<unacked, inboundMsgs, ledger>>, OnePacket',
         \A p \in Arriving' : p \in Arriving,
         \A a \in Answers' : a \in Answers \/ AnswerTrue(a)',
         \A k : Held(k)' <=> Held(k) \/ k \in N,
         \A id : ~Releasing(id),
         \A p \in Arriving' : p.type = "PUBLISH" /\ p.msg.qos = 0 => p.msg.pub \notin N,
         \A u \in Flows : u.qos = 2 /\ ~u.released => u.pub \notin N,
         \A m \in inboundMsgs : m.pub \in N => Releasing(m.id)'
  PROVE  NetMatch' /\ SettledHeld' /\ NeverTwice'
<1>1. FlowsOrdered' /\ Flows' = Flows /\ \A k, q : QoS(k, q)' <=> QoS(k, q)
  BY DEF FlightInv, NetMatch, FlowsOrdered, Flows, QoS
<1>3. \A p \in Arriving' : ArrivalTrue(p)'
  <2> TAKE p \in Arriving'
  <2>1. ArrivalTrue(p)
    BY DEF FlightInv, NetMatch
  <2> QED BY <1>1, <2>1, ArrivalStep
<1>4. \A a \in Answers' : AnswerTrue(a)'
  <2> TAKE a \in Answers'
  <2>1. AnswerTrue(a) \/ AnswerTrue(a)'
    BY DEF FlightInv, NetMatch
  <2> QED BY <1>1, <2>1, AnswerStep
<1>5. \A u \in Flows' : FlowTrue(u)'
  <2> TAKE u \in Flows'
  <2>1. FlowTrue(u)
    BY <1>1 DEF FlightInv, NetMatch
  <2> QED BY <1>1, <2>1, FlowStep
<1>6. \A m \in inboundMsgs' : ListedTrue(m)'
  <2> TAKE m \in inboundMsgs'
  <2>1. ListedTrue(m)
    BY DEF FlightInv, NetMatch
  <2> QED BY <1>1, <2>1, ListedStep
<1>7. SettledHeld' /\ NeverTwice'
  BY DEF FlightInv, SettledHeld, NeverTwice
<1> QED BY <1>1, <1>3, <1>4, <1>5, <1>6, <1>7 DEF NetMatch

\* The packet the thread reads: the first of those under way, and what follows it.
LEMMA ReceiveFacts ==
  ASSUME FlightInv, NEW type, Receive(type)
  PROVE  /\ step = "idle" /\ Incoming = b2c /\ b2c # <<>> /\ b2c \in Seq(Packet) /\ c2b \in Seq(Ack)
         /\ Head(b2c) \in Arriving /\ ArrivalTrue(Head(b2c)) /\ Head(b2c) \in Packet /\ Head(b2c).type = type
         /\ b2c' = Tail(b2c) /\ Part(b2c', b2c) /\ Part(c2b, c2b)
         /\ \A i \in DOMAIN b2c' : Apart(b2c'[i], Head(b2c))
         /\ \A i \in DOMAIN b2c' : b2c'[i] \in Arriving /\ b2c'[i] \in Packet
         /\ \A i \in DOMAIN c2b : c2b[i].id # IdOf(Head(b2c))
         /\ OnePacketIn(b2c', c2b)
         /\ \A k : ~InHand(k) /\ ~Releasing(k)
<1>1. /\ step = "idle" /\ b2c # <<>> /\ Head(b2c).type = type /\ b2c' = Tail(b2c)
      /\ b2c \in Seq(Packet) /\ c2b \in Seq(Ack)
  BY DEF Receive, FlightInv, TypeOK
<1>2. Incoming = b2c /\ (\A k : ~InHand(k) /\ ~Releasing(k))
  BY <1>1 DEF Incoming, InHand, Releasing
<1>3. Part(b2c', b2c) /\ Part(c2b, c2b)
  BY <1>1, PartFacts
<1>4. Head(b2c) \in Arriving /\ ArrivalTrue(Head(b2c)) /\ Head(b2c) \in Packet
  <2>1. 1 \in DOMAIN b2c /\ Head(b2c) = b2c[1] /\ Head(b2c) \in Packet
    BY <1>1, TailFacts
  <2> QED BY <1>2, <2>1 DEF Arriving, FlightInv, NetMatch
<1>5. OnePacketIn(b2c, c2b)
  BY <1>2 DEF FlightInv, NetMatch, OnePacket
<1>6. /\ \A i \in DOMAIN b2c' : Apart(b2c'[i], Head(b2c))
      /\ \A i \in DOMAIN c2b : c2b[i].id # IdOf(Head(b2c))
  BY <1>1, <1>5, FirstIn
<1>7. \A i \in DOMAIN b2c' : b2c'[i] \in Arriving /\ b2c'[i] \in Packet
  <2>1. \A i \in DOMAIN b2c : b2c[i] \in Packet
    BY <1>1, ElementOfSeq
  <2> QED BY <1>2, <1>3, <2>1, PartElements DEF Arriving
<1>8. OnePacketIn(b2c', c2b)
  BY <1>3, <1>5, FewerPackets
<1> QED BY <1>1, <1>2, <1>3, <1>4, <1>6, <1>7, <1>8

LEMMA IdFacts ==
  /\ \A p \in Packet : p.type = "PUBLISH" => /\ IdOf(p) = p.msg.id
                                             /\ p.msg.qos = 0 <=> IdOf(p) = 0
                                             /\ p.msg.qos > 0 <=> IdOf(p) \in MsgIds
  /\ \A p \in Packet : p.type = "PUBREL" => IdOf(p) = p.id /\ IdOf(p) \in MsgIds
  /\ \A p \in Packet : p.type = "PINGRESP" => IdOf(p) = 0
  /\ 0 \notin MsgIds
BY DEF IdOf, Packet, Msg, MsgIds

\* An inbound message that waits has a flow of QoS 2, and its own id.
LEMMA ListedFlow ==
  ASSUME FlightInv, NEW m \in inboundMsgs, ~Releasing(m.id)
  PROVE  /\ ~Held(m.pub) /\ QoS(m.pub, 2)
         /\ \E u \in Flows : u.id = m.id /\ u.qos = 2 /\ u.pub = m.pub /\ FlowTrue(u)
BY DEF FlightInv, NetMatch, ListedTrue, FlowTrue

LEMMA Publish0Flight ==
  ASSUME FlightInv, TypeOK', handlePublish0
  PROVE  FlightInv'
<1> DEFINE p == Head(b2c)
           k0 == p.msg.pub
<1>1. Receive("PUBLISH") /\ p.msg.qos = 0 /\ Enqueue(p.msg)
      /\ step' \in {"call", "idle"}
      /\ UNCHANGED <<inboundMsgs, connected, cleansession, version, link, c2b, unacked, ledger>>
  BY DEF handlePublish0, EndOfCycle, conn
<1>2. /\ step = "idle" /\ Incoming = b2c /\ c2b \in Seq(Ack)
      /\ ArrivalTrue(p) /\ p \in Packet /\ p.type = "PUBLISH"
      /\ b2c' = Tail(b2c) /\ Part(b2c', b2c) /\ Part(c2b, c2b)
      /\ \A i \in DOMAIN b2c' : Apart(b2c'[i], p)
      /\ \A i \in DOMAIN b2c' : b2c'[i] \in Arriving /\ b2c'[i] \in Packet
      /\ OnePacketIn(b2c', c2b)
      /\ \A k : ~InHand(k) /\ ~Releasing(k)
  BY <1>1, ReceiveFacts
<1>m. k0 = p.msg.pub
  OBVIOUS
<1> HIDE DEF p, k0
<1>3. QoS(k0, 0) /\ ~Held(k0)
  BY <1>1, <1>2, <1>m DEF ArrivalTrue
<1>4. QueueMatch' /\ \A k : InQueue(k)' <=> InQueue(k) \/ k = k0
  <2>1. k0 \in DOMAIN ledger /\ ledger[k0].got = 0 /\ ~InQueue(k0)
    <3>1. ledger[k0] \in Entry
      BY <1>3, ElementOfSeq DEF QoS, FlightInv, TypeOK
    <3>2. ledger[k0].got \in Nat
      BY <3>1 DEF Entry
    <3> QED BY <1>3, <3>2 DEF QoS, Held, Got
  <2> QED BY <1>1, <1>m, <2>1, EnqueueFlight DEF FlightInv
<1>5. Incoming' = b2c' /\ \A k : ~InHand(k)'
  BY <1>1 DEF Incoming, InHand
<1>6. \A k : Held(k)' <=> Held(k) \/ k \in {k0}
  BY <1>1, <1>2, <1>4, <1>5 DEF Held, Got
<1>7. OnePacket' /\ (\A q \in Arriving' : q \in Arriving /\ q \in Packet /\ Apart(q, p)) /\ Answers' = Answers
  BY <1>1, <1>2, <1>5 DEF OnePacket, Arriving, Answers
<1>8. \A q \in Arriving' : q.type = "PUBLISH" /\ q.msg.qos = 0 => q.msg.pub \notin {k0}
  BY <1>1, <1>2, <1>7, <1>m, IdFacts DEF Apart
<1>9. \A u \in Flows : u.qos = 2 /\ ~u.released => u.pub \notin {k0}
  <2>1. \A u \in Flows : QoS(u.pub, u.qos)
    BY DEF FlightInv, NetMatch, FlowTrue
  <2> QED BY <1>3, <2>1 DEF QoS
<1>10. \A m \in inboundMsgs : m.pub \notin {k0}
  BY <1>2, <1>3, ListedFlow DEF QoS
<1>11. NetMatch' /\ SettledHeld' /\ NeverTwice'
  BY <1>1, <1>2, <1>6, <1>7, <1>8, <1>9, <1>10, NewlyHeld
<1>12. HandMatch' /\ Kept' /\ CalledIsQueued'
  BY <1>1 DEF HandMatch, Releasing, FlightInv, Kept, CalledIsQueued
<1> QED BY <1>4, <1>11, <1>12 DEF FlightInv

\* The answer, if the connection is still there, is of the flow just read.
LEMMA AnsweredOne ==
  ASSUME FlightInv, NEW type, Receive(type), NEW answer, NEW id \in MsgIds, id = IdOf(Head(b2c)),
         Send(answer, id),
         step' # "pubrec"
  PROVE  /\ OnePacket'
         /\ \A a \in Answers' : a \in Answers \/ (a.type = answer /\ a.id = id)
         /\ \A a \in Answers : a.id # id
         /\ \A q \in Arriving' : q \in Arriving /\ q \in Packet /\ Apart(q, Head(b2c))
<1> DEFINE p == Head(b2c)
           a0 == [type |-> answer, id |-> id]
<1>1. /\ Incoming = b2c /\ c2b \in Seq(Ack)
      /\ \A i \in DOMAIN b2c' : Apart(b2c'[i], p)
      /\ \A i \in DOMAIN b2c' : b2c'[i] \in Arriving /\ b2c'[i] \in Packet
      /\ \A i \in DOMAIN c2b : c2b[i].id # IdOf(p)
      /\ OnePacketIn(b2c', c2b) /\ p \in Packet
  BY ReceiveFacts
<1>2. a0.id = id /\ a0.type = answer /\ (c2b' = c2b \/ c2b' = Append(c2b, a0))
  BY DEF Send
<1>3. Incoming' = b2c'
  BY DEF Incoming
<1> HIDE DEF p, a0
<1>4. \A q \in Arriving' : q \in Arriving /\ q \in Packet /\ Apart(q, p)
  BY <1>1, <1>3 DEF Arriving
<1>i. id = IdOf(p)
  BY DEF p
<1>5. CASE c2b' = c2b
  BY <1>1, <1>3, <1>4, <1>5, <1>i DEF OnePacket, Answers, p
<1>6. CASE c2b' = Append(c2b, a0)
  <2>1. \A i \in DOMAIN b2c' : IdOf(b2c'[i]) # id
    BY <1>1, <1>i, IdFacts DEF Apart
  <2>2. OnePacketIn(b2c', Append(c2b, a0))
    BY <1>1, <1>2, <1>i, <2>1, OneMoreOut
  <2>3. \A a \in Answers' : a \in Answers \/ a = a0
    BY <1>1, <1>6, AppendFacts DEF Answers
  <2> QED BY <1>1, <1>2, <1>3, <1>4, <1>6, <1>i, <2>2, <2>3 DEF OnePacket, Answers, p
<1> QED BY <1>2, <1>5, <1>6

LEMMA Publish1Flight ==
  ASSUME FlightInv, TypeOK', handlePublish1
  PROVE  FlightInv'
<1> DEFINE p == Head(b2c)
           k0 == p.msg.pub
<1>1. Receive("PUBLISH") /\ p.msg.qos = 1 /\ Send("PUBACK", p.msg.id)
      /\ step' = "process" /\ cur' = p.msg
      /\ UNCHANGED <<inboundMsgs, messageQueue, connected, cleansession, link, unacked, ledger>>
  BY DEF handlePublish1, conn, memory
<1>2. /\ ArrivalTrue(p) /\ p \in Packet /\ p.type = "PUBLISH"
      /\ \A k : ~InHand(k) /\ ~Releasing(k)
  BY <1>1, ReceiveFacts
<1>3. IdOf(p) = p.msg.id /\ IdOf(p) \in MsgIds
  BY <1>1, <1>2, IdFacts
<1>4. /\ OnePacket'
      /\ \A a \in Answers' : a \in Answers \/ (a.type = "PUBACK" /\ a.id = IdOf(p))
      /\ \A q \in Arriving' : q \in Arriving
  BY <1>1, <1>3, AnsweredOne
<1>m. k0 = p.msg.pub
  OBVIOUS
<1> HIDE DEF p, k0
<1>5. PICK u \in Flows : u.id = IdOf(p) /\ u.qos = 1 /\ u.pub = k0
  BY <1>1, <1>2, <1>3, <1>m DEF ArrivalTrue
<1>6. QoS(k0, 1) /\ \A v \in Flows : QoS(v.pub, v.qos)
  BY <1>5 DEF FlightInv, NetMatch, FlowTrue
<1>7. /\ \A k : InHand(k)' <=> k = k0
      /\ \A id : ~Releasing(id)'
  BY <1>1, <1>m DEF InHand, Releasing
<1>8. \A k : Held(k)' <=> Held(k) \/ k \in {k0}
  BY <1>1, <1>2, <1>7 DEF Held, Got, InQueue
<1>9. \A a \in Answers' : a \in Answers \/ AnswerTrue(a)'
  <2>1. Flows' = Flows /\ Held(u.pub)'
    BY <1>1, <1>5, <1>8 DEF Flows
  <2>2. ASSUME NEW a \in Answers', a.type = "PUBACK", a.id = IdOf(p) PROVE AnswerTrue(a)'
    BY <1>5, <2>1, <2>2 DEF AnswerTrue
  <2> QED BY <1>4, <2>2
<1>10. \A q \in Arriving' : q.type = "PUBLISH" /\ q.msg.qos = 0 => q.msg.pub \notin {k0}
  <2>1. \A q \in Arriving' : ArrivalTrue(q)
    BY <1>4 DEF FlightInv, NetMatch
  <2> QED BY <1>6, <2>1 DEF ArrivalTrue, QoS
<1>11. \A v \in Flows : v.qos = 2 /\ ~v.released => v.pub \notin {k0}
  BY <1>6 DEF QoS
<1>12. \A m \in inboundMsgs : m.pub \notin {k0}
  BY <1>2, <1>6, ListedFlow DEF QoS
<1>13. NetMatch' /\ SettledHeld' /\ NeverTwice'
  BY <1>1, <1>2, <1>4, <1>8, <1>9, <1>10, <1>11, <1>12, NewlyHeld
<1>14. HandMatch'
  BY <1>1, <1>6, <1>7, <1>m DEF HandMatch, QoS
<1>15. QueueMatch' /\ Kept' /\ CalledIsQueued'
  BY <1>1 DEF FlightInv, QueueMatch, Kept, CalledIsQueued
<1> QED BY <1>13, <1>14, <1>15 DEF FlightInv

LEMMA ProcessFlight ==
  ASSUME FlightInv, TypeOK', processPublication
  PROVE  FlightInv'
<1>1. /\ step = "process" /\ Enqueue(cur) /\ step' \in {"error", "call", "idle"}
      /\ UNCHANGED <<inboundMsgs, connected, cleansession, link, b2c, c2b, unacked, ledger>>
  BY DEF processPublication, EndOfCycle, conn, network
<1>2. QoS(cur.pub, 1) /\ QueueMatch /\ TypeOK
  BY <1>1 DEF FlightInv, HandMatch
<1>3. QueueMatch' /\ \A k : InQueue(k)' <=> InQueue(k) \/ k = cur.pub
  BY <1>1, <1>2, EnqueueFlight DEF QoS
<1>4. /\ \A k : InHand(k) <=> k = cur.pub
      /\ \A k : ~InHand(k)'
      /\ \A id : ~Releasing(id) /\ ~Releasing(id)'
  BY <1>1 DEF InHand, Releasing
<1>5. \A k : Held(k)' <=> Held(k)
  BY <1>1, <1>3, <1>4 DEF Held, Got
<1>6. /\ \A k, q : QoS(k, q)' <=> QoS(k, q)
      /\ Incoming' = b2c' /\ Incoming = b2c /\ b2c \in Seq(Packet) /\ c2b \in Seq(Ack)
  BY <1>1 DEF QoS, Incoming, FlightInv, TypeOK
<1>7. NetMatch'
  <2>1. Part(Incoming', Incoming) /\ Part(c2b', c2b)
    BY <1>1, <1>6, PartFacts
  <2> QED BY <1>1, <1>4, <1>5, <1>6, <2>1, QuietStep
<1>8. HandMatch' /\ Kept' /\ CalledIsQueued'
  BY <1>1 DEF HandMatch, Releasing, FlightInv, Kept, CalledIsQueued
<1>9. SettledHeld' /\ NeverTwice'
  BY <1>1, <1>5 DEF FlightInv, SettledHeld, NeverTwice
<1> QED BY <1>3, <1>7, <1>8, <1>9 DEF FlightInv

LEMMA ReleaseFlight ==
  ASSUME FlightInv, TypeOK', releasePublication
  PROVE  FlightInv'
<1>1. /\ step = "release" /\ Enqueue(cur) /\ step' = "forget" /\ cur' = cur
      /\ UNCHANGED <<inboundMsgs, connected, cleansession, link, b2c, c2b, unacked, ledger>>
  BY DEF releasePublication, conn, network
<1>2. QoS(cur.pub, 2) /\ ~Got(cur.pub) /\ ~InQueue(cur.pub) /\ QueueMatch /\ TypeOK
  BY <1>1 DEF FlightInv, HandMatch
<1>3. QueueMatch' /\ \A k : InQueue(k)' <=> InQueue(k) \/ k = cur.pub
  <2>1. cur.pub \in DOMAIN ledger /\ ledger[cur.pub] \in Entry
    BY <1>2, ElementOfSeq DEF QoS, TypeOK
  <2>2. ledger[cur.pub].got = 0
    BY <1>2, <2>1 DEF Got, Entry
  <2> QED BY <1>1, <1>2, <2>1, <2>2, EnqueueFlight
<1>4. /\ \A k : InHand(k)' <=> InHand(k)
      /\ \A k : InHand(k) <=> k = cur.pub
      /\ \A id : Releasing(id)' <=> Releasing(id)
  BY <1>1 DEF InHand, Releasing
<1>5. \A k : Held(k)' <=> Held(k)
  BY <1>1, <1>3, <1>4 DEF Held, Got
<1>6. /\ \A k, q : QoS(k, q)' <=> QoS(k, q)
      /\ Incoming' = b2c' /\ Incoming = b2c /\ b2c \in Seq(Packet) /\ c2b \in Seq(Ack)
  BY <1>1 DEF QoS, Incoming, FlightInv, TypeOK
<1>7. NetMatch'
  <2>1. Part(Incoming', Incoming) /\ Part(c2b', c2b)
    BY <1>1, <1>6, PartFacts
  <2> QED BY <1>1, <1>4, <1>5, <1>6, <2>1, QuietStep
<1>8. HandMatch'
  <2>1. Answers' = Answers /\ Flows' = Flows /\ HandMatch
    BY <1>1 DEF Answers, Flows, FlightInv
  <2>2. InQueue(cur.pub)'
    BY <1>1, <1>3
  <2>3. /\ \A a \in Answers' : Releasing(a.id)' => a.type # "PUBREC"
        /\ \A u \in Flows' : Releasing(u.id)' /\ u.released => u.pub = cur'.pub
    BY <1>1, <1>4, <2>1 DEF HandMatch
  <2> QED BY <1>1, <2>2, <2>3 DEF HandMatch
<1>9. SettledHeld' /\ NeverTwice' /\ Kept' /\ CalledIsQueued'
  BY <1>1, <1>5 DEF FlightInv, SettledHeld, NeverTwice, Kept, CalledIsQueued
<1> QED BY <1>3, <1>7, <1>8, <1>9 DEF FlightInv

\* A QoS 2 PUBLISH in hand is still the first of those under way.
LEMMA StoreFlight ==
  ASSUME FlightInv, TypeOK', storePublish2
  PROVE  FlightInv'
<1> DEFINE p == Head(b2c)
<1>1. /\ Receive("PUBLISH") /\ p.msg.qos = 2 /\ step' = "pubrec" /\ cur' = p.msg
      /\ UNCHANGED <<inboundMsgs, messageQueue, connected, cleansession, version, link, c2b, unacked, ledger>>
  BY DEF storePublish2, memory, conn
<1>2. /\ step = "idle" /\ Incoming = b2c /\ b2c # <<>> /\ b2c \in Seq(Packet) /\ c2b \in Seq(Ack)
      /\ p \in Packet /\ p.type = "PUBLISH" /\ b2c' = Tail(b2c)
      /\ \A k : ~InHand(k) /\ ~Releasing(k)
  BY <1>1, ReceiveFacts
<1>3. Incoming' = Incoming
  <2>1. <<p>> \o Tail(b2c) = b2c
    BY <1>2, InFrontFacts
  <2>2. p = [type |-> "PUBLISH", msg |-> p.msg] /\ p.msg \in Msg
    BY <1>2 DEF Packet
  <2> HIDE DEF p
  <2> QED BY <1>1, <1>2, <2>1, <2>2 DEF Incoming
<1>4. p.msg \in Msg
  BY <1>2 DEF Packet
<1> HIDE DEF p
<1>5. \A k : ~InHand(k)' /\ ~Releasing(k)'
  BY <1>1 DEF InHand, Releasing
<1>6. /\ \A k : Held(k)' <=> Held(k)
      /\ \A k, q : QoS(k, q)' <=> QoS(k, q)
  BY <1>1, <1>2, <1>5 DEF Held, Got, InQueue, QoS
<1>7. NetMatch'
  <2>1. Part(Incoming', Incoming) /\ Part(c2b', c2b)
    BY <1>1, <1>2, <1>3, PartFacts
  <2> QED BY <1>1, <1>2, <1>5, <1>6, <2>1, QuietStep
<1>8. HandMatch'
  BY <1>1, <1>4, <1>5 DEF HandMatch
<1>9. QueueMatch' /\ SettledHeld' /\ NeverTwice' /\ Kept' /\ CalledIsQueued'
  BY <1>1, <1>6 DEF FlightInv, QueueMatch, SettledHeld, NeverTwice, Kept, CalledIsQueued
<1> QED BY <1>7, <1>8, <1>9 DEF FlightInv

LEMMA Publish2Flight ==
  ASSUME FlightInv, TypeOK', handlePublish2
  PROVE  FlightInv'
<1> DEFINE p == [type |-> "PUBLISH", msg |-> cur]
           listed == [id |-> cur.id, pub |-> cur.pub]
           a0 == [type |-> "PUBREC", id |-> cur.id]
<1>1. /\ step = "pubrec" /\ step' \in {"error", "call", "idle"} /\ Send("PUBREC", cur.id)
      /\ inboundMsgs' = {n \in inboundMsgs : n.id # cur.id} \cup {listed}
      /\ UNCHANGED <<messageQueue, connected, cleansession, link, b2c, unacked, ledger>>
  BY DEF handlePublish2, EndOfCycle, InboundWith, conn
<1>2. /\ cur \in Msg /\ cur.qos = 2 /\ HandMatch /\ TypeOK /\ FlowsOrdered
      /\ b2c \in Seq(Packet) /\ c2b \in Seq(Ack) /\ OnePacketIn(Incoming, c2b)
  BY <1>1 DEF FlightInv, HandMatch, TypeOK, NetMatch, OnePacket
<1>3. cur.id \in MsgIds /\ p \in Packet /\ p.type = "PUBLISH" /\ p.msg = cur /\ IdOf(p) = cur.id
  BY <1>2, MsgTypes DEF Packet, IdOf
<1>l. listed.id = cur.id /\ listed.pub = cur.pub /\ a0.id = cur.id /\ a0.type = "PUBREC"
  OBVIOUS
<1>4. Incoming = <<p>> \o b2c
  BY <1>1 DEF Incoming
<1>5. c2b' = c2b \/ c2b' = Append(c2b, a0)
  BY <1>1 DEF Send
<1> HIDE DEF p, listed, a0
<1>6. /\ Incoming \in Seq(Packet) /\ Incoming # <<>> /\ Head(Incoming) = p /\ Tail(Incoming) = b2c
      /\ Incoming' = b2c
  BY <1>1, <1>2, <1>3, <1>4, InFrontFacts DEF Incoming
<1>7. /\ \A i \in DOMAIN b2c : Apart(b2c[i], p)
      /\ \A i \in DOMAIN c2b : c2b[i].id # cur.id
      /\ p \in Arriving /\ \A i \in DOMAIN b2c : b2c[i] \in Arriving /\ b2c[i] \in Packet
  <2>1. 1 \in DOMAIN Incoming /\ Incoming[1] = p /\ Part(b2c, Incoming)
    BY <1>6, TailFacts, PartFacts
  <2>2. \A i \in DOMAIN b2c : Apart(b2c[i], p)
    BY <1>2, <1>6, FirstIn
  <2>3. \A i \in DOMAIN c2b : c2b[i].id # IdOf(p)
    BY <1>2, <1>6, FirstIn
  <2>4. \A i \in DOMAIN b2c : b2c[i] \in Arriving
    BY <2>1, PartElements DEF Arriving
  <2>5. \A i \in DOMAIN b2c : b2c[i] \in Packet
    BY <1>2, ElementOfSeq
  <2>6. p \in Arriving
    BY <2>1 DEF Arriving
  <2> QED BY <1>3, <2>2, <2>3, <2>4, <2>5, <2>6
<1>8. \A i \in DOMAIN b2c : IdOf(b2c[i]) # cur.id
  BY <1>3, <1>7, IdFacts DEF Apart
<1>9. PICK u \in Flows : u.id = cur.id /\ u.qos = 2 /\ u.pub = cur.pub /\ ~u.released
  BY <1>2, <1>3, <1>7 DEF FlightInv, NetMatch, ArrivalTrue
<1>10. FlowTrue(u) /\ (\A v \in Flows : v.id = cur.id => v = u)
  BY <1>2, <1>9, FlowsFacts DEF FlightInv, NetMatch
<1>11. OnePacket'
  <2>1. OnePacketIn(b2c, c2b)
    BY <1>2, <1>6, FewerPackets, PartFacts
  <2>2. OnePacketIn(b2c, Append(c2b, a0))
    BY <1>2, <1>7, <1>8, <1>l, <2>1, OneMoreOut
  <2> QED BY <1>5, <1>6, <2>1, <2>2 DEF OnePacket
<1>12. \A k : ~InHand(k) /\ ~InHand(k)' /\ ~Releasing(k) /\ ~Releasing(k)'
  BY <1>1 DEF InHand, Releasing
<1>13. /\ \A k : Held(k)' <=> Held(k)
       /\ \A k, q : QoS(k, q)' <=> QoS(k, q)
       /\ Flows' = Flows
  BY <1>1, <1>12 DEF Held, Got, InQueue, QoS, Flows
<1>14. \A q \in Arriving' : ArrivalTrue(q)'
  <2> TAKE q \in Arriving'
  <2>1. ArrivalTrue(q)
    BY <1>6, <1>7 DEF Arriving, FlightInv, NetMatch
  <2> QED BY <1>13, <2>1, ArrivalStep
<1>15. \A a \in Answers' : a = a0 \/ (a \in Answers /\ a.id # cur.id)
  <2>1. CASE c2b' = c2b
    BY <1>7, <2>1 DEF Answers
  <2>2. CASE c2b' = Append(c2b, a0)
    BY <1>2, <1>7, <2>2, AppendFacts DEF Answers
  <2> QED BY <1>5, <2>1, <2>2
<1>16. \A a \in Answers' : AnswerTrue(a)'
  <2> TAKE a \in Answers'
  <2>1. CASE a = a0
    <3>1. listed = [id |-> u.id, pub |-> u.pub]
      BY <1>9 DEF listed
    <3>2. u \in Flows' /\ [id |-> u.id, pub |-> u.pub] \in inboundMsgs'
      BY <1>1, <1>9, <1>13, <3>1
    <3> QED BY <1>9, <1>l, <2>1, <3>2 DEF AnswerTrue
  <2>2. CASE a \in Answers /\ a.id # cur.id
    <3>1. AnswerTrue(a)
      BY <2>2 DEF FlightInv, NetMatch
    <3>2. \A m \in inboundMsgs : m.id = a.id => m \in inboundMsgs'
      BY <1>1, <2>2
    <3> QED BY <1>13, <3>1, <3>2, AnswerStep
  <2> QED BY <1>15, <2>1, <2>2
<1>17. \A v \in Flows' : FlowTrue(v)'
  <2> TAKE v \in Flows'
  <2>1. FlowTrue(v) /\ v \in Flows
    BY <1>13 DEF FlightInv, NetMatch
  <2> DEFINE mine == [id |-> v.id, pub |-> v.pub]
  <2>2. mine.id = v.id
    OBVIOUS
  <2> HIDE DEF mine
  <2>3. v.released /\ mine \in inboundMsgs => mine \in inboundMsgs'
    BY <1>1, <1>9, <1>10, <2>1, <2>2
  <2> QED BY <1>13, <2>1, <2>3, FlowStep DEF mine
<1>18. \A m \in inboundMsgs' : ListedTrue(m)'
  <2> TAKE m \in inboundMsgs'
  <2>1. CASE m = listed
    <3>1. ~Held(m.pub)'
      BY <1>9, <1>10, <1>13, <1>l, <2>1 DEF FlowTrue
    <3> QED BY <1>9, <1>13, <1>l, <2>1, <3>1 DEF ListedTrue
  <2>2. CASE m \in inboundMsgs
    <3>1. ListedTrue(m)
      BY <2>2 DEF FlightInv, NetMatch
    <3> QED BY <1>12, <1>13, <3>1, ListedStep
  <2> QED BY <1>1, <2>1, <2>2
<1>19. NetMatch'
  BY <1>1, <1>2, <1>11, <1>14, <1>16, <1>17, <1>18 DEF NetMatch, FlowsOrdered
<1>20. HandMatch'
  BY <1>1, <1>12 DEF HandMatch
<1>21. QueueMatch' /\ SettledHeld' /\ NeverTwice' /\ Kept' /\ CalledIsQueued'
  BY <1>1, <1>13 DEF FlightInv, QueueMatch, SettledHeld, NeverTwice, Kept, CalledIsQueued
<1> QED BY <1>19, <1>20, <1>21 DEF FlightInv

\* The message in hand after a PUBREL is that of its flow.
LEMMA PubrelsListedFlight ==
  ASSUME FlightInv, TypeOK', Receive("PUBREL"), NEW m \in inboundMsgs, m.id = Head(b2c).id,
         Send("PUBCOMP", m.id), step' = "release", cur' = [id |-> m.id, qos |-> 2, pub |-> m.pub],
         UNCHANGED <<inboundMsgs, messageQueue, connected, cleansession, link, unacked, ledger>>
  PROVE  FlightInv'
<1> DEFINE p == Head(b2c)
<1>1. /\ ArrivalTrue(p) /\ p \in Packet /\ p.type = "PUBREL"
      /\ \A k : ~InHand(k) /\ ~Releasing(k)
  BY ReceiveFacts
<1>2. IdOf(p) = m.id /\ m.id \in MsgIds
  BY <1>1, IdFacts
<1>3. /\ OnePacket'
      /\ \A a \in Answers' : a \in Answers \/ (a.type = "PUBCOMP" /\ a.id = m.id)
      /\ \A a \in Answers : a.id # m.id
      /\ \A q \in Arriving' : q \in Arriving
  BY <1>2, AnsweredOne
<1>p. p.id = m.id
  OBVIOUS
<1> HIDE DEF p
<1>4. PICK u \in Flows : u.id = m.id /\ u.released
  BY <1>1, <1>p DEF ArrivalTrue
<1>5. \A v, w \in Flows : v.id = w.id \/ v.pub = w.pub => v = w
  BY FlowsFacts DEF FlightInv, NetMatch
<1>6. ~Held(m.pub) /\ QoS(m.pub, 2) /\ u.pub = m.pub
  BY <1>1, <1>4, <1>5, ListedFlow
<1>c. cur'.id = m.id /\ cur'.pub = m.pub
  OBVIOUS
<1>7. /\ \A k : InHand(k)' <=> k = m.pub
      /\ \A id : Releasing(id)' <=> id = m.id
  BY <1>c DEF InHand, Releasing
<1>8. \A k : Held(k)' <=> Held(k) \/ k \in {m.pub}
  BY <1>1, <1>7 DEF Held, Got, InQueue
<1>9. \A a \in Answers' : a \in Answers \/ AnswerTrue(a)'
  <2>1. Flows' = Flows /\ Held(u.pub)'
    BY <1>6, <1>8 DEF Flows
  <2>2. ASSUME NEW a \in Answers', a.type = "PUBCOMP", a.id = m.id PROVE AnswerTrue(a)'
    BY <1>4, <2>1, <2>2 DEF AnswerTrue
  <2> QED BY <1>3, <2>2
<1>10. \A q \in Arriving' : q.type = "PUBLISH" /\ q.msg.qos = 0 => q.msg.pub \notin {m.pub}
  <2>1. \A q \in Arriving' : ArrivalTrue(q)
    BY <1>3 DEF FlightInv, NetMatch
  <2> QED BY <1>6, <2>1 DEF ArrivalTrue, QoS
<1>11. \A v \in Flows : v.qos = 2 /\ ~v.released => v.pub \notin {m.pub}
  BY <1>4, <1>5, <1>6
<1>12. \A n \in inboundMsgs : n.pub \in {m.pub} => Releasing(n.id)'
  BY <1>1, <1>4, <1>5, <1>6, <1>7, ListedFlow
<1>13. NetMatch' /\ SettledHeld' /\ NeverTwice'
  BY <1>1, <1>3, <1>8, <1>9, <1>10, <1>11, <1>12, NewlyHeld
<1>14. HandMatch'
  <2>1. Flows' = Flows
    BY DEF Flows
  <2>2. \A v \in Flows' : Releasing(v.id)' /\ v.released => v.pub = cur'.pub
    BY <1>4, <1>5, <1>6, <1>7, <1>c, <2>1
  <2>3. \A a \in Answers' : Releasing(a.id)' => a.type # "PUBREC"
    BY <1>3, <1>7
  <2>4. (QoS(cur.pub, 2) /\ ~Got(cur.pub) /\ ~InQueue(cur.pub))'
    BY <1>6, <1>c DEF Held, QoS, Got, InQueue
  <2> QED BY <2>2, <2>3, <2>4 DEF HandMatch
<1>15. QueueMatch' /\ Kept' /\ CalledIsQueued'
  BY DEF FlightInv, QueueMatch, Kept, CalledIsQueued
<1> QED BY <1>13, <1>14, <1>15 DEF FlightInv

\* A PUBREL of a message that is not listed any more: it was queued before.
LEMMA PubrelsGoneFlight ==
  ASSUME FlightInv, TypeOK', Receive("PUBREL"), \A m \in inboundMsgs : m.id # Head(b2c).id,
         Send("PUBCOMP", Head(b2c).id), step' \in {"error", "call", "idle"},
         UNCHANGED <<inboundMsgs, messageQueue, connected, cleansession, link, unacked, ledger>>
  PROVE  FlightInv'
<1> DEFINE p == Head(b2c)
<1>1. /\ ArrivalTrue(p) /\ p \in Packet /\ p.type = "PUBREL"
      /\ \A k : ~InHand(k) /\ ~Releasing(k)
  BY ReceiveFacts
<1>2. IdOf(p) = p.id /\ p.id \in MsgIds
  BY <1>1, IdFacts
<1>3. /\ OnePacket'
      /\ \A a \in Answers' : a \in Answers \/ (a.type = "PUBCOMP" /\ a.id = p.id)
      /\ \A q \in Arriving' : q \in Arriving
  BY <1>2, AnsweredOne
<1>p. \A m \in inboundMsgs : m.id # p.id
  OBVIOUS
<1> HIDE DEF p
<1>4. PICK u \in Flows : u.id = p.id /\ u.released
  BY <1>1 DEF ArrivalTrue
<1>5. Held(u.pub)
  <2> DEFINE m == [id |-> u.id, pub |-> u.pub]
  <2>1. m.id = p.id
    BY <1>4
  <2>2. m \in inboundMsgs \/ Held(u.pub)
    BY <1>4 DEF FlightInv, NetMatch, FlowTrue
  <2> HIDE DEF m
  <2> QED BY <1>p, <2>1, <2>2
<1>6. \A k : ~InHand(k)' /\ ~Releasing(k)'
  BY DEF InHand, Releasing
<1>7. \A k : Held(k)' <=> Held(k)
  BY <1>1, <1>6 DEF Held, Got, InQueue
<1>8. \A a \in Answers' : a \in Answers \/ AnswerTrue(a)'
  <2>1. Flows' = Flows /\ Held(u.pub)'
    BY <1>5, <1>7 DEF Flows
  <2>2. ASSUME NEW a \in Answers', a.type = "PUBCOMP", a.id = p.id PROVE AnswerTrue(a)'
    BY <1>4, <2>1, <2>2 DEF AnswerTrue
  <2> QED BY <1>3, <2>2
<1>9. NetMatch' /\ SettledHeld' /\ NeverTwice'
  <2> DEFINE N == {}
  <2>1. \A k : k \notin N
    OBVIOUS
  <2> HIDE DEF N
  <2> QED BY <1>1, <1>3, <1>7, <1>8, <2>1, NewlyHeld
<1>10. HandMatch' /\ QueueMatch' /\ Kept' /\ CalledIsQueued'
  BY <1>6 DEF HandMatch, FlightInv, QueueMatch, Kept, CalledIsQueued
<1> QED BY <1>9, <1>10 DEF FlightInv

LEMMA PubrelsFlight ==
  ASSUME FlightInv, TypeOK', handlePubrels
  PROVE  FlightInv'
<1> DEFINE id == Head(b2c).id
           M == {m \in inboundMsgs : m.id = id}
<1>1. /\ Receive("PUBREL")
      /\ UNCHANGED <<inboundMsgs, messageQueue, connected, cleansession, link, unacked, ledger>>
  BY DEF handlePubrels, memory, conn
<1>2. CASE M # {}
  <2>1. PICK m \in M : /\ Send("PUBCOMP", id) /\ step' = "release"
                       /\ cur' = [id |-> id, qos |-> 2, pub |-> m.pub]
    BY <1>2 DEF handlePubrels
  <2>2. m \in inboundMsgs /\ m.id = id
    OBVIOUS
  <2> HIDE DEF id, M
  <2>3. Send("PUBCOMP", m.id) /\ cur' = [id |-> m.id, qos |-> 2, pub |-> m.pub]
    BY <2>1, <2>2
  <2> QED BY <1>1, <2>1, <2>2, <2>3, PubrelsListedFlight DEF id
<1>3. CASE M = {} /\ Head(b2c).dup
  <2>1. Send("PUBCOMP", id) /\ step' \in {"error", "call", "idle"}
    BY <1>3 DEF handlePubrels, EndOfCycle
  <2>2. \A m \in inboundMsgs : m.id # id
    BY <1>3
  <2> QED BY <1>1, <2>1, <2>2, PubrelsGoneFlight
<1>4. CASE M = {} /\ ~Head(b2c).dup
  <2>1. c2b' = c2b /\ step' \in {"error", "call", "idle"}
    BY <1>4 DEF handlePubrels, EndOfCycle
  <2>2. step = "idle" /\ Incoming = b2c /\ Part(b2c', b2c) /\ Part(c2b, c2b)
    BY <1>1, ReceiveFacts
  <2>3. Part(Incoming', Incoming) /\ Part(c2b', c2b)
    BY <2>1, <2>2 DEF Incoming
  <2>4. Kept' /\ CalledIsQueued'
    BY <1>1, <2>1 DEF FlightInv, Kept, CalledIsQueued
  <2>5. {step, step'} \cap {"pubrec", "process", "release", "forget"} = {}
    BY <2>1, <2>2
  <2> QED BY <1>1, <2>3, <2>4, <2>5, PassiveStep
<1> QED BY <1>2, <1>3, <1>4

\* What leaves the inbound list after its release is in the queue.
LEMMA ForgetFlight ==
  ASSUME FlightInv, TypeOK', forgetInbound
  PROVE  FlightInv'
<1>1. /\ step = "forget" /\ step' \in {"error", "call", "idle"}
      /\ inboundMsgs' = {m \in inboundMsgs : m.id # cur.id}
      /\ UNCHANGED <<messageQueue, connected, cleansession, link, b2c, c2b, unacked, ledger>>
  BY DEF forgetInbound, EndOfCycle, conn, network
<1>2. HandMatch /\ InQueue(cur.pub) /\ OnePacket /\ FlowsOrdered
  BY <1>1 DEF FlightInv, HandMatch, NetMatch
<1>3. /\ \A k : InHand(k) <=> k = cur.pub
      /\ \A id : Releasing(id) <=> id = cur.id
      /\ \A k : ~InHand(k)' /\ ~Releasing(k)'
  BY <1>1 DEF InHand, Releasing
<1>4. /\ \A k : Held(k)' <=> Held(k)
      /\ \A k, q : QoS(k, q)' <=> QoS(k, q)
      /\ Flows' = Flows /\ Incoming' = Incoming /\ Answers' = Answers /\ Arriving' = Arriving
  BY <1>1, <1>2, <1>3 DEF Held, Got, InQueue, QoS, Flows, Incoming, Answers, Arriving
<1>5. \A p \in Arriving' : ArrivalTrue(p)'
  BY <1>4, ArrivalStep DEF FlightInv, NetMatch
<1>6. \A a \in Answers' : AnswerTrue(a)'
  <2> TAKE a \in Answers'
  <2>1. AnswerTrue(a)
    BY <1>4 DEF FlightInv, NetMatch
  <2>2. \A m \in inboundMsgs : m.id = a.id /\ a.type = "PUBREC" => m \in inboundMsgs'
    BY <1>1, <1>2, <1>3, <1>4 DEF HandMatch
  <2> QED BY <1>4, <2>1, <2>2, AnswerStep
<1>7. \A u \in Flows' : FlowTrue(u)'
  <2> TAKE u \in Flows'
  <2>1. FlowTrue(u)
    BY <1>4 DEF FlightInv, NetMatch
  <2> DEFINE m == [id |-> u.id, pub |-> u.pub]
  <2>2. m.id = u.id
    OBVIOUS
  <2> HIDE DEF m
  <2>3. u.released /\ m \in inboundMsgs => m \in inboundMsgs' \/ Held(u.pub)'
    <3>1. CASE u.id # cur.id
      BY <1>1, <2>2, <3>1
    <3>2. ASSUME u.id = cur.id, u.released PROVE Held(u.pub)'
      <4>1. u.pub = cur.pub
        BY <1>2, <1>3, <1>4, <3>2 DEF HandMatch
      <4> QED BY <1>2, <1>4, <4>1 DEF Held
    <3> QED BY <3>1, <3>2
  <2> QED BY <1>4, <2>1, <2>3, FlowStep DEF m
<1>8. \A m \in inboundMsgs' : ListedTrue(m)'
  <2> TAKE m \in inboundMsgs'
  <2>1. ListedTrue(m) /\ ~Releasing(m.id)
    BY <1>1, <1>3 DEF FlightInv, NetMatch
  <2> QED BY <1>4, <2>1, ListedStep
<1>9. NetMatch'
  BY <1>1, <1>2, <1>4, <1>5, <1>6, <1>7, <1>8 DEF NetMatch, OnePacket, FlowsOrdered
<1>10. HandMatch' /\ QueueMatch' /\ SettledHeld' /\ NeverTwice' /\ Kept' /\ CalledIsQueued'
  BY <1>1, <1>3, <1>4 DEF HandMatch, FlightInv, QueueMatch, SettledHeld, NeverTwice, Kept, CalledIsQueued
<1> QED BY <1>9, <1>10 DEF FlightInv

-----------------------------------------------------------------------------
(* The broker *)

\* A resumed session: one packet for each flow.
LEMMA ConnectFlight ==
  ASSUME FlightInv, TypeOK', connect(FALSE)
  PROVE  FlightInv'
<1>1. /\ step = "idle" /\ step' = "idle" /\ connected' = TRUE /\ cleansession' = FALSE /\ c2b' = <<>>
      /\ b2c' = [i \in DOMAIN unacked |-> Resend(unacked[i])]
      /\ UNCHANGED <<inboundMsgs, messageQueue, unacked, ledger>>
  BY DEF connect, memory, thread
<1>2. \A k : ~InHand(k)' /\ ~Releasing(k)' /\ ~InHand(k) /\ ~Releasing(k)
  BY <1>1 DEF InHand, Releasing
<1>3. /\ \A k : Held(k)' <=> Held(k)
      /\ \A k, q : QoS(k, q)' <=> QoS(k, q)
      /\ Flows' = Flows /\ Incoming' = b2c'
  BY <1>1, <1>2 DEF Held, Got, InQueue, QoS, Flows, Incoming
<1>4. FlowsOrdered /\ \A u \in Flows : u \in Unacked
  BY FlowsFacts DEF FlightInv, NetMatch
<1>5. \A u \in Flows : /\ IdOf(Resend(u)) = u.id /\ u.id \in MsgIds
                       /\ u.released => Resend(u).type = "PUBREL" /\ Resend(u).id = u.id
                       /\ ~u.released => /\ Resend(u).type = "PUBLISH" /\ Resend(u).msg.id = u.id
                                         /\ Resend(u).msg.qos = u.qos /\ Resend(u).msg.pub = u.pub
                                         /\ u.qos # 0
  BY <1>4 DEF Resend, IdOf, Unacked
<1>6. OnePacket'
  <2>1. \A i, j \in DOMAIN unacked : i # j => unacked[i].id # unacked[j].id
    <3>1. \A i, j \in DOMAIN unacked : i # j => i < j \/ j < i
      BY LenProperties DEF FlightInv, TypeOK
    <3> QED BY <1>4, <3>1 DEF FlowsOrdered
  <2>2. \A i, j \in DOMAIN unacked : i # j => Apart(Resend(unacked[i]), Resend(unacked[j]))
    BY <1>5, <2>1, IdFacts DEF Apart, Flows
  <2>3. DOMAIN b2c' = DOMAIN unacked /\ \A i \in DOMAIN unacked : b2c'[i] = Resend(unacked[i])
    BY <1>1
  <2> QED BY <1>1, <1>3, <2>2, <2>3 DEF OnePacket, OnePacketIn
<1>7. \A p \in Arriving' : ArrivalTrue(p)'
  <2> TAKE p \in Arriving'
  <2>1. PICK u \in Flows : p = Resend(u)
    BY <1>1, <1>3 DEF Arriving, Flows
  <2> QED BY <1>3, <1>5, <2>1 DEF ArrivalTrue
<1>8. Answers' = {}
  BY <1>1 DEF Answers
<1>9. \A u \in Flows' : FlowTrue(u)'
  BY <1>1, <1>3, FlowStep DEF FlightInv, NetMatch
<1>10. \A m \in inboundMsgs' : ListedTrue(m)'
  BY <1>1, <1>2, <1>3, ListedStep DEF FlightInv, NetMatch
<1>11. NetMatch'
  BY <1>1, <1>4, <1>6, <1>7, <1>8, <1>9, <1>10 DEF NetMatch, FlowsOrdered
<1>12. HandMatch' /\ QueueMatch' /\ SettledHeld' /\ NeverTwice' /\ Kept' /\ CalledIsQueued'
  BY <1>1, <1>2, <1>3 DEF HandMatch, FlightInv, QueueMatch, SettledHeld, NeverTwice, Kept, CalledIsQueued
<1> QED BY <1>11, <1>12 DEF FlightInv

\* A keepalive answer belongs to no flow.
LEMMA KeepaliveFlight ==
  ASSUME FlightInv, TypeOK', keepalive
  PROVE  FlightInv'
<1> DEFINE p == [type |-> "PINGRESP"]
<1>1. /\ step = "idle" /\ b2c = <<>> /\ c2b = <<>> /\ b2c' = <<p>>
      /\ UNCHANGED <<inboundMsgs, messageQueue, connected, cleansession, version, link, c2b, unacked, ledger, step, cur>>
  BY DEF keepalive, memory, conn, thread
<1>2. \A k : ~InHand(k)' /\ ~Releasing(k)' /\ ~InHand(k) /\ ~Releasing(k)
  BY <1>1 DEF InHand, Releasing
<1>3. /\ \A k : Held(k)' <=> Held(k)
      /\ \A k, q : QoS(k, q)' <=> QoS(k, q)
      /\ Flows' = Flows /\ Incoming' = b2c'
  BY <1>1, <1>2 DEF Held, Got, InQueue, QoS, Flows, Incoming
<1>4. DOMAIN b2c' = {1} /\ b2c'[1] = p
  BY <1>1
<1>5. OnePacket' /\ Answers' = {} /\ Arriving' = {p}
  BY <1>1, <1>3, <1>4 DEF OnePacket, OnePacketIn, Answers, Arriving
<1>6. \A q \in Arriving' : ArrivalTrue(q)'
  BY <1>5 DEF ArrivalTrue
<1>9. \A u \in Flows' : FlowTrue(u)'
  BY <1>1, <1>3, FlowStep DEF FlightInv, NetMatch
<1>10. \A m \in inboundMsgs' : ListedTrue(m)'
  BY <1>1, <1>2, <1>3, ListedStep DEF FlightInv, NetMatch
<1>11. NetMatch'
  BY <1>1, <1>5, <1>6, <1>9, <1>10 DEF FlightInv, NetMatch, FlowsOrdered
<1>12. HandMatch' /\ QueueMatch' /\ SettledHeld' /\ NeverTwice' /\ Kept' /\ CalledIsQueued'
  BY <1>1, <1>2, <1>3 DEF HandMatch, FlightInv, QueueMatch, SettledHeld, NeverTwice, Kept, CalledIsQueued
<1> QED BY <1>11, <1>12 DEF FlightInv

\* A new message is known to nobody yet.
LEMMA NewMessage ==
  ASSUME FlightInv, NEW e, e.got = 0, NEW n, n = Len(ledger) + 1, ledger' = Append(ledger, e),
         UNCHANGED <<step, cur, messageQueue>>
  PROVE  /\ n \in Nat \ {0} /\ n \notin DOMAIN ledger
         /\ DOMAIN ledger' = DOMAIN ledger \cup {n} /\ ledger'[n] = e
         /\ \A k \in DOMAIN ledger : ledger'[k] = ledger[k] /\ k < n
         /\ \A k : Held(k) => k \in DOMAIN ledger
         /\ \A k : Held(k)' <=> Held(k)
         /\ \A k : (Got(k)' <=> Got(k)) /\ (InQueue(k)' <=> InQueue(k))
         /\ \A k, q : QoS(k, q) => QoS(k, q)'
         /\ QoS(n, e.qos)' /\ ~Held(n)'
<1>1. Len(ledger) \in Nat /\ DOMAIN ledger = 1..Len(ledger) /\ ledger \in Seq(Entry)
  BY LenProperties DEF FlightInv, TypeOK
<1>2. /\ DOMAIN ledger' = DOMAIN ledger \cup {n} /\ ledger'[n] = e
      /\ n \notin DOMAIN ledger
      /\ \A k \in DOMAIN ledger : ledger'[k] = ledger[k]
  BY <1>1, AppendFacts
<1>3. n \in Nat \ {0} /\ \A k \in DOMAIN ledger : k < n
  BY <1>1
<1>4. /\ \A k : Got(k)' <=> Got(k)
      /\ \A k, q : QoS(k, q) => QoS(k, q)'
      /\ QoS(n, e.qos)'
  BY <1>2 DEF Got, QoS
<1>5. \A k : (InQueue(k)' <=> InQueue(k)) /\ (InHand(k)' <=> InHand(k))
  BY DEF InQueue, InHand
<1>6. \A k : InQueue(k) => k \in DOMAIN ledger
  BY DEF FlightInv, QueueMatch, InQueue
<1>7. \A k : InHand(k) => k \in DOMAIN ledger
  BY <1>6 DEF FlightInv, HandMatch, InHand, QoS
<1>8. \A k : Held(k) => k \in DOMAIN ledger
  BY <1>6, <1>7 DEF Held, Got
<1>9. \A k : Held(k)' <=> Held(k)
  BY <1>4, <1>5 DEF Held
<1> QED BY <1>2, <1>3, <1>4, <1>5, <1>8, <1>9

\* The packets under way are those of flows, or of QoS 0.
LEMMA FlowOfPacket ==
  ASSUME FlightInv
  PROVE  /\ \A q \in Arriving : q \in Packet
         /\ \A q \in Arriving : IdOf(q) # 0 => \E u \in Flows : u.id = IdOf(q)
         /\ \A q \in Arriving : q.type = "PUBLISH" /\ IdOf(q) = 0 => q.msg.pub \in DOMAIN ledger
         /\ \A a \in Answers : a.id \in MsgIds /\ \E u \in Flows : u.id = a.id
<1>1. Incoming \in Seq(Packet) /\ c2b \in Seq(Ack)
  BY IncomingType DEF FlightInv
<1>2. \A q \in Arriving : q \in Packet /\ ArrivalTrue(q)
  BY <1>1, ElementOfSeq DEF Arriving, FlightInv, NetMatch
<1>3. \A a \in Answers : a \in Ack /\ AnswerTrue(a)
  BY <1>1, ElementOfSeq DEF Answers, FlightInv, NetMatch
<1>4. \A q \in Arriving : IdOf(q) # 0 => \E u \in Flows : u.id = IdOf(q)
  <2> TAKE q \in Arriving
  <2>1. q.type \in {"PUBLISH", "PUBREL", "PINGRESP"}
    BY <1>2 DEF Packet
  <2>2. CASE q.type = "PUBLISH"
    <3>1. IdOf(q) = q.msg.id /\ (IdOf(q) # 0 => q.msg.qos > 0)
      BY <1>2, <2>2 DEF IdOf, Packet, Msg
    <3> QED BY <1>2, <2>2, <3>1 DEF ArrivalTrue
  <2>3. CASE q.type = "PUBREL"
    BY <1>2, <2>3, IdFacts DEF ArrivalTrue
  <2>4. CASE q.type = "PINGRESP"
    BY <1>2, <2>4, IdFacts
  <2> QED BY <2>1, <2>2, <2>3, <2>4
<1>5. \A q \in Arriving : q.type = "PUBLISH" /\ IdOf(q) = 0 => q.msg.pub \in DOMAIN ledger
  BY <1>2, IdFacts DEF ArrivalTrue, QoS
<1>6. \A a \in Answers : a.id \in MsgIds /\ \E u \in Flows : u.id = a.id
  BY <1>3 DEF AnswerTrue, Ack
<1> QED BY <1>2, <1>4, <1>5, <1>6

LEMMA AppendInFront ==
  ASSUME NEW S, NEW s \in Seq(S), NEW e \in S, NEW p \in S
  PROVE  <<e>> \o Append(s, p) = Append(<<e>> \o s, p)
<1>1. <<e>> \in Seq(S) /\ <<p>> \in Seq(S) /\ <<e>> \o s \in Seq(S)
  BY ConcatProperties
<1>2. Append(s, p) = s \o <<p>> /\ Append(<<e>> \o s, p) = (<<e>> \o s) \o <<p>>
  BY <1>1, AppendIsConcat
<1> QED BY <1>1, <1>2, ConcatAssociative

\* A packet the broker sends comes after the others.
LEMMA IncomingAppended ==
  ASSUME FlightInv, NEW r \in Packet, b2c' = Append(b2c, r), UNCHANGED <<step, cur>>
  PROVE  Incoming' = Append(Incoming, r)
<1>1. CASE step = "pubrec"
  <2>1. PICK p : p = [type |-> "PUBLISH", msg |-> cur]
    OBVIOUS
  <2>2. p \in Packet /\ b2c \in Seq(Packet)
    BY <1>1, <2>1 DEF FlightInv, TypeOK, HandMatch, Packet
  <2>3. <<p>> \o Append(b2c, r) = Append(<<p>> \o b2c, r)
    BY <2>2, AppendInFront
  <2> QED BY <1>1, <2>1, <2>3 DEF Incoming
<1>2. CASE step # "pubrec"
  BY <1>2 DEF Incoming
<1> QED BY <1>1, <1>2

\* What the broker publishes: its history, its packet, and its flow unless it is of QoS 0.
LEMMA PublishedFacts ==
  ASSUME FlightInv, NEW qos \in Qoss, brokerPublish(qos)
  PROVE  /\ link /\ UNCHANGED <<inboundMsgs, messageQueue, connected, cleansession, version, link, c2b, step, cur>>
         /\ qos \in 0..2
         /\ \E n, e, p, f :
              /\ n = Len(ledger) + 1 /\ ledger' = Append(ledger, e)
              /\ e.got = 0 /\ e.qos = qos /\ (qos = 0 <=> e.fate = "settled")
              /\ p \in Packet /\ p.type = "PUBLISH" /\ p.msg.qos = qos /\ p.msg.pub = n
              /\ IdOf(p) = p.msg.id /\ (qos = 0 => p.msg.id = 0)
              /\ f.id = p.msg.id /\ f.qos = qos /\ f.pub = n /\ ~f.released
              /\ Incoming' = Append(Incoming, p)
              /\ \A u \in Flows : u.id # p.msg.id /\ u.pub < n
              /\ FlowsOrdered' /\ Flows' = (IF qos = 0 THEN Flows ELSE Flows \cup {f})
<1>n. PICK n : n = Len(ledger) + 1
  OBVIOUS
<1>0. PICK e : e = [qos |-> qos, fate |-> IF qos = 0 THEN "settled" ELSE "open", got |-> 0]
  OBVIOUS
<1>1. PICK id \in (IF qos = 0 THEN {0} ELSE MsgIds) :
        /\ \A i \in DOMAIN unacked : unacked[i].id # id
        /\ b2c' = Append(b2c, [type |-> "PUBLISH", msg |-> [id |-> id, qos |-> qos, pub |-> n]])
        /\ unacked' = IF qos = 0 THEN unacked
                      ELSE Append(unacked, [id |-> id, qos |-> qos, pub |-> n, released |-> FALSE])
  BY <1>n DEF brokerPublish, Reply
<1>6. PICK p, f : /\ p = [type |-> "PUBLISH", msg |-> [id |-> id, qos |-> qos, pub |-> n]]
                  /\ f = [id |-> id, qos |-> qos, pub |-> n, released |-> FALSE]
                  /\ b2c' = Append(b2c, p)
                  /\ unacked' = IF qos = 0 THEN unacked ELSE Append(unacked, f)
  BY <1>1
<1>2. /\ link /\ ledger' = Append(ledger, e)
      /\ UNCHANGED <<inboundMsgs, messageQueue, connected, cleansession, version, link, c2b, step, cur>>
  BY <1>0, <1>n DEF brokerPublish, memory, conn, thread
<1>q. qos \in 0..2 /\ (qos = 0 => id = 0) /\ (qos # 0 => id \in MsgIds)
  BY <1>1, QossAssumption DEF MsgIds
<1>e. e.got = 0 /\ e.qos = qos /\ (qos = 0 <=> e.fate = "settled")
  BY <1>0
<1>p. p.type = "PUBLISH" /\ p.msg.id = id /\ p.msg.qos = qos /\ p.msg.pub = n /\ IdOf(p) = id
  BY <1>6 DEF IdOf
<1>f. f.id = id /\ f.qos = qos /\ f.pub = n /\ ~f.released
  BY <1>6
<1>t. /\ TypeOK /\ HandMatch /\ FlowsOrdered
      /\ b2c \in Seq(Packet) /\ Incoming \in Seq(Packet)
      /\ Len(ledger) \in Nat /\ DOMAIN ledger = 1..Len(ledger)
  BY IncomingType, LenProperties DEF FlightInv, NetMatch, TypeOK
<1>3. n \in Nat \ {0} /\ \A k \in DOMAIN ledger : k < n
  BY <1>n, <1>t
<1>4. p \in Packet
  BY <1>6, <1>q, <1>3 DEF Packet, Msg, Pubs
<1>5. qos # 0 => f \in Unacked
  BY <1>6, <1>q, <1>3 DEF Unacked, Pubs
<1>8. \A u \in Flows : u.id # id /\ u.pub < n
  <2>1. \A u \in Flows : u.pub \in DOMAIN ledger
    BY DEF FlightInv, NetMatch, FlowTrue, QoS
  <2>2. \A u \in Flows : u.id # id
    BY <1>1 DEF Flows
  <2> QED BY <1>3, <2>1, <2>2
<1>9. /\ FlowsOrdered' /\ Flows' = (IF qos = 0 THEN Flows ELSE Flows \cup {f})
  <2>1. CASE qos = 0
    BY <1>6, <1>t, <2>1 DEF FlowsOrdered, Flows
  <2>2. CASE qos # 0
    BY <1>5, <1>6, <1>8, <1>f, <1>t, <2>2, FlowBegins
  <2> QED BY <2>1, <2>2
<1>10. Incoming' = Append(Incoming, p)
  BY <1>2, <1>4, <1>6, IncomingAppended
<1>11. /\ IdOf(p) = p.msg.id /\ (qos = 0 => p.msg.id = 0) /\ f.id = p.msg.id
       /\ \A u \in Flows : u.id # p.msg.id /\ u.pub < n
  BY <1>8, <1>f, <1>p, <1>q
<1> QED BY <1>2, <1>4, <1>9, <1>10, <1>11, <1>e, <1>f, <1>n, <1>p, <1>q

LEMMA BrokerPublishFlight ==
  ASSUME FlightInv, TypeOK', NEW qos \in Qoss, brokerPublish(qos)
  PROVE  FlightInv'
<1>2. UNCHANGED <<inboundMsgs, messageQueue, connected, cleansession, version, link, c2b, step, cur>> /\ qos \in 0..2
  BY PublishedFacts
<1>0. PICK n, e, p, f :
        /\ n = Len(ledger) + 1 /\ ledger' = Append(ledger, e)
        /\ e.got = 0 /\ e.qos = qos /\ (qos = 0 <=> e.fate = "settled")
        /\ p \in Packet /\ p.type = "PUBLISH" /\ p.msg.qos = qos /\ p.msg.pub = n
        /\ IdOf(p) = p.msg.id /\ (qos = 0 => p.msg.id = 0)
        /\ f.id = p.msg.id /\ f.qos = qos /\ f.pub = n /\ ~f.released
        /\ Incoming' = Append(Incoming, p)
        /\ \A u \in Flows : u.id # p.msg.id /\ u.pub < n
        /\ FlowsOrdered' /\ Flows' = (IF qos = 0 THEN Flows ELSE Flows \cup {f})
  BY PublishedFacts
<1>t. TypeOK /\ HandMatch /\ OnePacket /\ Incoming \in Seq(Packet) /\ c2b \in Seq(Ack)
  BY IncomingType DEF FlightInv, NetMatch
<1>7. /\ n \notin DOMAIN ledger
      /\ DOMAIN ledger' = DOMAIN ledger \cup {n} /\ ledger'[n] = e
      /\ \A k \in DOMAIN ledger : ledger'[k] = ledger[k] /\ k < n
      /\ \A k : Held(k) => k \in DOMAIN ledger
      /\ \A k : Held(k)' <=> Held(k)
      /\ \A k : (Got(k)' <=> Got(k)) /\ (InQueue(k)' <=> InQueue(k))
      /\ \A k, q : QoS(k, q) => QoS(k, q)'
      /\ QoS(n, qos)' /\ ~Held(n)'
  BY <1>0, <1>2, NewMessage
<1>11. /\ \A q \in Arriving : Apart(q, p) /\ Apart(p, q)
       /\ \A a \in Answers : a.id # p.msg.id
  <2>1. \A q \in Arriving : IdOf(q) # 0 => IdOf(q) # p.msg.id
    BY <1>0, FlowOfPacket
  <2>2. \A q \in Arriving : q.type = "PUBLISH" /\ IdOf(q) = 0 => q.msg.pub # n
    BY <1>7, FlowOfPacket
  <2>3. \A a \in Answers : a.id # p.msg.id
    BY <1>0, FlowOfPacket
  <2> QED BY <1>0, <2>1, <2>2, <2>3 DEF Apart
<1>12. OnePacket' /\ Arriving' = Arriving \cup {p} /\ Answers' = Answers
  <2>1. /\ \A i \in DOMAIN Incoming : Apart(Incoming[i], p) /\ Apart(p, Incoming[i])
        /\ \A i \in DOMAIN c2b : c2b[i].id # IdOf(p)
    BY <1>0, <1>11 DEF Arriving, Answers
  <2>2. OnePacketIn(Append(Incoming, p), c2b)
    BY <1>t, <2>1, OneMoreIn DEF OnePacket
  <2>3. Arriving' = Arriving \cup {p}
    <3> DEFINE l == Len(Incoming) + 1
    <3>1. /\ DOMAIN Incoming' = DOMAIN Incoming \cup {l} /\ l \notin DOMAIN Incoming
          /\ \A i \in DOMAIN Incoming : Incoming'[i] = Incoming[i]
          /\ Incoming'[l] = p
      BY <1>0, <1>t, AppendFacts
    <3> HIDE DEF l
    <3> QED BY <3>1 DEF Arriving
  <2> QED BY <1>0, <1>2, <2>2, <2>3 DEF OnePacket, Answers
<1>13. \A q \in Arriving' : ArrivalTrue(q)'
  <2>1. ASSUME NEW q \in Arriving PROVE ArrivalTrue(q)'
    <3>1. ArrivalTrue(q)
      BY DEF FlightInv, NetMatch
    <3>2. \A u \in Flows : u \in Flows'
      BY <1>0
    <3> QED BY <1>7, <3>1, <3>2, ArrivalStep
  <2>2. ArrivalTrue(p)'
    <3>1. CASE qos = 0
      BY <1>0, <1>7, <3>1 DEF ArrivalTrue
    <3>2. CASE qos # 0
      <4>1. f \in Flows'
        BY <1>0, <3>2
      <4> QED BY <1>0, <3>2, <4>1 DEF ArrivalTrue
    <3> QED BY <3>1, <3>2
  <2> QED BY <1>12, <2>1, <2>2
<1>14. \A a \in Answers' : AnswerTrue(a)'
  <2>1. \A u \in Flows : u \in Flows'
    BY <1>0
  <2> QED BY <1>2, <1>7, <1>12, <2>1, AnswerStep DEF FlightInv, NetMatch
<1>15. \A u \in Flows' : FlowTrue(u)'
  <2>1. ASSUME NEW u \in Flows PROVE FlowTrue(u)'
    <3>1. FlowTrue(u)
      BY DEF FlightInv, NetMatch
    <3> QED BY <1>2, <1>7, <3>1, FlowStep
  <2>2. qos # 0 => FlowTrue(f)'
    BY <1>0, <1>7 DEF FlowTrue
  <2> QED BY <1>0, <2>1, <2>2
<1>r. \A id0 : Releasing(id0)' <=> Releasing(id0)
  BY <1>2 DEF Releasing
<1>16. \A m \in inboundMsgs' : ListedTrue(m)'
  <2> TAKE m \in inboundMsgs'
  <2>1. ListedTrue(m)
    BY <1>2 DEF FlightInv, NetMatch
  <2>2. \A u \in Flows : u \in Flows'
    BY <1>0
  <2> QED BY <1>7, <1>r, <2>1, <2>2, ListedStep
<1>17. NetMatch'
  BY <1>0, <1>12, <1>13, <1>14, <1>15, <1>16 DEF NetMatch
<1>18. HandMatch'
  <2>1. \A u \in Flows' : Releasing(u.id)' /\ u.released => u.pub = cur'.pub
    BY <1>0, <1>2, <1>r, <1>t DEF HandMatch
  <2>2. \A a \in Answers' : Releasing(a.id)' => a.type # "PUBREC"
    BY <1>12, <1>r, <1>t DEF HandMatch
  <2>3. /\ (step = "pubrec" => cur \in Msg /\ cur.qos = 2)'
        /\ (step = "process" => QoS(cur.pub, 1))'
        /\ (step = "release" => QoS(cur.pub, 2) /\ ~Got(cur.pub) /\ ~InQueue(cur.pub))'
        /\ (step = "forget" => InQueue(cur.pub))'
    BY <1>2, <1>7, <1>t DEF HandMatch
  <2> QED BY <2>1, <2>2, <2>3 DEF HandMatch
<1>19. QueueMatch'
  <2>1. QueueMatch
    BY DEF FlightInv
  <2> QED BY <1>2, <1>7, <2>1 DEF QueueMatch
<1>20. SettledHeld' /\ NeverTwice'
  BY <1>0, <1>2, <1>7 DEF FlightInv, SettledHeld, NeverTwice
<1>21. Kept' /\ CalledIsQueued'
  BY <1>2 DEF FlightInv, Kept, CalledIsQueued
<1> QED BY <1>17, <1>18, <1>19, <1>20, <1>21 DEF FlightInv

\* A message that is settled keeps the rest of its history.
LEMMA SettleFacts ==
  ASSUME TypeOK, NEW k0, ledger' = [ledger EXCEPT ![k0].fate = "settled"]
  PROVE  /\ DOMAIN ledger' = DOMAIN ledger
         /\ \A k \in DOMAIN ledger : /\ ledger'[k].qos = ledger[k].qos /\ ledger'[k].got = ledger[k].got
                                     /\ ledger'[k].fate = IF k = k0 THEN "settled" ELSE ledger[k].fate
<1>1. \A k \in DOMAIN ledger : ledger[k] \in Entry
  BY ElementOfSeq DEF TypeOK
<1>2. ledger' = [k \in DOMAIN ledger |-> IF k = k0 THEN [ledger[k] EXCEPT !.fate = "settled"] ELSE ledger[k]]
  BY DEF TypeOK
<1>3. \A k \in DOMAIN ledger : LET e == [ledger[k] EXCEPT !.fate = "settled"]
                               IN e.qos = ledger[k].qos /\ e.got = ledger[k].got /\ e.fate = "settled"
  BY <1>1 DEF Entry
<1> QED BY <1>2, <1>3

\* The answer the broker reads has its id for itself.
LEMMA AckAlone ==
  ASSUME FlightInv, NEW a, a = Head(c2b), c2b # <<>>, c2b' = Tail(c2b)
  PROVE  /\ a \in Answers /\ a \in Ack
         /\ \A q \in Arriving : IdOf(q) # a.id
         /\ \A b \in Answers' : b \in Answers /\ b.id # a.id
         /\ OnePacketIn(Incoming, c2b')
<1>1. c2b \in Seq(Ack) /\ Incoming \in Seq(Packet)
  BY IncomingType DEF FlightInv
<1>2. 1 \in DOMAIN c2b /\ a = c2b[1] /\ a \in Ack
  BY <1>1, TailFacts
<1>3. a \in Answers
  BY <1>2 DEF Answers
<1>7. /\ \A j \in DOMAIN c2b' : c2b'[j].id # a.id
      /\ \A j \in DOMAIN Incoming : IdOf(Incoming[j]) # a.id
  <2>1. OnePacketIn(Incoming, c2b)
    BY DEF FlightInv, NetMatch, OnePacket
  <2>2. /\ \A j \in DOMAIN Tail(c2b) : Tail(c2b)[j].id # Head(c2b).id
        /\ \A j \in DOMAIN Incoming : IdOf(Incoming[j]) # Head(c2b).id
    BY <1>1, <2>1, FirstOut
  <2> QED BY <2>2
<1>8. Part(c2b', c2b) /\ Part(Incoming, Incoming)
  <2>1. Part(Tail(c2b), c2b)
    BY <1>1, PartFacts
  <2>2. Part(Incoming, Incoming)
    BY <1>1, PartFacts
  <2> QED BY <2>1, <2>2
<1>9. \A b \in Answers' : b \in Answers /\ b.id # a.id
  <2>1. \A i \in DOMAIN c2b' : \E j \in DOMAIN c2b : c2b'[i] = c2b[j]
    <3>1. PICK d \in Nat : \A i \in DOMAIN c2b' : i + d \in DOMAIN c2b /\ c2b'[i] = c2b[i + d]
      BY <1>8, Zenon DEF Part
    <3> QED BY <3>1, Zenon
  <2> QED BY <1>7, <2>1 DEF Answers
<1>10. OnePacketIn(Incoming, c2b')
  BY <1>8, FewerPackets DEF FlightInv, NetMatch, OnePacket
<1>11. \A q \in Arriving : IdOf(q) # a.id
  BY <1>7 DEF Arriving
<1> QED BY <1>2, <1>3, <1>9, <1>10, <1>11

\* The answer the broker reads: the flow it is of, and what nothing else is.
LEMMA AckFacts ==
  ASSUME FlightInv, TypeOK', NEW a, a = Head(c2b), c2b # <<>>, c2b' = Tail(c2b),
         NEW i \in DOMAIN unacked, unacked[i].id = a.id
  PROVE  /\ a \in Answers /\ a \in Ack /\ unacked[i] \in Flows /\ unacked[i] \in Unacked
         /\ a.type = "PUBACK" => unacked[i].qos = 1 /\ Held(unacked[i].pub)
         /\ a.type = "PUBREC" => /\ unacked[i].qos = 2 /\ ~unacked[i].released
                                 /\ [id |-> unacked[i].id, pub |-> unacked[i].pub] \in inboundMsgs
         /\ a.type = "PUBCOMP" => unacked[i].released /\ Held(unacked[i].pub)
         /\ \A q \in Arriving : IdOf(q) # a.id
         /\ \A b \in Answers' : b \in Answers /\ b.id # a.id
         /\ OnePacketIn(Incoming, c2b')
         /\ \A v \in Flows : v.id = a.id \/ v.pub = unacked[i].pub => v = unacked[i]
<1>3. /\ a \in Answers /\ a \in Ack
      /\ \A q \in Arriving : IdOf(q) # a.id
      /\ \A b \in Answers' : b \in Answers /\ b.id # a.id
      /\ OnePacketIn(Incoming, c2b')
  BY AckAlone
<1>4. AnswerTrue(a)
  BY <1>3 DEF FlightInv, NetMatch
<1>5. unacked[i] \in Flows
  BY DEF Flows
<1>6. /\ \A v \in Flows : v \in Unacked
      /\ \A v, w \in Flows : v.id = w.id \/ v.pub = w.pub => v = w
  BY FlowsFacts DEF FlightInv, NetMatch
<1>12. /\ a.type = "PUBACK" => unacked[i].qos = 1 /\ Held(unacked[i].pub)
       /\ a.type = "PUBREC" => /\ unacked[i].qos = 2 /\ ~unacked[i].released
                               /\ [id |-> unacked[i].id, pub |-> unacked[i].pub] \in inboundMsgs
       /\ a.type = "PUBCOMP" => unacked[i].released /\ Held(unacked[i].pub)
  BY <1>4, <1>5, <1>6 DEF AnswerTrue
<1> QED BY <1>3, <1>5, <1>6, <1>12

\* PUBREC: the flow goes on to its second half, its message still listed.
LEMMA PubrecFlight ==
  ASSUME FlightInv, TypeOK', NEW a, a = Head(c2b), c2b # <<>>, c2b' = Tail(c2b),
         NEW i \in DOMAIN unacked, unacked[i].id = a.id, a.type = "PUBREC",
         unacked' = [unacked EXCEPT ![i].released = TRUE],
         Reply([type |-> "PUBREL", id |-> a.id, dup |-> FALSE]),
         UNCHANGED <<inboundMsgs, messageQueue, connected, cleansession, link, step, cur, ledger>>
  PROVE  FlightInv'
<1>1. PICK u, f : u = unacked[i] /\ f = [u EXCEPT !.released = TRUE]
  OBVIOUS
<1>2. /\ a \in Answers /\ a \in Ack /\ u \in Flows /\ u \in Unacked
      /\ u.qos = 2 /\ ~u.released /\ [id |-> u.id, pub |-> u.pub] \in inboundMsgs
      /\ \A q \in Arriving : IdOf(q) # a.id
      /\ \A b \in Answers' : b \in Answers /\ b.id # a.id
      /\ OnePacketIn(Incoming, c2b')
      /\ \A v \in Flows : v.id = a.id \/ v.pub = u.pub => v = u
  BY <1>1, AckFacts
<1>3. f.id = u.id /\ f.qos = u.qos /\ f.pub = u.pub /\ f.released /\ u.id = a.id
  BY <1>1, <1>2 DEF Unacked
<1>4. Flows' = (Flows \ {u}) \cup {f} /\ FlowsOrdered'
  BY <1>1, FlowReleased DEF FlightInv, NetMatch
<1>5. PICK r : r = [type |-> "PUBREL", id |-> a.id, dup |-> FALSE]
  OBVIOUS
<1>6. /\ b2c' = b2c \/ b2c' = Append(b2c, r)
      /\ r \in Packet /\ r.type = "PUBREL" /\ r.id = a.id /\ IdOf(r) = a.id /\ a.id # 0
  BY <1>2, <1>5, IdFacts DEF Reply, Packet, Ack, IdOf
<1>t. b2c \in Seq(Packet) /\ Incoming \in Seq(Packet) /\ HandMatch
  BY IncomingType DEF FlightInv, TypeOK
<1>7. Incoming' = Incoming \/ Incoming' = Append(Incoming, r)
  <2>1. b2c' = b2c => Incoming' = Incoming
    BY DEF Incoming
  <2> QED BY <1>6, <2>1, IncomingAppended
<1>8. OnePacket' /\ Arriving' \subseteq Arriving \cup {r}
  <2>1. CASE Incoming' = Incoming
    BY <1>2, <2>1 DEF OnePacket, Arriving
  <2>2. CASE Incoming' = Append(Incoming, r)
    <3>1. \A j \in DOMAIN Incoming : Apart(Incoming[j], r) /\ Apart(r, Incoming[j])
      BY <1>2, <1>6 DEF Apart, Arriving
    <3>2. \A j \in DOMAIN c2b' : c2b'[j].id # IdOf(r)
      BY <1>2, <1>6 DEF Answers
    <3>3. OnePacketIn(Append(Incoming, r), c2b')
      BY <1>2, <1>t, <3>1, <3>2, OneMoreIn
    <3> DEFINE l == Len(Incoming) + 1
    <3>4. /\ DOMAIN Incoming' = DOMAIN Incoming \cup {l}
          /\ \A j \in DOMAIN Incoming : Incoming'[j] = Incoming[j]
          /\ Incoming'[l] = r
      BY <1>t, <2>2, AppendFacts
    <3> HIDE DEF l
    <3> QED BY <2>2, <3>3, <3>4 DEF OnePacket, Arriving
  <2> QED BY <1>7, <2>1, <2>2
<1>9. /\ \A k : Held(k)' <=> Held(k)
      /\ \A k, q : QoS(k, q)' <=> QoS(k, q)
      /\ \A k : Releasing(k)' <=> Releasing(k)
  BY DEF Held, Got, InQueue, InHand, QoS, Releasing
<1>10. \A q \in Arriving' : ArrivalTrue(q)'
  <2>1. ASSUME NEW q \in Arriving PROVE ArrivalTrue(q)'
    <3>1. ArrivalTrue(q)
      BY DEF FlightInv, NetMatch
    <3>2. \A v \in Flows : v.id = IdOf(q) => v \in Flows'
      BY <1>2, <1>3, <1>4
    <3> QED BY <1>9, <3>1, <3>2, ArrivalStep
  <2>2. ArrivalTrue(r)'
    BY <1>3, <1>4, <1>6 DEF ArrivalTrue
  <2> QED BY <1>8, <2>1, <2>2
<1>11. \A b \in Answers' : AnswerTrue(b)'
  <2> TAKE b \in Answers'
  <2>1. AnswerTrue(b)
    BY <1>2 DEF FlightInv, NetMatch
  <2>2. \A v \in Flows : v.id = b.id => v \in Flows'
    BY <1>2, <1>3, <1>4
  <2> QED BY <1>9, <2>1, <2>2, AnswerStep
<1>12. \A v \in Flows' : FlowTrue(v)'
  <2>1. ASSUME NEW v \in Flows PROVE FlowTrue(v)'
    BY <1>9, FlowStep DEF FlightInv, NetMatch
  <2>2. FlowTrue(f)'
    <3>1. QoS(u.pub, 2)'
      BY <1>2, <1>9 DEF FlightInv, NetMatch, FlowTrue
    <3> QED BY <1>2, <1>3, <3>1 DEF FlowTrue
  <2> QED BY <1>4, <2>1, <2>2
<1>13. \A m \in inboundMsgs' : ListedTrue(m)'
  <2> TAKE m \in inboundMsgs'
  <2>1. ListedTrue(m)
    BY DEF FlightInv, NetMatch
  <2>2. \A v \in Flows : \E w \in Flows' : w.id = v.id /\ w.qos = v.qos /\ w.pub = v.pub
    BY <1>3, <1>4
  <2> QED BY <1>9, <2>1, <2>2, ListedStep
<1>14. NetMatch'
  BY <1>4, <1>8, <1>10, <1>11, <1>12, <1>13 DEF NetMatch
<1>15. HandMatch'
  <2>1. ~Releasing(a.id)
    BY <1>2, <1>t DEF HandMatch
  <2>2. \A v \in Flows' : Releasing(v.id)' /\ v.released => v.pub = cur'.pub
    BY <1>3, <1>4, <1>9, <1>t, <2>1 DEF HandMatch
  <2>3. \A b \in Answers' : Releasing(b.id)' => b.type # "PUBREC"
    BY <1>2, <1>9, <1>t DEF HandMatch
  <2>4. /\ (step = "pubrec" => cur \in Msg /\ cur.qos = 2)'
        /\ (step = "process" => QoS(cur.pub, 1))'
        /\ (step = "release" => QoS(cur.pub, 2) /\ ~Got(cur.pub) /\ ~InQueue(cur.pub))'
        /\ (step = "forget" => InQueue(cur.pub))'
    BY <1>t DEF HandMatch, QoS, Got, InQueue
  <2> QED BY <2>2, <2>3, <2>4 DEF HandMatch
<1>16. QueueMatch' /\ SettledHeld' /\ NeverTwice' /\ Kept' /\ CalledIsQueued'
  BY <1>9 DEF FlightInv, QueueMatch, SettledHeld, NeverTwice, Kept, CalledIsQueued
<1> QED BY <1>14, <1>15, <1>16 DEF FlightInv

\* PUBACK and PUBCOMP: the message is settled, and held by the client.
LEMMA SettleFlight ==
  ASSUME FlightInv, TypeOK', NEW a, a = Head(c2b), c2b # <<>>, c2b' = Tail(c2b),
         NEW i \in DOMAIN unacked, unacked[i].id = a.id, a.type # "PUBREC",
         unacked' = Remove(unacked, i),
         ledger' = [ledger EXCEPT ![unacked[i].pub].fate = "settled"],
         UNCHANGED <<inboundMsgs, messageQueue, connected, cleansession, link, step, cur, b2c>>
  PROVE  FlightInv'
<1>1. PICK u : u = unacked[i]
  OBVIOUS
<1>2. /\ a \in Ack /\ u \in Flows /\ u.id = a.id
      /\ Held(u.pub)
      /\ \A q \in Arriving : IdOf(q) # a.id
      /\ \A b \in Answers' : b \in Answers /\ b.id # a.id
      /\ OnePacketIn(Incoming, c2b')
      /\ \A v \in Flows : v.id = a.id \/ v.pub = u.pub => v = u
  <2>1. a \in Ack /\ (a.type \in {"PUBACK", "PUBCOMP"} => Held(u.pub))
    BY <1>1, AckFacts
  <2>2. Held(u.pub)
    BY <2>1 DEF Ack
  <2>3. /\ u \in Flows
        /\ \A q \in Arriving : IdOf(q) # a.id
        /\ \A b \in Answers' : b \in Answers /\ b.id # a.id
        /\ OnePacketIn(Incoming, c2b')
    <3>1. /\ \A q \in Arriving : IdOf(q) # a.id
          /\ \A b \in Answers' : b \in Answers /\ b.id # a.id
          /\ OnePacketIn(Incoming, c2b')
      BY AckAlone
    <3> QED BY <1>1, <3>1 DEF Flows
  <2>4. \A v \in Flows : v.id = a.id \/ v.pub = u.pub => v = u
    <3>1. \A v, w \in Flows : v.id = w.id \/ v.pub = w.pub => v = w
      BY FlowsFacts DEF FlightInv, NetMatch
    <3> QED BY <1>1, <2>3, <3>1
  <2>5. u.id = a.id
    BY <1>1
  <2> QED BY <2>1, <2>2, <2>3, <2>4, <2>5
<1>3. Flows' = Flows \ {u} /\ FlowsOrdered'
  BY <1>1, FlowEnded DEF FlightInv, NetMatch
<1>4. /\ DOMAIN ledger' = DOMAIN ledger
      /\ \A k \in DOMAIN ledger : /\ ledger'[k].qos = ledger[k].qos /\ ledger'[k].got = ledger[k].got
                                  /\ ledger'[k].fate = IF k = u.pub THEN "settled" ELSE ledger[k].fate
  BY <1>1, SettleFacts DEF FlightInv
<1>5. /\ \A k : (Got(k)' <=> Got(k)) /\ (InQueue(k)' <=> InQueue(k))
      /\ \A k, q : QoS(k, q)' <=> QoS(k, q)
  BY <1>4 DEF Got, InQueue, QoS
<1>6. /\ \A k : Held(k)' <=> Held(k)
      /\ \A k : Releasing(k)' <=> Releasing(k)
      /\ Incoming' = Incoming /\ Arriving' = Arriving
  BY <1>5 DEF Held, InHand, Releasing, Incoming, Arriving
<1>7. OnePacket'
  BY <1>2, <1>6 DEF OnePacket
<1>8. \A v \in Flows : v.id # a.id => v \in Flows'
  BY <1>2, <1>3
<1>9. \A q \in Arriving' : ArrivalTrue(q)'
  <2> TAKE q \in Arriving'
  <2>1. ArrivalTrue(q) /\ IdOf(q) # a.id
    BY <1>2, <1>6 DEF FlightInv, NetMatch
  <2> QED BY <1>5, <1>6, <1>8, <2>1, ArrivalStep
<1>10. \A b \in Answers' : AnswerTrue(b)'
  <2> TAKE b \in Answers'
  <2>1. AnswerTrue(b) /\ b.id # a.id
    BY <1>2 DEF FlightInv, NetMatch
  <2> QED BY <1>6, <1>8, <2>1, AnswerStep
<1>11. \A v \in Flows' : FlowTrue(v)'
  <2> TAKE v \in Flows'
  <2>1. FlowTrue(v)
    BY <1>3 DEF FlightInv, NetMatch
  <2> QED BY <1>5, <1>6, <2>1, FlowStep
<1>12. \A m \in inboundMsgs' : ListedTrue(m)'
  <2> TAKE m \in inboundMsgs'
  <2>1. ListedTrue(m)
    BY DEF FlightInv, NetMatch
  <2>2. CASE Releasing(m.id)
    BY <1>6, <2>2 DEF ListedTrue
  <2>3. CASE ~Releasing(m.id)
    <3>1. PICK v \in Flows : v.id = m.id /\ v.qos = 2 /\ v.pub = m.pub
      BY <2>1, <2>3 DEF ListedTrue
    <3>2. ~Held(m.pub)
      BY <2>1, <2>3 DEF ListedTrue
    <3>3. v \in Flows'
      BY <1>2, <1>3, <3>1, <3>2
    <3> QED BY <1>6, <3>1, <3>2, <3>3 DEF ListedTrue
  <2> QED BY <2>2, <2>3
<1>13. NetMatch'
  BY <1>3, <1>7, <1>9, <1>10, <1>11, <1>12 DEF NetMatch
<1>14. HandMatch'
  <2>1. HandMatch
    BY DEF FlightInv
  <2>2. \A v \in Flows' : Releasing(v.id)' /\ v.released => v.pub = cur'.pub
    BY <1>3, <1>6, <2>1 DEF HandMatch
  <2>3. \A b \in Answers' : Releasing(b.id)' => b.type # "PUBREC"
    BY <1>2, <1>6, <2>1 DEF HandMatch
  <2>4. /\ (step = "pubrec" => cur \in Msg /\ cur.qos = 2)'
        /\ (step = "process" => QoS(cur.pub, 1))'
        /\ (step = "release" => QoS(cur.pub, 2) /\ ~Got(cur.pub) /\ ~InQueue(cur.pub))'
        /\ (step = "forget" => InQueue(cur.pub))'
    BY <1>5, <2>1 DEF HandMatch
  <2> QED BY <2>2, <2>3, <2>4 DEF HandMatch
<1>15. QueueMatch'
  <2>1. QueueMatch
    BY DEF FlightInv
  <2> QED BY <1>4, <2>1 DEF QueueMatch
<1>16. SettledHeld' /\ NeverTwice'
  BY <1>2, <1>4, <1>6 DEF FlightInv, SettledHeld, NeverTwice
<1>17. Kept' /\ CalledIsQueued'
  BY DEF FlightInv, Kept, CalledIsQueued
<1> QED BY <1>13, <1>14, <1>15, <1>16, <1>17 DEF FlightInv

LEMMA BrokerAckFlight ==
  ASSUME FlightInv, TypeOK', brokerAck
  PROVE  FlightInv'
<1> DEFINE I == {i \in DOMAIN unacked :
                   unacked[i].id = Head(c2b).id /\ (unacked[i].qos = 1 <=> Head(c2b).type = "PUBACK")}
<1>1. /\ c2b # <<>> /\ c2b' = Tail(c2b)
      /\ UNCHANGED <<inboundMsgs, messageQueue, connected, cleansession, link, step, cur>>
  BY DEF brokerAck, memory, conn, thread
<1>2. CASE I = {}
  <2>1. UNCHANGED <<b2c, unacked, ledger>>
    BY <1>2 DEF brokerAck
  <2>2. Part(Incoming', Incoming) /\ Part(c2b', c2b)
    <3>1. Incoming \in Seq(Packet) /\ c2b \in Seq(Ack) /\ Incoming' = Incoming
      BY <1>1, <2>1, IncomingType DEF FlightInv, Incoming
    <3> QED BY <1>1, <3>1, PartFacts
  <2>3. Kept' /\ CalledIsQueued'
    BY <1>1 DEF FlightInv, Kept, CalledIsQueued
  <2> QED BY <1>1, <2>1, <2>2, <2>3, PassiveStep
<1>3. CASE I # {}
  <2>1. PICK i \in I :
          IF Head(c2b).type = "PUBREC"
            THEN /\ unacked' = [unacked EXCEPT ![i].released = TRUE]
                 /\ Reply([type |-> "PUBREL", id |-> Head(c2b).id, dup |-> FALSE])
                 /\ UNCHANGED ledger
            ELSE /\ unacked' = Remove(unacked, i)
                 /\ ledger' = [ledger EXCEPT ![unacked[i].pub].fate = "settled"]
                 /\ UNCHANGED b2c
    BY <1>3 DEF brokerAck
  <2>2. i \in DOMAIN unacked /\ unacked[i].id = Head(c2b).id
    OBVIOUS
  <2> HIDE DEF I
  <2>3. PICK a : a = Head(c2b)
    OBVIOUS
  <2>4. CASE a.type = "PUBREC"
    BY <1>1, <2>1, <2>2, <2>3, <2>4, PubrecFlight
  <2>5. CASE a.type # "PUBREC"
    BY <1>1, <2>1, <2>2, <2>3, <2>5, SettleFlight
  <2> QED BY <2>4, <2>5
<1> QED BY <1>2, <1>3

-----------------------------------------------------------------------------
(* The theorems of a kept session *)

LEMMA FlightInit == Init => FlightInv
<1> SUFFICES ASSUME Init PROVE FlightInv
  OBVIOUS
<1>1. /\ inboundMsgs = {} /\ messageQueue = <<>> /\ step = "idle" /\ link = FALSE /\ cleansession = FALSE
      /\ c2b = <<>> /\ b2c = <<>> /\ unacked = <<>> /\ ledger = <<>>
  BY DEF Init
<1>2. TypeOK
  BY MsgTypes, EmptySeq DEF Init, TypeOK, Steps, Kinds
<1>3. Arriving = {} /\ Answers = {} /\ Flows = {} /\ Incoming = <<>>
  BY <1>1 DEF Arriving, Answers, Flows, Incoming
<1>4. NetMatch
  BY <1>1, <1>3 DEF NetMatch, OnePacket, OnePacketIn, FlowsOrdered
<1>5. HandMatch /\ QueueMatch /\ CalledIsQueued /\ SettledHeld /\ NeverTwice /\ Kept
  BY <1>1, <1>3 DEF HandMatch, Releasing, QueueMatch, CalledIsQueued, SettledHeld, NeverTwice, Kept
<1> QED BY <1>2, <1>4, <1>5 DEF FlightInv

LEMMA FlightStep == ASSUME Steady PROVE FlightInv /\ [Next]_vars => FlightInv'
<1> SUFFICES ASSUME FlightInv, [Next]_vars PROVE FlightInv'
  OBVIOUS
<1>t. TypeOK /\ ~cleansession /\ TRUE \notin CleanSessions /\ (step = "pubrec" => cur.id \in MsgIds)
  <2>1. step = "pubrec" => cur.id \in MsgIds
    BY DEF FlightInv, HandMatch, Msg
  <2> QED BY <2>1 DEF FlightInv, Kept, Steady
<1>1. CASE handlers
  <2>1. TypeOK'
    BY <1>1, <1>t, HandlerTypes
  <2> QED BY <1>1, <2>1, Publish0Flight, Publish1Flight, ProcessFlight, StoreFlight, Publish2Flight,
             PubrelsFlight, ReleaseFlight, ForgetFlight, PassiveFlight DEF handlers
<1>2. CASE readFails \/ receive \/ callMessageArrived \/ \E accepted \in BOOLEAN : messageArrived(accepted)
  <2>1. TypeOK'
    BY <1>2, <1>t, ApplicationTypes
  <2> QED BY <1>2, <2>1, ApplicationFlight, PassiveFlight
<1>3. CASE \/ \E cs \in CleanSessions : connect(cs)
           \/ disconnect \/ disconnect_internal \/ linkBreaks \/ keepalive
           \/ \E qos \in Qoss : brokerPublish(qos)
           \/ brokerAck
  <2>1. TypeOK'
    BY <1>3, <1>t, ConnectionTypes
  <2>2. \A cs \in CleanSessions : cs = FALSE
    BY <1>t, OptionsAssumption
  <2> QED BY <1>3, <2>1, <2>2, ConnectFlight, KeepaliveFlight, BrokerPublishFlight, BrokerAckFlight, PassiveFlight
<1>4. CASE UNCHANGED vars
  <2>1. TypeOK' /\ Kept' /\ CalledIsQueued'
    BY <1>4 DEF FlightInv, TypeOK, Kept, CalledIsQueued, vars, memory, store, thread, conn, network
  <2>2. UNCHANGED <<unacked, inboundMsgs, messageQueue, ledger, step, cur, b2c, c2b>>
    BY <1>4 DEF vars, memory, thread, network
  <2>3. Part(Incoming', Incoming) /\ Part(c2b', c2b)
    <3>1. Incoming \in Seq(Packet) /\ c2b \in Seq(Ack) /\ Incoming' = Incoming
      BY <2>2, IncomingType DEF FlightInv, Incoming
    <3> QED BY <2>2, <3>1, PartFacts
  <2> QED BY <2>1, <2>2, <2>3, PassiveStep
<1>5. ~crash
  BY <1>t, NoCrash
<1> QED BY <1>1, <1>2, <1>3, <1>4, <1>5 DEF Next, run

\* The invariant of a kept session: every packet, acknowledgement, flow, inbound
\* publication and queue entry agrees with the others about its message.
THEOREM FlightSafe == ASSUME Steady PROVE Spec => []FlightInv
BY FlightInit, FlightStep, PTL DEF Spec

\* MQTTProtocol_handlePublishes and MQTTProtocol_handlePubrels queue a QoS 2
\* message once and MQTTClient_run or MQTTClient_receive hands it over once,
\* however often the connection is lost and its packets are repeated.
THEOREM ReceivedOnce == ASSUME Steady PROVE Spec => []NeverTwice
<1>1. FlightInv => NeverTwice
  BY DEF FlightInv
<1> QED BY <1>1, FlightSafe, PTL

\* What was acknowledged before Protocol_processPublication queued it is in the
\* hands of the thread or in the queue until the application gets it.
THEOREM SettledIsKept == ASSUME Steady PROVE Spec => []SettledIsHeld
<1>1. FlightInv => SettledIsHeld
  BY DEF FlightInv, SettledHeld, Held, Got, SettledIsHeld
<1> QED BY <1>1, FlightSafe, PTL

-----------------------------------------------------------------------------
(* The order of delivery *)

\* The earlier messages of the same quality of service.
Before(k) == {j \in DOMAIN ledger : j < k /\ ledger[j].qos = ledger[k].qos}

\* After this packet the message is queued; this one only brings it, and this
\* answer says that it came.
Carries(p, k) == \/ p.type = "PUBLISH" /\ p.msg.qos = 1 /\ p.msg.pub = k
                 \/ p.type = "PUBREL" /\ \E u \in Flows : u.id = p.id /\ u.pub = k
Brings(p, k)   == p.type = "PUBLISH" /\ p.msg.qos = 2 /\ p.msg.pub = k
Receives(a, k) == a.type = "PUBREC" /\ \E u \in Flows : u.id = a.id /\ u.pub = k

Waits(u) == u.qos = 2 /\ ~u.released

OpenIsFlow == \A k \in DOMAIN ledger : ledger[k].fate = "settled" \/ \E u \in Flows : u.pub = k

\* What can be handed over next has nothing before it that was not.
QueueOrder ==
  \A i \in DOMAIN messageQueue :
    LET k == messageQueue[i].pub
    IN ledger[k].qos > 0 /\ ~Got(k) =>
         \A j \in Before(k) : Got(j) \/ \E x \in DOMAIN messageQueue : x < i /\ messageQueue[x].pub = j

HandOrder == step \in {"process", "release"} => \A j \in Before(cur.pub) : Got(j) \/ InQueue(j)

ArrivingOrder ==
  \A i \in DOMAIN Incoming, k \in DOMAIN ledger :
    Carries(Incoming[i], k) =>
      \A j \in Before(k) : Held(j) \/ \E x \in DOMAIN Incoming : x < i /\ Carries(Incoming[x], j)

\* The PUBRECs go back in the order of the messages ...
PublishOrder ==
  link => \A i \in DOMAIN Incoming, k \in DOMAIN ledger :
            Brings(Incoming[i], k) =>
              \A u \in Flows : Waits(u) /\ u.pub < k =>
                \/ \E x \in DOMAIN Incoming : x < i /\ Brings(Incoming[x], u.pub)
                \/ \E a \in Answers : Receives(a, u.pub)

AnswerOrder ==
  \A i \in DOMAIN c2b, v \in Flows :
    Receives(c2b[i], v.pub) =>
      \A u \in Flows : Waits(u) /\ u.pub < v.pub => \E x \in DOMAIN c2b : x < i /\ Receives(c2b[x], u.pub)

\* ... and so the messages are released in their order.
ReleaseOrder == \A u, v \in Flows : u.qos = 2 /\ v.released /\ u.pub < v.pub => u.released

\* As long as the connection is there, every flow has its packet.
FlowsUnderway ==
  link => \A u \in Flows :
            IF Waits(u) THEN (\E p \in Arriving : Brings(p, u.pub)) \/ \E a \in Answers : Receives(a, u.pub)
                        ELSE Held(u.pub) \/ \E p \in Arriving : Carries(p, u.pub)

NetOrder == /\ OpenIsFlow /\ ArrivingOrder /\ PublishOrder
            /\ AnswerOrder /\ ReleaseOrder /\ FlowsUnderway

OrderInv == FlightInv /\ NetOrder /\ QueueOrder /\ HandOrder

\* What a step that leaves the flows alone must keep: at most the first packet
\* was handled, and at most one answer given.
LEMMA OrderStep ==
  ASSUME FlightInv, NetOrder, NEW d \in {0, 1},
         UNCHANGED unacked, DOMAIN ledger' = DOMAIN ledger,
         \A k \in DOMAIN ledger : ledger'[k].qos = ledger[k].qos /\ ledger'[k].fate = ledger[k].fate,
         link' => link,
         \A k : Held(k) => Held(k)',
         Incoming' \in Seq(Packet),
         \A i \in DOMAIN Incoming' : i + d \in DOMAIN Incoming /\ Incoming'[i] = Incoming[i + d],
         link' => \A i \in DOMAIN Incoming : (i = 1 /\ d = 1) \/ i - d \in DOMAIN Incoming',
         d = 1 => \A k : Carries(Incoming[1], k) => Held(k)',
         d = 1 /\ link' => \A k : Brings(Incoming[1], k) => \E a \in Answers' : Receives(a, k),
         link' => \A a \in Answers : a \in Answers',
         \/ c2b' = c2b \/ c2b' = <<>>
         \/ \E a : /\ c2b' = Append(c2b, a)
                   /\ \A v \in Flows : Receives(a, v.pub) =>
                        \A u \in Flows : Waits(u) /\ u.pub < v.pub => \E b \in Answers : Receives(b, u.pub)
  PROVE  NetOrder'
<1>1. /\ Flows' = Flows
      /\ \A p, k : Carries(p, k)' <=> Carries(p, k)
      /\ \A p, k : Brings(p, k)' <=> Brings(p, k)
      /\ \A p, k : Receives(p, k)' <=> Receives(p, k)
      /\ \A u : Waits(u)' <=> Waits(u)
  BY DEF Flows, Carries, Brings, Receives, Waits
<1>2. \A k \in DOMAIN ledger : Before(k)' = Before(k) /\ Before(k) \subseteq DOMAIN ledger
  BY DEF Before
<1>3. /\ Incoming \in Seq(Packet) /\ c2b \in Seq(Ack)
      /\ Len(Incoming) \in Nat /\ DOMAIN Incoming = 1..Len(Incoming)
      /\ Len(Incoming') \in Nat /\ DOMAIN Incoming' = 1..Len(Incoming')
  BY IncomingType, LenProperties DEF FlightInv
<1>4. \A i \in DOMAIN Incoming', x \in DOMAIN Incoming :
        x < i + d => (x = 1 /\ d = 1) \/ (x - d \in DOMAIN Incoming' /\ x - d < i /\ (x - d) + d = x)
  BY <1>3
<1>5. \A i \in DOMAIN Incoming', x \in DOMAIN Incoming :
        x < i + d => (x = 1 /\ d = 1) \/ (x - d \in DOMAIN Incoming' /\ x - d < i /\ Incoming'[x - d] = Incoming[x])
  BY <1>4
<1>6. ArrivingOrder'
  <2> SUFFICES ASSUME NEW i \in DOMAIN Incoming', NEW k \in DOMAIN ledger, Carries(Incoming'[i], k),
                      NEW j \in Before(k)
               PROVE  Held(j)' \/ \E x \in DOMAIN Incoming' : x < i /\ Carries(Incoming'[x], j)
    BY <1>1, <1>2 DEF ArrivingOrder
  <2>1. Held(j) \/ \E x \in DOMAIN Incoming : x < i + d /\ Carries(Incoming[x], j)
    BY DEF NetOrder, ArrivingOrder
  <2>2. CASE Held(j)
    BY <2>2
  <2>3. ASSUME NEW x \in DOMAIN Incoming, x < i + d, Carries(Incoming[x], j)
        PROVE  Held(j)' \/ \E y \in DOMAIN Incoming' : y < i /\ Carries(Incoming'[y], j)
    BY <1>5, <2>3
  <2> QED BY <2>1, <2>2, <2>3
<1>7. PublishOrder'
  <2> SUFFICES ASSUME link', NEW i \in DOMAIN Incoming', NEW k \in DOMAIN ledger, Brings(Incoming'[i], k),
                      NEW u \in Flows, Waits(u), u.pub < k
               PROVE  \/ \E x \in DOMAIN Incoming' : x < i /\ Brings(Incoming'[x], u.pub)
                      \/ \E a \in Answers' : Receives(a, u.pub)
    BY <1>1 DEF PublishOrder
  <2>1. \/ \E x \in DOMAIN Incoming : x < i + d /\ Brings(Incoming[x], u.pub)
        \/ \E a \in Answers : Receives(a, u.pub)
    BY DEF NetOrder, PublishOrder
  <2>2. CASE \E a \in Answers : Receives(a, u.pub)
    BY <2>2
  <2>3. ASSUME NEW x \in DOMAIN Incoming, x < i + d, Brings(Incoming[x], u.pub)
        PROVE  \/ \E y \in DOMAIN Incoming' : y < i /\ Brings(Incoming'[y], u.pub)
               \/ \E a \in Answers' : Receives(a, u.pub)
    BY <1>5, <2>3
  <2> QED BY <2>1, <2>2, <2>3
<1>8. AnswerOrder'
  <2> SUFFICES ASSUME NEW i \in DOMAIN c2b', NEW v \in Flows, Receives(c2b'[i], v.pub),
                      NEW u \in Flows, Waits(u), u.pub < v.pub
               PROVE  \E x \in DOMAIN c2b' : x < i /\ Receives(c2b'[x], u.pub)
    BY <1>1 DEF AnswerOrder
  <2>1. CASE c2b' = c2b
    BY <2>1 DEF NetOrder, AnswerOrder
  <2>2. CASE c2b' = <<>>
    BY <2>2
  <2>3. ASSUME NEW a, c2b' = Append(c2b, a),
               \A w \in Flows : Receives(a, w.pub) =>
                 \A z \in Flows : Waits(z) /\ z.pub < w.pub => \E b \in Answers : Receives(b, z.pub)
        PROVE  \E x \in DOMAIN c2b' : x < i /\ Receives(c2b'[x], u.pub)
    <3> DEFINE l == Len(c2b) + 1
    <3>1. /\ DOMAIN c2b' = DOMAIN c2b \cup {l}
          /\ \A x \in DOMAIN c2b : c2b'[x] = c2b[x] /\ x \in 1..Len(c2b)
          /\ c2b'[l] = a
      BY <1>3, <2>3, AppendFacts
    <3>2. \A x \in DOMAIN c2b : x < l
      BY <1>3, <3>1, LenProperties
    <3> HIDE DEF l
    <3>3. CASE i \in DOMAIN c2b
      BY <3>1, <3>3 DEF NetOrder, AnswerOrder
    <3>4. CASE i = l
      <4>1. \E b \in Answers : Receives(b, u.pub)
        BY <2>3, <3>1, <3>4
      <4> QED BY <3>1, <3>2, <3>4, <4>1 DEF Answers
    <3> QED BY <3>1, <3>3, <3>4
  <2> QED BY <2>1, <2>2, <2>3
<1>9. FlowsUnderway'
  <2> SUFFICES ASSUME link', NEW u \in Flows
               PROVE  IF Waits(u) THEN (\E p \in Arriving' : Brings(p, u.pub)) \/ \E a \in Answers' : Receives(a, u.pub)
                                  ELSE Held(u.pub)' \/ \E p \in Arriving' : Carries(p, u.pub)
    BY <1>1 DEF FlowsUnderway
  <2>1. IF Waits(u) THEN (\E p \in Arriving : Brings(p, u.pub)) \/ \E a \in Answers : Receives(a, u.pub)
                    ELSE Held(u.pub) \/ \E p \in Arriving : Carries(p, u.pub)
    BY DEF NetOrder, FlowsUnderway
  <2>2. \A x \in DOMAIN Incoming : (x = 1 /\ d = 1) \/ (x - d \in DOMAIN Incoming' /\ (x - d) + d = x)
    BY <1>3
  <2>3. \A x \in DOMAIN Incoming : (x = 1 /\ d = 1) \/ Incoming[x] \in Arriving'
    BY <2>2 DEF Arriving
  <2>4. CASE Waits(u)
    <3>1. ASSUME NEW x \in DOMAIN Incoming, Brings(Incoming[x], u.pub)
          PROVE  (\E p \in Arriving' : Brings(p, u.pub)) \/ \E a \in Answers' : Receives(a, u.pub)
      BY <2>3, <3>1
    <3> QED BY <2>1, <2>4, <3>1 DEF Arriving
  <2>5. CASE ~Waits(u)
    <3>1. ASSUME NEW x \in DOMAIN Incoming, Carries(Incoming[x], u.pub)
          PROVE  Held(u.pub)' \/ \E p \in Arriving' : Carries(p, u.pub)
      BY <2>3, <3>1
    <3> QED BY <2>1, <2>5, <3>1 DEF Arriving
  <2> QED BY <2>4, <2>5
<1>10. OpenIsFlow' /\ ReleaseOrder'
  BY <1>1 DEF NetOrder, OpenIsFlow, ReleaseOrder
<1> QED BY <1>6, <1>7, <1>8, <1>9, <1>10 DEF NetOrder

LEMMA OrderSame ==
  ASSUME FlightInv, NetOrder, UNCHANGED <<unacked, c2b, link>>, Incoming' = Incoming,
         DOMAIN ledger' = DOMAIN ledger,
         \A k \in DOMAIN ledger : ledger'[k].qos = ledger[k].qos /\ ledger'[k].fate = ledger[k].fate,
         \A k : Held(k) => Held(k)'
  PROVE  NetOrder'
<1>1. Incoming' \in Seq(Packet) /\ Len(Incoming) \in Nat /\ DOMAIN Incoming = 1..Len(Incoming)
  BY IncomingType, LenProperties DEF FlightInv
<1>2. \A i \in DOMAIN Incoming : i + 0 = i /\ i - 0 = i
  BY <1>1
<1>3. Answers' = Answers
  BY DEF Answers
<1> DEFINE d == 0
<1>4. d \in {0, 1} /\ d # 1
  OBVIOUS
<1>5. /\ \A i \in DOMAIN Incoming' : i + d \in DOMAIN Incoming /\ Incoming'[i] = Incoming[i + d]
      /\ \A i \in DOMAIN Incoming : i - d \in DOMAIN Incoming'
  BY <1>2
<1> HIDE DEF d
<1> QED BY <1>1, <1>3, <1>4, <1>5, OrderStep

\* The first packet is handled, and perhaps answered.
LEMMA OrderHandled ==
  ASSUME FlightInv, NetOrder, UNCHANGED <<unacked, link, ledger>>, Incoming # <<>>, Incoming' = Tail(Incoming),
         \A k : Held(k) => Held(k)',
         \A k : Carries(Head(Incoming), k) => Held(k)',
         link => \A k : Brings(Head(Incoming), k) => \E a \in Answers' : Receives(a, k),
         \/ c2b' = c2b
         \/ \E a : /\ c2b' = Append(c2b, a)
                   /\ \A v \in Flows : Receives(a, v.pub) =>
                        \A u \in Flows : Waits(u) /\ u.pub < v.pub => \E b \in Answers : Receives(b, u.pub)
  PROVE  NetOrder'
<1>1. Incoming \in Seq(Packet) /\ c2b \in Seq(Ack)
  BY IncomingType DEF FlightInv
<1>2. /\ Head(Incoming) = Incoming[1] /\ Tail(Incoming) \in Seq(Packet)
      /\ \A i \in DOMAIN Incoming' : i + 1 \in DOMAIN Incoming /\ Incoming'[i] = Incoming[i + 1]
      /\ \A i \in DOMAIN Incoming : i = 1 \/ i - 1 \in DOMAIN Incoming'
  BY <1>1, TailFacts, HeadTailProperties
<1>3. \A a \in Answers : a \in Answers'
  <2>1. CASE c2b' = c2b
    BY <2>1 DEF Answers
  <2>2. ASSUME NEW a, c2b' = Append(c2b, a) PROVE \A b \in Answers : b \in Answers'
    <3>1. \A x \in DOMAIN c2b : x \in DOMAIN c2b' /\ c2b'[x] = c2b[x]
      BY <1>1, <2>2, AppendFacts
    <3> QED BY <3>1 DEF Answers
  <2> QED BY <2>1, <2>2
<1> DEFINE d == 1
<1>4. d \in {0, 1} /\ d = 1
  OBVIOUS
<1>5. /\ \A i \in DOMAIN Incoming' : i + d \in DOMAIN Incoming /\ Incoming'[i] = Incoming[i + d]
      /\ \A i \in DOMAIN Incoming : (i = 1 /\ d = 1) \/ i - d \in DOMAIN Incoming'
  BY <1>2
<1> HIDE DEF d
<1> QED BY <1>2, <1>3, <1>4, <1>5, OrderStep

\* The connection is lost, and with it the end of what was to come.
LEMMA OrderLost ==
  ASSUME FlightInv, NetOrder, UNCHANGED <<unacked, ledger>>, ~link', Incoming' \in Seq(Packet),
         \A i \in DOMAIN Incoming' : i \in DOMAIN Incoming /\ Incoming'[i] = Incoming[i],
         \A k : Held(k) => Held(k)', c2b' = c2b \/ c2b' = <<>>
  PROVE  NetOrder'
<1>1. Len(Incoming') \in Nat /\ DOMAIN Incoming' = 1..Len(Incoming')
  BY LenProperties
<1>2. \A i \in DOMAIN Incoming' : i + 0 = i
  BY <1>1
<1> DEFINE d == 0
<1>4. d \in {0, 1} /\ d # 1
  OBVIOUS
<1>5. \A i \in DOMAIN Incoming' : i + d \in DOMAIN Incoming /\ Incoming'[i] = Incoming[i + d]
  BY <1>2
<1> HIDE DEF d
<1> QED BY <1>4, <1>5, OrderStep

LEMMA QueueSame ==
  ASSUME FlightInv, QueueOrder, UNCHANGED messageQueue, DOMAIN ledger \subseteq DOMAIN ledger',
         \A k \in DOMAIN ledger : ledger'[k].qos = ledger[k].qos /\ Before(k)' = Before(k),
         \A k \in DOMAIN ledger : Got(k)' <=> Got(k)
  PROVE  QueueOrder'
<1>1. \A i \in DOMAIN messageQueue : messageQueue[i].pub \in DOMAIN ledger
  BY DEF FlightInv, QueueMatch
<1>2. \A k \in DOMAIN ledger : Before(k) \subseteq DOMAIN ledger
  BY DEF Before
<1> SUFFICES ASSUME NEW i \in DOMAIN messageQueue, NEW k, k = messageQueue[i].pub,
                    ledger'[k].qos > 0, ~Got(k)', NEW j \in Before(k)'
             PROVE  Got(j)' \/ \E x \in DOMAIN messageQueue : x < i /\ messageQueue[x].pub = j
  BY DEF QueueOrder
<1>3. k \in DOMAIN ledger
  BY <1>1
<1>4. ledger[k].qos > 0 /\ ~Got(k) /\ j \in Before(k) /\ j \in DOMAIN ledger
  BY <1>2, <1>3
<1>5. Got(j) \/ \E x \in DOMAIN messageQueue : x < i /\ messageQueue[x].pub = j
  BY <1>4 DEF QueueOrder
<1> QED BY <1>4, <1>5

\* The first message leaves the queue and reaches the application.
LEMMA QueueTaken ==
  ASSUME FlightInv, QueueOrder, messageQueue # <<>>, messageQueue' = Tail(messageQueue),
         HandOver(Head(messageQueue).pub)
  PROVE  QueueOrder'
<1> DEFINE pub == Head(messageQueue).pub
<1>t. TypeOK /\ messageQueue \in Seq(QEntry) /\ QueueMatch
  BY DEF FlightInv, TypeOK
<1>1. /\ 1 \in DOMAIN messageQueue /\ Head(messageQueue) = messageQueue[1]
      /\ \A i \in DOMAIN messageQueue' : /\ i \in Nat \ {0} /\ i + 1 \in DOMAIN messageQueue
                                         /\ messageQueue'[i] = messageQueue[i + 1]
      /\ \A i \in DOMAIN messageQueue : /\ i \in Nat \ {0}
                                        /\ i # 1 => i - 1 \in DOMAIN messageQueue' /\ messageQueue'[i - 1] = messageQueue[i]
  BY <1>t, TailFacts
<1>2. pub \in DOMAIN ledger /\ HandOver(pub) /\ pub = messageQueue[1].pub
  BY <1>t, <1>1 DEF QueueMatch
<1> HIDE DEF pub
<1>4. /\ DOMAIN ledger' = DOMAIN ledger
      /\ ledger'[pub].got = ledger[pub].got + 1 /\ ledger[pub].got \in Nat
      /\ \A k \in DOMAIN ledger : /\ ledger'[k].qos = ledger[k].qos /\ ledger'[k].fate = ledger[k].fate
                                  /\ k # pub => ledger'[k].got = ledger[k].got
  BY <1>t, <1>2, HandOverFacts
<1>5. \A k : Got(k)' <=> Got(k) \/ k = pub
  BY <1>2, <1>4 DEF Got
<1>6. \A k \in DOMAIN ledger : Before(k)' = Before(k)
  BY <1>4 DEF Before
<1>7. \A i \in DOMAIN messageQueue : messageQueue[i].pub \in DOMAIN ledger
  BY <1>t DEF QueueMatch
<1> SUFFICES ASSUME NEW i \in DOMAIN messageQueue', NEW k, k = messageQueue'[i].pub,
                    ledger'[k].qos > 0, ~Got(k)', NEW j \in Before(k)'
             PROVE  Got(j)' \/ \E x \in DOMAIN messageQueue' : x < i /\ messageQueue'[x].pub = j
  BY DEF QueueOrder
<1>8. i \in Nat \ {0} /\ i + 1 \in DOMAIN messageQueue /\ k = messageQueue[i + 1].pub /\ k \in DOMAIN ledger
  BY <1>1, <1>7
<1>9. ledger[k].qos > 0 /\ ~Got(k) /\ j \in Before(k)
  BY <1>4, <1>5, <1>6, <1>8
<1>10. Got(j) \/ \E x \in DOMAIN messageQueue : x < i + 1 /\ messageQueue[x].pub = j
  BY <1>8, <1>9 DEF QueueOrder
<1>11. ASSUME NEW x \in DOMAIN messageQueue, x < i + 1, messageQueue[x].pub = j, x # 1
       PROVE  \E y \in DOMAIN messageQueue' : y < i /\ messageQueue'[y].pub = j
  <2>1. x - 1 \in DOMAIN messageQueue' /\ messageQueue'[x - 1] = messageQueue[x] /\ x \in Nat
    BY <1>1, <1>11
  <2>2. x - 1 < i
    BY <1>8, <1>11, <2>1
  <2> QED BY <1>11, <2>1, <2>2
<1> QED BY <1>2, <1>5, <1>10, <1>11

\* A message is queued after those that it must not overtake.
LEMMA QueueAppended ==
  ASSUME FlightInv, QueueOrder, NEW m, Enqueue(m), UNCHANGED ledger,
         ledger[m.pub].qos > 0 => \A j \in Before(m.pub) : Got(j) \/ InQueue(j)
  PROVE  QueueOrder'
<1> DEFINE n == Len(messageQueue) + 1
<1>1. PICK e : messageQueue' = Append(messageQueue, e) /\ e.pub = m.pub
  BY DEF Enqueue
<1>2. Len(messageQueue) \in Nat /\ DOMAIN messageQueue = 1..Len(messageQueue) /\ messageQueue \in Seq(QEntry)
  BY LenProperties DEF FlightInv, TypeOK
<1>3. /\ DOMAIN messageQueue' = DOMAIN messageQueue \cup {n}
      /\ \A i \in DOMAIN messageQueue : messageQueue'[i] = messageQueue[i]
      /\ messageQueue'[n] = e
  BY <1>1, <1>2, AppendFacts
<1>4. \A i \in DOMAIN messageQueue : i < n
  BY <1>2
<1> HIDE DEF n
<1>5. \A k : (Got(k)' <=> Got(k)) /\ Before(k)' = Before(k)
  BY DEF Got, Before
<1> SUFFICES ASSUME NEW i \in DOMAIN messageQueue', NEW k, k = messageQueue'[i].pub,
                    ledger[k].qos > 0, ~Got(k), NEW j \in Before(k)
             PROVE  Got(j) \/ \E x \in DOMAIN messageQueue' : x < i /\ messageQueue'[x].pub = j
  BY <1>5 DEF QueueOrder
<1>6. CASE i \in DOMAIN messageQueue
  <2>1. Got(j) \/ \E x \in DOMAIN messageQueue : x < i /\ messageQueue[x].pub = j
    BY <1>3, <1>6 DEF QueueOrder
  <2> QED BY <1>3, <2>1
<1>7. CASE i = n
  <2>1. Got(j) \/ InQueue(j)
    BY <1>1, <1>3, <1>7
  <2> QED BY <1>3, <1>4, <1>7, <2>1 DEF InQueue
<1> QED BY <1>3, <1>6, <1>7

\* Steps that hand nothing on keep the order.
LEMMA QuietOrder ==
  ASSUME OrderInv, UNCHANGED <<messageQueue, ledger>>,
         \/ {step, step'} \cap {"pubrec", "process", "release", "forget"} = {}
         \/ UNCHANGED <<step, cur>>
  PROVE  (\A k : Held(k)' <=> Held(k)) /\ QueueOrder' /\ HandOrder'
<1>1. \A k : (InHand(k)' <=> InHand(k)) /\ (Got(k)' <=> Got(k)) /\ (InQueue(k)' <=> InQueue(k))
  BY DEF InHand, Got, InQueue
<1>2. \A k : Before(k)' = Before(k)
  BY DEF Before
<1>3. QueueOrder'
  BY <1>1, <1>2, QueueSame DEF OrderInv
<1>4. HandOrder'
  BY <1>1, <1>2 DEF OrderInv, HandOrder
<1> QED BY <1>1, <1>3, <1>4 DEF Held

LEMMA PassiveOrder ==
  ASSUME OrderInv, FlightInv', Steady,
         handlePingresps \/ readFails \/ callMessageArrived \/ messageArrived(FALSE)
           \/ disconnect \/ disconnect_internal \/ linkBreaks
  PROVE  OrderInv'
<1>t. /\ FlightInv /\ NetOrder /\ Kept /\ HandMatch
      /\ b2c \in Seq(Packet) /\ c2b \in Seq(Ack) /\ Incoming \in Seq(Packet)
  BY IncomingType DEF OrderInv, FlightInv, TypeOK
<1>1. CASE handlePingresps
  <2>1. /\ Receive("PINGRESP") /\ step' \in {"call", "idle"}
        /\ UNCHANGED <<unacked, messageQueue, ledger, link, c2b>>
    BY <1>1 DEF handlePingresps, memory, conn, EndOfCycle
  <2>2. /\ step = "idle" /\ Incoming = b2c /\ b2c # <<>> /\ b2c' = Tail(b2c)
        /\ Head(b2c).type = "PINGRESP"
    BY <1>t, <2>1, ReceiveFacts
  <2>3. Incoming' = Tail(Incoming)
    BY <2>1, <2>2 DEF Incoming
  <2>4. (\A k : Held(k)' <=> Held(k)) /\ QueueOrder' /\ HandOrder'
    BY <2>1, <2>2, QuietOrder
  <2>5. \A k : ~Carries(Head(Incoming), k) /\ ~Brings(Head(Incoming), k)
    BY <2>2 DEF Carries, Brings
  <2>6. NetOrder'
    BY <1>t, <2>1, <2>2, <2>3, <2>4, <2>5, OrderHandled
  <2> QED BY <2>4, <2>6 DEF OrderInv
<1>2. CASE readFails \/ callMessageArrived \/ messageArrived(FALSE)
  <2>1. /\ {step, step'} \cap {"pubrec", "process", "release", "forget"} = {}
        /\ UNCHANGED <<unacked, messageQueue, ledger, link, c2b, b2c>>
    BY <1>2 DEF readFails, callMessageArrived, messageArrived, memory, conn, network
  <2>2. Incoming' = Incoming
    BY <2>1 DEF Incoming
  <2>3. (\A k : Held(k)' <=> Held(k)) /\ QueueOrder' /\ HandOrder'
    BY <2>1, QuietOrder
  <2>4. NetOrder'
    BY <1>t, <2>1, <2>2, <2>3, OrderSame
  <2> QED BY <2>3, <2>4 DEF OrderInv
<1>3. ASSUME closeSession, {step, step'} \cap {"pubrec", "process", "release", "forget"} = {} PROVE OrderInv'
  <2>1. /\ link' = FALSE /\ b2c' = <<>>
        /\ UNCHANGED <<unacked, messageQueue, ledger, c2b>>
    BY <1>3, <1>t, KeptClose DEF Kept, memory
  <2>2. Incoming' = <<>>
    BY <1>3, <2>1 DEF Incoming
  <2>3. (\A k : Held(k)' <=> Held(k)) /\ QueueOrder' /\ HandOrder'
    BY <1>3, <2>1, QuietOrder
  <2>4. Incoming' \in Seq(Packet) /\ DOMAIN Incoming' = {}
    BY <2>2
  <2>5. NetOrder'
    BY <1>t, <2>1, <2>3, <2>4, OrderLost
  <2> QED BY <2>3, <2>5 DEF OrderInv
<1>4. CASE disconnect
  BY <1>3, <1>4 DEF disconnect, thread
<1>5. CASE disconnect_internal
  <2>1. CASE connected
    BY <1>3, <1>5, <2>1 DEF disconnect_internal
  <2>2. CASE ~connected
    <3>1. /\ {step, step'} \cap {"pubrec", "process", "release", "forget"} = {}
          /\ UNCHANGED <<unacked, messageQueue, ledger, link, c2b, b2c>>
      BY <1>5, <2>2 DEF disconnect_internal, memory, conn, network
    <3>2. Incoming' = Incoming
      BY <3>1 DEF Incoming
    <3>3. (\A k : Held(k)' <=> Held(k)) /\ QueueOrder' /\ HandOrder'
      BY <3>1, QuietOrder
    <3>4. NetOrder'
      BY <1>t, <3>1, <3>2, <3>3, OrderSame
    <3> QED BY <3>3, <3>4 DEF OrderInv
  <2> QED BY <2>1, <2>2
<1>6. CASE linkBreaks
  <2>1. PICK n \in 0..Len(b2c) : b2c' = SubSeq(b2c, 1, n)
    BY <1>6 DEF linkBreaks
  <2>2. /\ link' = FALSE /\ c2b' = <<>>
        /\ UNCHANGED <<unacked, messageQueue, ledger, step, cur>>
    BY <1>6, <1>t DEF linkBreaks, EndBrokerSession, Kept, memory, thread, conn
  <2>3. (\A k : Held(k)' <=> Held(k)) /\ QueueOrder' /\ HandOrder'
    BY <2>2, QuietOrder
  <2>4. /\ Incoming' \in Seq(Packet)
        /\ \A i \in DOMAIN Incoming' : i \in DOMAIN Incoming /\ Incoming'[i] = Incoming[i]
    <3>1. b2c' \in Seq(Packet)
      BY <1>t, <2>1
    <3>2. CASE step = "pubrec"
      <4> DEFINE e == [type |-> "PUBLISH", msg |-> cur]
      <4>1. e \in Packet
        BY <1>t, <3>2 DEF HandMatch, Packet
      <4>2. Incoming = <<e>> \o b2c /\ Incoming' = <<e>> \o b2c'
        BY <2>2, <3>2 DEF Incoming
      <4> HIDE DEF e
      <4>3. Incoming' \in Seq(Packet)
        BY <3>1, <4>1, <4>2, InFrontFacts
      <4> QED BY <1>t, <2>1, <4>1, <4>2, <4>3, PrefixInFront
    <3>3. CASE step # "pubrec"
      <4>1. Incoming = b2c /\ Incoming' = b2c'
        BY <2>2, <3>3 DEF Incoming
      <4> QED BY <1>t, <2>1, <3>1, <4>1, LenProperties
    <3> QED BY <3>2, <3>3
  <2>5. NetOrder'
    BY <1>t, <2>2, <2>3, <2>4, OrderLost
  <2> QED BY <2>3, <2>5 DEF OrderInv
<1> QED BY <1>1, <1>2, <1>4, <1>5, <1>6

LEMMA TakenOrder ==
  ASSUME OrderInv, FlightInv', receive \/ messageArrived(TRUE)
  PROVE  OrderInv'
<1> DEFINE pub == Head(messageQueue).pub
<1>t. FlightInv /\ NetOrder /\ QueueOrder /\ TypeOK /\ QueueMatch /\ messageQueue \in Seq(QEntry)
  BY DEF OrderInv, FlightInv, TypeOK
<1>1. /\ messageQueue # <<>> /\ messageQueue' = Tail(messageQueue) /\ HandOver(pub)
      /\ {step, step'} \cap {"pubrec", "process", "release", "forget"} = {}
      /\ UNCHANGED <<unacked, c2b, b2c, link>>
  <2>1. CASE receive
    BY <2>1 DEF receive, deliverMessage, conn, network
  <2>2. CASE messageArrived(TRUE)
    <3>1. /\ step = "called" /\ step' = "idle" /\ HandOver(cur.pub) /\ messageQueue' = WithoutFirst
          /\ UNCHANGED <<unacked, c2b, b2c, link>>
      BY <2>2 DEF messageArrived, conn, network
    <3>2. messageQueue # <<>> /\ cur.pub = pub
      BY <1>t, <3>1 DEF FlightInv, CalledIsQueued
    <3> QED BY <3>1, <3>2 DEF WithoutFirst, HandOver
  <2> QED BY <2>1, <2>2
<1>2. QueueOrder'
  BY <1>1, <1>t, QueueTaken
<1>3. /\ 1 \in DOMAIN messageQueue /\ Head(messageQueue) = messageQueue[1]
      /\ \A i \in DOMAIN messageQueue : i # 1 => i - 1 \in DOMAIN messageQueue' /\ messageQueue'[i - 1] = messageQueue[i]
  BY <1>1, <1>t, TailFacts
<1>4. pub \in DOMAIN ledger /\ pub = messageQueue[1].pub
  BY <1>3, <1>t DEF QueueMatch
<1>5. HandOver(pub)
  BY <1>1
<1> HIDE DEF pub
<1>6. /\ DOMAIN ledger' = DOMAIN ledger
      /\ ledger'[pub].got = ledger[pub].got + 1 /\ ledger[pub].got \in Nat
      /\ \A k \in DOMAIN ledger : /\ ledger'[k].qos = ledger[k].qos /\ ledger'[k].fate = ledger[k].fate
                                  /\ k # pub => ledger'[k].got = ledger[k].got
  BY <1>t, <1>4, <1>5, HandOverFacts
<1>7. \A k : Held(k) => Held(k)'
  <2>1. \A k : Got(k)' <=> Got(k) \/ k = pub
    BY <1>4, <1>6 DEF Got
  <2>2. \A k : InQueue(k) => InQueue(k)' \/ k = pub
    BY <1>3, <1>4 DEF InQueue
  <2>3. \A k : ~InHand(k)
    BY <1>1 DEF InHand
  <2> QED BY <2>1, <2>2, <2>3 DEF Held
<1>8. Incoming' = Incoming
  BY <1>1 DEF Incoming
<1>9. NetOrder'
  BY <1>1, <1>6, <1>7, <1>8, <1>t, OrderSame
<1>10. HandOrder'
  BY <1>1 DEF HandOrder
<1> QED BY <1>2, <1>9, <1>10 DEF OrderInv

LEMMA EnqueueHeld ==
  ASSUME TypeOK, NEW m, Enqueue(m)
  PROVE  \A k : InQueue(k)' <=> InQueue(k) \/ k = m.pub
<1> DEFINE n == Len(messageQueue) + 1
<1>1. PICK e : messageQueue' = Append(messageQueue, e) /\ e.pub = m.pub
  BY DEF Enqueue
<1>2. /\ DOMAIN messageQueue' = DOMAIN messageQueue \cup {n}
      /\ \A i \in DOMAIN messageQueue : messageQueue'[i] = messageQueue[i]
      /\ messageQueue'[n] = e
  BY <1>1, AppendFacts DEF TypeOK
<1> HIDE DEF n
<1> QED BY <1>1, <1>2 DEF InQueue

\* The first packet carries nothing past an earlier message.
LEMMA FirstCarried ==
  ASSUME OrderInv, NEW type, Receive(type), NEW k \in DOMAIN ledger, Carries(Head(b2c), k)
  PROVE  \A j \in Before(k) : Got(j) \/ InQueue(j)
<1>1. Incoming = b2c /\ b2c # <<>> /\ b2c \in Seq(Packet) /\ \A j : ~InHand(j)
  BY ReceiveFacts DEF OrderInv
<1>2. 1 \in DOMAIN Incoming /\ Head(b2c) = Incoming[1] /\ \A x \in DOMAIN Incoming : ~(x < 1)
  <2>1. \A x \in DOMAIN b2c : x \in Nat \ {0}
    BY <1>1, TailFacts
  <2> QED BY <1>1, <2>1, TailFacts
<1>3. \A j \in Before(k) : Held(j)
  BY <1>2 DEF OrderInv, NetOrder, ArrivingOrder
<1> QED BY <1>1, <1>3 DEF Held

LEMMA Publish0Order ==
  ASSUME OrderInv, FlightInv', handlePublish0
  PROVE  OrderInv'
<1> DEFINE p == Head(b2c)
<1>t. FlightInv /\ NetOrder /\ QueueOrder /\ TypeOK
  BY DEF OrderInv, FlightInv
<1>1. /\ Receive("PUBLISH") /\ p.msg.qos = 0 /\ Enqueue(p.msg) /\ step' \in {"call", "idle"}
      /\ UNCHANGED <<link, c2b, unacked, ledger>>
  BY DEF handlePublish0, EndOfCycle, conn
<1>2. /\ step = "idle" /\ Incoming = b2c /\ b2c # <<>> /\ b2c' = Tail(b2c)
      /\ p.type = "PUBLISH" /\ ArrivalTrue(p) /\ \A k : ~InHand(k)
  BY <1>1, <1>t, ReceiveFacts
<1>3. Incoming' = Tail(Incoming)
  BY <1>1, <1>2 DEF Incoming
<1>4. \A k : ~Carries(Head(Incoming), k) /\ ~Brings(Head(Incoming), k)
  BY <1>1, <1>2 DEF Carries, Brings
<1>5. \A k : Held(k) => Held(k)'
  <2>1. \A k : InQueue(k) => InQueue(k)'
    BY <1>1, <1>t, EnqueueHeld
  <2>2. \A k : Got(k)' <=> Got(k)
    BY <1>1 DEF Got
  <2> QED BY <1>2, <2>1, <2>2 DEF Held
<1>6. NetOrder'
  BY <1>1, <1>2, <1>3, <1>4, <1>5, <1>t, OrderHandled
<1>7. QueueOrder'
  <2>1. ledger[p.msg.pub].qos = 0
    BY <1>1, <1>2 DEF ArrivalTrue, QoS
  <2> QED BY <1>1, <1>t, <2>1, QueueAppended
<1>8. HandOrder'
  BY <1>1 DEF HandOrder
<1> QED BY <1>6, <1>7, <1>8 DEF OrderInv

LEMMA Publish1Order ==
  ASSUME OrderInv, FlightInv', handlePublish1
  PROVE  OrderInv'
<1>p. PICK p : p = Head(b2c)
  OBVIOUS
<1>m. PICK k0 : k0 = p.msg.pub
  OBVIOUS
<1>a. PICK a0 : a0 = [type |-> "PUBACK", id |-> p.msg.id]
  OBVIOUS
<1>t. FlightInv /\ NetOrder /\ QueueOrder /\ TypeOK
  BY DEF OrderInv, FlightInv
<1>1. /\ Receive("PUBLISH") /\ p.msg.qos = 1 /\ Send("PUBACK", p.msg.id)
      /\ step' = "process" /\ cur' = p.msg
      /\ UNCHANGED <<messageQueue, link, unacked, ledger>>
  BY <1>p DEF handlePublish1, conn, memory
<1>2. /\ step = "idle" /\ Incoming = b2c /\ b2c # <<>> /\ b2c' = Tail(b2c)
      /\ p.type = "PUBLISH" /\ ArrivalTrue(p) /\ \A k : ~InHand(k)
  BY <1>1, <1>p, <1>t, ReceiveFacts
<1>3. Incoming' = Tail(Incoming)
  BY <1>1, <1>2 DEF Incoming
<1>4. (c2b' = c2b \/ c2b' = Append(c2b, a0)) /\ \A k : ~Receives(a0, k)
  BY <1>1, <1>a DEF Send, Receives
<1>5. \A k : (Carries(p, k) <=> k = k0) /\ ~Brings(p, k)
  BY <1>1, <1>2, <1>m DEF Carries, Brings
<1>6. \A k : InHand(k)' <=> k = k0
  BY <1>1, <1>m DEF InHand
<1>7. \A k : (Got(k)' <=> Got(k)) /\ (InQueue(k)' <=> InQueue(k)) /\ Before(k)' = Before(k)
  BY <1>1 DEF Got, InQueue, Before
<1>8. (\A k : Held(k) => Held(k)') /\ Held(k0)'
  BY <1>2, <1>6, <1>7 DEF Held
<1>9. p = Head(Incoming)
  BY <1>2, <1>p
<1>10. NetOrder'
  <2>1. /\ \A k : Carries(Head(Incoming), k) => Held(k)'
        /\ \A k : ~Brings(Head(Incoming), k)
    BY <1>5, <1>8, <1>9
  <2>2. \/ c2b' = c2b
        \/ \E a : /\ c2b' = Append(c2b, a)
                  /\ \A v \in Flows : Receives(a, v.pub) =>
                       \A u \in Flows : Waits(u) /\ u.pub < v.pub => \E b \in Answers : Receives(b, u.pub)
    BY <1>4
  <2> QED BY <1>1, <1>2, <1>3, <1>8, <1>t, <2>1, <2>2, OrderHandled
<1>11. QueueOrder'
  BY <1>1, <1>7, <1>t, QueueSame
<1>12. HandOrder'
  <2>1. k0 \in DOMAIN ledger
    <3>1. \E u \in Flows : u.pub = k0
      BY <1>1, <1>2, <1>m DEF ArrivalTrue
    <3> QED BY <1>t, <3>1 DEF FlightInv, NetMatch, FlowTrue, QoS
  <2>2. \A j \in Before(k0) : Got(j) \/ InQueue(j)
    BY <1>1, <1>5, <1>p, <2>1, FirstCarried
  <2> QED BY <1>1, <1>7, <1>m, <2>2 DEF HandOrder
<1> QED BY <1>10, <1>11, <1>12 DEF OrderInv

LEMMA ProcessOrder ==
  ASSUME OrderInv, FlightInv', processPublication \/ releasePublication
  PROVE  OrderInv'
<1>t. FlightInv /\ NetOrder /\ QueueOrder /\ HandOrder /\ TypeOK
  BY DEF OrderInv, FlightInv
<1>1. /\ step \in {"process", "release"} /\ step' \in {"error", "call", "idle", "forget"} /\ Enqueue(cur)
      /\ UNCHANGED <<link, b2c, c2b, unacked, ledger>>
  BY DEF processPublication, releasePublication, EndOfCycle, conn, network
<1>2. Incoming' = Incoming
  BY <1>1 DEF Incoming
<1>3. \A k : Held(k) => Held(k)'
  <2>1. \A k : InQueue(k)' <=> InQueue(k) \/ k = cur.pub
    BY <1>1, <1>t, EnqueueHeld
  <2>2. \A k : (InHand(k) => k = cur.pub) /\ (Got(k)' <=> Got(k))
    BY <1>1 DEF InHand, Got
  <2> QED BY <2>1, <2>2 DEF Held
<1>4. NetOrder'
  BY <1>1, <1>2, <1>3, <1>t, OrderSame
<1>5. QueueOrder'
  BY <1>1, <1>t, QueueAppended DEF HandOrder
<1>6. HandOrder'
  BY <1>1 DEF HandOrder
<1> QED BY <1>4, <1>5, <1>6 DEF OrderInv

LEMMA StoreOrder ==
  ASSUME OrderInv, FlightInv', storePublish2
  PROVE  OrderInv'
<1> DEFINE p == Head(b2c)
<1>t. FlightInv /\ NetOrder /\ QueueOrder
  BY DEF OrderInv, FlightInv
<1>1. /\ Receive("PUBLISH") /\ p.msg.qos = 2 /\ step' = "pubrec" /\ cur' = p.msg
      /\ UNCHANGED <<messageQueue, link, c2b, unacked, ledger>>
  BY DEF storePublish2, memory, conn
<1>2. /\ step = "idle" /\ Incoming = b2c /\ b2c # <<>> /\ b2c \in Seq(Packet)
      /\ p \in Packet /\ p.type = "PUBLISH" /\ b2c' = Tail(b2c) /\ \A k : ~InHand(k)
  BY <1>1, <1>t, ReceiveFacts
<1>3. Incoming' = Incoming
  <2>1. <<p>> \o Tail(b2c) = b2c
    BY <1>2, InFrontFacts
  <2>2. p = [type |-> "PUBLISH", msg |-> p.msg] /\ p.msg \in Msg
    BY <1>2 DEF Packet
  <2> HIDE DEF p
  <2> QED BY <1>1, <1>2, <2>1, <2>2 DEF Incoming
<1>4. \A k : (Got(k)' <=> Got(k)) /\ (InQueue(k)' <=> InQueue(k)) /\ Before(k)' = Before(k)
  BY <1>1 DEF Got, InQueue, Before
<1>5. \A k : Held(k) => Held(k)'
  BY <1>2, <1>4 DEF Held
<1>6. NetOrder'
  BY <1>1, <1>3, <1>5, <1>t, OrderSame
<1>7. QueueOrder'
  BY <1>1, <1>4, <1>t, QueueSame
<1>8. HandOrder'
  BY <1>1 DEF HandOrder
<1> QED BY <1>6, <1>7, <1>8 DEF OrderInv

LEMMA ForgetOrder ==
  ASSUME OrderInv, FlightInv', forgetInbound
  PROVE  OrderInv'
<1>t. FlightInv /\ NetOrder /\ QueueOrder
  BY DEF OrderInv, FlightInv
<1>1. /\ step = "forget" /\ step' \in {"error", "call", "idle"}
      /\ UNCHANGED <<messageQueue, link, b2c, c2b, unacked, ledger>>
  BY DEF forgetInbound, EndOfCycle, conn, network
<1>2. \A k : (Got(k)' <=> Got(k)) /\ (InQueue(k)' <=> InQueue(k)) /\ Before(k)' = Before(k)
  BY <1>1 DEF Got, InQueue, Before
<1>3. \A k : Held(k) => Held(k)'
  <2>1. InQueue(cur.pub) /\ \A k : InHand(k) => k = cur.pub
    BY <1>1, <1>t DEF FlightInv, HandMatch, InHand
  <2> QED BY <1>2, <2>1 DEF Held
<1>4. Incoming' = Incoming
  BY <1>1 DEF Incoming
<1>5. NetOrder'
  BY <1>1, <1>3, <1>4, <1>t, OrderSame
<1>6. QueueOrder' /\ HandOrder'
  BY <1>1, <1>2, <1>t, QueueSame DEF HandOrder
<1> QED BY <1>5, <1>6 DEF OrderInv

\* The PUBREC of a message follows those of the earlier ones.
LEMMA Publish2Order ==
  ASSUME OrderInv, FlightInv', handlePublish2
  PROVE  OrderInv'
<1>t. FlightInv /\ NetOrder /\ QueueOrder /\ TypeOK /\ HandMatch /\ b2c \in Seq(Packet) /\ c2b \in Seq(Ack)
  BY DEF OrderInv, FlightInv, TypeOK
<1>p. PICK p : p = [type |-> "PUBLISH", msg |-> cur]
  OBVIOUS
<1>a. PICK a0 : a0 = [type |-> "PUBREC", id |-> cur.id]
  OBVIOUS
<1>1. /\ step = "pubrec" /\ step' \in {"error", "call", "idle"} /\ Send("PUBREC", cur.id)
      /\ UNCHANGED <<messageQueue, link, b2c, unacked, ledger>>
  BY DEF handlePublish2, EndOfCycle, conn
<1>2. cur \in Msg /\ cur.qos = 2 /\ p \in Packet /\ p.type = "PUBLISH" /\ p.msg = cur
  BY <1>1, <1>p, <1>t DEF HandMatch, Packet
<1>3. /\ Incoming = <<p>> \o b2c /\ Incoming \in Seq(Packet) /\ Incoming # <<>>
      /\ Head(Incoming) = p /\ Tail(Incoming) = b2c /\ Incoming' = b2c
  <2>1. Incoming = <<p>> \o b2c /\ Incoming' = b2c
    BY <1>1, <1>p DEF Incoming
  <2> QED BY <1>2, <1>t, <2>1, InFrontFacts
<1>4. /\ 1 \in DOMAIN Incoming /\ Incoming[1] = p /\ \A x \in DOMAIN Incoming : ~(x < 1)
  <2>1. \A x \in DOMAIN Incoming : x \in Nat \ {0}
    BY <1>3, TailFacts
  <2> QED BY <1>3, <2>1, TailFacts
<1>5. PICK u \in Flows : u.id = cur.id /\ u.pub = cur.pub
  BY <1>2, <1>4, <1>t DEF Arriving, FlightInv, NetMatch, ArrivalTrue
<1>6. cur.pub \in DOMAIN ledger
  BY <1>5, <1>t DEF FlightInv, NetMatch, FlowTrue, QoS
<1>7. \A v, w \in Flows : v.id = w.id => v = w
  BY <1>t, FlowsFacts DEF FlightInv, NetMatch
<1>8. \A k : Receives(a0, k) <=> k = cur.pub
  BY <1>5, <1>7, <1>a DEF Receives
<1>9. \A k : ~Carries(p, k) /\ (Brings(p, k) <=> k = cur.pub)
  BY <1>2 DEF Carries, Brings
<1>10. link => /\ c2b' = Append(c2b, a0)
               /\ a0 \in Answers'
               /\ \A v \in Flows : Waits(v) /\ v.pub < cur.pub => \E b \in Answers : Receives(b, v.pub)
  <2> SUFFICES ASSUME link PROVE /\ c2b' = Append(c2b, a0)
                                 /\ a0 \in Answers'
                                 /\ \A v \in Flows : Waits(v) /\ v.pub < cur.pub => \E b \in Answers : Receives(b, v.pub)
    OBVIOUS
  <2>1. c2b' = Append(c2b, a0)
    BY <1>1, <1>a DEF Send
  <2>2. a0 \in Answers'
    <3> DEFINE l == Len(c2b) + 1
    <3>1. l \in DOMAIN c2b' /\ c2b'[l] = a0
      BY <1>t, <2>1, AppendFacts
    <3> HIDE DEF l
    <3> QED BY <3>1 DEF Answers
  <2>3. \A v \in Flows : Waits(v) /\ v.pub < cur.pub => \E b \in Answers : Receives(b, v.pub)
    BY <1>4, <1>6, <1>9, <1>t DEF NetOrder, PublishOrder
  <2> QED BY <2>1, <2>2, <2>3
<1>11. \A k : (Got(k)' <=> Got(k)) /\ (InQueue(k)' <=> InQueue(k)) /\ Before(k)' = Before(k) /\ ~InHand(k)
  BY <1>1 DEF Got, InQueue, Before, InHand
<1>12. \A k : Held(k) => Held(k)'
  BY <1>11 DEF Held
<1>13. NetOrder'
  <2>1. /\ \A k : Carries(Head(Incoming), k) => Held(k)'
        /\ link => \A k : Brings(Head(Incoming), k) => \E a \in Answers' : Receives(a, k)
    BY <1>3, <1>8, <1>9, <1>10
  <2>2. \/ c2b' = c2b
        \/ \E a : /\ c2b' = Append(c2b, a)
                  /\ \A v \in Flows : Receives(a, v.pub) =>
                       \A w \in Flows : Waits(w) /\ w.pub < v.pub => \E b \in Answers : Receives(b, w.pub)
    <3>1. CASE link
      BY <1>8, <1>10, <3>1
    <3>2. CASE ~link
      BY <1>1, <3>2 DEF Send
    <3> QED BY <3>1, <3>2
  <2> QED BY <1>1, <1>3, <1>12, <1>t, <2>1, <2>2, OrderHandled
<1>14. QueueOrder' /\ HandOrder'
  BY <1>1, <1>11, <1>t, QueueSame DEF HandOrder
<1> QED BY <1>13, <1>14 DEF OrderInv

LEMMA PubrelsOrder ==
  ASSUME OrderInv, FlightInv', handlePubrels
  PROVE  OrderInv'
<1>t. FlightInv /\ NetOrder /\ QueueOrder /\ TypeOK
  BY DEF OrderInv, FlightInv
<1>p. PICK p : p = Head(b2c)
  OBVIOUS
<1>a. PICK a0 : a0 = [type |-> "PUBCOMP", id |-> p.id]
  OBVIOUS
<1>1. /\ Receive("PUBREL")
      /\ UNCHANGED <<inboundMsgs, messageQueue, link, unacked, ledger>>
  BY DEF handlePubrels, memory, conn
<1>2. /\ step = "idle" /\ Incoming = b2c /\ b2c # <<>> /\ b2c' = Tail(b2c)
      /\ p.type = "PUBREL" /\ ArrivalTrue(p) /\ \A k : ~InHand(k) /\ ~Releasing(k)
  BY <1>1, <1>p, <1>t, ReceiveFacts
<1>3. PICK u \in Flows : u.id = p.id /\ u.released
  BY <1>2 DEF ArrivalTrue
<1>4. \A v, w \in Flows : v.id = w.id \/ v.pub = w.pub => v = w
  BY <1>t, FlowsFacts DEF FlightInv, NetMatch
<1>5. \A k : (Carries(p, k) <=> k = u.pub) /\ ~Brings(p, k)
  BY <1>2, <1>3, <1>4 DEF Carries, Brings
<1>6. FlowTrue(u) /\ u.pub \in DOMAIN ledger
  BY <1>3, <1>t DEF FlightInv, NetMatch, FlowTrue, QoS
<1>7. \A k : (Got(k)' <=> Got(k)) /\ (InQueue(k)' <=> InQueue(k)) /\ Before(k)' = Before(k)
  BY <1>1 DEF Got, InQueue, Before
<1>8. \A k : Held(k) => Held(k)'
  BY <1>2, <1>7 DEF Held
<1>9. QueueOrder'
  BY <1>1, <1>7, <1>t, QueueSame
<1> DEFINE M == {m \in inboundMsgs : m.id = p.id}
<1>10. \/ \E m \in M : step' = "release" /\ cur' = [id |-> p.id, qos |-> 2, pub |-> m.pub]
       \/ M = {} /\ step' \in {"error", "call", "idle"}
  BY <1>p DEF handlePubrels, EndOfCycle
<1>11. c2b' = c2b \/ c2b' = Append(c2b, a0)
  BY <1>p, <1>a DEF handlePubrels, Send
<1>12. Held(u.pub)' /\ HandOrder'
  <2>1. ASSUME NEW m \in M, step' = "release", cur' = [id |-> p.id, qos |-> 2, pub |-> m.pub]
        PROVE  Held(u.pub)' /\ HandOrder'
    <3>1. m \in inboundMsgs /\ m.id = p.id
      OBVIOUS
    <3> HIDE DEF M
    <3>2. m.pub = u.pub
      BY <1>2, <1>3, <1>4, <1>t, <3>1, ListedFlow
    <3>3. cur'.pub = u.pub
      BY <2>1, <3>2
    <3>4. \A j \in Before(u.pub) : Got(j) \/ InQueue(j)
      BY <1>1, <1>5, <1>6, <1>p, FirstCarried
    <3>5. HandOrder'
      BY <1>7, <3>3, <3>4 DEF HandOrder
    <3> QED BY <2>1, <3>3, <3>5 DEF Held, InHand
  <2>2. ASSUME M = {}, step' \in {"error", "call", "idle"} PROVE Held(u.pub)' /\ HandOrder'
    <3> DEFINE m == [id |-> u.id, pub |-> u.pub]
    <3>1. m.id = p.id /\ (m \in inboundMsgs \/ Held(u.pub))
      BY <1>3, <1>6 DEF FlowTrue
    <3> HIDE DEF m
    <3>2. Held(u.pub)
      BY <2>2, <3>1
    <3> QED BY <1>8, <2>2, <3>2 DEF HandOrder
  <2> QED BY <1>10, <2>1, <2>2
<1>13. NetOrder'
  <2>1. /\ \A k : Carries(Head(Incoming), k) => Held(k)'
        /\ \A k : ~Brings(Head(Incoming), k)
    BY <1>2, <1>5, <1>12, <1>p
  <2>2. \/ c2b' = c2b
        \/ \E a : /\ c2b' = Append(c2b, a)
                  /\ \A v \in Flows : Receives(a, v.pub) =>
                       \A w \in Flows : Waits(w) /\ w.pub < v.pub => \E b \in Answers : Receives(b, w.pub)
    BY <1>11, <1>a DEF Receives
  <2>3. Incoming' = Tail(Incoming)
    BY <1>2, <1>10 DEF Incoming
  <2> QED BY <1>1, <1>2, <1>8, <1>t, <2>1, <2>2, <2>3, OrderHandled
<1> QED BY <1>9, <1>12, <1>13 DEF OrderInv

\* A flow's resent packet is the next of the flow.
LEMMA ResentFacts ==
  ASSUME FlightInv, NEW u \in Flows
  PROVE  /\ \A k : Carries(Resend(u), k) <=> ~Waits(u) /\ k = u.pub
         /\ \A k : Brings(Resend(u), k) <=> Waits(u) /\ k = u.pub
<1>1. u \in Unacked /\ \A v \in Flows : v.id = u.id => v = u
  BY FlowsFacts DEF FlightInv, NetMatch
<1>2. u.qos \in 1..2 /\ u.released \in BOOLEAN
  BY <1>1 DEF Unacked
<1>3. u.released => u.qos = 2
  BY DEF FlightInv, NetMatch, FlowTrue
<1>4. CASE u.released
  <2>1. Resend(u).type = "PUBREL" /\ Resend(u).id = u.id
    BY <1>4 DEF Resend
  <2> QED BY <1>1, <1>4, <2>1 DEF Carries, Brings, Waits
<1>5. CASE ~u.released
  <2>1. /\ Resend(u).type = "PUBLISH" /\ Resend(u).msg.qos = u.qos /\ Resend(u).msg.pub = u.pub
    BY <1>5 DEF Resend
  <2> QED BY <1>2, <1>5, <2>1 DEF Carries, Brings, Waits
<1> QED BY <1>4, <1>5

\* The flows are resent in their order.
LEMMA ConnectOrder ==
  ASSUME OrderInv, FlightInv', connect(FALSE)
  PROVE  OrderInv'
<1>1. /\ step = "idle" /\ step' = "idle" /\ c2b' = <<>>
      /\ b2c' = [i \in DOMAIN unacked |-> Resend(unacked[i])]
      /\ UNCHANGED <<messageQueue, unacked, ledger>>
  BY DEF connect, memory, thread
<1>t. FlightInv /\ NetOrder /\ FlowsOrdered
  BY DEF OrderInv, FlightInv, NetMatch
<1>2. (\A k : Held(k)' <=> Held(k)) /\ QueueOrder' /\ HandOrder'
  BY <1>1, QuietOrder
<1>3. /\ Incoming' = b2c' /\ DOMAIN Incoming' = DOMAIN unacked
      /\ \A i \in DOMAIN unacked : Incoming'[i] = Resend(unacked[i]) /\ unacked[i] \in Flows
  BY <1>1 DEF Incoming, Flows
<1>4. /\ Flows' = Flows
      /\ \A p, k : Carries(p, k)' <=> Carries(p, k)
      /\ \A p, k : Brings(p, k)' <=> Brings(p, k)
      /\ \A u : Waits(u)' <=> Waits(u)
      /\ \A k : Before(k)' = Before(k)
  BY <1>1 DEF Flows, Carries, Brings, Waits, Before
<1>5. /\ \A i \in DOMAIN unacked : \A k : Carries(Incoming'[i], k) <=> ~Waits(unacked[i]) /\ k = unacked[i].pub
      /\ \A i \in DOMAIN unacked : \A k : Brings(Incoming'[i], k) <=> Waits(unacked[i]) /\ k = unacked[i].pub
  BY <1>3, <1>t, ResentFacts
<1>6. \A u \in Flows : u \in Unacked /\ u.pub \in Nat /\ u.qos \in 1..2 /\ QoS(u.pub, u.qos)
  <2>1. \A u \in Flows : u \in Unacked
    BY <1>t, FlowsFacts DEF FlightInv
  <2> QED BY <2>1, <1>t DEF Unacked, Pubs, FlightInv, NetMatch, FlowTrue
<1>7. \A i, j \in DOMAIN unacked : unacked[j].pub < unacked[i].pub => j < i
  <2>1. \A i, j \in DOMAIN unacked : i = j \/ i < j \/ j < i
    BY LenProperties, <1>t DEF FlightInv, TypeOK
  <2>2. \A i, j \in DOMAIN unacked : unacked[i].pub \in Nat /\ unacked[j].pub \in Nat
    BY <1>3, <1>6
  <2> QED BY <1>t, <2>1, <2>2 DEF FlowsOrdered
<1>8. ArrivingOrder'
  <2> SUFFICES ASSUME NEW i \in DOMAIN unacked, NEW k \in DOMAIN ledger, Carries(Incoming'[i], k),
                      NEW j \in Before(k)
               PROVE  Held(j)' \/ \E x \in DOMAIN unacked : x < i /\ Carries(Incoming'[x], j)
    BY <1>1, <1>3, <1>4 DEF ArrivingOrder
  <2>1. /\ ~Waits(unacked[i]) /\ k = unacked[i].pub /\ unacked[i].qos = ledger[k].qos
        /\ j \in DOMAIN ledger /\ j < k /\ ledger[j].qos = ledger[k].qos /\ unacked[i].qos \in 1..2
    BY <1>3, <1>5, <1>6 DEF Before, QoS
  <2>2. CASE ledger[j].fate = "settled"
    BY <1>2, <1>t, <2>1, <2>2 DEF FlightInv, SettledHeld
  <2>3. ASSUME NEW x \in DOMAIN unacked, unacked[x].pub = j
        PROVE  \E y \in DOMAIN unacked : y < i /\ Carries(Incoming'[y], j)
    <3>1. unacked[x].qos = unacked[i].qos
      BY <1>3, <1>6, <2>1, <2>3 DEF QoS
    <3>2. ~Waits(unacked[x])
      BY <1>3, <1>t, <2>1, <2>3, <3>1 DEF Waits, NetOrder, ReleaseOrder
    <3> QED BY <1>5, <1>7, <2>1, <2>3, <3>2
  <2> QED BY <1>t, <2>1, <2>2, <2>3 DEF NetOrder, OpenIsFlow, Flows
<1>9. PublishOrder'
  <2> SUFFICES ASSUME NEW i \in DOMAIN unacked, NEW k, Brings(Incoming'[i], k),
                      NEW y \in DOMAIN unacked, Waits(unacked[y]), unacked[y].pub < k
               PROVE  \E x \in DOMAIN unacked : x < i /\ Brings(Incoming'[x], unacked[y].pub)
    BY <1>1, <1>3, <1>4 DEF PublishOrder, Flows
  <2> QED BY <1>5, <1>7
<1>10. FlowsUnderway'
  <2> SUFFICES ASSUME NEW x \in DOMAIN unacked
               PROVE  IF Waits(unacked[x]) THEN \E p \in Arriving' : Brings(p, unacked[x].pub)
                                           ELSE \E p \in Arriving' : Carries(p, unacked[x].pub)
    BY <1>1, <1>3, <1>4 DEF FlowsUnderway, Flows
  <2>1. Incoming'[x] \in Arriving'
    BY <1>3 DEF Arriving
  <2> QED BY <1>5, <2>1
<1>11. AnswerOrder' /\ OpenIsFlow' /\ ReleaseOrder'
  <2>1. AnswerOrder'
    BY <1>1 DEF AnswerOrder
  <2> QED BY <1>1, <1>4, <1>t, <2>1 DEF NetOrder, OpenIsFlow, ReleaseOrder
<1> QED BY <1>2, <1>8, <1>9, <1>10, <1>11 DEF OrderInv, NetOrder

\* A keepalive answer orders nothing.
LEMMA KeepaliveOrder ==
  ASSUME OrderInv, FlightInv', keepalive
  PROVE  OrderInv'
<1>1. /\ step = "idle" /\ b2c = <<>> /\ c2b = <<>> /\ b2c' = <<[type |-> "PINGRESP"]>>
      /\ UNCHANGED <<messageQueue, unacked, ledger, step, cur, link, c2b>>
  BY DEF keepalive, memory, conn, thread
<1>t. FlightInv /\ NetOrder
  BY DEF OrderInv
<1>2. (\A k : Held(k)' <=> Held(k)) /\ QueueOrder' /\ HandOrder'
  BY <1>1, QuietOrder
<1>3. /\ Incoming' = b2c' /\ Incoming = <<>> /\ Arriving = {} /\ Answers = {} /\ Answers' = {}
      /\ \A i \in DOMAIN Incoming' : Incoming'[i].type = "PINGRESP"
  BY <1>1 DEF Incoming, Arriving, Answers
<1>4. /\ Flows' = Flows
      /\ \A u : Waits(u)' <=> Waits(u)
      /\ (\A i \in DOMAIN Incoming, k \in DOMAIN ledger : ~Carries(Incoming[i], k) /\ ~Brings(Incoming[i], k))'
  BY <1>1, <1>3 DEF Flows, Carries, Brings, Waits
<1>5. ArrivingOrder' /\ PublishOrder' /\ AnswerOrder'
  BY <1>1, <1>4 DEF ArrivingOrder, PublishOrder, AnswerOrder
<1>6. FlowsUnderway'
  BY <1>1, <1>2, <1>3, <1>4, <1>t DEF NetOrder, FlowsUnderway
<1>7. OpenIsFlow' /\ ReleaseOrder'
  BY <1>1, <1>4, <1>t DEF NetOrder, OpenIsFlow, ReleaseOrder
<1> QED BY <1>2, <1>5, <1>6, <1>7 DEF OrderInv, NetOrder

\* The packets and answers under way are of messages published before.
LEMMA OrderedKnown ==
  ASSUME FlightInv
  PROVE  /\ \A q \in Arriving : \A k : Carries(q, k) \/ Brings(q, k) => k \in DOMAIN ledger
         /\ \A u \in Flows : u.pub \in DOMAIN ledger
<1>1. \A u \in Flows : u.pub \in DOMAIN ledger
  BY DEF FlightInv, NetMatch, FlowTrue, QoS
<1>2. ASSUME NEW q \in Arriving, NEW k, Carries(q, k) \/ Brings(q, k) PROVE k \in DOMAIN ledger
  <2>1. ArrivalTrue(q)
    BY DEF FlightInv, NetMatch
  <2>2. CASE q.type = "PUBLISH"
    <3>1. q.msg.pub = k /\ q.msg.qos > 0
      BY <1>2, <2>2 DEF Carries, Brings
    <3> QED BY <1>1, <2>1, <2>2, <3>1 DEF ArrivalTrue
  <2>3. CASE q.type # "PUBLISH"
    BY <1>1, <1>2, <2>3 DEF Carries, Brings
  <2> QED BY <2>2, <2>3
<1> QED BY <1>1, <1>2

\* A new message comes after all the others.
LEMMA BrokerPublishOrder ==
  ASSUME OrderInv, FlightInv', NEW qos \in Qoss, brokerPublish(qos)
  PROVE  OrderInv'
<1>t. /\ FlightInv /\ NetOrder /\ HandMatch /\ Incoming \in Seq(Packet)
      /\ Len(Incoming) \in Nat /\ DOMAIN Incoming = 1..Len(Incoming)
  BY IncomingType, LenProperties DEF OrderInv, FlightInv
<1>2. link /\ UNCHANGED <<messageQueue, link, c2b, step, cur>> /\ qos \in 0..2
  BY <1>t, PublishedFacts
<1>0. PICK n, e, p, f :
        /\ n = Len(ledger) + 1 /\ ledger' = Append(ledger, e)
        /\ e.got = 0 /\ e.qos = qos /\ (qos = 0 <=> e.fate = "settled")
        /\ p \in Packet /\ p.type = "PUBLISH" /\ p.msg.qos = qos /\ p.msg.pub = n
        /\ IdOf(p) = p.msg.id /\ (qos = 0 => p.msg.id = 0)
        /\ f.id = p.msg.id /\ f.qos = qos /\ f.pub = n /\ ~f.released
        /\ Incoming' = Append(Incoming, p)
        /\ \A u \in Flows : u.id # p.msg.id /\ u.pub < n
        /\ FlowsOrdered' /\ Flows' = (IF qos = 0 THEN Flows ELSE Flows \cup {f})
  BY <1>t, PublishedFacts
<1>7. /\ n \notin DOMAIN ledger /\ n \in Nat
      /\ DOMAIN ledger' = DOMAIN ledger \cup {n} /\ ledger'[n] = e
      /\ \A k \in DOMAIN ledger : ledger'[k] = ledger[k] /\ k < n /\ k \in Nat
      /\ \A k : Held(k)' <=> Held(k)
      /\ \A k : (Got(k)' <=> Got(k)) /\ (InQueue(k)' <=> InQueue(k))
  <2>1. \A k \in DOMAIN ledger : k \in Nat
    BY <1>t, LenProperties DEF FlightInv, TypeOK
  <2> QED BY <1>0, <1>2, <1>t, <2>1, NewMessage
<1>l. PICK l \in Nat :
        /\ DOMAIN Incoming' = DOMAIN Incoming \cup {l} /\ Incoming'[l] = p
        /\ \A i \in DOMAIN Incoming : Incoming'[i] = Incoming[i] /\ Incoming[i] \in Arriving /\ i < l
  <2> DEFINE m == Len(Incoming) + 1
  <2>1. /\ DOMAIN Incoming' = DOMAIN Incoming \cup {m} /\ Incoming'[m] = p
        /\ \A i \in DOMAIN Incoming : Incoming'[i] = Incoming[i]
    BY <1>0, <1>t, AppendFacts
  <2>2. m \in Nat /\ \A i \in DOMAIN Incoming : i < m
    BY <1>t
  <2> HIDE DEF m
  <2> QED BY <2>1, <2>2 DEF Arriving
<1>f. /\ \A u \in Flows : u \in Flows'
      /\ \A u \in Flows' : u \in Flows \/ (u = f /\ qos \in 1..2)
      /\ qos \in 1..2 => f \in Flows'
  BY <1>0, <1>2
<1>a. Answers' = Answers /\ Arriving' = Arriving \cup {p}
  BY <1>2, <1>l DEF Answers, Arriving
<1>k. /\ \A q \in Arriving : \A k : Carries(q, k) \/ Brings(q, k) => k \in DOMAIN ledger
      /\ \A u \in Flows : u.pub \in DOMAIN ledger
  BY <1>t, OrderedKnown
<1>c. \A q \in Arriving : \A k : Carries(q, k)' <=> Carries(q, k)
  <2> SUFFICES ASSUME NEW q \in Arriving, q.type = "PUBREL", NEW u \in Flows', u.id = q.id
               PROVE  u \in Flows
    BY <1>f DEF Carries
  <2>1. q \in Packet /\ \E v \in Flows : v.id = q.id
    BY <1>t, FlowOfPacket DEF FlightInv, NetMatch, ArrivalTrue
  <2> QED BY <1>0, <1>f, <2>1
<1>r. \A a \in Answers : \A k : Receives(a, k)' <=> Receives(a, k)
  <2> SUFFICES ASSUME NEW a \in Answers, NEW u \in Flows', u.id = a.id
               PROVE  u \in Flows
    BY <1>f DEF Receives
  <2>1. \E v \in Flows : v.id = a.id
    BY <1>t, FlowOfPacket
  <2> QED BY <1>0, <1>f, <2>1
<1>p. /\ \A k : Carries(p, k)' <=> qos = 1 /\ k = n
      /\ \A k : Brings(p, k)' <=> qos = 2 /\ k = n
  BY <1>0 DEF Carries, Brings
<1>b. /\ \A q, k : Brings(q, k)' <=> Brings(q, k)
      /\ \A u : Waits(u)' <=> Waits(u)
      /\ Waits(f) <=> qos = 2
  BY <1>0 DEF Brings, Waits
<1>e. /\ \A k \in DOMAIN ledger : Before(k)' = Before(k)
      /\ Before(n)' = {j \in DOMAIN ledger : ledger[j].qos = qos}
  BY <1>0, <1>7 DEF Before
<1>u. \A u \in Flows : IF Waits(u) THEN (\E q \in Arriving : Brings(q, u.pub)) \/ \E a \in Answers : Receives(a, u.pub)
                                   ELSE Held(u.pub) \/ \E q \in Arriving : Carries(q, u.pub)
  BY <1>2, <1>t DEF NetOrder, FlowsUnderway
<1>8. ArrivingOrder'
  <2> SUFFICES ASSUME NEW i \in DOMAIN Incoming', NEW k \in DOMAIN ledger', Carries(Incoming[i], k)',
                      NEW j \in Before(k)'
               PROVE  Held(j) \/ \E x \in DOMAIN Incoming : x < i /\ Carries(Incoming[x], j)
    <3>1. \A j, x : x \in DOMAIN Incoming => (x \in DOMAIN Incoming' /\ (Carries(Incoming[x], j)' <=> Carries(Incoming[x], j)))
      BY <1>c, <1>l
    <3> QED BY <1>7, <3>1 DEF ArrivingOrder
  <2>1. CASE i \in DOMAIN Incoming
    <3>1. Carries(Incoming[i], k) /\ k \in DOMAIN ledger /\ j \in Before(k)
      BY <1>c, <1>e, <1>k, <1>l, <2>1
    <3> QED BY <1>t, <2>1, <3>1 DEF NetOrder, ArrivingOrder
  <2>2. CASE i = l
    <3>1. qos = 1 /\ k = n /\ j \in DOMAIN ledger /\ ledger[j].qos = 1
      BY <1>e, <1>l, <1>p, <2>2
    <3>2. CASE ledger[j].fate = "settled"
      BY <1>t, <3>1, <3>2 DEF FlightInv, SettledHeld
    <3>3. ASSUME NEW u \in Flows, u.pub = j
          PROVE  Held(j) \/ \E x \in DOMAIN Incoming : x < i /\ Carries(Incoming[x], j)
      <4>1. u.qos = 1 /\ ~Waits(u)
        <5>1. FlowTrue(u)
          BY <1>t DEF FlightInv, NetMatch
        <5> QED BY <3>1, <3>3, <5>1 DEF FlowTrue, QoS, Waits
      <4>2. Held(j) \/ \E q \in Arriving : Carries(q, j)
        BY <1>u, <3>3, <4>1
      <4> QED BY <1>l, <2>2, <4>2 DEF Arriving
    <3> QED BY <1>t, <3>1, <3>2, <3>3 DEF NetOrder, OpenIsFlow
  <2> QED BY <1>l, <2>1, <2>2
<1>9. PublishOrder'
  <2> SUFFICES ASSUME NEW i \in DOMAIN Incoming', NEW k \in DOMAIN ledger', Brings(Incoming'[i], k),
                      NEW u \in Flows', Waits(u), u.pub < k
               PROVE  \/ \E x \in DOMAIN Incoming : x < i /\ Brings(Incoming[x], u.pub)
                      \/ \E a \in Answers : Receives(a, u.pub)
    BY <1>a, <1>b, <1>l, <1>r DEF PublishOrder
  <2>1. CASE i \in DOMAIN Incoming
    <3>1. Brings(Incoming[i], k) /\ k \in DOMAIN ledger
      BY <1>k, <1>l, <2>1
    <3>2. u \in Flows
      BY <1>0, <1>7, <1>f, <3>1
    <3> QED BY <1>2, <1>t, <2>1, <3>1, <3>2 DEF NetOrder, PublishOrder
  <2>2. CASE i = l
    <3>1. k = n
      BY <1>b, <1>l, <1>p, <2>2
    <3>2. u \in Flows
      BY <1>0, <1>7, <1>f, <3>1
    <3>3. (\E q \in Arriving : Brings(q, u.pub)) \/ \E a \in Answers : Receives(a, u.pub)
      BY <1>u, <3>2
    <3> QED BY <1>l, <2>2, <3>3 DEF Arriving
  <2> QED BY <1>l, <2>1, <2>2
<1>10. AnswerOrder'
  <2> SUFFICES ASSUME NEW i \in DOMAIN c2b, NEW v \in Flows', Receives(c2b[i], v.pub),
                      NEW u \in Flows', Waits(u), u.pub < v.pub
               PROVE  \E x \in DOMAIN c2b : x < i /\ Receives(c2b[x], u.pub)
    <3>1. \A x \in DOMAIN c2b : \A k : Receives(c2b[x], k)' <=> Receives(c2b[x], k)
      BY <1>2, <1>r DEF Answers
    <3> QED BY <1>2, <1>b, <3>1 DEF AnswerOrder
  <2>1. v.pub \in DOMAIN ledger
    BY <1>k DEF Receives
  <2>2. v \in Flows /\ u \in Flows
    BY <1>0, <1>7, <1>f, <2>1
  <2> QED BY <1>t, <2>2 DEF NetOrder, AnswerOrder
<1>11. ReleaseOrder'
  <2> SUFFICES ASSUME NEW u \in Flows', NEW v \in Flows', u.qos = 2, v.released, u.pub < v.pub
               PROVE  u.released
    BY DEF ReleaseOrder
  <2>1. v \in Flows /\ v.pub \in DOMAIN ledger
    BY <1>0, <1>f, <1>k
  <2>2. u \in Flows
    BY <1>0, <1>7, <1>f, <2>1
  <2> QED BY <1>t, <2>1, <2>2 DEF NetOrder, ReleaseOrder
<1>12. FlowsUnderway'
  <2> SUFFICES ASSUME NEW u \in Flows'
               PROVE  IF Waits(u) THEN (\E q \in Arriving' : Brings(q, u.pub)') \/ \E a \in Answers : Receives(a, u.pub)
                                  ELSE Held(u.pub) \/ \E q \in Arriving' : Carries(q, u.pub)'
    BY <1>7, <1>a, <1>b, <1>r DEF FlowsUnderway
  <2>1. CASE u \in Flows
    BY <1>a, <1>b, <1>c, <1>u, <2>1
  <2>2. CASE u = f /\ qos = 1
    <3>1. p \in Arriving' /\ u.pub = n /\ Carries(p, n)'
      BY <1>0, <1>a, <1>p, <2>2
    <3> QED BY <1>b, <2>2, <3>1
  <2>3. CASE u = f /\ qos = 2
    <3>1. p \in Arriving' /\ u.pub = n /\ Brings(p, n)'
      BY <1>0, <1>a, <1>p, <2>3
    <3> QED BY <1>b, <2>3, <3>1
  <2> QED BY <1>f, <2>1, <2>2, <2>3
<1>13. OpenIsFlow'
  <2>1. ASSUME NEW k \in DOMAIN ledger PROVE ledger'[k].fate = "settled" \/ \E u \in Flows' : u.pub = k
    BY <1>7, <1>f, <1>t DEF NetOrder, OpenIsFlow
  <2>2. ledger'[n].fate = "settled" \/ \E u \in Flows' : u.pub = n
    BY <1>0, <1>2, <1>7, <1>f
  <2> QED BY <1>7, <2>1, <2>2 DEF OpenIsFlow
<1>14. QueueOrder'
  BY <1>2, <1>7, <1>e, QueueSame DEF OrderInv
<1>15. HandOrder'
  <2>1. step \in {"process", "release"} => cur.pub \in DOMAIN ledger
    BY <1>t DEF HandMatch, QoS
  <2> QED BY <1>2, <1>7, <1>e, <2>1 DEF OrderInv, HandOrder
<1> QED BY <1>8, <1>9, <1>10, <1>11, <1>12, <1>13, <1>14, <1>15 DEF OrderInv, NetOrder

\* The broker reads its first answer; the others keep their order.
LEMMA AnswerTaken ==
  ASSUME FlightInv, NEW a, a = Head(c2b), c2b # <<>>, c2b' = Tail(c2b)
  PROVE  /\ a \in Answers /\ 1 \in DOMAIN c2b /\ c2b[1] = a
         /\ \A x \in DOMAIN c2b : x \in Nat \ {0}
         /\ \A b \in Answers : b = a \/ b \in Answers'
         /\ \A i \in DOMAIN c2b' : i + 1 \in DOMAIN c2b /\ c2b'[i] = c2b[i + 1] /\ c2b'[i] \in Answers'
         /\ \A i \in DOMAIN c2b', x \in DOMAIN c2b :
              x < i + 1 => c2b[x] = a \/ \E y \in DOMAIN c2b' : y < i /\ c2b'[y] = c2b[x]
<1>1. c2b \in Seq(Ack)
  BY DEF FlightInv, TypeOK
<1>2. /\ 1 \in DOMAIN c2b /\ a = c2b[1]
      /\ \A i \in DOMAIN c2b' : i \in Nat \ {0} /\ i + 1 \in DOMAIN c2b /\ c2b'[i] = c2b[i + 1]
      /\ \A x \in DOMAIN c2b : x \in Nat \ {0} /\ (x # 1 => x - 1 \in DOMAIN c2b' /\ c2b'[x - 1] = c2b[x])
  BY <1>1, TailFacts
<1>3. \A b \in Answers : b = a \/ b \in Answers'
  <2> SUFFICES ASSUME NEW x \in DOMAIN c2b PROVE c2b[x] = a \/ c2b[x] \in Answers'
    BY DEF Answers
  <2> QED BY <1>2 DEF Answers
<1>4. ASSUME NEW i \in DOMAIN c2b', NEW x \in DOMAIN c2b, x < i + 1, x # 1
      PROVE  \E y \in DOMAIN c2b' : y < i /\ c2b'[y] = c2b[x]
  <2>1. x - 1 \in DOMAIN c2b' /\ c2b'[x - 1] = c2b[x] /\ x - 1 < i
    BY <1>2, <1>4
  <2> QED BY <2>1
<1>5. a \in Answers /\ \A i \in DOMAIN c2b' : c2b'[i] \in Answers'
  BY <1>2 DEF Answers
<1> QED BY <1>2, <1>3, <1>4, <1>5

\* PUBREC: all earlier messages were released before.
LEMMA PubrecOrder ==
  ASSUME OrderInv, FlightInv', NEW a, a = Head(c2b), c2b # <<>>, c2b' = Tail(c2b),
         NEW i0 \in DOMAIN unacked, unacked[i0].id = a.id, a.type = "PUBREC",
         unacked' = [unacked EXCEPT ![i0].released = TRUE],
         Reply([type |-> "PUBREL", id |-> a.id, dup |-> FALSE]),
         UNCHANGED <<messageQueue, link, step, cur, ledger>>
  PROVE  OrderInv'
<1>t. /\ FlightInv /\ TypeOK /\ TypeOK' /\ NetOrder /\ FlowsOrdered
      /\ b2c \in Seq(Packet) /\ Incoming \in Seq(Packet) /\ HandMatch
      /\ Len(Incoming) \in Nat /\ DOMAIN Incoming = 1..Len(Incoming)
  BY IncomingType, LenProperties DEF OrderInv, FlightInv, NetMatch, TypeOK
<1>1. PICK u, f, r : /\ u = unacked[i0] /\ f = [u EXCEPT !.released = TRUE]
                     /\ r = [type |-> "PUBREL", id |-> a.id, dup |-> FALSE]
  OBVIOUS
<1>2. /\ a \in Ack /\ u \in Flows /\ u \in Unacked /\ u.qos = 2 /\ ~u.released /\ u.id = a.id
      /\ \A v \in Flows : v.id = a.id \/ v.pub = u.pub => v = u
  <2>1. /\ a \in Ack /\ unacked[i0] \in Flows /\ unacked[i0] \in Unacked
        /\ (a.type = "PUBREC" => unacked[i0].qos = 2 /\ ~unacked[i0].released)
    BY <1>t, AckFacts
  <2>2. \A v, w \in Flows : v.id = w.id \/ v.pub = w.pub => v = w
    BY <1>t, FlowsFacts
  <2> QED BY <1>1, <2>1, <2>2
<1>3. f.id = u.id /\ f.qos = u.qos /\ f.pub = u.pub /\ f.released
  BY <1>1, <1>2 DEF Unacked
<1>4. Flows' = (Flows \ {u}) \cup {f}
  BY <1>1, <1>t, FlowReleased
<1>5. /\ \A k : (Held(k)' <=> Held(k)) /\ (Before(k)' = Before(k))
      /\ QueueOrder' /\ HandOrder'
  BY QuietOrder DEF Before
<1>6. /\ \A p, k : Carries(p, k)' <=> Carries(p, k)
      /\ \A p, k : Brings(p, k)' <=> Brings(p, k)
      /\ \A b, k : Receives(b, k)' <=> Receives(b, k)
      /\ \A v : Waits(v)' <=> Waits(v)
      /\ ~Waits(f) /\ Waits(u)
  BY <1>2, <1>3, <1>4 DEF Carries, Brings, Receives, Waits
<1>7. /\ a \in Answers /\ 1 \in DOMAIN c2b /\ c2b[1] = a
      /\ \A x \in DOMAIN c2b : x \in Nat \ {0}
      /\ \A b \in Answers : b = a \/ b \in Answers'
      /\ \A i \in DOMAIN c2b' : i + 1 \in DOMAIN c2b /\ c2b'[i] = c2b[i + 1]
      /\ \A i \in DOMAIN c2b', x \in DOMAIN c2b :
           x < i + 1 => c2b[x] = a \/ \E y \in DOMAIN c2b' : y < i /\ c2b'[y] = c2b[x]
  BY <1>t, AnswerTaken
<1>8. \A v \in Flows : v # u => ~Receives(a, v.pub)
  BY <1>2 DEF Receives
<1>9. \A v \in Flows : v.qos = 2 /\ v.pub < u.pub => v.released
  <2>1. Receives(a, u.pub)
    BY <1>2 DEF Receives
  <2>2. \A x \in DOMAIN c2b : ~(x < 1)
    BY <1>7
  <2>3. \A v \in Flows : Waits(v) /\ v.pub < u.pub => \E x \in DOMAIN c2b : x < 1 /\ Receives(c2b[x], v.pub)
    BY <1>2, <1>7, <1>t, <2>1 DEF NetOrder, AnswerOrder
  <2> QED BY <2>2, <2>3 DEF Waits
<1>10. \A v \in Flows' : v = f \/ (v \in Flows /\ v # u)
  BY <1>4
<1>p. \A v \in Flows : v.pub \in Nat /\ v.pub \in DOMAIN ledger /\ ledger[v.pub].qos = v.qos
  <2>1. \A v \in Flows : v \in Unacked
    BY <1>t, FlowsFacts
  <2> QED BY <2>1, <1>t DEF Unacked, Pubs, FlightInv, NetMatch, FlowTrue, QoS
<1>r. /\ r \in Packet /\ r.type = "PUBREL" /\ r.id = a.id
      /\ \A k : Carries(r, k) <=> k = u.pub
      /\ \A k : ~Brings(r, k)
  BY <1>1, <1>2 DEF Packet, Ack, Carries, Brings
<1>i. PICK l \in Nat :
        /\ \A x \in DOMAIN Incoming : x \in DOMAIN Incoming' /\ Incoming'[x] = Incoming[x] /\ x < l
        /\ \A x \in DOMAIN Incoming' : x \in DOMAIN Incoming \/ (link /\ x = l /\ Incoming'[x] = r)
        /\ link => l \in DOMAIN Incoming' /\ Incoming'[l] = r
  <2> DEFINE m == Len(Incoming) + 1
  <2>1. m \in Nat /\ \A x \in DOMAIN Incoming : x < m
    BY <1>t
  <2>2. CASE link
    <3>1. b2c' = Append(b2c, r)
      BY <1>1, <2>2 DEF Reply
    <3>2. Incoming' = Append(Incoming, r)
      BY <1>r, <1>t, <3>1, IncomingAppended
    <3>3. /\ DOMAIN Incoming' = DOMAIN Incoming \cup {m} /\ Incoming'[m] = r
          /\ \A x \in DOMAIN Incoming : Incoming'[x] = Incoming[x]
      BY <1>t, <3>2, AppendFacts
    <3> HIDE DEF m
    <3> QED BY <2>1, <2>2, <3>3
  <2>3. CASE ~link
    <3>1. Incoming' = Incoming
      BY <2>3 DEF Reply, Incoming
    <3> HIDE DEF m
    <3> QED BY <2>1, <2>3, <3>1
  <2> QED BY <2>2, <2>3
<1>11. ArrivingOrder'
  <2> SUFFICES ASSUME NEW i \in DOMAIN Incoming', NEW k \in DOMAIN ledger, Carries(Incoming'[i], k),
                      NEW j \in Before(k)
               PROVE  Held(j) \/ \E x \in DOMAIN Incoming : x < i /\ Carries(Incoming[x], j)
    BY <1>5, <1>6, <1>i DEF ArrivingOrder
  <2>1. CASE i \in DOMAIN Incoming
    <3>1. Carries(Incoming[i], k)
      BY <1>i, <2>1
    <3> QED BY <1>t, <2>1, <3>1 DEF NetOrder, ArrivingOrder
  <2>2. CASE link /\ i = l /\ Incoming'[i] = r
    <3>1. k = u.pub /\ j \in DOMAIN ledger /\ j < u.pub /\ ledger[j].qos = 2
      BY <1>2, <1>p, <1>r, <2>2 DEF Before
    <3>2. CASE ledger[j].fate = "settled"
      BY <1>t, <3>1, <3>2 DEF FlightInv, SettledHeld
    <3>3. ASSUME NEW v \in Flows, v.pub = j
          PROVE  Held(j) \/ \E x \in DOMAIN Incoming : x < i /\ Carries(Incoming[x], j)
      <4>1. ~Waits(v)
        BY <1>9, <1>p, <3>1, <3>3 DEF Waits
      <4>2. Held(j) \/ \E q \in Arriving : Carries(q, j)
        BY <1>t, <2>2, <3>3, <4>1 DEF NetOrder, FlowsUnderway
      <4> QED BY <1>i, <2>2, <4>2 DEF Arriving
    <3> QED BY <1>t, <3>1, <3>2, <3>3 DEF NetOrder, OpenIsFlow
  <2> QED BY <1>i, <2>1, <2>2
<1>12. PublishOrder'
  <2> SUFFICES ASSUME link, NEW i \in DOMAIN Incoming', NEW k \in DOMAIN ledger, Brings(Incoming'[i], k),
                      NEW v \in Flows', Waits(v), v.pub < k
               PROVE  \/ \E x \in DOMAIN Incoming : x < i /\ Brings(Incoming[x], v.pub)
                      \/ \E b \in Answers' : Receives(b, v.pub)
    BY <1>6, <1>i DEF PublishOrder
  <2>1. i \in DOMAIN Incoming /\ Brings(Incoming[i], k) /\ v \in Flows /\ v # u
    BY <1>6, <1>10, <1>i, <1>r
  <2>2. \/ \E x \in DOMAIN Incoming : x < i /\ Brings(Incoming[x], v.pub)
        \/ \E b \in Answers : Receives(b, v.pub)
    BY <1>t, <2>1 DEF NetOrder, PublishOrder
  <2> QED BY <1>7, <1>8, <2>1, <2>2
<1>13. AnswerOrder'
  <2> SUFFICES ASSUME NEW i \in DOMAIN c2b', NEW v \in Flows', Receives(c2b'[i], v.pub),
                      NEW w \in Flows', Waits(w), w.pub < v.pub
               PROVE  \E y \in DOMAIN c2b' : y < i /\ Receives(c2b'[y], w.pub)
    BY <1>6 DEF AnswerOrder
  <2>1. PICK v0 \in Flows : v0.pub = v.pub
    BY <1>2, <1>3, <1>10
  <2>2. w \in Flows /\ w # u /\ i + 1 \in DOMAIN c2b /\ Receives(c2b[i + 1], v0.pub)
    BY <1>6, <1>7, <1>10, <2>1
  <2>3. \E x \in DOMAIN c2b : x < i + 1 /\ Receives(c2b[x], w.pub)
    BY <1>t, <2>1, <2>2 DEF NetOrder, AnswerOrder
  <2> QED BY <1>7, <1>8, <2>2, <2>3
<1>14. ReleaseOrder'
  <2> SUFFICES ASSUME NEW w \in Flows', NEW v \in Flows', w.qos = 2, v.released, w.pub < v.pub
               PROVE  w.released
    BY DEF ReleaseOrder
  <2>1. CASE w = f
    BY <1>3, <2>1
  <2>2. CASE w \in Flows /\ v \in Flows
    BY <1>t, <2>2 DEF NetOrder, ReleaseOrder
  <2>3. CASE w \in Flows /\ v = f
    BY <1>3, <1>9, <2>3
  <2> QED BY <1>10, <2>1, <2>2, <2>3
<1>15. FlowsUnderway'
  <2> SUFFICES ASSUME link, NEW v \in Flows'
               PROVE  IF Waits(v) THEN (\E q \in Arriving' : Brings(q, v.pub)) \/ \E b \in Answers' : Receives(b, v.pub)
                                  ELSE Held(v.pub) \/ \E q \in Arriving' : Carries(q, v.pub)
    BY <1>5, <1>6 DEF FlowsUnderway
  <2>1. CASE v = f
    <3>1. r \in Arriving' /\ Carries(r, v.pub)
      BY <1>3, <1>i, <1>r, <2>1 DEF Arriving
    <3> QED BY <1>6, <2>1, <3>1
  <2>2. CASE v \in Flows /\ v # u
    <3>1. IF Waits(v) THEN (\E q \in Arriving : Brings(q, v.pub)) \/ \E b \in Answers : Receives(b, v.pub)
                      ELSE Held(v.pub) \/ \E q \in Arriving : Carries(q, v.pub)
      BY <1>t, <2>2 DEF NetOrder, FlowsUnderway
    <3>2. \A q \in Arriving : q \in Arriving'
      BY <1>i DEF Arriving
    <3> QED BY <1>7, <1>8, <2>2, <3>1, <3>2
  <2> QED BY <1>10, <2>1, <2>2
<1>16. OpenIsFlow'
  <2>1. \A v \in Flows : \E w \in Flows' : w.pub = v.pub
    BY <1>3, <1>4
  <2> QED BY <1>t, <2>1 DEF NetOrder, OpenIsFlow
<1> QED BY <1>5, <1>11, <1>12, <1>13, <1>14, <1>15, <1>16 DEF OrderInv, NetOrder

\* PUBACK or PUBCOMP: the flow ends, its message is in the client's hands.
LEMMA SettleOrder ==
  ASSUME OrderInv, FlightInv', NEW a, a = Head(c2b), c2b # <<>>, c2b' = Tail(c2b),
         NEW i0 \in DOMAIN unacked, unacked[i0].id = a.id, a.type # "PUBREC",
         unacked' = Remove(unacked, i0),
         ledger' = [ledger EXCEPT ![unacked[i0].pub].fate = "settled"],
         UNCHANGED <<messageQueue, link, step, cur, b2c>>
  PROVE  OrderInv'
<1>t. FlightInv /\ TypeOK /\ TypeOK' /\ NetOrder /\ FlowsOrdered
  BY DEF OrderInv, FlightInv, NetMatch
<1>1. PICK u : u = unacked[i0]
  OBVIOUS
<1>2. /\ u \in Flows /\ u.id = a.id
      /\ \A q \in Arriving : q \in Packet /\ IdOf(q) # a.id
      /\ \A b \in Answers' : b \in Answers /\ b.id # a.id
  <2>1. /\ \A q \in Arriving : IdOf(q) # a.id
        /\ \A b \in Answers' : b \in Answers /\ b.id # a.id
    BY <1>t, AckAlone
  <2>2. \A q \in Arriving : q \in Packet
    BY <1>t, FlowOfPacket
  <2> QED BY <1>1, <2>1, <2>2 DEF Flows
<1>3. Flows' = Flows \ {u}
  BY <1>1, <1>t, FlowEnded
<1>4. /\ DOMAIN ledger' = DOMAIN ledger
      /\ \A k \in DOMAIN ledger : /\ ledger'[k].qos = ledger[k].qos /\ ledger'[k].got = ledger[k].got
                                  /\ ledger'[k].fate = IF k = u.pub THEN "settled" ELSE ledger[k].fate
  BY <1>1, <1>t, SettleFacts
<1>5. /\ \A k : (Got(k)' <=> Got(k)) /\ (InQueue(k)' <=> InQueue(k)) /\ (InHand(k)' <=> InHand(k))
      /\ \A k \in DOMAIN ledger : Before(k)' = Before(k)
      /\ Incoming' = Incoming /\ Arriving' = Arriving
  BY <1>4 DEF Got, InQueue, InHand, Before, Incoming, Arriving
<1>h. \A k : Held(k)' <=> Held(k)
  BY <1>5 DEF Held
<1>6. /\ \A p, k : Brings(p, k)' <=> Brings(p, k)
      /\ \A v : Waits(v)' <=> Waits(v)
  BY DEF Brings, Waits
<1>c. /\ \A q \in Arriving : \A k : Carries(q, k)' <=> Carries(q, k)
      /\ \A b \in Answers' : \A k : Receives(b, k)' <=> Receives(b, k)
  <2>1. \A v \in Flows : v.id # a.id => v \in Flows'
    BY <1>2, <1>3
  <2>2. \A q \in Arriving : q.type = "PUBREL" => q.id # a.id
    BY <1>2, IdFacts
  <2>3. \A v \in Flows' : v \in Flows
    BY <1>3
  <2>4. \A q \in Arriving : \A k : Carries(q, k)' <=> Carries(q, k)
    BY <2>1, <2>2, <2>3 DEF Carries
  <2>5. \A b \in Answers' : \A k : Receives(b, k)' <=> Receives(b, k)
    BY <1>2, <2>1, <2>3 DEF Receives
  <2> QED BY <2>4, <2>5
<1>7. /\ a \in Answers
      /\ \A b \in Answers : b = a \/ b \in Answers'
      /\ \A i \in DOMAIN c2b' : i + 1 \in DOMAIN c2b /\ c2b'[i] = c2b[i + 1] /\ c2b'[i] \in Answers'
      /\ \A i \in DOMAIN c2b', x \in DOMAIN c2b :
           x < i + 1 => c2b[x] = a \/ \E y \in DOMAIN c2b' : y < i /\ c2b'[y] = c2b[x]
  BY <1>t, AnswerTaken
<1>8. /\ \A k : ~Receives(a, k)
      /\ \A k : (\E b \in Answers : Receives(b, k)) => \E b \in Answers' : Receives(b, k)'
  <2>1. \A k : ~Receives(a, k)
    BY DEF Receives
  <2> QED BY <1>7, <1>c, <2>1
<1>9. \A v \in Flows' : v \in Flows
  BY <1>3
<1>10. ArrivingOrder'
  <2> SUFFICES ASSUME NEW i \in DOMAIN Incoming, NEW k \in DOMAIN ledger, Carries(Incoming[i], k),
                      NEW j \in Before(k)
               PROVE  Held(j) \/ \E x \in DOMAIN Incoming : x < i /\ Carries(Incoming[x], j)
    <3>1. \A i \in DOMAIN Incoming : \A k : Carries(Incoming[i], k)' <=> Carries(Incoming[i], k)
      BY <1>5, <1>c DEF Arriving
    <3> QED BY <1>4, <1>5, <1>h, <3>1 DEF ArrivingOrder
  <2> QED BY <1>t DEF NetOrder, ArrivingOrder
<1>11. PublishOrder'
  <2> SUFFICES ASSUME link, NEW i \in DOMAIN Incoming, NEW k \in DOMAIN ledger, Brings(Incoming[i], k),
                      NEW v \in Flows', Waits(v), v.pub < k
               PROVE  \/ \E x \in DOMAIN Incoming : x < i /\ Brings(Incoming[x], v.pub)
                      \/ \E b \in Answers' : Receives(b, v.pub)'
    BY <1>4, <1>5, <1>6 DEF PublishOrder
  <2> QED BY <1>8, <1>9, <1>t DEF NetOrder, PublishOrder
<1>12. AnswerOrder'
  <2> SUFFICES ASSUME NEW i \in DOMAIN c2b', NEW v \in Flows', Receives(c2b[i], v.pub)',
                      NEW w \in Flows', Waits(w), w.pub < v.pub
               PROVE  \E y \in DOMAIN c2b' : y < i /\ Receives(c2b[y], w.pub)'
    BY <1>6 DEF AnswerOrder
  <2>1. i + 1 \in DOMAIN c2b /\ Receives(c2b[i + 1], v.pub)
    BY <1>7, <1>c
  <2>2. PICK x \in DOMAIN c2b : x < i + 1 /\ Receives(c2b[x], w.pub)
    BY <1>9, <1>t, <2>1 DEF NetOrder, AnswerOrder
  <2>3. c2b[x] # a
    BY <1>8, <2>2
  <2>4. PICK y \in DOMAIN c2b' : y < i /\ c2b'[y] = c2b[x]
    BY <1>7, <2>2, <2>3
  <2>5. c2b'[y] \in Answers'
    BY <1>7
  <2> QED BY <1>c, <2>2, <2>4, <2>5
<1>13. FlowsUnderway'
  <2> SUFFICES ASSUME link, NEW v \in Flows'
               PROVE  IF Waits(v) THEN (\E q \in Arriving : Brings(q, v.pub)) \/ \E b \in Answers' : Receives(b, v.pub)'
                                  ELSE Held(v.pub) \/ \E q \in Arriving : Carries(q, v.pub)
    BY <1>5, <1>6, <1>c, <1>h DEF FlowsUnderway
  <2> QED BY <1>8, <1>9, <1>t DEF NetOrder, FlowsUnderway
<1>14. OpenIsFlow' /\ ReleaseOrder'
  BY <1>3, <1>4, <1>9, <1>t DEF NetOrder, OpenIsFlow, ReleaseOrder
<1>15. QueueOrder'
  BY <1>4, <1>5, QueueSame DEF OrderInv
<1>16. HandOrder'
  <2>1. step \in {"process", "release"} => cur.pub \in DOMAIN ledger
    BY <1>t DEF FlightInv, HandMatch, QoS
  <2> QED BY <1>5, <2>1 DEF OrderInv, HandOrder
<1> QED BY <1>10, <1>11, <1>12, <1>13, <1>14, <1>15, <1>16 DEF OrderInv, NetOrder

\* Every answer is for a flow, and of its kind.
LEMMA BrokerAckOrder ==
  ASSUME OrderInv, FlightInv', brokerAck
  PROVE  OrderInv'
<1> DEFINE I == {i \in DOMAIN unacked :
                   unacked[i].id = Head(c2b).id /\ (unacked[i].qos = 1 <=> Head(c2b).type = "PUBACK")}
<1>1. c2b # <<>> /\ c2b' = Tail(c2b) /\ UNCHANGED <<messageQueue, link, step, cur>>
  BY DEF brokerAck, memory, conn, thread
<1>2. I # {}
  <2>1. PICK a : a = Head(c2b)
    OBVIOUS
  <2>2. a \in Answers /\ a \in Ack /\ AnswerTrue(a)
    <3>1. a \in Answers
      BY <1>1, <2>1, AnswerTaken DEF OrderInv
    <3>2. \A b \in Answers : b \in Ack
      BY ElementOfSeq DEF OrderInv, FlightInv, TypeOK, Answers
    <3> QED BY <3>1, <3>2 DEF OrderInv, FlightInv, NetMatch
  <2>3. PICK u \in Flows : /\ u.id = a.id
                           /\ a.type = "PUBACK" => u.qos = 1
                           /\ a.type = "PUBREC" => u.qos = 2
                           /\ a.type = "PUBCOMP" => u.released
    BY <2>2 DEF AnswerTrue
  <2>4. u.released => u.qos = 2
    BY DEF OrderInv, FlightInv, NetMatch, FlowTrue
  <2>5. PICK i \in DOMAIN unacked : unacked[i] = u
    BY DEF Flows
  <2>6. u.qos = 1 <=> a.type = "PUBACK"
    BY <2>2, <2>3, <2>4 DEF Ack
  <2> QED BY <2>1, <2>3, <2>5, <2>6
<1>3. PICK i \in I :
        IF Head(c2b).type = "PUBREC"
          THEN /\ unacked' = [unacked EXCEPT ![i].released = TRUE]
               /\ Reply([type |-> "PUBREL", id |-> Head(c2b).id, dup |-> FALSE])
               /\ UNCHANGED ledger
          ELSE /\ unacked' = Remove(unacked, i)
               /\ ledger' = [ledger EXCEPT ![unacked[i].pub].fate = "settled"]
               /\ UNCHANGED b2c
  BY <1>2 DEF brokerAck
<1>4. i \in DOMAIN unacked /\ unacked[i].id = Head(c2b).id
  OBVIOUS
<1> HIDE DEF I
<1>5. PICK a : a = Head(c2b)
  OBVIOUS
<1>6. CASE a.type = "PUBREC"
  BY <1>1, <1>3, <1>4, <1>5, <1>6, PubrecOrder
<1>7. CASE a.type # "PUBREC"
  BY <1>1, <1>3, <1>4, <1>5, <1>7, SettleOrder
<1> QED BY <1>6, <1>7

LEMMA OrderInit == Init => OrderInv
<1> SUFFICES ASSUME Init PROVE OrderInv
  OBVIOUS
<1>1. /\ messageQueue = <<>> /\ step = "idle" /\ link = FALSE
      /\ c2b = <<>> /\ b2c = <<>> /\ unacked = <<>> /\ ledger = <<>>
  BY DEF Init
<1>2. Incoming = <<>> /\ Flows = {}
  BY <1>1 DEF Incoming, Flows
<1>3. NetOrder
  BY <1>1, <1>2 DEF NetOrder, OpenIsFlow, ArrivingOrder, PublishOrder, AnswerOrder, ReleaseOrder, FlowsUnderway
<1>4. QueueOrder /\ HandOrder
  BY <1>1 DEF QueueOrder, HandOrder
<1> QED BY <1>3, <1>4, FlightInit DEF OrderInv

LEMMA OrderNext == ASSUME Steady PROVE OrderInv /\ [Next]_vars => OrderInv'
<1> SUFFICES ASSUME OrderInv, [Next]_vars PROVE OrderInv'
  OBVIOUS
<1>t. FlightInv /\ TypeOK /\ TRUE \notin CleanSessions
  BY DEF OrderInv, FlightInv, Steady
<1>i. FlightInv'
  BY <1>t, FlightStep
<1>1. CASE handlers
  BY <1>1, <1>i, Publish0Order, Publish1Order, ProcessOrder, StoreOrder, Publish2Order,
     PubrelsOrder, ForgetOrder, PassiveOrder DEF handlers
<1>2. CASE readFails \/ receive \/ run \/ messageArrived(FALSE)
  BY <1>2, <1>i, TakenOrder, PassiveOrder DEF run
<1>3. CASE \/ \E cs \in CleanSessions : connect(cs)
           \/ disconnect \/ disconnect_internal \/ linkBreaks \/ keepalive
           \/ \E qos \in Qoss : brokerPublish(qos)
           \/ brokerAck
  <2>1. \A cs \in CleanSessions : cs = FALSE
    BY <1>t, OptionsAssumption
  <2> QED BY <1>3, <1>i, <2>1, ConnectOrder, KeepaliveOrder, BrokerPublishOrder, BrokerAckOrder, PassiveOrder
<1>4. CASE UNCHANGED vars
  <2>1. UNCHANGED <<unacked, messageQueue, ledger, step, cur, link, b2c, c2b>>
    BY <1>4 DEF vars, memory, thread, network
  <2>2. (\A k : Held(k)' <=> Held(k)) /\ QueueOrder' /\ HandOrder'
    BY <2>1, QuietOrder
  <2>3. Incoming' = Incoming
    BY <2>1 DEF Incoming
  <2>4. NetOrder'
    BY <1>t, <2>1, <2>2, <2>3, OrderSame DEF OrderInv
  <2> QED BY <1>i, <2>2, <2>4 DEF OrderInv
<1>5. ~crash
  BY <1>t, NoCrash
<1> QED BY <1>1, <1>2, <1>3, <1>4, <1>5 DEF Next

\* What is handed over is the first message of the queue.
LEMMA HandedOver ==
  ASSUME Steady, FlightInv, [Next]_vars, NEW k \in DOMAIN ledger, ledger[k].got = 0, ledger'[k].got = 1
  PROVE  messageQueue # <<>> /\ k = Head(messageQueue).pub
<1>t. TypeOK /\ ~cleansession /\ TRUE \notin CleanSessions
  BY DEF FlightInv, Kept, Steady
<1>1. ledger' # ledger
  OBVIOUS
<1>2. CASE handlers
  BY <1>1, <1>2 DEF handlers, handlePublish0, handlePublish1, processPublication, storePublish2, handlePublish2,
     handlePubrels, releasePublication, forgetInbound, handlePingresps
<1>3. CASE receive \/ messageArrived(TRUE)
  <2>1. PICK pub : /\ messageQueue # <<>> /\ pub = Head(messageQueue).pub /\ HandOver(pub)
    BY <1>3 DEF receive, deliverMessage, messageArrived, FlightInv, CalledIsQueued
  <2>2. pub \in DOMAIN ledger
    <3>1. messageQueue \in Seq(QEntry)
      BY <1>t DEF TypeOK
    <3>2. 1 \in DOMAIN messageQueue /\ Head(messageQueue) = messageQueue[1]
      BY <2>1, <3>1, TailFacts
    <3> QED BY <2>1, <3>2 DEF FlightInv, QueueMatch
  <2>3. k # pub => ledger'[k].got = ledger[k].got
    BY <1>t, <2>1, <2>2, HandOverFacts
  <2> QED BY <2>1, <2>3
<1>4. CASE readFails \/ callMessageArrived \/ messageArrived(FALSE) \/ keepalive \/ UNCHANGED vars
  BY <1>1, <1>4 DEF readFails, callMessageArrived, messageArrived, keepalive, vars
<1>5. CASE (\E cs \in CleanSessions : connect(cs)) \/ disconnect \/ disconnect_internal \/ linkBreaks
  <2>1. \A cs \in CleanSessions : cs = FALSE
    BY <1>t, OptionsAssumption
  <2> QED BY <1>1, <1>5, <1>t, <2>1 DEF connect, disconnect, disconnect_internal, closeSession, linkBreaks, EndBrokerSession
<1>6. CASE \E qos \in Qoss : brokerPublish(qos)
  <2>1. PICK qos \in Qoss : brokerPublish(qos)
    BY <1>6
  <2>2. PICK n, e : n = Len(ledger) + 1 /\ ledger' = Append(ledger, e) /\ e.got = 0
    BY <2>1, PublishedFacts
  <2>3. UNCHANGED <<step, cur, messageQueue>>
    BY <2>1, PublishedFacts
  <2> QED BY <1>1, <2>2, <2>3, NewMessage
<1>7. CASE brokerAck
  <2>1. PICK k0 : ledger' = [ledger EXCEPT ![k0].fate = "settled"]
    BY <1>1, <1>7 DEF brokerAck
  <2> QED BY <1>t, <2>1, SettleFacts
<1>8. ~crash
  BY <1>t, NoCrash DEF Steady
<1> QED BY <1>2, <1>3, <1>4, <1>5, <1>6, <1>7, <1>8 DEF Next, run

\* The invariant of the order: packets, answers, flows and queue hold the
\* messages of one quality of service in the order they were published in.
THEOREM OrderSafe == ASSUME Steady PROVE Spec => []OrderInv
BY OrderInit, OrderNext, PTL DEF Spec

\* Neither resends nor the two-step QoS 2 flow nor a message that messageArrived
\* refused let a message reach the application before an earlier one of its
\* quality of service.
THEOREM ReceivedInOrder == ASSUME Steady PROVE Spec => DeliveredInOrder
<1>1. OrderInv /\ [Next]_vars =>
        [\A k \in DOMAIN ledger :
           ledger[k].qos > 0 /\ ledger[k].got = 0 /\ ledger'[k].got = 1 =>
             \A j \in 1..(k - 1) : ledger[j].qos = ledger[k].qos => ledger[j].got > 0]_vars
  <2> SUFFICES ASSUME OrderInv, [Next]_vars, NEW k \in DOMAIN ledger,
                      ledger[k].qos > 0, ledger[k].got = 0, ledger'[k].got = 1,
                      NEW j \in 1..(k - 1), ledger[j].qos = ledger[k].qos
               PROVE  ledger[j].got > 0
    OBVIOUS
  <2>1. FlightInv /\ QueueOrder /\ messageQueue \in Seq(QEntry) /\ DOMAIN messageQueue = 1..Len(messageQueue)
        /\ DOMAIN ledger = 1..Len(ledger) /\ Len(ledger) \in Nat /\ Len(messageQueue) \in Nat
    BY LenProperties DEF OrderInv, FlightInv, TypeOK
  <2>2. messageQueue # <<>> /\ k = Head(messageQueue).pub
    BY <2>1, HandedOver
  <2>3. 1 \in DOMAIN messageQueue /\ k = messageQueue[1].pub
    BY <2>1, <2>2, TailFacts
  <2>4. j \in Before(k) /\ ~Got(k)
    BY <2>1 DEF Before, Got
  <2>5. Got(j) \/ \E x \in DOMAIN messageQueue : x < 1 /\ messageQueue[x].pub = j
    BY <2>1, <2>3, <2>4 DEF QueueOrder
  <2> QED BY <2>1, <2>5 DEF Got
<1> QED BY <1>1, OrderSafe, PTL DEF Spec, DeliveredInOrder
=============================================================================
