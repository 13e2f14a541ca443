----------------------- MODULE OutboundSession_proofs ------------------------
(***************************************************************************)
(* Proofs about OutboundSession, for every value of its constants: its     *)
(* types, the invariant that ties the in-flight list to its ids, its       *)
(* window and the persistent store, and the refinement of Delivery.        *)
(***************************************************************************)
EXTENDS MCOutboundSession, SequenceTheorems, FiniteSetTheorems, TLAPS

USE MaxMsgIdAssumption, MaxInflightAssumption, PersistentAssumption,
    CleanSessionsAssumption, QossAssumption, BoundsAssumption

-----------------------------------------------------------------------------
(* Sequences *)

\* A function on 1..n is a sequence of length n.
LEMMA FunctionIsSeq ==
  ASSUME NEW S, NEW n \in Nat, NEW f \in [1..n -> S]
  PROVE  f \in Seq(S) /\ Len(f) = n /\ DOMAIN f = 1..n
<1>1. f \in Seq(S)
  BY SeqDef
<1>2. DOMAIN f = 1..n
  OBVIOUS
<1>3. Len(f) = n
  <2>1. Len(f) \in Nat /\ DOMAIN f = 1..Len(f)
    BY <1>1, LenProperties
  <2> QED BY <1>2, <2>1
<1> QED BY <1>1, <1>2, <1>3

\* Remove shortens a sequence by the element at i and shifts the rest down.
LEMMA RemoveProperties ==
  ASSUME NEW S, NEW s \in Seq(S), NEW i \in DOMAIN s
  PROVE  /\ Remove(s, i) \in Seq(S)
         /\ Len(Remove(s, i)) = Len(s) - 1
         /\ DOMAIN Remove(s, i) = 1..(Len(s) - 1)
         /\ \A j \in 1..(Len(s) - 1) :
              Remove(s, i)[j] = IF j < i THEN s[j] ELSE s[j + 1]
<1>1. Len(s) \in Nat \ {0} /\ s \in [1..Len(s) -> S] /\ i \in 1..Len(s)
  BY LenProperties
<1>2. Len(s) - 1 \in Nat
  BY <1>1
<1>3. Remove(s, i) \in [1..(Len(s) - 1) -> S]
  BY <1>1 DEF Remove
<1> QED BY <1>2, <1>3, FunctionIsSeq DEF Remove

\* The messages left after a removal are those at the other positions.
LEMMA RemoveKeeps ==
  ASSUME NEW S, NEW s \in Seq(S), NEW i \in DOMAIN s
  PROVE  /\ \A j \in DOMAIN Remove(s, i) :
              \E k \in DOMAIN s \ {i} : Remove(s, i)[j] = s[k]
         /\ \A k \in DOMAIN s \ {i} :
              \E j \in DOMAIN Remove(s, i) : Remove(s, i)[j] = s[k]
<1> DEFINE r == Remove(s, i)
<1>1. Len(s) \in Nat /\ DOMAIN s = 1..Len(s)
  BY LenProperties
<1>2. /\ DOMAIN r = 1..(Len(s) - 1)
      /\ \A j \in 1..(Len(s) - 1) : r[j] = IF j < i THEN s[j] ELSE s[j + 1]
  BY RemoveProperties
<1> HIDE DEF r
<1>3. ASSUME NEW j \in 1..(Len(s) - 1)
      PROVE  \E k \in DOMAIN s \ {i} : r[j] = s[k]
  <2>1. CASE j < i
    BY <2>1, <1>1, <1>2
  <2>2. CASE ~(j < i)
    <3>1. j + 1 \in DOMAIN s \ {i}
      BY <2>2, <1>1
    <3> QED BY <3>1, <2>2, <1>2
  <2> QED BY <2>1, <2>2
<1>4. ASSUME NEW k \in DOMAIN s \ {i}
      PROVE  \E j \in 1..(Len(s) - 1) : r[j] = s[k]
  <2>1. CASE k < i
    BY <2>1, <1>1, <1>2
  <2>2. CASE ~(k < i)
    <3>1. k - 1 \in 1..(Len(s) - 1) /\ ~(k - 1 < i) /\ (k - 1) + 1 = k
      BY <2>2, <1>1
    <3> QED BY <3>1, <1>2
  <2> QED BY <2>1, <2>2
<1> QED BY <1>2, <1>3, <1>4 DEF r

\* Settling entries of the history keeps it a history of the same length.
LEMMA SettleType ==
  ASSUME NEW lg \in Seq(Entry), NEW P, NEW fate \in Fates
  PROVE  Settle(lg, P, fate) \in Seq(Entry)
<1>1. Len(lg) \in Nat /\ lg \in [1..Len(lg) -> Entry] /\ DOMAIN lg = 1..Len(lg)
  BY LenProperties
<1>2. ASSUME NEW k \in 1..Len(lg)
      PROVE  [lg[k] EXCEPT !.fate = fate] \in Entry
  BY <1>1 DEF Entry
<1>3. Settle(lg, P, fate) \in [1..Len(lg) -> Entry]
  BY <1>1, <1>2 DEF Settle
<1> QED BY <1>1, <1>3, FunctionIsSeq

-----------------------------------------------------------------------------
(* Types *)

\* What is sent, answered and recorded has its type.
LEMMA PacketTypes ==
  /\ \A m \in Message : /\ Publish(m) \in Packet /\ RetryPacket(m) \in Packet
                        /\ Record(m) \in Stored
  /\ \A id \in MsgIds : Pubrel(id) \in Packet
  /\ \A id \in MsgIds, type \in {"PUBACK", "PUBREC", "PUBCOMP"} : Ack(type, id) \in Reply
  /\ \A id \in MsgIds, qos \in 1..2, pub \in Pubs : NewMessage(id, qos, pub) \in Message
BY DEF Message, Publish, RetryPacket, Record, Stored, Pubrel, Ack, Packet, Reply,
       NewMessage, FirstReply, MsgIds, Pubs

LEMMA SendType ==
  ASSUME TypeOK, NEW p \in Packet, Send(p)
  PROVE  c2b' \in Seq(Packet)
BY DEF TypeOK, Send

LEMMA PutSentType ==
  ASSUME TypeOK, NEW m \in Message
  PROVE  PutSent(m) \subseteq Stored
BY PacketTypes DEF TypeOK, PutSent

LEMMA PutAgainType ==
  ASSUME TypeOK, NEW M \in SUBSET Message, PutAgain(M)
  PROVE  sent' \subseteq Stored /\ rel' \subseteq MsgIds
BY PacketTypes DEF TypeOK, PutAgain, Message

LEMMA DisturbType ==
  ASSUME TypeOK, NEW kind \in Kinds, Disturb(kind)
  PROVE  left' \in [Kinds -> Nat]
BY DEF TypeOK, Disturb

LEMMA AcceptType ==
  ASSUME TypeOK, NEW id \in 0..MaxMsgId, NEW qos \in 0..2, NEW fate \in Fates
  PROVE  Accept(id, qos, fate) \in Seq(Entry)
BY DEF TypeOK, Accept, Entry

LEMMA CleanSessionType ==
  ASSUME TypeOK, cleanSession
  PROVE  /\ outboundMsgs' \in Seq(Message) /\ msgID' \in 0..MaxMsgId
         /\ sent' \subseteq Stored /\ rel' \subseteq MsgIds
         /\ ledger' \in Seq(Entry)
BY SettleType DEF TypeOK, cleanSession, Fates

LEMMA ReceiveType ==
  ASSUME TypeOK, NEW type, Receive(type)
  PROVE  /\ b2c' \in Seq(Reply)
         /\ Head(b2c) \in Reply
BY HeadTailProperties DEF TypeOK, Receive

LEMMA CompleteType ==
  ASSUME TypeOK, NEW i \in DOMAIN outboundMsgs, Complete(i)
  PROVE  /\ outboundMsgs' \in Seq(Message)
         /\ sent' \subseteq Stored /\ rel' \subseteq MsgIds
         /\ ledger' \in Seq(Entry)
<1>1. outboundMsgs' \in Seq(Message)
  BY RemoveProperties DEF TypeOK, Complete
<1>2. sent' \subseteq Stored /\ rel' \subseteq MsgIds
  BY DEF TypeOK, Complete, RemoveStored
<1>3. ledger' \in Seq(Entry)
  BY SettleType DEF TypeOK, Complete, Fates
<1> QED BY <1>1, <1>2, <1>3

LEMMA StartPublishType ==
  ASSUME TypeOK, NEW id \in MsgIds, NEW qos \in 1..2, startPublish(id, qos)
  PROVE  /\ outboundMsgs' \in Seq(Message) /\ msgID' \in 0..MaxMsgId
         /\ sent' \subseteq Stored /\ rel' \subseteq MsgIds
         /\ c2b' \in Seq(Packet)
         /\ ledger' \in Seq(Entry)
<1> DEFINE m == NewMessage(id, qos, Len(ledger) + 1)
<1>1. m \in Message
  <2>1. Len(ledger) + 1 \in Pubs
    BY LenProperties DEF TypeOK, Pubs
  <2> QED BY <2>1, PacketTypes
<1>2. Publish(m) \in Packet
  BY <1>1, PacketTypes
<1> HIDE DEF m
<1>3. /\ outboundMsgs' = Append(outboundMsgs, m) /\ msgID' = id
      /\ sent' = PutSent(m) /\ rel' = rel /\ Send(Publish(m))
      /\ ledger' = Accept(id, qos, "inflight")
  BY DEF startPublish, m
<1>4. c2b' \in Seq(Packet)
  BY <1>2, <1>3, SendType
<1>5. ledger' \in Seq(Entry)
  <2>1. id \in 0..MaxMsgId /\ qos \in 0..2 /\ "inflight" \in Fates
    BY DEF Fates, MsgIds
  <2>2. Accept(id, qos, "inflight") \in Seq(Entry)
    BY <2>1, AcceptType
  <2> QED BY <1>3, <2>2
<1>6. sent' \subseteq Stored
  BY <1>1, <1>3, PutSentType
<1> QED BY <1>1, <1>3, <1>4, <1>5, <1>6 DEF TypeOK, MsgIds

\* An entry kept by a restart is a message again.
LEMMA RestoredType ==
  ASSUME NEW r \in Stored
  PROVE  RestoredMessage(r) \in Message
BY DEF Stored, RestoredMessage, Message, FirstReply, MsgIds, Pubs

\* Rotating a sequence loses no element and repeats none.
LEMMA RotatePermutes ==
  ASSUME NEW S, NEW s \in Seq(S), NEW w \in Nat, Len(s) = 0 \/ w \in 1..Len(s)
  PROVE  /\ \A i \in 1..Len(s) : \E j \in 1..Len(s) : Rotate(s, w)[j] = s[i]
         /\ (\A i, j \in 1..Len(s) : i # j => s[i] # s[j])
              => \A i, j \in 1..Len(s) : i # j => Rotate(s, w)[i] # Rotate(s, w)[j]
<1> DEFINE n == Len(s)
           at(i) == IF i + w - 1 <= n THEN i + w - 1 ELSE i + w - 1 - n
<1>1. n \in Nat /\ DOMAIN s = 1..n
  BY LenProperties
<1>2. \A i \in 1..n : Rotate(s, w)[i] = s[at(i)]
  BY <1>1 DEF Rotate
<1>3. /\ \A i \in 1..n : at(i) \in 1..n
      /\ \A i, j \in 1..n : i # j => at(i) # at(j)
  BY <1>1
<1>4. ASSUME NEW i \in 1..n
      PROVE  \E j \in 1..n : Rotate(s, w)[j] = s[i]
  <2>1. CASE i >= w
    <3>1. i - w + 1 \in 1..n /\ at(i - w + 1) = i
      BY <1>1, <2>1
    <3> QED BY <3>1, <1>2
  <2>2. CASE i < w
    <3>1. i - w + 1 + n \in 1..n /\ at(i - w + 1 + n) = i
      BY <1>1, <2>2
    <3> QED BY <3>1, <1>2
  <2> QED BY <1>1, <2>1, <2>2
<1> HIDE DEF at
<1>5. ASSUME \A i, j \in 1..n : i # j => s[i] # s[j], NEW i \in 1..n, NEW j \in 1..n, i # j
      PROVE  Rotate(s, w)[i] # Rotate(s, w)[j]
  BY <1>2, <1>3, <1>5
<1> HIDE DEF n
<1> QED BY <1>4, <1>5 DEF n

LEMMA RotateType ==
  ASSUME NEW S, NEW n \in Nat, NEW s \in [1..n -> S], NEW w \in 1..(n + 1),
         n = 0 => w = 1, n > 0 => w \in 1..n
  PROVE  Rotate(s, w) \in [1..n -> S]
<1>1. Len(s) = n /\ DOMAIN s = 1..n
  BY FunctionIsSeq
<1>2. \A i \in 1..n : (IF i + w - 1 <= n THEN i + w - 1 ELSE i + w - 1 - n) \in 1..n
  OBVIOUS
<1> QED BY <1>1, <1>2 DEF Rotate

LEMMA RestoreType ==
  ASSUME TypeOK, NEW n \in 0..MaxMsgId, NEW s \in [1..n -> sent], NEW w \in 1..(n + 1),
         IF n = 0 THEN w = 1 ELSE wrapMsgID(s, w),
         outboundMsgs' = [i \in DOMAIN s |-> RestoredMessage(Rotate(s, w)[i])]
  PROVE  /\ outboundMsgs' \in Seq(Message)
         /\ Len(outboundMsgs') = n
         /\ DOMAIN outboundMsgs' = 1..n
         /\ n > 0 => w \in 1..n
<1>1. n \in Nat /\ s \in [1..n -> Stored] /\ DOMAIN s = 1..n /\ Len(s) = n
  BY FunctionIsSeq DEF TypeOK
<1>2. (n = 0 => w = 1) /\ (n > 0 => w \in 1..n)
  BY <1>1 DEF wrapMsgID
<1>3. Rotate(s, w) \in [1..n -> Stored]
  BY <1>1, <1>2, RotateType
<1>4. outboundMsgs' \in [1..n -> Message]
  BY <1>1, <1>3, RestoredType
<1> QED BY <1>1, <1>2, <1>4, FunctionIsSeq

\* What a connect resends is a sequence of packets.
LEMMA RetryPacketsType ==
  ASSUME TypeOK, NEW n \in ResentOnConnect(outboundMsgs)
  PROVE  RetryPackets(n) \in Seq(Packet) /\ {outboundMsgs[i] : i \in 1..n} \subseteq Message
<1>1. Len(outboundMsgs) \in Nat /\ outboundMsgs \in [1..Len(outboundMsgs) -> Message]
  BY LenProperties DEF TypeOK
<1>2. n \in 0..Len(outboundMsgs)
  BY <1>1 DEF ResentOnConnect
<1>3. RetryPackets(n) \in [1..n -> Packet]
  BY <1>1, <1>2, PacketTypes DEF RetryPackets
<1> QED BY <1>1, <1>2, <1>3, FunctionIsSeq

\* The new value of a message that waits for the next packet.
LEMMA NextMessageType ==
  ASSUME TypeOK, NEW i \in DOMAIN outboundMsgs
  PROVE  [outboundMsgs EXCEPT ![i].next = "PUBCOMP"] \in Seq(Message)
<1>1. i \in 1..Len(outboundMsgs) /\ outboundMsgs[i] \in Message
  BY LenProperties DEF TypeOK
<1>2. [outboundMsgs[i] EXCEPT !.next = "PUBCOMP"] \in Message
  BY <1>1 DEF Message
<1> QED BY <1>1, <1>2, ExceptSeq DEF TypeOK

\* A delivery and an answer of the broker.
LEMMA DeliverType ==
  ASSUME TypeOK, NEW pub, Deliver(pub)
  PROVE  ledger' \in Seq(Entry)
<1>1. Len(ledger) \in Nat /\ ledger \in [1..Len(ledger) -> Entry]
  BY LenProperties DEF TypeOK
<1>2. \A e \in Entry : [e EXCEPT !.got = @ + 1] \in Entry
  BY DEF Entry
<1>3. ledger' \in [1..Len(ledger) -> Entry]
  BY <1>1, <1>2 DEF Deliver
<1> QED BY <1>1, <1>3, FunctionIsSeq

LEMMA AnswerType ==
  ASSUME TypeOK, NEW id \in MsgIds, NEW type \in {"PUBACK", "PUBREC", "PUBCOMP"},
         Answer(type, id)
  PROVE  b2c' \in Seq(Reply)
BY PacketTypes DEF TypeOK, Answer

\* Every step keeps every variable in its type.
LEMMA TypeStep ==
  ASSUME TypeOK, [Next]_vars
  PROVE  TypeOK'
<1>1. CASE publishQoS0
  <2>1. Len(ledger) + 1 \in Pubs
    BY LenProperties DEF TypeOK, Pubs
  <2>2. Publish([id |-> 0, qos |-> 0, pub |-> Len(ledger) + 1]) \in Packet
    BY <2>1 DEF Publish, Packet
  <2>3. c2b' \in Seq(Packet)
    BY <1>1, <2>2, SendType DEF publishQoS0
  <2>4. ledger' \in Seq(Entry)
    BY <1>1, AcceptType DEF publishQoS0, Fates
  <2> QED BY <1>1, <2>3, <2>4 DEF publishQoS0, TypeOK, session, broker
<1>2. ASSUME NEW qos \in 1..2, publish(qos)
      PROVE  TypeOK'
  <2>1. PICK id \in MsgIds : startPublish(id, qos)
    BY <1>2 DEF publish
  <2> QED BY <1>2, <2>1, StartPublishType DEF publish, TypeOK, broker
<1>3. ASSUME NEW qos \in 1..2, publishFails(qos)
      PROVE  TypeOK'
  <2>1. PICK id \in MsgIds :
          IF cleansession
            THEN /\ outboundMsgs' = <<>> /\ msgID' = 0
                 /\ sent' = {} /\ rel' = {} /\ c2b' = c2b
                 /\ ledger' = Settle(Accept(id, qos, "inflight"), 1..(Len(ledger) + 1), "dropped")
            ELSE startPublish(id, qos)
    BY <1>3 DEF publishFails
  <2>2. /\ connected' = FALSE /\ b2c' = <<>>
        /\ UNCHANGED <<cleansession, hung, link, broker, left>>
    BY <1>3 DEF publishFails
  <2>3. /\ outboundMsgs' \in Seq(Message) /\ msgID' \in 0..MaxMsgId
        /\ sent' \subseteq Stored /\ rel' \subseteq MsgIds
        /\ c2b' \in Seq(Packet)
        /\ ledger' \in Seq(Entry)
    <3>1. CASE cleansession
      <4>1. id \in 0..MaxMsgId /\ qos \in 0..2 /\ "inflight" \in Fates /\ "dropped" \in Fates
        BY DEF Fates, MsgIds
      <4>2. Accept(id, qos, "inflight") \in Seq(Entry)
        BY <4>1, AcceptType
      <4>3. Settle(Accept(id, qos, "inflight"), 1..(Len(ledger) + 1), "dropped") \in Seq(Entry)
        BY <4>1, <4>2, SettleType
      <4> QED BY <2>1, <3>1, <4>3, EmptySeq DEF TypeOK
    <3>2. CASE ~cleansession
      <4>1. startPublish(id, qos)
        BY <2>1, <3>2
      <4> QED BY <4>1, StartPublishType
    <3> QED BY <3>1, <3>2
  <2> QED BY <2>2, <2>3, EmptySeq DEF TypeOK, broker
<1>4. CASE subscribe
  <2>1. left' \in [Kinds -> Nat]
    BY <1>4, DisturbType DEF subscribe, Kinds
  <2>2. msgID' \in 0..MaxMsgId
    BY <1>4 DEF subscribe, MsgIds
  <2>3. UNCHANGED <<outboundMsgs, sent, rel, connected, cleansession, hung,
                    link, c2b, b2c, bstored, bclean, ledger>>
    BY <1>4 DEF subscribe, network, broker
  <2> QED BY <2>1, <2>2, <2>3 DEF TypeOK
<1>5. CASE handlePubacks
  <2>1. b2c' \in Seq(Reply)
    BY <1>5, ReceiveType DEF handlePubacks
  <2>2. Ignore \/ \E i \in DOMAIN outboundMsgs : Complete(i)
    BY <1>5 DEF handlePubacks
  <2> QED BY <1>5, <2>1, <2>2, CompleteType DEF handlePubacks, Ignore, TypeOK, broker
<1>6. CASE handlePubrecs
  <2>1. b2c' \in Seq(Reply) /\ Head(b2c) \in Reply
    BY <1>6, ReceiveType DEF handlePubrecs
  <2>2. Head(b2c).id \in MsgIds
    BY <2>1 DEF Reply
  <2>3. \/ UNCHANGED <<outboundMsgs, rel, c2b>>
        \/ \E i \in DOMAIN outboundMsgs :
             /\ outboundMsgs' = [outboundMsgs EXCEPT ![i].next = "PUBCOMP"]
             /\ rel' = PutRel(Head(b2c).id)
             /\ Send(Pubrel(Head(b2c).id))
    BY <1>6 DEF handlePubrecs
  <2>4. outboundMsgs' \in Seq(Message) /\ rel' \subseteq MsgIds
    BY <2>2, <2>3, NextMessageType DEF PutRel, TypeOK
  <2>5. c2b' \in Seq(Packet)
    BY <2>2, <2>3, PacketTypes, SendType DEF TypeOK
  <2> QED BY <1>6, <2>1, <2>4, <2>5 DEF handlePubrecs, TypeOK, broker
<1>7. CASE handlePubcomps
  <2>1. b2c' \in Seq(Reply)
    BY <1>7, ReceiveType DEF handlePubcomps
  <2>2. Ignore \/ \E i \in DOMAIN outboundMsgs : Complete(i)
    BY <1>7 DEF handlePubcomps
  <2> QED BY <1>7, <2>1, <2>2, CompleteType DEF handlePubcomps, Ignore, TypeOK, broker
<1>8. CASE retries
  <2>1. PICK i \in DOMAIN outboundMsgs : retry(i)
    BY <1>8 DEF retries
  <2>2. outboundMsgs[i] \in Message
    BY LenProperties DEF TypeOK
  <2>3. c2b' \in Seq(Packet)
    BY <2>1, <2>2, PacketTypes, SendType DEF retry
  <2>4. sent' \subseteq Stored /\ rel' \subseteq MsgIds
    BY <2>1, <2>2, PutAgainType DEF retry
  <2>5. left' \in [Kinds -> Nat]
    BY <2>1, DisturbType DEF retry, Kinds, TypeOK
  <2> QED BY <2>1, <2>3, <2>4, <2>5 DEF retry, TypeOK, broker
<1>9. ASSUME NEW cs \in CleanSessions, connect(cs)
      PROVE  TypeOK'
  <2>1. /\ outboundMsgs' \in Seq(Message) /\ msgID' \in 0..MaxMsgId
        /\ sent' \subseteq Stored /\ rel' \subseteq MsgIds
        /\ ledger' \in Seq(Entry) /\ c2b' \in Seq(Packet)
    <3>1. CASE cs
      BY <1>9, <3>1, CleanSessionType, EmptySeq DEF connect
    <3>2. CASE ~cs
      <4>1. PICK n \in ResentOnConnect(outboundMsgs) :
              /\ c2b' = RetryPackets(n)
              /\ PutAgain({outboundMsgs[i] : i \in 1..n})
        BY <1>9, <3>2 DEF connect
      <4>2. c2b' \in Seq(Packet) /\ {outboundMsgs[i] : i \in 1..n} \subseteq Message
        BY <4>1, RetryPacketsType
      <4>3. sent' \subseteq Stored /\ rel' \subseteq MsgIds
        BY <4>1, <4>2, PutAgainType
      <4> QED BY <1>9, <3>2, <4>2, <4>3 DEF connect, TypeOK
    <3> QED BY <3>1, <3>2
  <2> QED BY <1>9, <2>1, EmptySeq DEF connect, BrokerConnect, TypeOK
<1>10. ASSUME NEW cs \in CleanSessions, NEW stage, connectFails(cs, stage)
       PROVE  TypeOK'
  <2>1. /\ outboundMsgs' \in Seq(Message) /\ msgID' \in 0..MaxMsgId
        /\ sent' \subseteq Stored /\ rel' \subseteq MsgIds
        /\ ledger' \in Seq(Entry)
    BY <1>10, CleanSessionType DEF connectFails, session, TypeOK
  <2>2. left' \in [Kinds -> Nat]
    BY <1>10, DisturbType DEF connectFails, Kinds
  <2>3. c2b' \in Seq(Packet) /\ bstored' \subseteq MsgIds /\ bclean' \in BOOLEAN
    BY <1>10, EmptySeq DEF connectFails, BrokerConnect, TypeOK
  <2> QED BY <1>10, <2>1, <2>2, <2>3 DEF connectFails, TypeOK
<1>11. ASSUME closeSession, left' \in [Kinds -> Nat]
       PROVE  TypeOK'
  <2>1. /\ outboundMsgs' \in Seq(Message) /\ msgID' \in 0..MaxMsgId
        /\ sent' \subseteq Stored /\ rel' \subseteq MsgIds
        /\ ledger' \in Seq(Entry)
    BY <1>11, CleanSessionType DEF closeSession, session, TypeOK
  <2> QED BY <1>11, <2>1, EmptySeq DEF closeSession, TypeOK, broker
<1>12. CASE disconnect
  BY <1>11, <1>12, DisturbType DEF disconnect, Kinds
<1>13. CASE disconnect_internal
  BY <1>11, <1>13 DEF disconnect_internal, TypeOK
<1>14. CASE protocolCloseSession
  BY <1>14 DEF protocolCloseSession, TypeOK, session, network, broker
<1>15. CASE crash
  <2>0. PICK n \in 0..MaxMsgId : \E s \in [1..n -> sent] : \E w \in 1..(n + 1) :
          /\ IF n = 0 THEN w = 1 ELSE wrapMsgID(s, w)
          /\ outboundMsgs' = [i \in DOMAIN s |-> RestoredMessage(Rotate(s, w)[i])]
    BY <1>15 DEF crash
  <2>1. PICK s \in [1..n -> sent], w \in 1..(n + 1) :
          /\ IF n = 0 THEN w = 1 ELSE wrapMsgID(s, w)
          /\ outboundMsgs' = [i \in DOMAIN s |-> RestoredMessage(Rotate(s, w)[i])]
    BY <2>0
  <2>2. outboundMsgs' \in Seq(Message)
    BY <2>1, RestoreType
  <2>3. ledger' \in Seq(Entry)
    BY <1>15, SettleType DEF crash, TypeOK, Fates
  <2>4. left' \in [Kinds -> Nat]
    BY <1>15, DisturbType DEF crash, Kinds
  <2>5. /\ rel' \subseteq rel /\ sent' = sent /\ msgID' = 0
        /\ connected' = FALSE /\ cleansession' = FALSE /\ hung' = FALSE
        /\ link' = FALSE /\ b2c' = <<>>
        /\ UNCHANGED <<c2b, bstored, bclean>>
    BY <1>15 DEF crash, broker
  <2>6. b2c' \in Seq(Reply) /\ c2b' \in Seq(Packet)
    BY <2>5, EmptySeq DEF TypeOK
  <2>7. rel' \subseteq MsgIds /\ sent' \subseteq Stored /\ msgID' \in 0..MaxMsgId
    BY <2>5 DEF TypeOK
  <2> QED BY <2>2, <2>3, <2>4, <2>5, <2>6, <2>7 DEF TypeOK
<1>16. CASE linkBreaks
  <2>1. b2c' \in Seq(Reply)
    <3>1. PICK n \in 0..Len(b2c) : b2c' = Front(b2c, n)
      BY <1>16 DEF linkBreaks
    <3>2. Len(b2c) \in Nat /\ b2c \in [1..Len(b2c) -> Reply]
      BY LenProperties DEF TypeOK
    <3>3. \A i \in 1..n : b2c[i] \in Reply
      BY <3>1, <3>2
    <3> QED BY <3>1, <3>2, <3>3, SubSeqProperties DEF Front
  <2>2. left' \in [Kinds -> Nat]
    BY <1>16, DisturbType DEF linkBreaks, Kinds
  <2> QED BY <1>16, <2>1, <2>2, EmptySeq DEF linkBreaks, TypeOK, session, broker
<1>17. CASE brokerPublish
  <2> DEFINE p == Head(c2b)
  <2>1. p \in Packet /\ c2b' \in Seq(Packet)
    BY <1>17, HeadTailProperties DEF brokerPublish, TypeOK
  <2>2. /\ p.type = "PUBLISH"
        /\ p.id \in MsgIds \/ p.qos = 0
        /\ p.qos \in 0..2
    BY <1>17, <2>1 DEF brokerPublish, Packet
  <2> HIDE DEF p
  <2>3. /\ UNCHANGED ledger \/ Deliver(p.pub)
        /\ \/ UNCHANGED <<bstored, b2c>>
           \/ /\ p.id \in MsgIds
              /\ Answer("PUBACK", p.id) \/ Answer("PUBREC", p.id)
              /\ bstored' \in {bstored, bstored \cup {p.id}}
    BY <1>17, <2>2 DEF brokerPublish, p
  <2>4. ledger' \in Seq(Entry)
    BY <2>3, DeliverType DEF TypeOK
  <2>5. b2c' \in Seq(Reply) /\ bstored' \subseteq MsgIds
    BY <2>3, AnswerType DEF TypeOK
  <2> QED BY <1>17, <2>1, <2>4, <2>5 DEF brokerPublish, TypeOK, session
<1>18. CASE brokerPubrel
  <2> DEFINE p == Head(c2b)
  <2>1. p \in Packet /\ c2b' \in Seq(Packet)
    BY <1>18, HeadTailProperties DEF brokerPubrel, TypeOK
  <2>2. p.id \in MsgIds
    BY <1>18, <2>1 DEF brokerPubrel, Packet
  <2>3. b2c' \in Seq(Reply)
    BY <1>18, <2>2, AnswerType DEF brokerPubrel
  <2> QED BY <1>18, <2>1, <2>3 DEF brokerPubrel, TypeOK, session
<1>19. CASE UNCHANGED vars
  BY <1>19 DEF vars, session, network, broker, TypeOK
<1> QED
  BY <1>1, <1>2, <1>3, <1>4, <1>5, <1>6, <1>7, <1>8, <1>9, <1>10, <1>12, <1>13, <1>14,
     <1>15, <1>16, <1>17, <1>18, <1>19 DEF Next, receive, brokerStep

\* The initial state has its types.
LEMMA InitTypeOK == Init => TypeOK
<1> SUFFICES ASSUME Init PROVE TypeOK
  OBVIOUS
<1>1. /\ outboundMsgs \in Seq(Message) /\ c2b \in Seq(Packet)
      /\ b2c \in Seq(Reply) /\ ledger \in Seq(Entry)
  BY EmptySeq DEF Init
<1>2. /\ connected \in BOOLEAN /\ cleansession \in BOOLEAN /\ hung \in BOOLEAN
      /\ link \in BOOLEAN /\ bclean \in BOOLEAN
  BY Zenon DEF Init
<1>3. /\ msgID \in 0..MaxMsgId /\ left \in [Kinds -> Nat]
      /\ sent \subseteq Stored /\ rel \subseteq MsgIds /\ bstored \subseteq MsgIds
  BY DEF Init
<1> QED BY <1>1, <1>2, <1>3 DEF TypeOK

\* Every variable keeps its type: TypeOK holds in every behaviour.
THEOREM TypeCorrect == Spec => []TypeOK
<1>1. Init => TypeOK
  BY InitTypeOK
<1>2. TypeOK /\ [Next]_vars => TypeOK'
  BY TypeStep
<1> QED BY <1>1, <1>2, PTL DEF Spec

-----------------------------------------------------------------------------
(* The list, its ids, its window and the store *)

ListUnchanged == UNCHANGED <<outboundMsgs, sent, rel>>
ListDropped   == outboundMsgs' = <<>> /\ sent' = {} /\ rel' = {}

LEMMA UnchangedKeepsList ==
  ASSUME ListInv, ListUnchanged
  PROVE  ListInv'
BY DEF ListInv, ListUnchanged, UniqueIds, WindowKept, MessageShape, StoreMirrorsList,
       NoStoreUnused

LEMMA DroppedKeepsList ==
  ASSUME ListDropped
  PROVE  ListInv'
<1>1. DOMAIN outboundMsgs' = {} /\ Len(outboundMsgs') = 0
  BY DEF ListDropped
<1> QED BY <1>1 DEF ListDropped, ListInv, UniqueIds, WindowKept, MessageShape,
               StoreMirrorsList, NoStoreUnused

\* A publication takes an id no message has, and its place in the window.
LEMMA PublishKeepsList ==
  ASSUME TypeOK, ListInv, NEW id \in MsgIds, NEW qos \in 1..2,
         ~HasId(outboundMsgs, id), Len(outboundMsgs) < MaxInflight,
         startPublish(id, qos)
  PROVE  ListInv'
<1> DEFINE m == NewMessage(id, qos, Len(ledger) + 1)
           n == Len(outboundMsgs)
<1>1. /\ m.id = id /\ m.qos = qos /\ m.next = FirstReply(qos) /\ m.next # "PUBCOMP"
      /\ Record(m).id = id
  BY DEF NewMessage, FirstReply, Record
<1>2. /\ outboundMsgs' = Append(outboundMsgs, m) /\ sent' = PutSent(m) /\ rel' = rel
  BY DEF startPublish
<1> HIDE DEF m
<1>3. n \in Nat /\ DOMAIN outboundMsgs = 1..n
  BY LenProperties DEF TypeOK
<1>4. /\ DOMAIN outboundMsgs' = 1..(n + 1) /\ Len(outboundMsgs') = n + 1
      /\ \A i \in 1..n : outboundMsgs'[i] = outboundMsgs[i]
      /\ outboundMsgs'[n + 1] = m
  BY <1>2, <1>3 DEF TypeOK
<1>5. UniqueIds'
  BY <1>1, <1>3, <1>4 DEF ListInv, UniqueIds, HasId
<1>6. WindowKept'
  BY <1>3, <1>4 DEF WindowKept
<1>7. MessageShape'
  BY <1>1, <1>3, <1>4 DEF ListInv, MessageShape, FirstReply
<1>8. StoreMirrorsList'
  <2> SUFFICES ASSUME Persistent
               PROVE  /\ sent' = {Record(outboundMsgs'[i]) : i \in 1..(n + 1)}
                      /\ rel' = {outboundMsgs'[i].id : i \in {j \in 1..(n + 1) :
                                                 outboundMsgs'[j].next = "PUBCOMP"}}
    BY <1>4 DEF StoreMirrorsList
  <2>1. /\ sent = {Record(outboundMsgs[i]) : i \in 1..n}
        /\ rel = {outboundMsgs[i].id : i \in {j \in 1..n : outboundMsgs[j].next = "PUBCOMP"}}
    BY <1>3 DEF ListInv, StoreMirrorsList
  <2>2. \A r \in sent : r.id # id
    BY <1>3, <2>1 DEF HasId, Record
  <2>3. sent' = sent \cup {Record(m)}
    BY <1>1, <1>2, <2>2 DEF PutSent
  <2>4. sent' = {Record(outboundMsgs'[i]) : i \in 1..(n + 1)}
    BY <1>3, <1>4, <2>1, <2>3
  <2>5. rel' = {outboundMsgs'[i].id : i \in {j \in 1..(n + 1) : outboundMsgs'[j].next = "PUBCOMP"}}
    BY <1>1, <1>2, <1>3, <1>4, <2>1
  <2> QED BY <2>4, <2>5
<1>9. NoStoreUnused'
  BY <1>2 DEF ListInv, NoStoreUnused, PutSent
<1> QED BY <1>5, <1>6, <1>7, <1>8, <1>9 DEF ListInv

\* A finished message leaves the list with its records, and nobody else's.
LEMMA CompleteKeepsList ==
  ASSUME TypeOK, ListInv, NEW i \in DOMAIN outboundMsgs, Complete(i)
  PROVE  ListInv'
<1> DEFINE n == Len(outboundMsgs)
           m == outboundMsgs[i]
<1>1. n \in Nat /\ DOMAIN outboundMsgs = 1..n /\ m \in Message
  BY LenProperties DEF TypeOK
<1>2. /\ outboundMsgs' = Remove(outboundMsgs, i)
      /\ sent' = {r \in sent : r.id # m.id}
      /\ rel' = IF m.qos = 2 THEN rel \ {m.id} ELSE rel
  BY DEF Complete, RemoveStored
<1>3. /\ outboundMsgs' \in Seq(Message) /\ Len(outboundMsgs') = n - 1
      /\ DOMAIN outboundMsgs' = 1..(n - 1)
      /\ \A j \in 1..(n - 1) :
           outboundMsgs'[j] = IF j < i THEN outboundMsgs[j] ELSE outboundMsgs[j + 1]
  BY <1>2, RemoveProperties DEF TypeOK
<1>4. /\ \A j \in DOMAIN outboundMsgs' :
           \E k \in DOMAIN outboundMsgs \ {i} : outboundMsgs'[j] = outboundMsgs[k]
      /\ \A k \in DOMAIN outboundMsgs \ {i} :
           \E j \in DOMAIN outboundMsgs' : outboundMsgs'[j] = outboundMsgs[k]
  BY <1>2, RemoveKeeps DEF TypeOK
<1>5. UniqueIds'
  <2> SUFFICES ASSUME NEW j \in 1..(n - 1), NEW k \in 1..(n - 1), j < k
               PROVE  outboundMsgs'[j].id # outboundMsgs'[k].id
    BY <1>1, <1>3 DEF UniqueIds
  <2> DEFINE at(l) == IF l < i THEN l ELSE l + 1
  <2>1. at(j) \in DOMAIN outboundMsgs /\ at(k) \in DOMAIN outboundMsgs /\ at(j) # at(k)
    BY <1>1
  <2>2. outboundMsgs'[j] = outboundMsgs[at(j)] /\ outboundMsgs'[k] = outboundMsgs[at(k)]
    BY <1>3
  <2> HIDE DEF at
  <2> QED BY <2>1, <2>2 DEF ListInv, UniqueIds
<1>6. WindowKept'
  BY <1>1, <1>3 DEF ListInv, WindowKept
<1>7. MessageShape'
  BY <1>4 DEF ListInv, MessageShape
<1>8. StoreMirrorsList'
  <2> SUFFICES ASSUME Persistent
               PROVE  /\ sent' = {Record(outboundMsgs'[j]) : j \in DOMAIN outboundMsgs'}
                      /\ rel' = {outboundMsgs'[j].id : j \in {k \in DOMAIN outboundMsgs' :
                                                 outboundMsgs'[k].next = "PUBCOMP"}}
    BY DEF StoreMirrorsList
  <2>1. /\ sent = {Record(outboundMsgs[j]) : j \in DOMAIN outboundMsgs}
        /\ rel = {outboundMsgs[j].id : j \in {k \in DOMAIN outboundMsgs :
                                                 outboundMsgs[k].next = "PUBCOMP"}}
    BY DEF ListInv, StoreMirrorsList
  <2>2. \A k \in DOMAIN outboundMsgs : outboundMsgs[k].id = m.id <=> k = i
    BY DEF ListInv, UniqueIds
  <2>3. \A k \in DOMAIN outboundMsgs : Record(outboundMsgs[k]).id = outboundMsgs[k].id
    BY DEF Record
  <2>4. sent' = {Record(outboundMsgs[k]) : k \in DOMAIN outboundMsgs \ {i}}
    BY <1>2, <2>1, <2>2, <2>3
  <2>5. sent' = {Record(outboundMsgs'[j]) : j \in DOMAIN outboundMsgs'}
    BY <1>4, <2>4
  <2>6. rel' = {outboundMsgs[k].id : k \in {l \in DOMAIN outboundMsgs \ {i} :
                                              outboundMsgs[l].next = "PUBCOMP"}}
    <3>1. m.qos # 2 => m.next # "PUBCOMP"
      <4>1. m.qos \in 1..2
        BY <1>1 DEF Message
      <4> QED BY <4>1 DEF ListInv, MessageShape
    <3>2. rel' = rel \ {m.id}
      BY <1>2, <2>1, <2>2, <3>1
    <3> QED BY <2>1, <2>2, <3>2
  <2>7. rel' = {outboundMsgs'[j].id : j \in {k \in DOMAIN outboundMsgs' :
                                                 outboundMsgs'[k].next = "PUBCOMP"}}
    BY <1>4, <2>6
  <2> QED BY <2>5, <2>7
<1>9. NoStoreUnused'
  BY <1>2 DEF ListInv, NoStoreUnused
<1> QED BY <1>5, <1>6, <1>7, <1>8, <1>9 DEF ListInv

\* A message whose PUBREC came waits for PUBCOMP, and its PUBREL is stored.
LEMMA AdvanceKeepsList ==
  ASSUME TypeOK, ListInv, NEW i \in DOMAIN outboundMsgs, outboundMsgs[i].qos = 2,
         outboundMsgs' = [outboundMsgs EXCEPT ![i].next = "PUBCOMP"],
         rel' = PutRel(outboundMsgs[i].id), sent' = sent
  PROVE  ListInv'
<1> DEFINE n == Len(outboundMsgs)
<1>1. /\ n \in Nat /\ DOMAIN outboundMsgs = 1..n /\ outboundMsgs \in [1..n -> Message]
      /\ outboundMsgs[i] \in Message
  BY LenProperties DEF TypeOK
<1>2. /\ DOMAIN outboundMsgs' = DOMAIN outboundMsgs
      /\ \A j \in DOMAIN outboundMsgs :
           /\ outboundMsgs'[j].id = outboundMsgs[j].id
           /\ outboundMsgs'[j].qos = outboundMsgs[j].qos
           /\ outboundMsgs'[j].pub = outboundMsgs[j].pub
           /\ outboundMsgs'[j].next = IF j = i THEN "PUBCOMP" ELSE outboundMsgs[j].next
  BY <1>1 DEF Message
<1>3. Len(outboundMsgs') = n
  <2>1. outboundMsgs' \in Seq(Message)
    BY NextMessageType
  <2> QED BY <1>1, <1>2, <2>1, LenProperties
<1>4. UniqueIds'
  BY <1>2 DEF ListInv, UniqueIds
<1>5. WindowKept'
  BY <1>3 DEF ListInv, WindowKept
<1>6. MessageShape'
  BY <1>2 DEF ListInv, MessageShape
<1>7. StoreMirrorsList'
  <2>1. \A j \in DOMAIN outboundMsgs : Record(outboundMsgs'[j]) = Record(outboundMsgs[j])
    BY <1>2 DEF Record
  <2> QED BY <1>2, <2>1 DEF ListInv, StoreMirrorsList, PutRel
<1>8. NoStoreUnused'
  BY DEF ListInv, NoStoreUnused, PutRel
<1> QED BY <1>4, <1>5, <1>6, <1>7, <1>8 DEF ListInv

\* Storing a resent packet again replaces a record by itself.
LEMMA PutAgainChangesNothing ==
  ASSUME TypeOK, ListInv, NEW M \in SUBSET {outboundMsgs[i] : i \in DOMAIN outboundMsgs},
         PutAgain(M)
  PROVE  sent' = sent /\ rel' = rel
<1>1. CASE ~Persistent
  BY <1>1 DEF PutAgain
<1>2. CASE Persistent
  <2>1. /\ sent = {Record(outboundMsgs[j]) : j \in DOMAIN outboundMsgs}
        /\ rel = {outboundMsgs[j].id : j \in {k \in DOMAIN outboundMsgs :
                                                 outboundMsgs[k].next = "PUBCOMP"}}
    BY <1>2 DEF ListInv, StoreMirrorsList
  <2>2. \A j, k \in DOMAIN outboundMsgs :
          Record(outboundMsgs[j]).id = outboundMsgs[k].id => j = k
    BY DEF ListInv, UniqueIds, Record
  <2>3. rel' = rel
    BY <1>2, <2>1 DEF PutAgain
  <2>4. sent' = sent
    <3>1. sent' = {r \in sent : \A m \in M : m.next # "PUBCOMP" => r.id # m.id}
                    \cup {Record(m) : m \in {k \in M : k.next # "PUBCOMP"}}
      BY <1>2 DEF PutAgain
    <3>2. ASSUME NEW r \in sent, ~(\A m \in M : m.next # "PUBCOMP" => r.id # m.id)
          PROVE  r \in {Record(m) : m \in {k \in M : k.next # "PUBCOMP"}}
      <4>1. PICK j \in DOMAIN outboundMsgs : r = Record(outboundMsgs[j])
        BY <2>1
      <4>2. PICK k \in DOMAIN outboundMsgs :
              /\ outboundMsgs[k] \in M /\ outboundMsgs[k].next # "PUBCOMP"
              /\ r.id = outboundMsgs[k].id
        BY <3>2
      <4> QED BY <2>2, <4>1, <4>2
    <3>3. \A m \in M : Record(m) \in sent
      BY <2>1
    <3> QED BY <3>1, <3>2, <3>3
  <2> QED BY <2>3, <2>4
<1> QED BY <1>1, <1>2, PersistentAssumption

\* A restart makes the list again out of the store: as many messages, each
\* once, each as far on as it was.
LEMMA RestartKeepsList ==
  ASSUME TypeOK, ListInv, crash
  PROVE  ListInv'
<1>1. PICK n \in 0..MaxMsgId : \E t \in [1..n -> sent] :
        /\ insertInOrder(t)
        /\ \E u \in 1..(n + 1) :
             /\ IF n = 0 THEN u = 1 ELSE wrapMsgID(t, u)
             /\ outboundMsgs' = [i \in DOMAIN t |-> RestoredMessage(Rotate(t, u)[i])]
  BY DEF crash
<1>2. PICK s \in [1..n -> sent] :
        /\ insertInOrder(s)
        /\ \E u \in 1..(n + 1) :
             /\ IF n = 0 THEN u = 1 ELSE wrapMsgID(s, u)
             /\ outboundMsgs' = [i \in DOMAIN s |-> RestoredMessage(Rotate(s, u)[i])]
  BY <1>1
<1>3. PICK w \in 1..(n + 1) :
        /\ IF n = 0 THEN w = 1 ELSE wrapMsgID(s, w)
        /\ outboundMsgs' = [i \in DOMAIN s |-> RestoredMessage(Rotate(s, w)[i])]
  BY <1>2
<1>4. /\ rel' = {id \in rel : \E r \in sent : r.id = id}
      /\ sent' = sent
  BY DEF crash
<1>5. /\ n \in Nat /\ Len(outboundMsgs') = n /\ DOMAIN outboundMsgs' = 1..n
      /\ (n = 0 => w = 1) /\ (n > 0 => w \in 1..n)
  BY <1>3, RestoreType
<1>6. /\ Rotate(s, w) \in [1..n -> sent]
      /\ \A i \in 1..n : \E j \in 1..n : Rotate(s, w)[j] = s[i]
      /\ (\A i, j \in 1..n : i # j => s[i] # s[j])
            => \A i, j \in 1..n : i # j => Rotate(s, w)[i] # Rotate(s, w)[j]
  <2>1. s \in Seq(sent) /\ n = Len(s) /\ w \in Nat /\ (Len(s) = 0 \/ w \in 1..Len(s))
    BY <1>5, FunctionIsSeq
  <2>2. Rotate(s, w) \in [1..n -> sent]
    BY <1>5, RotateType
  <2>3. /\ \A i \in 1..Len(s) : \E j \in 1..Len(s) : Rotate(s, w)[j] = s[i]
        /\ (\A i, j \in 1..Len(s) : i # j => s[i] # s[j])
              => \A i, j \in 1..Len(s) : i # j => Rotate(s, w)[i] # Rotate(s, w)[j]
    BY <2>1, RotatePermutes
  <2> QED BY <2>1, <2>2, <2>3
<1> DEFINE t == Rotate(s, w)
<1>7. \A i \in 1..n : outboundMsgs'[i] = RestoredMessage(t[i])
  BY <1>3, <1>5
<1> HIDE DEF t
<1>8. /\ \A i, j \in 1..n : i < j => s[i].id < s[j].id
      /\ \A r \in sent : \E i \in 1..n : s[i] = r
      /\ \A i \in 1..n : s[i].id \in Int
  BY <1>2 DEF insertInOrder, TypeOK, Stored, MsgIds
<1>9. \A i, j \in 1..n : i # j => s[i].id # s[j].id
  BY <1>5, <1>8
<1>10. \A r : /\ RestoredMessage(r).id = r.id /\ RestoredMessage(r).qos = r.qos
               /\ RestoredMessage(r).pub = r.pub
               /\ RestoredMessage(r).next = IF r.id \in rel THEN "PUBCOMP" ELSE FirstReply(r.qos)
  BY DEF RestoredMessage
<1>11. UniqueIds'
  <2> SUFFICES ASSUME NEW i \in 1..n, NEW j \in 1..n, i # j
               PROVE  outboundMsgs'[i].id # outboundMsgs'[j].id
    BY <1>5 DEF UniqueIds
  <2>1. PICK k \in 1..n : s[k] = t[i]
    BY <1>6, <1>8 DEF t
  <2>2. PICK l \in 1..n : s[l] = t[j]
    BY <1>6, <1>8 DEF t
  <2>3. t[i] # t[j]
    BY <1>6, <1>9 DEF t
  <2>4. outboundMsgs'[i].id = t[i].id /\ outboundMsgs'[j].id = t[j].id
    BY <1>7, <1>10
  <2> QED BY <1>9, <2>1, <2>2, <2>3, <2>4
<1>12. CASE ~Persistent
  <2>1. n = 0
    BY <1>5, <1>2, <1>12 DEF ListInv, NoStoreUnused
  <2>2. WindowKept' /\ MessageShape'
    BY <1>5, <2>1 DEF WindowKept, MessageShape
  <2>3. NoStoreUnused' /\ StoreMirrorsList'
    BY <1>4, <1>12 DEF ListInv, NoStoreUnused, StoreMirrorsList
  <2> QED BY <1>11, <2>2, <2>3 DEF ListInv
<1>13. CASE Persistent
  <2>1. /\ sent = {Record(outboundMsgs[j]) : j \in DOMAIN outboundMsgs}
        /\ rel = {outboundMsgs[j].id : j \in {k \in DOMAIN outboundMsgs :
                                                 outboundMsgs[k].next = "PUBCOMP"}}
    BY <1>13 DEF ListInv, StoreMirrorsList
  <2>2. Len(outboundMsgs) \in Nat /\ DOMAIN outboundMsgs = 1..Len(outboundMsgs)
    BY LenProperties DEF TypeOK
  <2>3. WindowKept'
    <3> DEFINE f == [i \in 1..n |-> CHOOSE j \in DOMAIN outboundMsgs :
                                       Record(outboundMsgs[j]) = s[i]]
    <3>1. \A i \in 1..n : \E j \in DOMAIN outboundMsgs : Record(outboundMsgs[j]) = s[i]
      BY <1>2, <2>1
    <3>2. \A i \in 1..n : f[i] \in 1..Len(outboundMsgs) /\ Record(outboundMsgs[f[i]]) = s[i]
      BY <2>2, <3>1
    <3>3. f \in [1..n -> 1..Len(outboundMsgs)]
      BY <3>2
    <3> HIDE DEF f
    <3>4. \A i, j \in 1..n : i # j => f[i] # f[j]
      BY <1>9, <3>2
    <3>5. /\ IsFiniteSet(1..n) /\ Cardinality(1..n) = n
          /\ IsFiniteSet(1..Len(outboundMsgs))
          /\ Cardinality(1..Len(outboundMsgs)) = Len(outboundMsgs)
      <4>1. ASSUME NEW k \in Nat
            PROVE  IsFiniteSet(1..k) /\ Cardinality(1..k) = k
        BY FS_Interval
      <4> QED BY <1>5, <2>2, <4>1
    <3>6. ~(Cardinality(1..Len(outboundMsgs)) < Cardinality(1..n))
      BY <3>3, <3>4, <3>5, FS_PigeonHole
    <3> QED BY <1>5, <2>2, <3>5, <3>6 DEF ListInv, WindowKept
  <2>4. \A i \in 1..n : t[i] \in sent
    BY <1>6 DEF t
  <2>5. MessageShape'
    <3> SUFFICES ASSUME NEW i \in 1..n
                 PROVE  outboundMsgs'[i].next \in IF outboundMsgs'[i].qos = 1
                                                    THEN {"PUBACK"} ELSE {"PUBREC", "PUBCOMP"}
      BY <1>5 DEF MessageShape
    <3>1. PICK k \in DOMAIN outboundMsgs : t[i] = Record(outboundMsgs[k])
      BY <2>1, <2>4
    <3>2. t[i].id = outboundMsgs[k].id /\ t[i].qos = outboundMsgs[k].qos
      BY <3>1 DEF Record
    <3>3. t[i].id \in rel => outboundMsgs[k].next = "PUBCOMP"
      BY <2>1, <3>2 DEF ListInv, UniqueIds
    <3>4. outboundMsgs[k].next = "PUBCOMP" => outboundMsgs[k].qos # 1
      BY DEF ListInv, MessageShape
    <3> QED BY <1>7, <1>10, <3>2, <3>3, <3>4 DEF FirstReply
  <2>6. StoreMirrorsList'
    <3>1. \A i \in 1..n : Record(outboundMsgs'[i]) = t[i]
      <4>1. \A r \in Stored : [id |-> r.id, qos |-> r.qos, pub |-> r.pub] = r
        BY DEF Stored
      <4>2. \A i \in 1..n : t[i] \in Stored
        BY <2>4 DEF TypeOK
      <4> QED BY <1>7, <1>10, <4>1, <4>2 DEF Record
    <3>2. \A r \in sent : \E i \in 1..n : t[i] = r
      BY <1>6, <1>8 DEF t
    <3>3. sent' = {Record(outboundMsgs'[i]) : i \in DOMAIN outboundMsgs'}
      <4>1. \A i \in 1..n : Record(outboundMsgs'[i]) \in sent
        BY <2>4, <3>1
      <4>2. ASSUME NEW r \in sent
            PROVE  \E i \in 1..n : Record(outboundMsgs'[i]) = r
        <5>1. PICK i \in 1..n : t[i] = r
          BY <3>2
        <5> QED BY <3>1, <5>1
      <4> QED BY <1>4, <1>5, <4>1, <4>2
    <3>4. \A i \in 1..n : /\ outboundMsgs'[i].id = t[i].id
                          /\ outboundMsgs'[i].next = "PUBCOMP" <=> t[i].id \in rel
      BY <1>7, <1>10 DEF FirstReply
    <3>5. rel' = {outboundMsgs'[i].id : i \in {j \in DOMAIN outboundMsgs' :
                                                 outboundMsgs'[j].next = "PUBCOMP"}}
      <4>1. ASSUME NEW id \in rel
            PROVE  \E r \in sent : r.id = id
        <5>1. PICK k \in DOMAIN outboundMsgs : outboundMsgs[k].id = id
          BY <2>1
        <5>2. Record(outboundMsgs[k]) \in sent /\ Record(outboundMsgs[k]).id = id
          BY <2>1, <5>1 DEF Record
        <5> QED BY <5>2
      <4>2. rel' = rel
        BY <1>4, <4>1
      <4>3. ASSUME NEW id \in rel
            PROVE  \E i \in 1..n : outboundMsgs'[i].id = id /\ outboundMsgs'[i].next = "PUBCOMP"
        BY <3>2, <3>4, <4>1
      <4>4. \A i \in 1..n : outboundMsgs'[i].next = "PUBCOMP" => outboundMsgs'[i].id \in rel
        BY <3>4
      <4> QED BY <1>5, <4>2, <4>3, <4>4
    <3> QED BY <3>3, <3>5 DEF StoreMirrorsList
  <2>7. NoStoreUnused'
    BY <1>13 DEF NoStoreUnused
  <2> QED BY <1>11, <2>3, <2>5, <2>6, <2>7 DEF ListInv
<1> QED BY <1>12, <1>13, PersistentAssumption

\* Every step keeps ListInv: each handler is one of the effects above.
LEMMA ListStep ==
  ASSUME TypeOK, ListInv, [Next]_vars
  PROVE  ListInv'
<1>1. ASSUME cleanSession
      PROVE  ListInv'
  BY <1>1, DroppedKeepsList DEF cleanSession, ListDropped
<1>2. ASSUME closeSession
      PROVE  ListInv'
  BY <1>1, <1>2, UnchangedKeepsList DEF closeSession, session, ListUnchanged
<1>3. CASE publishQoS0
  BY <1>3, UnchangedKeepsList DEF publishQoS0, session, ListUnchanged
<1>4. ASSUME NEW qos \in 1..2, publish(qos)
      PROVE  ListInv'
  <2>1. PICK id \in MsgIds : assignMsgId(id) /\ startPublish(id, qos)
    BY <1>4 DEF publish
  <2> QED BY <1>4, <2>1, PublishKeepsList DEF publish, MayPublish, assignMsgId
<1>5. ASSUME NEW qos \in 1..2, publishFails(qos)
      PROVE  ListInv'
  <2>1. PICK id \in MsgIds :
          /\ assignMsgId(id)
          /\ IF cleansession THEN ListDropped ELSE startPublish(id, qos)
    BY <1>5 DEF publishFails, ListDropped
  <2>2. Len(outboundMsgs) < MaxInflight
    BY <1>5 DEF publishFails, MayPublish
  <2>3. CASE cleansession
    BY <2>1, <2>3, DroppedKeepsList
  <2>4. CASE ~cleansession
    <3>1. ~HasId(outboundMsgs, id) /\ startPublish(id, qos)
      BY <2>1, <2>4 DEF assignMsgId
    <3> QED BY <2>2, <3>1, PublishKeepsList
  <2> QED BY <2>3, <2>4
<1>6. CASE subscribe
  BY <1>6, UnchangedKeepsList DEF subscribe, ListUnchanged
<1>7. CASE handlePubacks
  <2>1. Ignore \/ \E i \in DOMAIN outboundMsgs : Complete(i)
    BY <1>7 DEF handlePubacks
  <2> QED BY <2>1, UnchangedKeepsList, CompleteKeepsList DEF Ignore, ListUnchanged
<1>8. CASE handlePubcomps
  <2>1. Ignore \/ \E i \in DOMAIN outboundMsgs : Complete(i)
    BY <1>8 DEF handlePubcomps
  <2> QED BY <2>1, UnchangedKeepsList, CompleteKeepsList DEF Ignore, ListUnchanged
<1>9. CASE handlePubrecs
  <2>1. sent' = sent
    BY <1>9 DEF handlePubrecs
  <2>2. \/ UNCHANGED <<outboundMsgs, rel, c2b>>
        \/ \E i \in DOMAIN outboundMsgs :
             /\ outboundMsgs[i].qos = 2
             /\ outboundMsgs' = [outboundMsgs EXCEPT ![i].next = "PUBCOMP"]
             /\ rel' = PutRel(outboundMsgs[i].id)
    BY <1>9 DEF handlePubrecs, Matches
  <2> QED BY <2>1, <2>2, UnchangedKeepsList, AdvanceKeepsList DEF ListUnchanged
<1>10. CASE retries
  <2>1. PICK i \in DOMAIN outboundMsgs : retry(i)
    BY <1>10 DEF retries
  <2>2. PutAgain({outboundMsgs[i]}) /\ outboundMsgs' = outboundMsgs
    BY <2>1 DEF retry
  <2>3. sent' = sent /\ rel' = rel
    BY <2>2, PutAgainChangesNothing
  <2> QED BY <2>2, <2>3, UnchangedKeepsList DEF ListUnchanged
<1>11. ASSUME NEW cs \in CleanSessions, connect(cs)
       PROVE  ListInv'
  <2>1. CASE cs
    BY <1>1, <1>11, <2>1 DEF connect
  <2>2. CASE ~cs
    <3>1. PICK n \in ResentOnConnect(outboundMsgs) : PutAgain({outboundMsgs[i] : i \in 1..n})
      BY <1>11, <2>2 DEF connect
    <3>2. Len(outboundMsgs) \in Nat /\ DOMAIN outboundMsgs = 1..Len(outboundMsgs)
      BY LenProperties DEF TypeOK
    <3>3. 1..n \subseteq DOMAIN outboundMsgs
      BY <3>2 DEF ResentOnConnect
    <3>4. {outboundMsgs[i] : i \in 1..n} \in SUBSET {outboundMsgs[i] : i \in DOMAIN outboundMsgs}
      BY <3>3
    <3>5. sent' = sent /\ rel' = rel
      BY <3>1, <3>4, PutAgainChangesNothing
    <3>6. outboundMsgs' = outboundMsgs
      BY <1>11, <2>2 DEF connect
    <3> QED BY <3>5, <3>6, UnchangedKeepsList DEF ListUnchanged
  <2> QED BY <2>1, <2>2
<1>12. ASSUME NEW cs \in CleanSessions, NEW stage, connectFails(cs, stage)
       PROVE  ListInv'
  BY <1>1, <1>12, UnchangedKeepsList DEF connectFails, session, ListUnchanged
<1>13. CASE disconnect
  BY <1>2, <1>13 DEF disconnect
<1>14. CASE disconnect_internal
  BY <1>2, <1>14 DEF disconnect_internal
<1>15. CASE protocolCloseSession
  BY <1>15, UnchangedKeepsList DEF protocolCloseSession, session, ListUnchanged
<1>16. CASE crash
  BY <1>16, RestartKeepsList
<1>17. CASE linkBreaks
  BY <1>17, UnchangedKeepsList DEF linkBreaks, session, ListUnchanged
<1>18. CASE brokerPublish
  BY <1>18, UnchangedKeepsList DEF brokerPublish, session, ListUnchanged
<1>19. CASE brokerPubrel
  BY <1>19, UnchangedKeepsList DEF brokerPubrel, session, ListUnchanged
<1>20. CASE UNCHANGED vars
  BY <1>20, UnchangedKeepsList DEF vars, session, ListUnchanged
<1> QED
  BY <1>3, <1>4, <1>5, <1>6, <1>7, <1>8, <1>9, <1>10, <1>11, <1>12, <1>13, <1>14,
     <1>15, <1>16, <1>17, <1>18, <1>19, <1>20 DEF Next, receive, brokerStep

-----------------------------------------------------------------------------
(* The list and what became of the publications *)

\* The inductive form of ListHoldsInflight: a message in flight has the id and
\* the quality of service its publication was accepted with.
HeldInv ==
  /\ \A k \in DOMAIN ledger :
       ledger[k].fate = "inflight" => \E i \in DOMAIN outboundMsgs : outboundMsgs[i].pub = k
  /\ \A i \in DOMAIN outboundMsgs :
       /\ outboundMsgs[i].pub \in DOMAIN ledger
       /\ ledger[outboundMsgs[i].pub].fate = "inflight"
       /\ ledger[outboundMsgs[i].pub].id = outboundMsgs[i].id
       /\ ledger[outboundMsgs[i].pub].qos = outboundMsgs[i].qos

LEMMA SettleEffect ==
  ASSUME NEW lg \in Seq(Entry), NEW P, NEW fate \in Fates
  PROVE  /\ DOMAIN Settle(lg, P, fate) = DOMAIN lg
         /\ \A k \in DOMAIN lg :
              /\ Settle(lg, P, fate)[k].id = lg[k].id
              /\ Settle(lg, P, fate)[k].qos = lg[k].qos
              /\ Settle(lg, P, fate)[k].fate =
                   IF k \in P /\ lg[k].fate = "inflight" THEN fate ELSE lg[k].fate
<1>1. DOMAIN Settle(lg, P, fate) = DOMAIN lg
  BY DEF Settle
<1>2. ASSUME NEW k \in DOMAIN lg
      PROVE  /\ Settle(lg, P, fate)[k].id = lg[k].id
             /\ Settle(lg, P, fate)[k].qos = lg[k].qos
             /\ Settle(lg, P, fate)[k].fate =
                  IF k \in P /\ lg[k].fate = "inflight" THEN fate ELSE lg[k].fate
  <2>1. lg[k] \in Entry
    BY ElementOfSeq
  <2>2. Settle(lg, P, fate)[k] = IF k \in P /\ lg[k].fate = "inflight"
                                   THEN [lg[k] EXCEPT !.fate = fate] ELSE lg[k]
    BY DEF Settle
  <2> QED BY <2>1, <2>2 DEF Entry
<1> QED BY <1>1, <1>2

\* Messages keep their place, and publications what became of them; a new one
\* is not in flight.
LEMMA HeldKept ==
  ASSUME HeldInv,
         DOMAIN outboundMsgs' = DOMAIN outboundMsgs,
         \A i \in DOMAIN outboundMsgs : /\ outboundMsgs'[i].pub = outboundMsgs[i].pub
                                        /\ outboundMsgs'[i].id = outboundMsgs[i].id
                                        /\ outboundMsgs'[i].qos = outboundMsgs[i].qos,
         \A k \in DOMAIN ledger : /\ k \in DOMAIN ledger'
                                  /\ ledger'[k].fate = ledger[k].fate
                                  /\ ledger'[k].id = ledger[k].id /\ ledger'[k].qos = ledger[k].qos,
         \A k \in DOMAIN ledger' : k \in DOMAIN ledger \/ ledger'[k].fate # "inflight"
  PROVE  HeldInv'
<1>1. ASSUME NEW k \in DOMAIN ledger', ledger'[k].fate = "inflight"
      PROVE  \E i \in DOMAIN outboundMsgs' : outboundMsgs'[i].pub = k
  <2>1. k \in DOMAIN ledger /\ ledger[k].fate = "inflight"
    BY <1>1
  <2>2. PICK i \in DOMAIN outboundMsgs : outboundMsgs[i].pub = k
    BY <2>1 DEF HeldInv
  <2> QED BY <2>2
<1>2. ASSUME NEW i \in DOMAIN outboundMsgs'
      PROVE  /\ outboundMsgs'[i].pub \in DOMAIN ledger'
             /\ ledger'[outboundMsgs'[i].pub].fate = "inflight"
             /\ ledger'[outboundMsgs'[i].pub].id = outboundMsgs'[i].id
             /\ ledger'[outboundMsgs'[i].pub].qos = outboundMsgs'[i].qos
  <2>1. i \in DOMAIN outboundMsgs
    OBVIOUS
  <2>2. /\ outboundMsgs[i].pub \in DOMAIN ledger
        /\ ledger[outboundMsgs[i].pub].fate = "inflight"
        /\ ledger[outboundMsgs[i].pub].id = outboundMsgs[i].id
        /\ ledger[outboundMsgs[i].pub].qos = outboundMsgs[i].qos
    BY <2>1 DEF HeldInv
  <2> QED BY <2>1, <2>2
<1> QED BY <1>1, <1>2 DEF HeldInv

LEMMA HeldUnchanged ==
  ASSUME HeldInv, UNCHANGED <<outboundMsgs, ledger>>
  PROVE  HeldInv'
BY DEF HeldInv

\* An entry is added to the history.
LEMMA AcceptEffect ==
  ASSUME TypeOK, NEW id, NEW qos, NEW fate
  PROVE  /\ DOMAIN Accept(id, qos, fate) = DOMAIN ledger \cup {Len(ledger) + 1}
         /\ \A k \in DOMAIN ledger : Accept(id, qos, fate)[k] = ledger[k] /\ k # Len(ledger) + 1
         /\ Accept(id, qos, fate)[Len(ledger) + 1] = [id |-> id, qos |-> qos, fate |-> fate, got |-> 0]
<1>1. ledger \in Seq(Entry) /\ Len(ledger) \in Nat /\ DOMAIN ledger = 1..Len(ledger)
  BY LenProperties DEF TypeOK
<1> QED BY <1>1 DEF Accept

LEMMA PublishHeld ==
  ASSUME TypeOK, HeldInv, NEW id \in MsgIds, NEW qos \in 1..2, startPublish(id, qos)
  PROVE  HeldInv'
<1> DEFINE p == Len(ledger) + 1
           m == NewMessage(id, qos, p)
<1>1. outboundMsgs' = Append(outboundMsgs, m) /\ ledger' = Accept(id, qos, "inflight")
  BY DEF startPublish
<1>2. m.id = id /\ m.qos = qos /\ m.pub = p
  BY DEF NewMessage
<1> HIDE DEF m
<1>3. /\ DOMAIN ledger' = DOMAIN ledger \cup {p}
      /\ \A k \in DOMAIN ledger : ledger'[k] = ledger[k] /\ k # p
      /\ ledger'[p].id = id /\ ledger'[p].qos = qos /\ ledger'[p].fate = "inflight"
  <2>1. /\ DOMAIN Accept(id, qos, "inflight") = DOMAIN ledger \cup {p}
        /\ \A k \in DOMAIN ledger : Accept(id, qos, "inflight")[k] = ledger[k] /\ k # p
        /\ Accept(id, qos, "inflight")[p] = [id |-> id, qos |-> qos, fate |-> "inflight", got |-> 0]
    BY AcceptEffect
  <2> QED BY <1>1, <2>1
<1> HIDE DEF p
<1> DEFINE n == Len(outboundMsgs) + 1
<1>4. /\ DOMAIN outboundMsgs' = DOMAIN outboundMsgs \cup {n}
      /\ \A i \in DOMAIN outboundMsgs : outboundMsgs'[i] = outboundMsgs[i]
      /\ outboundMsgs'[n] = m
  <2>1. outboundMsgs \in Seq(Message) /\ Len(outboundMsgs) \in Nat
        /\ DOMAIN outboundMsgs = 1..Len(outboundMsgs)
    BY LenProperties DEF TypeOK
  <2> QED BY <1>1, <2>1
<1> HIDE DEF n
<1>5. ASSUME NEW k \in DOMAIN ledger', ledger'[k].fate = "inflight"
      PROVE  \E i \in DOMAIN outboundMsgs' : outboundMsgs'[i].pub = k
  BY <1>2, <1>3, <1>4, <1>5 DEF HeldInv
<1>6. ASSUME NEW i \in DOMAIN outboundMsgs'
      PROVE  /\ outboundMsgs'[i].pub \in DOMAIN ledger'
             /\ ledger'[outboundMsgs'[i].pub].fate = "inflight"
             /\ ledger'[outboundMsgs'[i].pub].id = outboundMsgs'[i].id
             /\ ledger'[outboundMsgs'[i].pub].qos = outboundMsgs'[i].qos
  <2>1. CASE i = n
    BY <1>2, <1>3, <1>4, <2>1
  <2>2. CASE i \in DOMAIN outboundMsgs
    BY <1>3, <1>4, <2>2 DEF HeldInv
  <2> QED BY <1>4, <2>1, <2>2
<1> QED BY <1>5, <1>6 DEF HeldInv

\* The message that leaves the list is the one whose publication is completed.
LEMMA CompleteHeld ==
  ASSUME TypeOK, ListInv, HeldInv, NEW i \in DOMAIN outboundMsgs, Complete(i)
  PROVE  HeldInv'
<1> DEFINE p == outboundMsgs[i].pub
<1>1. /\ \A j \in DOMAIN outboundMsgs' : \E k \in DOMAIN outboundMsgs \ {i} : outboundMsgs'[j] = outboundMsgs[k]
      /\ \A k \in DOMAIN outboundMsgs \ {i} : \E j \in DOMAIN outboundMsgs' : outboundMsgs'[j] = outboundMsgs[k]
  BY RemoveKeeps DEF TypeOK, Complete
<1>2. /\ DOMAIN ledger' = DOMAIN ledger
      /\ \A k \in DOMAIN ledger :
           /\ ledger'[k].id = ledger[k].id /\ ledger'[k].qos = ledger[k].qos
           /\ ledger'[k].fate = IF k = p /\ ledger[k].fate = "inflight" THEN "completed" ELSE ledger[k].fate
  <2>1. ledger \in Seq(Entry) /\ "completed" \in Fates /\ ledger' = Settle(ledger, {p}, "completed")
    BY DEF TypeOK, Fates, Complete
  <2> QED BY <2>1, SettleEffect
<1>3. \A k \in DOMAIN outboundMsgs \ {i} : outboundMsgs[k].pub # p
  BY DEF HeldInv, ListInv, UniqueIds
<1>4. ledger[p].fate = "inflight" /\ p \in DOMAIN ledger
  BY DEF HeldInv
<1> HIDE DEF p
<1>5. ASSUME NEW k \in DOMAIN ledger', ledger'[k].fate = "inflight"
      PROVE  \E j \in DOMAIN outboundMsgs' : outboundMsgs'[j].pub = k
  <2>1. k \in DOMAIN ledger /\ k # p /\ ledger[k].fate = "inflight"
    BY <1>2, <1>4, <1>5
  <2>2. PICK j \in DOMAIN outboundMsgs : outboundMsgs[j].pub = k
    BY <2>1 DEF HeldInv
  <2>3. j # i
    BY <2>1, <2>2 DEF p
  <2> QED BY <1>1, <2>2, <2>3
<1>6. ASSUME NEW j \in DOMAIN outboundMsgs'
      PROVE  /\ outboundMsgs'[j].pub \in DOMAIN ledger'
             /\ ledger'[outboundMsgs'[j].pub].fate = "inflight"
             /\ ledger'[outboundMsgs'[j].pub].id = outboundMsgs'[j].id
             /\ ledger'[outboundMsgs'[j].pub].qos = outboundMsgs'[j].qos
  <2>1. PICK k \in DOMAIN outboundMsgs \ {i} : outboundMsgs'[j] = outboundMsgs[k]
    BY <1>1
  <2>2. /\ outboundMsgs[k].pub \in DOMAIN ledger /\ outboundMsgs[k].pub # p
        /\ ledger[outboundMsgs[k].pub].fate = "inflight"
        /\ ledger[outboundMsgs[k].pub].id = outboundMsgs[k].id
        /\ ledger[outboundMsgs[k].pub].qos = outboundMsgs[k].qos
    BY <1>3 DEF HeldInv
  <2> QED BY <1>2, <2>1, <2>2
<1> QED BY <1>5, <1>6 DEF HeldInv

\* Everything is discarded.
LEMMA DroppedHeld ==
  ASSUME NEW lg \in Seq(Entry), NEW P, DOMAIN lg \subseteq P,
         outboundMsgs' = <<>>, ledger' = Settle(lg, P, "dropped")
  PROVE  HeldInv'
<1>1. \A k \in DOMAIN ledger' : ledger'[k].fate # "inflight"
  BY SettleEffect DEF Fates
<1>2. DOMAIN outboundMsgs' = {}
  OBVIOUS
<1> QED BY <1>1, <1>2 DEF HeldInv

\* What a restart finds in the store is what was in flight, unless there is no store.
LEMMA RestartHeld ==
  ASSUME TypeOK, ListInv, HeldInv, crash
  PROVE  HeldInv'
<1>1. /\ sent' = sent
      /\ ledger' = Settle(ledger, {k \in DOMAIN ledger : \A r \in sent : r.pub # k}, "dropped")
  BY DEF crash
<1>2. /\ DOMAIN ledger' = DOMAIN ledger
      /\ \A k \in DOMAIN ledger :
           /\ ledger'[k].id = ledger[k].id /\ ledger'[k].qos = ledger[k].qos
           /\ ledger'[k].fate = IF (\A r \in sent : r.pub # k) /\ ledger[k].fate = "inflight"
                                  THEN "dropped" ELSE ledger[k].fate
  BY <1>1, SettleEffect DEF TypeOK, Fates
<1>3. CASE ~Persistent
  <2>1. sent = {}
    BY <1>3 DEF ListInv, NoStoreUnused
  <2>2. PICK n \in 0..MaxMsgId : \E s \in [1..n -> sent] :
          /\ \E w \in 1..(n + 1) :
               /\ IF n = 0 THEN w = 1 ELSE wrapMsgID(s, w)
               /\ outboundMsgs' = [i \in DOMAIN s |-> RestoredMessage(Rotate(s, w)[i])]
    BY DEF crash
  <2>3. n = 0
    <3>1. PICK s \in [1..n -> sent] : TRUE
      BY <2>2
    <3>2. \A i \in 1..n : s[i] \in sent
      BY <3>1
    <3> QED BY <2>1, <3>2
  <2>4. DOMAIN outboundMsgs' = {}
    BY <2>2, <2>3
  <2> QED BY <1>2, <2>1, <2>4 DEF HeldInv
<1>4. CASE Persistent
  <2>1. /\ sent = {Record(outboundMsgs[j]) : j \in DOMAIN outboundMsgs}
        /\ sent = {Record(outboundMsgs'[j]) : j \in DOMAIN outboundMsgs'}
    <3>1. StoreMirrorsList /\ StoreMirrorsList'
      BY RestartKeepsList DEF ListInv
    <3> QED BY <1>1, <1>4, <3>1 DEF StoreMirrorsList
  <2>2. \A m : Record(m).id = m.id /\ Record(m).qos = m.qos /\ Record(m).pub = m.pub
    BY DEF Record
  <2>3. ASSUME NEW k \in DOMAIN ledger', ledger'[k].fate = "inflight"
        PROVE  \E j \in DOMAIN outboundMsgs' : outboundMsgs'[j].pub = k
    <3>1. PICK r \in sent : r.pub = k
      BY <1>2, <2>3
    <3>2. PICK j \in DOMAIN outboundMsgs' : r = Record(outboundMsgs'[j])
      BY <2>1
    <3> QED BY <2>2, <3>1, <3>2
  <2>4. ASSUME NEW j \in DOMAIN outboundMsgs'
        PROVE  /\ outboundMsgs'[j].pub \in DOMAIN ledger'
               /\ ledger'[outboundMsgs'[j].pub].fate = "inflight"
               /\ ledger'[outboundMsgs'[j].pub].id = outboundMsgs'[j].id
               /\ ledger'[outboundMsgs'[j].pub].qos = outboundMsgs'[j].qos
    <3>1. Record(outboundMsgs'[j]) \in sent
      BY <2>1
    <3>2. PICK k \in DOMAIN outboundMsgs : Record(outboundMsgs'[j]) = Record(outboundMsgs[k])
      BY <2>1, <3>1
    <3>3. /\ outboundMsgs'[j].id = outboundMsgs[k].id /\ outboundMsgs'[j].qos = outboundMsgs[k].qos
          /\ outboundMsgs'[j].pub = outboundMsgs[k].pub
      BY <2>2, <3>2
    <3>4. \E r \in sent : r.pub = outboundMsgs[k].pub
      BY <2>2, <3>1, <3>3
    <3>5. /\ outboundMsgs[k].pub \in DOMAIN ledger
          /\ ledger[outboundMsgs[k].pub].fate = "inflight"
          /\ ledger[outboundMsgs[k].pub].id = outboundMsgs[k].id
          /\ ledger[outboundMsgs[k].pub].qos = outboundMsgs[k].qos
      BY DEF HeldInv
    <3> QED BY <1>2, <3>3, <3>4, <3>5
  <2> QED BY <2>3, <2>4 DEF HeldInv
<1> QED BY <1>3, <1>4, PersistentAssumption

LEMMA HeldStep ==
  ASSUME TypeOK, ListInv, HeldInv, [Next]_vars
  PROVE  HeldInv'
<1>t. ledger \in Seq(Entry) /\ outboundMsgs \in Seq(Message)
  BY DEF TypeOK
<1>1. ASSUME cleanSession PROVE HeldInv'
  BY <1>1, <1>t, DroppedHeld DEF cleanSession
<1>2. ASSUME closeSession PROVE HeldInv'
  BY <1>1, <1>2, HeldUnchanged DEF closeSession, session
<1>3. CASE publishQoS0
  <2>1. ledger' = Accept(0, 0, "qos0") /\ outboundMsgs' = outboundMsgs
    BY <1>3 DEF publishQoS0, session
  <2>2. /\ DOMAIN ledger' = DOMAIN ledger \cup {Len(ledger) + 1}
        /\ \A k \in DOMAIN ledger : ledger'[k] = ledger[k]
        /\ ledger'[Len(ledger) + 1].fate = "qos0"
    <3>1. /\ DOMAIN Accept(0, 0, "qos0") = DOMAIN ledger \cup {Len(ledger) + 1}
          /\ \A k \in DOMAIN ledger : Accept(0, 0, "qos0")[k] = ledger[k] /\ k # Len(ledger) + 1
          /\ Accept(0, 0, "qos0")[Len(ledger) + 1] = [id |-> 0, qos |-> 0, fate |-> "qos0", got |-> 0]
      BY AcceptEffect
    <3> QED BY <2>1, <3>1
  <2> QED BY <2>1, <2>2, HeldKept
<1>4. ASSUME NEW qos \in 1..2, publish(qos) PROVE HeldInv'
  <2>1. PICK id \in MsgIds : startPublish(id, qos)
    BY <1>4 DEF publish
  <2> QED BY <2>1, PublishHeld
<1>5. ASSUME NEW qos \in 1..2, publishFails(qos) PROVE HeldInv'
  <2>1. PICK id \in MsgIds :
          IF cleansession
            THEN /\ outboundMsgs' = <<>>
                 /\ ledger' = Settle(Accept(id, qos, "inflight"), 1..(Len(ledger) + 1), "dropped")
            ELSE startPublish(id, qos)
    BY <1>5 DEF publishFails
  <2>2. CASE cleansession
    <3>1. id \in 0..MaxMsgId /\ qos \in 0..2 /\ "inflight" \in Fates
      BY DEF Fates, MsgIds
    <3>2. Accept(id, qos, "inflight") \in Seq(Entry)
      BY <3>1, AcceptType
    <3>3. DOMAIN Accept(id, qos, "inflight") \subseteq 1..(Len(ledger) + 1)
      <4>1. Len(ledger) \in Nat /\ DOMAIN ledger = 1..Len(ledger)
        BY <1>t, LenProperties
      <4>2. DOMAIN Accept(id, qos, "inflight") = DOMAIN ledger \cup {Len(ledger) + 1}
        BY AcceptEffect
      <4> QED BY <4>1, <4>2
    <3> QED BY <2>1, <2>2, <3>2, <3>3, DroppedHeld
  <2>3. CASE ~cleansession
    BY <2>1, <2>3, PublishHeld
  <2> QED BY <2>2, <2>3
<1>6. CASE receive
  <2>1. CASE handlePubacks \/ handlePubcomps
    <3>1. Ignore \/ \E i \in DOMAIN outboundMsgs : Complete(i)
      BY <2>1 DEF handlePubacks, handlePubcomps
    <3> QED BY <3>1, HeldUnchanged, CompleteHeld DEF Ignore
  <2>2. CASE handlePubrecs
    <3>1. \/ outboundMsgs' = outboundMsgs
          \/ \E i \in DOMAIN outboundMsgs : outboundMsgs' = [outboundMsgs EXCEPT ![i].next = "PUBCOMP"]
      BY <2>2 DEF handlePubrecs
    <3>2. ledger' = ledger
      BY <2>2 DEF handlePubrecs
    <3>3. CASE outboundMsgs' = outboundMsgs
      BY <3>2, <3>3, HeldUnchanged
    <3>4. CASE \E i \in DOMAIN outboundMsgs : outboundMsgs' = [outboundMsgs EXCEPT ![i].next = "PUBCOMP"]
      <4>1. PICK i \in DOMAIN outboundMsgs : outboundMsgs' = [outboundMsgs EXCEPT ![i].next = "PUBCOMP"]
        BY <3>4
      <4>2. DOMAIN outboundMsgs' = DOMAIN outboundMsgs
        BY <4>1
      <4>3. ASSUME NEW j \in DOMAIN outboundMsgs
            PROVE  /\ outboundMsgs'[j].pub = outboundMsgs[j].pub
                   /\ outboundMsgs'[j].id = outboundMsgs[j].id
                   /\ outboundMsgs'[j].qos = outboundMsgs[j].qos
        <5>1. outboundMsgs[j] \in Message
          BY <1>t, ElementOfSeq
        <5>2. outboundMsgs'[j] = IF j = i THEN [outboundMsgs[j] EXCEPT !.next = "PUBCOMP"] ELSE outboundMsgs[j]
          BY <4>1
        <5> QED BY <5>1, <5>2 DEF Message
      <4> QED BY <3>2, <4>2, <4>3, HeldKept
    <3> QED BY <3>1, <3>3, <3>4
  <2> QED BY <1>6, <2>1, <2>2 DEF receive
<1>7. ASSUME NEW cs \in CleanSessions, connect(cs) PROVE HeldInv'
  BY <1>1, <1>7, HeldUnchanged DEF connect
<1>8. ASSUME NEW cs \in CleanSessions, NEW stage, connectFails(cs, stage) PROVE HeldInv'
  BY <1>1, <1>8, HeldUnchanged DEF connectFails, session
<1>9. CASE disconnect \/ disconnect_internal
  BY <1>2, <1>9 DEF disconnect, disconnect_internal
<1>10. CASE crash
  BY <1>10, RestartHeld
<1>11. CASE brokerPublish
  <2>1. outboundMsgs' = outboundMsgs /\ (ledger' = ledger \/ \E pub : Deliver(pub))
    BY <1>11 DEF brokerPublish, session
  <2>2. ASSUME NEW pub, Deliver(pub) PROVE HeldInv'
    <3>1. DOMAIN ledger' = DOMAIN ledger
      BY <2>2 DEF Deliver
    <3>2. ASSUME NEW k \in DOMAIN ledger
          PROVE  ledger'[k].fate = ledger[k].fate /\ ledger'[k].id = ledger[k].id /\ ledger'[k].qos = ledger[k].qos
      <4>1. ledger[k] \in Entry
        BY <1>t, ElementOfSeq
      <4>2. ledger'[k] = IF k = pub THEN [ledger[k] EXCEPT !.got = @ + 1] ELSE ledger[k]
        BY <2>2 DEF Deliver
      <4> QED BY <4>1, <4>2 DEF Entry
    <3> QED BY <2>1, <3>1, <3>2, HeldKept
  <2> QED BY <2>1, <2>2, HeldUnchanged
<1>12. CASE subscribe \/ retries \/ protocolCloseSession \/ linkBreaks \/ brokerPubrel \/ UNCHANGED vars
  <2>1. UNCHANGED <<outboundMsgs, ledger>>
    BY <1>12 DEF subscribe, retries, retry, protocolCloseSession, linkBreaks, brokerPubrel, session, vars
  <2> QED BY <2>1, HeldUnchanged
<1> QED BY <1>3, <1>4, <1>5, <1>6, <1>7, <1>8, <1>9, <1>10, <1>11, <1>12 DEF Next, brokerStep

-----------------------------------------------------------------------------
(* The theorems *)

\* SessionInv holds in every behaviour, and with it the three properties it
\* was made for.
THEOREM SessionSafe == Spec => []SessionInv
<1>1. Init => SessionInv
  <2> SUFFICES ASSUME Init PROVE SessionInv
    OBVIOUS
  <2>1. TypeOK
    BY InitTypeOK
  <2>2. DOMAIN outboundMsgs = {} /\ Len(outboundMsgs) = 0 /\ sent = {} /\ rel = {}
    BY DEF Init
  <2> QED BY <2>1, <2>2 DEF SessionInv, ListInv, UniqueIds, WindowKept, MessageShape,
                            StoreMirrorsList, NoStoreUnused
<1>2. SessionInv /\ [Next]_vars => SessionInv'
  BY TypeStep, ListStep DEF SessionInv
<1> QED BY <1>1, <1>2, PTL DEF Spec

\* No two messages in flight ever share an id.
THEOREM IdsStayUnique == Spec => []UniqueIds
<1>1. SessionInv => UniqueIds
  BY DEF SessionInv, ListInv
<1> QED BY <1>1, SessionSafe, PTL

\* The in-flight window is never exceeded, restarts included.
THEOREM WindowStaysKept == Spec => []WindowKept
<1>1. SessionInv => WindowKept
  BY DEF SessionInv, ListInv
<1> QED BY <1>1, SessionSafe, PTL

\* The store holds exactly the list, so a restart restores it.
THEOREM StoreStaysMirror == Spec => []StoreMirrorsList
<1>1. SessionInv => StoreMirrorsList
  BY DEF SessionInv, ListInv
<1> QED BY <1>1, SessionSafe, PTL

\* The list holds exactly the publications that are neither completed nor
\* discarded, each under the token its caller was given; so a token that
\* MQTTClient_waitForCompletion does not find was completed or discarded.
THEOREM InflightHeld == Spec => []ListHoldsInflight
<1>1. Init => HeldInv
  BY DEF Init, HeldInv
<1>2. SessionInv /\ HeldInv /\ [Next]_vars => HeldInv'
  BY HeldStep DEF SessionInv
<1>3. HeldInv => ListHoldsInflight
  BY DEF HeldInv, ListHoldsInflight
<1> QED BY <1>1, <1>2, <1>3, SessionSafe, PTL DEF Spec

-----------------------------------------------------------------------------
(* The refinement of Delivery: a kept session with a persistent store          *)
(* implements it, through any number of losses and restarts and however small  *)
(* the number of ids, as long as no retry overtakes the answer it waits for.   *)

\* A store, no clean sessions, and retries that come after the answers.
KeptSessions == Persistent /\ CleanSessions \subseteq {FALSE}
PatientRetries == RetryInterval = 0 \/ \A b \in Budgets : b["early"] = 0

Msgs == {outboundMsgs[i] : i \in DOMAIN outboundMsgs}
Got(m) == ledger[m.pub].got > 0

\* On the way to the broker: a QoS 0 publication that was not delivered yet, or
\* what its message would be retried with.
OutgoingMatch ==
  \A a \in DOMAIN c2b :
    \/ /\ c2b[a].type = "PUBLISH" /\ c2b[a].id = 0 /\ c2b[a].qos = 0
       /\ c2b[a].pub \in DOMAIN ledger
       /\ ledger[c2b[a].pub].qos = 0 /\ ledger[c2b[a].pub].got = 0
    \/ \E m \in Msgs : c2b[a] = RetryPacket(m)

\* On the way back: the answer that its message waits for.
IncomingMatch ==
  \A b \in DOMAIN b2c : \E m \in Msgs :
    /\ b2c[b] = Ack(m.next, m.id)
    /\ Got(m)
    /\ m.next = "PUBCOMP" => m.id \notin bstored

\* A message has one packet under way, in one direction; QoS 0 ones have id 0.
OnePacketIn(out, in) ==
  /\ \A a, b \in DOMAIN out : a # b /\ out[a].id = out[b].id => out[a].id = 0 /\ out[a].pub # out[b].pub
  /\ \A a, b \in DOMAIN in : a # b => in[a].id # in[b].id
  /\ \A a \in DOMAIN out, b \in DOMAIN in : out[a].id # in[b].id
OnePacket == OnePacketIn(c2b, b2c)

\* The broker holds the ids of QoS 2 messages that it got, until their PUBREL.
BrokerMatches ==
  /\ \A id \in bstored : \E m \in Msgs : m.id = id /\ m.qos = 2 /\ Got(m)
  /\ \A m \in Msgs : /\ m.next = "PUBCOMP" => Got(m)
                     /\ m.next = "PUBREC" /\ Got(m) => m.id \in bstored
  /\ bclean => bstored = {}

LedgerTrue ==
  \A k \in DOMAIN ledger :
    /\ ledger[k].fate # "dropped"
    /\ ledger[k].fate = "completed" => ledger[k].got > 0
    /\ ledger[k].qos = 0 <=> ledger[k].fate = "qos0"

Undisturbed == ~cleansession /\ (RetryInterval = 0 \/ left["early"] = 0)

FlightInv == OutgoingMatch /\ IncomingMatch /\ OnePacket /\ BrokerMatches /\ LedgerTrue /\ Undisturbed

-----------------------------------------------------------------------------
(* Sequences of packets *)

LEMMA AppendFacts ==
  ASSUME NEW S, NEW s \in Seq(S), NEW e
  PROVE  /\ DOMAIN Append(s, e) = DOMAIN s \cup {Len(s) + 1}
         /\ Len(s) + 1 \notin DOMAIN s
         /\ \A a \in DOMAIN s : Append(s, e)[a] = s[a]
         /\ Append(s, e)[Len(s) + 1] = e
<1>1. Len(s) \in Nat /\ DOMAIN s = 1..Len(s)
  BY LenProperties
<1> QED BY <1>1

LEMMA TailFacts ==
  ASSUME NEW S, NEW s \in Seq(S), s # <<>>
  PROVE  /\ 1 \in DOMAIN s /\ Head(s) = s[1] /\ Head(s) \in S
         /\ \A a \in DOMAIN Tail(s) : /\ a \in Nat \ {0} /\ a + 1 \in DOMAIN s
                                     /\ Tail(s)[a] = s[a + 1]
<1>1. Len(s) \in Nat \ {0} /\ DOMAIN s = 1..Len(s)
  BY LenProperties, EmptySeq
<1>2. /\ Head(s) = s[1] /\ Head(s) \in S
      /\ Tail(s) \in Seq(S) /\ Len(Tail(s)) = Len(s) - 1
      /\ \A a \in 1..Len(Tail(s)) : Tail(s)[a] = s[a + 1]
  BY HeadTailProperties
<1>3. DOMAIN Tail(s) = 1..Len(Tail(s))
  BY <1>2, LenProperties
<1> QED BY <1>1, <1>2, <1>3

\* The elements of s are elements of t, at different places.
Among(s, t) ==
  \A a, b \in DOMAIN s : \E x, y \in DOMAIN t : s[a] = t[x] /\ s[b] = t[y] /\ (a # b => x # y)

LEMMA AmongFacts ==
  ASSUME NEW S, NEW t \in Seq(S)
  PROVE  /\ Among(<<>>, t) /\ Among(t, t)
         /\ t # <<>> => Among(Tail(t), t)
         /\ \A n \in 0..Len(t) : Among(Front(t, n), t)
<1>1. Len(t) \in Nat /\ DOMAIN t = 1..Len(t)
  BY LenProperties
<1>2. Among(<<>>, t)
  BY DEF Among
<1>3. Among(t, t)
  BY DEF Among
<1>4. ASSUME t # <<>> PROVE Among(Tail(t), t)
  <2>1. \A a \in DOMAIN Tail(t) : /\ a \in Nat /\ a + 1 \in DOMAIN t
                                   /\ Tail(t)[a] = t[a + 1]
    BY <1>4, TailFacts
  <2>2. ASSUME NEW a \in DOMAIN Tail(t), NEW b \in DOMAIN Tail(t)
        PROVE  \E x, y \in DOMAIN t : Tail(t)[a] = t[x] /\ Tail(t)[b] = t[y] /\ (a # b => x # y)
    <3>1. a # b => a + 1 # b + 1
      BY <2>1
    <3> QED BY <2>1, <3>1
  <2> QED BY <2>2 DEF Among
<1>5. ASSUME NEW n \in 0..Len(t) PROVE Among(Front(t, n), t)
  <2>1. DOMAIN Front(t, n) = 1..n /\ \A a \in 1..n : Front(t, n)[a] = t[a]
    BY <1>1 DEF Front
  <2> QED BY <1>1, <2>1 DEF Among
<1> QED BY <1>2, <1>3, <1>4, <1>5

LEMMA FewerPackets ==
  ASSUME NEW out, NEW in, NEW out1, NEW in1, OnePacketIn(out, in), Among(out1, out), Among(in1, in)
  PROVE  OnePacketIn(out1, in1)
<1>1. ASSUME NEW a \in DOMAIN out1, NEW b \in DOMAIN out1, a # b, out1[a].id = out1[b].id
      PROVE  out1[a].id = 0 /\ out1[a].pub # out1[b].pub
  <2>1. PICK x \in DOMAIN out, y \in DOMAIN out : out1[a] = out[x] /\ out1[b] = out[y] /\ x # y
    BY <1>1 DEF Among
  <2> QED BY <1>1, <2>1 DEF OnePacketIn
<1>2. ASSUME NEW a \in DOMAIN in1, NEW b \in DOMAIN in1, a # b
      PROVE  in1[a].id # in1[b].id
  <2>1. PICK x \in DOMAIN in, y \in DOMAIN in : in1[a] = in[x] /\ in1[b] = in[y] /\ x # y
    BY <1>2 DEF Among
  <2> QED BY <2>1 DEF OnePacketIn
<1>3. ASSUME NEW a \in DOMAIN out1, NEW b \in DOMAIN in1
      PROVE  out1[a].id # in1[b].id
  <2>1. PICK x \in DOMAIN out : out1[a] = out[x]
    BY DEF Among
  <2>2. PICK y \in DOMAIN in : in1[b] = in[y]
    BY DEF Among
  <2> QED BY <2>1, <2>2 DEF OnePacketIn
<1> QED BY <1>1, <1>2, <1>3 DEF OnePacketIn

LEMMA OneMoreOut ==
  ASSUME NEW S, NEW out \in Seq(S), NEW in, NEW e, OnePacketIn(out, in),
         \A a \in DOMAIN out : out[a].id = e.id => e.id = 0 /\ out[a].pub # e.pub,
         \A b \in DOMAIN in : in[b].id # e.id
  PROVE  OnePacketIn(Append(out, e), in)
<1> DEFINE s == Append(out, e)
           n == Len(out) + 1
<1>1. /\ DOMAIN s = DOMAIN out \cup {n} /\ n \notin DOMAIN out
      /\ \A a \in DOMAIN out : s[a] = out[a]
      /\ s[n] = e
  BY AppendFacts
<1> HIDE DEF s, n
<1>2. ASSUME NEW a \in DOMAIN s, NEW b \in DOMAIN s, a # b, s[a].id = s[b].id
      PROVE  s[a].id = 0 /\ s[a].pub # s[b].pub
  BY <1>1, <1>2 DEF OnePacketIn
<1>3. \A a, b \in DOMAIN in : a # b => in[a].id # in[b].id
  BY DEF OnePacketIn
<1>4. ASSUME NEW a \in DOMAIN s, NEW b \in DOMAIN in
      PROVE  s[a].id # in[b].id
  BY <1>1 DEF OnePacketIn
<1>5. OnePacketIn(s, in)
  BY <1>2, <1>3, <1>4 DEF OnePacketIn
<1> QED BY <1>5 DEF s

LEMMA OneMoreIn ==
  ASSUME NEW S, NEW out, NEW in \in Seq(S), NEW e, OnePacketIn(out, in),
         \A a \in DOMAIN out : out[a].id # e.id,
         \A b \in DOMAIN in : in[b].id # e.id
  PROVE  OnePacketIn(out, Append(in, e))
<1> DEFINE s == Append(in, e)
           n == Len(in) + 1
<1>1. /\ DOMAIN s = DOMAIN in \cup {n} /\ n \notin DOMAIN in
      /\ \A a \in DOMAIN in : s[a] = in[a]
      /\ s[n] = e
  BY AppendFacts
<1> HIDE DEF s, n
<1>2. ASSUME NEW a \in DOMAIN s, NEW b \in DOMAIN s, a # b
      PROVE  s[a].id # s[b].id
  BY <1>1, <1>2 DEF OnePacketIn
<1>3. ASSUME NEW a \in DOMAIN out, NEW b \in DOMAIN s
      PROVE  out[a].id # s[b].id
  BY <1>1 DEF OnePacketIn
<1>4. OnePacketIn(out, s)
  BY <1>2, <1>3 DEF OnePacketIn
<1> QED BY <1>4 DEF s

\* The packet read next has nothing in common with the others.
LEMMA FirstOut ==
  ASSUME NEW S, NEW out \in Seq(S), NEW in, OnePacketIn(out, in), out # <<>>
  PROVE  /\ \A a \in DOMAIN Tail(out) : Tail(out)[a].id = Head(out).id =>
              Head(out).id = 0 /\ Tail(out)[a].pub # Head(out).pub
         /\ \A b \in DOMAIN in : in[b].id # Head(out).id
<1>1. 1 \in DOMAIN out /\ Head(out) = out[1]
  BY TailFacts
<1>2. ASSUME NEW a \in DOMAIN Tail(out), Tail(out)[a].id = Head(out).id
      PROVE  Head(out).id = 0 /\ Tail(out)[a].pub # Head(out).pub
  <2>1. a \in Nat \ {0} /\ a + 1 \in DOMAIN out /\ Tail(out)[a] = out[a + 1]
    BY TailFacts
  <2>2. a + 1 # 1
    BY <2>1
  <2> QED BY <1>1, <1>2, <2>1, <2>2 DEF OnePacketIn
<1>3. \A b \in DOMAIN in : in[b].id # Head(out).id
  BY <1>1 DEF OnePacketIn
<1> QED BY <1>2, <1>3

LEMMA FirstIn ==
  ASSUME NEW S, NEW out, NEW in \in Seq(S), OnePacketIn(out, in), in # <<>>
  PROVE  /\ \A b \in DOMAIN Tail(in) : Tail(in)[b].id # Head(in).id
         /\ \A a \in DOMAIN out : out[a].id # Head(in).id
<1>1. 1 \in DOMAIN in /\ Head(in) = in[1]
  BY TailFacts
<1>2. ASSUME NEW b \in DOMAIN Tail(in)
      PROVE  Tail(in)[b].id # Head(in).id
  <2>1. b \in Nat \ {0} /\ b + 1 \in DOMAIN in /\ Tail(in)[b] = in[b + 1]
    BY TailFacts
  <2>2. b + 1 # 1
    BY <2>1
  <2> QED BY <1>1, <2>1, <2>2 DEF OnePacketIn
<1>3. \A a \in DOMAIN out : out[a].id # Head(in).id
  BY <1>1 DEF OnePacketIn
<1> QED BY <1>2, <1>3

-----------------------------------------------------------------------------
(* The messages in flight, as a set *)

LEMMA MsgsFacts ==
  ASSUME TypeOK, ListInv, HeldInv
  PROVE  /\ \A m \in Msgs : /\ m \in Message
                            /\ m.next \in IF m.qos = 1 THEN {"PUBACK"} ELSE {"PUBREC", "PUBCOMP"}
                            /\ m.pub \in DOMAIN ledger
                            /\ ledger[m.pub].fate = "inflight"
                            /\ ledger[m.pub].id = m.id /\ ledger[m.pub].qos = m.qos
         /\ \A m, n \in Msgs : m.id = n.id => m = n
         /\ \A m, n \in Msgs : m.pub = n.pub => m = n
         /\ \A k \in DOMAIN ledger : ledger[k].fate = "inflight" => \E m \in Msgs : m.pub = k
<1>1. ASSUME NEW m \in Msgs
      PROVE  /\ m \in Message
             /\ m.next \in IF m.qos = 1 THEN {"PUBACK"} ELSE {"PUBREC", "PUBCOMP"}
             /\ m.pub \in DOMAIN ledger
             /\ ledger[m.pub].fate = "inflight"
             /\ ledger[m.pub].id = m.id /\ ledger[m.pub].qos = m.qos
  <2>1. PICK i \in DOMAIN outboundMsgs : m = outboundMsgs[i]
    BY DEF Msgs
  <2>2. m \in Message
    BY <2>1, ElementOfSeq DEF TypeOK
  <2>3. m.next \in IF m.qos = 1 THEN {"PUBACK"} ELSE {"PUBREC", "PUBCOMP"}
    BY <2>1 DEF ListInv, MessageShape
  <2>4. /\ m.pub \in DOMAIN ledger
        /\ ledger[m.pub].fate = "inflight"
        /\ ledger[m.pub].id = m.id /\ ledger[m.pub].qos = m.qos
    BY <2>1 DEF HeldInv
  <2> QED BY <2>2, <2>3, <2>4
<1>2. ASSUME NEW m \in Msgs, NEW n \in Msgs, m.id = n.id PROVE m = n
  BY <1>2 DEF Msgs, ListInv, UniqueIds
<1>3. ASSUME NEW m \in Msgs, NEW n \in Msgs, m.pub = n.pub PROVE m = n
  <2>1. m.id = n.id
    BY <1>1, <1>3
  <2> QED BY <1>2, <2>1
<1>4. \A k \in DOMAIN ledger : ledger[k].fate = "inflight" => \E m \in Msgs : m.pub = k
  BY DEF HeldInv, Msgs
<1> QED BY <1>1, <1>2, <1>3, <1>4

LEMMA RetryFacts ==
  ASSUME NEW m \in Message
  PROVE  /\ RetryPacket(m).id = m.id /\ m.id \in MsgIds
         /\ m.next # "PUBCOMP" => /\ RetryPacket(m) = Publish(m)
                                  /\ RetryPacket(m).type = "PUBLISH"
                                  /\ RetryPacket(m).qos = m.qos /\ RetryPacket(m).pub = m.pub
         /\ m.next = "PUBCOMP" => RetryPacket(m) = Pubrel(m.id) /\ RetryPacket(m).type = "PUBREL"
BY DEF RetryPacket, Publish, Pubrel, Message

LEMMA AckFacts ==
  ASSUME NEW type, NEW id
  PROVE  Ack(type, id).type = type /\ Ack(type, id).id = id
BY DEF Ack

LEMMA NewMessageFacts ==
  ASSUME NEW id \in MsgIds, NEW qos \in 1..2, NEW pub \in Pubs
  PROVE  LET m == NewMessage(id, qos, pub)
         IN /\ m \in Message /\ m.id = id /\ m.qos = qos /\ m.pub = pub
            /\ m.next = FirstReply(qos) /\ m.next # "PUBCOMP"
BY PacketTypes DEF NewMessage, FirstReply

LEMMA StartMsgs ==
  ASSUME TypeOK, NEW id, NEW qos, startPublish(id, qos)
  PROVE  Msgs' = Msgs \cup {NewMessage(id, qos, Len(ledger) + 1)}
<1> DEFINE m == NewMessage(id, qos, Len(ledger) + 1)
           n == Len(outboundMsgs) + 1
<1>1. outboundMsgs' = Append(outboundMsgs, m) /\ outboundMsgs \in Seq(Message)
  BY DEF startPublish, TypeOK
<1> HIDE DEF m
<1>2. /\ DOMAIN outboundMsgs' = DOMAIN outboundMsgs \cup {n}
      /\ \A i \in DOMAIN outboundMsgs : outboundMsgs'[i] = outboundMsgs[i]
      /\ outboundMsgs'[n] = m
  BY <1>1, AppendFacts
<1> HIDE DEF n
<1>3. Msgs' = {outboundMsgs'[i] : i \in DOMAIN outboundMsgs'}
  BY DEF Msgs
<1>4. Msgs' = Msgs \cup {m}
  BY <1>2, <1>3 DEF Msgs
<1> QED BY <1>4 DEF m

LEMMA CompleteMsgs ==
  ASSUME TypeOK, ListInv, NEW i \in DOMAIN outboundMsgs, Complete(i)
  PROVE  Msgs' = Msgs \ {outboundMsgs[i]}
<1>1. /\ \A j \in DOMAIN outboundMsgs' : \E k \in DOMAIN outboundMsgs \ {i} : outboundMsgs'[j] = outboundMsgs[k]
      /\ \A k \in DOMAIN outboundMsgs \ {i} : \E j \in DOMAIN outboundMsgs' : outboundMsgs'[j] = outboundMsgs[k]
  BY RemoveKeeps DEF TypeOK, Complete
<1>2. \A k \in DOMAIN outboundMsgs \ {i} : outboundMsgs[k] # outboundMsgs[i]
  BY DEF ListInv, UniqueIds
<1>3. Msgs' = {outboundMsgs'[j] : j \in DOMAIN outboundMsgs'}
  BY DEF Msgs
<1> QED BY <1>1, <1>2, <1>3 DEF Msgs

LEMMA AdvanceMsgs ==
  ASSUME TypeOK, ListInv, NEW i \in DOMAIN outboundMsgs,
         outboundMsgs' = [outboundMsgs EXCEPT ![i].next = "PUBCOMP"]
  PROVE  Msgs' = (Msgs \ {outboundMsgs[i]}) \cup {[outboundMsgs[i] EXCEPT !.next = "PUBCOMP"]}
<1> DEFINE m == [outboundMsgs[i] EXCEPT !.next = "PUBCOMP"]
<1>1. /\ DOMAIN outboundMsgs' = DOMAIN outboundMsgs
      /\ \A k \in DOMAIN outboundMsgs \ {i} : outboundMsgs'[k] = outboundMsgs[k]
      /\ outboundMsgs'[i] = m
  BY ElementOfSeq DEF TypeOK
<1> HIDE DEF m
<1>2. \A k \in DOMAIN outboundMsgs \ {i} : outboundMsgs[k] # outboundMsgs[i]
  BY DEF ListInv, UniqueIds
<1>3. Msgs' = {outboundMsgs'[j] : j \in DOMAIN outboundMsgs'}
  BY DEF Msgs
<1>4. Msgs' = (Msgs \ {outboundMsgs[i]}) \cup {m}
  BY <1>1, <1>2, <1>3 DEF Msgs
<1> QED BY <1>4 DEF m

\* A restart with a store brings back what there was: every message with what
\* it waits for.
LEMMA RestartMsgs ==
  ASSUME TypeOK, ListInv, HeldInv, Persistent, crash
  PROVE  Msgs' = Msgs
<1>1. ListInv' /\ sent' = sent
  BY RestartKeepsList DEF crash
<1>2. /\ sent = {Record(outboundMsgs[i]) : i \in DOMAIN outboundMsgs}
      /\ sent = {Record(outboundMsgs'[i]) : i \in DOMAIN outboundMsgs'}
  BY <1>1 DEF ListInv, StoreMirrorsList
<1>3. rel' = rel
  <2>1. rel' = {id \in rel : \E r \in sent : r.id = id}
    BY DEF crash
  <2>2. \A id \in rel : \E r \in sent : r.id = id
    <3>1. rel = {outboundMsgs[i].id : i \in {j \in DOMAIN outboundMsgs : outboundMsgs[j].next = "PUBCOMP"}}
      BY DEF ListInv, StoreMirrorsList
    <3>2. \A i \in DOMAIN outboundMsgs : Record(outboundMsgs[i]).id = outboundMsgs[i].id
      BY DEF Record
    <3> QED BY <1>2, <3>1, <3>2
  <2> QED BY <2>1, <2>2
<1>4. TypeOK' 
  BY TypeStep DEF Next
<1>5. ASSUME NEW i \in DOMAIN outboundMsgs, NEW j \in DOMAIN outboundMsgs',
             Record(outboundMsgs[i]) = Record(outboundMsgs'[j])
      PROVE  outboundMsgs[i] = outboundMsgs'[j]
  <2> DEFINE m == outboundMsgs[i]
             n == outboundMsgs'[j]
  <2>1. m \in Message /\ n \in Message
    <3>1. outboundMsgs \in Seq(Message) /\ outboundMsgs' \in Seq(Message)
      BY <1>4 DEF TypeOK
    <3> QED BY <3>1, ElementOfSeq
  <2>2. m.id = n.id /\ m.qos = n.qos /\ m.pub = n.pub
    BY <1>5 DEF Record
  <2>3. /\ m.next \in IF m.qos = 1 THEN {"PUBACK"} ELSE {"PUBREC", "PUBCOMP"}
        /\ n.next \in IF n.qos = 1 THEN {"PUBACK"} ELSE {"PUBREC", "PUBCOMP"}
    BY <1>1 DEF ListInv, MessageShape
  <2>4. m.next = "PUBCOMP" <=> m.id \in rel
    <3>1. rel = {outboundMsgs[k].id : k \in {l \in DOMAIN outboundMsgs : outboundMsgs[l].next = "PUBCOMP"}}
      BY DEF ListInv, StoreMirrorsList
    <3>2. \A k \in DOMAIN outboundMsgs : outboundMsgs[k].id = m.id => k = i
      BY DEF ListInv, UniqueIds
    <3> QED BY <3>1, <3>2
  <2>5. n.next = "PUBCOMP" <=> n.id \in rel'
    <3>1. rel' = {outboundMsgs'[k].id : k \in {l \in DOMAIN outboundMsgs' : outboundMsgs'[l].next = "PUBCOMP"}}
      BY <1>1 DEF ListInv, StoreMirrorsList
    <3>2. \A k \in DOMAIN outboundMsgs' : outboundMsgs'[k].id = n.id => k = j
      BY <1>1 DEF ListInv, UniqueIds
    <3> QED BY <3>1, <3>2
  <2>6. m.next = n.next
    BY <1>3, <2>2, <2>3, <2>4, <2>5
  <2> QED BY <2>1, <2>2, <2>6 DEF Message
<1>6. Msgs' = {outboundMsgs'[j] : j \in DOMAIN outboundMsgs'}
  BY DEF Msgs
<1>7. ASSUME NEW i \in DOMAIN outboundMsgs PROVE outboundMsgs[i] \in Msgs'
  <2>1. PICK j \in DOMAIN outboundMsgs' : Record(outboundMsgs[i]) = Record(outboundMsgs'[j])
    BY <1>2
  <2> QED BY <1>5, <1>6, <2>1
<1>8. ASSUME NEW j \in DOMAIN outboundMsgs' PROVE outboundMsgs'[j] \in Msgs
  <2>1. PICK i \in DOMAIN outboundMsgs : Record(outboundMsgs[i]) = Record(outboundMsgs'[j])
    BY <1>2
  <2>2. outboundMsgs[i] = outboundMsgs'[j]
    BY <1>5, <2>1
  <2> QED BY <2>2 DEF Msgs
<1> QED BY <1>6, <1>7, <1>8 DEF Msgs

\* Nothing that the store knows is given up by a restart.
LEMMA RestartLedger ==
  ASSUME TypeOK, ListInv, HeldInv, Persistent, crash
  PROVE  ledger' = ledger
<1>1. ledger \in Seq(Entry) /\ sent = {Record(outboundMsgs[i]) : i \in DOMAIN outboundMsgs}
  BY DEF TypeOK, ListInv, StoreMirrorsList
<1> DEFINE P == {k \in DOMAIN ledger : \A r \in sent : r.pub # k}
<1>2. ledger' = Settle(ledger, P, "dropped")
  BY DEF crash
<1>3. ASSUME NEW k \in DOMAIN ledger, ledger[k].fate = "inflight" PROVE k \notin P
  <2>1. PICK i \in DOMAIN outboundMsgs : outboundMsgs[i].pub = k
    BY <1>3 DEF HeldInv
  <2>2. Record(outboundMsgs[i]).pub = k /\ Record(outboundMsgs[i]) \in sent
    BY <1>1, <2>1 DEF Record
  <2> QED BY <2>2
<1> HIDE DEF P
<1>4. Settle(ledger, P, "dropped") = [k \in DOMAIN ledger |-> ledger[k]]
  BY <1>3 DEF Settle
<1>5. ledger = [k \in DOMAIN ledger |-> ledger[k]]
  BY <1>1, LenProperties
<1> QED BY <1>2, <1>4, <1>5

-----------------------------------------------------------------------------
(* The flows: what one step does to the packets and the messages *)

LEMMA FewerFacts ==
  ASSUME NEW s, NEW t, Among(s, t)
  PROVE  \A a \in DOMAIN s : \E x \in DOMAIN t : s[a] = t[x]
BY DEF Among

\* Packets are read or lost, and nothing else happens.
LEMMA SameFlow ==
  ASSUME FlightInv, Msgs' = Msgs, UNCHANGED <<ledger, bstored>>, bclean' => bclean,
         Among(c2b', c2b), Among(b2c', b2c), Undisturbed'
  PROVE  FlightInv'
<1>1. /\ \A a \in DOMAIN c2b' : \E x \in DOMAIN c2b : c2b'[a] = c2b[x]
      /\ \A b \in DOMAIN b2c' : \E x \in DOMAIN b2c : b2c'[b] = b2c[x]
  BY FewerFacts
<1>2. OutgoingMatch'
  <2> SUFFICES ASSUME NEW a \in DOMAIN c2b'
               PROVE  \/ /\ c2b'[a].type = "PUBLISH" /\ c2b'[a].id = 0 /\ c2b'[a].qos = 0
                         /\ c2b'[a].pub \in DOMAIN ledger'
                         /\ ledger'[c2b'[a].pub].qos = 0 /\ ledger'[c2b'[a].pub].got = 0
                      \/ \E m \in Msgs' : c2b'[a] = RetryPacket(m)
    BY DEF OutgoingMatch
  <2>1. PICK x \in DOMAIN c2b : c2b'[a] = c2b[x]
    BY <1>1
  <2> QED BY <2>1 DEF FlightInv, OutgoingMatch
<1>3. IncomingMatch'
  <2> SUFFICES ASSUME NEW b \in DOMAIN b2c'
               PROVE  \E m \in Msgs' : /\ b2c'[b] = Ack(m.next, m.id)
                                       /\ ledger'[m.pub].got > 0
                                       /\ m.next = "PUBCOMP" => m.id \notin bstored'
    BY DEF IncomingMatch, Got
  <2>1. PICK x \in DOMAIN b2c : b2c'[b] = b2c[x]
    BY <1>1
  <2> QED BY <2>1 DEF FlightInv, IncomingMatch, Got
<1>4. OnePacket'
  BY FewerPackets DEF FlightInv, OnePacket
<1>5. BrokerMatches'
  BY DEF FlightInv, BrokerMatches, Got
<1>6. LedgerTrue'
  BY DEF FlightInv, LedgerTrue
<1> QED BY <1>2, <1>3, <1>4, <1>5, <1>6 DEF FlightInv

\* The ids of the packets under way are 0 and those of messages in flight.
LEMMA PacketIds ==
  ASSUME TypeOK, ListInv, HeldInv, FlightInv
  PROVE  /\ \A a \in DOMAIN c2b : c2b[a].id = 0 \/ \E m \in Msgs : c2b[a].id = m.id
         /\ \A b \in DOMAIN b2c : \E m \in Msgs : b2c[b].id = m.id
<1>1. \A m \in Msgs : m \in Message
  BY MsgsFacts
<1>2. ASSUME NEW a \in DOMAIN c2b PROVE c2b[a].id = 0 \/ \E m \in Msgs : c2b[a].id = m.id
  <2>1. c2b[a].id = 0 \/ \E m \in Msgs : c2b[a] = RetryPacket(m)
    BY DEF FlightInv, OutgoingMatch
  <2> QED BY <1>1, <2>1, RetryFacts
<1>3. ASSUME NEW b \in DOMAIN b2c PROVE \E m \in Msgs : b2c[b].id = m.id
  <2>1. PICK m \in Msgs : b2c[b] = Ack(m.next, m.id)
    BY DEF FlightInv, IncomingMatch
  <2> QED BY <2>1, AckFacts
<1> QED BY <1>2, <1>3

\* A packet that joins, if there is a connection: no other one is of its message.
LEMMA SentOne ==
  ASSUME TypeOK, OnePacketIn(c2b, b2c'), NEW p, Send(p),
         \A a \in DOMAIN c2b : c2b[a].id = p.id => p.id = 0 /\ c2b[a].pub # p.pub,
         \A b \in DOMAIN b2c' : b2c'[b].id # p.id
  PROVE  /\ OnePacket'
         /\ \A a \in DOMAIN c2b' : c2b'[a] = p \/ \E x \in DOMAIN c2b : c2b'[a] = c2b[x]
<1>1. c2b \in Seq(Packet)
  BY DEF TypeOK
<1>2. CASE c2b' = c2b
  BY <1>2 DEF OnePacket
<1>3. CASE c2b' = Append(c2b, p)
  <2>1. OnePacketIn(Append(c2b, p), b2c')
    BY <1>1, OneMoreOut
  <2>2. \A a \in DOMAIN Append(c2b, p) : Append(c2b, p)[a] = p \/ \E x \in DOMAIN c2b : Append(c2b, p)[a] = c2b[x]
    BY <1>1, AppendFacts
  <2> QED BY <1>3, <2>1, <2>2 DEF OnePacket
<1> QED BY <1>2, <1>3 DEF Send

LEMMA PublishFlight ==
  ASSUME TypeOK, ListInv, HeldInv, FlightInv, NEW id \in MsgIds, NEW qos \in 1..2,
         ~HasId(outboundMsgs, id), startPublish(id, qos),
         UNCHANGED <<bstored, bclean>>, b2c' = b2c \/ b2c' = <<>>, Undisturbed'
  PROVE  FlightInv'
<1> DEFINE p == Len(ledger) + 1
           m == NewMessage(id, qos, p)
<1>1. p \in Pubs /\ p \notin DOMAIN ledger
  BY LenProperties DEF TypeOK, Pubs
<1>2. /\ m \in Message /\ m.id = id /\ m.qos = qos /\ m.pub = p
      /\ m.next = FirstReply(qos) /\ m.next # "PUBCOMP"
  BY <1>1, NewMessageFacts
<1>3. Msgs' = Msgs \cup {m} /\ Send(Publish(m))
  BY StartMsgs DEF startPublish
<1>4. /\ DOMAIN ledger' = DOMAIN ledger \cup {p}
      /\ \A k \in DOMAIN ledger : ledger'[k] = ledger[k]
      /\ ledger'[p] = [id |-> id, qos |-> qos, fate |-> "inflight", got |-> 0]
  <2>1. ledger' = Append(ledger, [id |-> id, qos |-> qos, fate |-> "inflight", got |-> 0])
        /\ ledger \in Seq(Entry)
    BY DEF startPublish, Accept, TypeOK
  <2> QED BY <2>1, AppendFacts
<1>5. /\ \A n \in Msgs : n \in Message /\ n.pub \in DOMAIN ledger
      /\ \A n \in Msgs : n.id # id
  <2>1. \A n \in Msgs : n.id # id
    BY DEF Msgs, HasId
  <2> QED BY <2>1, MsgsFacts
<1> HIDE DEF m, p
<1>6. RetryPacket(m) = Publish(m) /\ Publish(m).id = id /\ id # 0
  BY <1>2, RetryFacts, MaxMsgIdAssumption DEF MsgIds
<1>7. Among(b2c', b2c)
  BY AmongFacts DEF TypeOK
<1>8. \A b \in DOMAIN b2c' : \E x \in DOMAIN b2c : b2c'[b] = b2c[x]
  BY <1>7, FewerFacts
<1>9. /\ OnePacket'
      /\ \A a \in DOMAIN c2b' : c2b'[a] = Publish(m) \/ \E x \in DOMAIN c2b : c2b'[a] = c2b[x]
  <2>1. OnePacketIn(c2b, b2c')
    <3>1. OnePacketIn(c2b, b2c) /\ Among(c2b, c2b)
      BY AmongFacts DEF FlightInv, OnePacket, TypeOK
    <3> QED BY <1>7, <3>1, FewerPackets
  <2>2. \A a \in DOMAIN c2b : c2b[a].id # Publish(m).id
    BY <1>5, <1>6, PacketIds
  <2>3. \A b \in DOMAIN b2c' : b2c'[b].id # Publish(m).id
    BY <1>5, <1>6, <1>8, PacketIds
  <2> QED BY <1>3, <2>1, <2>2, <2>3, SentOne
<1>10. OutgoingMatch'
  <2> SUFFICES ASSUME NEW a \in DOMAIN c2b'
               PROVE  \/ /\ c2b'[a].type = "PUBLISH" /\ c2b'[a].id = 0 /\ c2b'[a].qos = 0
                         /\ c2b'[a].pub \in DOMAIN ledger'
                         /\ ledger'[c2b'[a].pub].qos = 0 /\ ledger'[c2b'[a].pub].got = 0
                      \/ \E n \in Msgs' : c2b'[a] = RetryPacket(n)
    BY DEF OutgoingMatch
  <2>1. CASE c2b'[a] = Publish(m)
    BY <1>3, <1>6, <2>1
  <2>2. ASSUME NEW x \in DOMAIN c2b, c2b'[a] = c2b[x]
        PROVE  \/ /\ c2b'[a].type = "PUBLISH" /\ c2b'[a].id = 0 /\ c2b'[a].qos = 0
                  /\ c2b'[a].pub \in DOMAIN ledger'
                  /\ ledger'[c2b'[a].pub].qos = 0 /\ ledger'[c2b'[a].pub].got = 0
               \/ \E n \in Msgs' : c2b'[a] = RetryPacket(n)
    BY <1>3, <1>4, <2>2 DEF FlightInv, OutgoingMatch
  <2> QED BY <1>9, <2>1, <2>2
<1>11. IncomingMatch'
  <2> SUFFICES ASSUME NEW b \in DOMAIN b2c'
               PROVE  \E n \in Msgs' : /\ b2c'[b] = Ack(n.next, n.id)
                                       /\ ledger'[n.pub].got > 0
                                       /\ n.next = "PUBCOMP" => n.id \notin bstored'
    BY DEF IncomingMatch, Got
  <2>1. PICK x \in DOMAIN b2c : b2c'[b] = b2c[x]
    BY <1>8
  <2>2. PICK n \in Msgs : /\ b2c[x] = Ack(n.next, n.id)
                          /\ ledger[n.pub].got > 0
                          /\ n.next = "PUBCOMP" => n.id \notin bstored
    BY DEF FlightInv, IncomingMatch, Got
  <2> QED BY <1>3, <1>4, <1>5, <2>1, <2>2
<1>12. BrokerMatches'
  <2>1. ASSUME NEW d \in bstored' PROVE \E n \in Msgs' : n.id = d /\ n.qos = 2 /\ ledger'[n.pub].got > 0
    <3>1. PICK n \in Msgs : n.id = d /\ n.qos = 2 /\ ledger[n.pub].got > 0
      BY DEF FlightInv, BrokerMatches, Got
    <3> QED BY <1>3, <1>4, <1>5, <3>1
  <2>2. ASSUME NEW n \in Msgs'
        PROVE  /\ n.next = "PUBCOMP" => ledger'[n.pub].got > 0
               /\ n.next = "PUBREC" /\ ledger'[n.pub].got > 0 => n.id \in bstored'
    <3>1. CASE n = m
      BY <1>2, <1>4, <3>1
    <3>2. CASE n \in Msgs
      BY <1>4, <1>5, <3>2 DEF FlightInv, BrokerMatches, Got
    <3> QED BY <1>3, <3>1, <3>2
  <2>3. bclean' => bstored' = {}
    BY DEF FlightInv, BrokerMatches
  <2> QED BY <2>1, <2>2, <2>3 DEF BrokerMatches, Got
<1>13. LedgerTrue'
  BY <1>4 DEF FlightInv, LedgerTrue
<1> QED BY <1>9, <1>10, <1>11, <1>12, <1>13 DEF FlightInv

\* A QoS 0 publication is sent, and kept nowhere.
LEMMA PublishQoS0Flight ==
  ASSUME TypeOK, ListInv, HeldInv, FlightInv, publishQoS0, Undisturbed'
  PROVE  FlightInv'
<1> DEFINE p == Len(ledger) + 1
           e == Publish([id |-> 0, qos |-> 0, pub |-> p])
<1>1. p \in Pubs /\ p \notin DOMAIN ledger
  BY LenProperties DEF TypeOK, Pubs
<1>2. e.type = "PUBLISH" /\ e.id = 0 /\ e.qos = 0 /\ e.pub = p
  BY DEF Publish
<1>3. /\ Send(e) /\ Msgs' = Msgs
      /\ UNCHANGED <<b2c, bstored, bclean>>
  BY DEF publishQoS0, session, broker, Msgs
<1>4. /\ DOMAIN ledger' = DOMAIN ledger \cup {p}
      /\ \A k \in DOMAIN ledger : ledger'[k] = ledger[k]
      /\ ledger'[p] = [id |-> 0, qos |-> 0, fate |-> "qos0", got |-> 0]
  <2>1. ledger' = Append(ledger, [id |-> 0, qos |-> 0, fate |-> "qos0", got |-> 0])
        /\ ledger \in Seq(Entry)
    BY DEF publishQoS0, Accept, TypeOK
  <2> QED BY <2>1, AppendFacts
<1>5. \A n \in Msgs : n \in Message /\ n.pub \in DOMAIN ledger
  BY MsgsFacts
<1> HIDE DEF e, p
<1>6. \A n \in Msgs : n.id # 0
  BY <1>5, MaxMsgIdAssumption DEF Message, MsgIds
<1>7. /\ OnePacket'
      /\ \A a \in DOMAIN c2b' : c2b'[a] = e \/ \E x \in DOMAIN c2b : c2b'[a] = c2b[x]
  <2>1. OnePacketIn(c2b, b2c')
    BY <1>3 DEF FlightInv, OnePacket
  <2>2. ASSUME NEW a \in DOMAIN c2b, c2b[a].id = e.id PROVE e.id = 0 /\ c2b[a].pub # e.pub
    <3>1. ~ \E m \in Msgs : c2b[a] = RetryPacket(m)
      BY <1>2, <1>5, <1>6, <2>2, RetryFacts
    <3>2. c2b[a].pub \in DOMAIN ledger
      BY <3>1 DEF FlightInv, OutgoingMatch
    <3> QED BY <1>1, <1>2, <3>2
  <2>3. \A b \in DOMAIN b2c' : b2c'[b].id # e.id
    BY <1>2, <1>3, <1>6, PacketIds
  <2> QED BY <1>3, <2>1, <2>2, <2>3, SentOne
<1>8. OutgoingMatch'
  <2> SUFFICES ASSUME NEW a \in DOMAIN c2b'
               PROVE  \/ /\ c2b'[a].type = "PUBLISH" /\ c2b'[a].id = 0 /\ c2b'[a].qos = 0
                         /\ c2b'[a].pub \in DOMAIN ledger'
                         /\ ledger'[c2b'[a].pub].qos = 0 /\ ledger'[c2b'[a].pub].got = 0
                      \/ \E n \in Msgs' : c2b'[a] = RetryPacket(n)
    BY DEF OutgoingMatch
  <2>1. CASE c2b'[a] = e
    BY <1>2, <1>4, <2>1
  <2>2. ASSUME NEW x \in DOMAIN c2b, c2b'[a] = c2b[x]
        PROVE  \/ /\ c2b'[a].type = "PUBLISH" /\ c2b'[a].id = 0 /\ c2b'[a].qos = 0
                  /\ c2b'[a].pub \in DOMAIN ledger'
                  /\ ledger'[c2b'[a].pub].qos = 0 /\ ledger'[c2b'[a].pub].got = 0
               \/ \E n \in Msgs' : c2b'[a] = RetryPacket(n)
    BY <1>3, <1>4, <2>2 DEF FlightInv, OutgoingMatch
  <2> QED BY <1>7, <2>1, <2>2
<1>9. IncomingMatch'
  BY <1>3, <1>4, <1>5 DEF FlightInv, IncomingMatch, Got
<1>10. BrokerMatches'
  BY <1>3, <1>4, <1>5 DEF FlightInv, BrokerMatches, Got
<1>11. LedgerTrue'
  BY <1>4 DEF FlightInv, LedgerTrue
<1> QED BY <1>7, <1>8, <1>9, <1>10, <1>11 DEF FlightInv

\* An acknowledgement that finishes a message is the answer to what was sent for it.
LEMMA AckFlight ==
  ASSUME TypeOK, ListInv, HeldInv, FlightInv, NEW type \in {"PUBACK", "PUBCOMP"}, Receive(type),
         NEW i \in DOMAIN outboundMsgs, outboundMsgs[i].id = Head(b2c).id, Complete(i),
         UNCHANGED <<c2b, bstored, bclean>>, Undisturbed'
  PROVE  /\ FlightInv'
         /\ ledger[outboundMsgs[i].pub].got > 0
<1> DEFINE m == outboundMsgs[i]
<1>1. m \in Msgs /\ Msgs' = Msgs \ {m}
  BY CompleteMsgs DEF Msgs
<1>2. b2c \in Seq(Reply) /\ b2c # <<>> /\ Head(b2c).type = type /\ b2c' = Tail(b2c) /\ Head(b2c).id = m.id
  BY DEF TypeOK, Receive
<1>3. ledger \in Seq(Entry) /\ ledger' = Settle(ledger, {m.pub}, "completed")
  BY DEF TypeOK, Complete
<1> HIDE DEF m
<1>4. /\ \A n \in Msgs : /\ n \in Message
                         /\ n.next \in IF n.qos = 1 THEN {"PUBACK"} ELSE {"PUBREC", "PUBCOMP"}
                         /\ n.pub \in DOMAIN ledger
                         /\ ledger[n.pub].fate = "inflight"
                         /\ ledger[n.pub].qos = n.qos
      /\ \A n, o \in Msgs : n.id = o.id => n = o
  BY MsgsFacts
<1>5. /\ m.next = type /\ ledger[m.pub].got > 0
      /\ m.next = "PUBCOMP" => m.id \notin bstored
  <2>1. 1 \in DOMAIN b2c /\ Head(b2c) = b2c[1]
    BY <1>2, TailFacts
  <2>2. PICK n \in Msgs : /\ b2c[1] = Ack(n.next, n.id)
                          /\ ledger[n.pub].got > 0
                          /\ n.next = "PUBCOMP" => n.id \notin bstored
    BY <2>1 DEF FlightInv, IncomingMatch, Got
  <2>3. n.id = m.id /\ n.next = type
    BY <1>2, <2>1, <2>2, AckFacts
  <2> QED BY <1>1, <1>4, <2>2, <2>3
<1>6. /\ DOMAIN ledger' = DOMAIN ledger
      /\ \A k \in DOMAIN ledger :
           /\ ledger'[k].qos = ledger[k].qos /\ ledger'[k].got = ledger[k].got
           /\ ledger'[k].fate = IF k = m.pub THEN "completed" ELSE ledger[k].fate
  <2>1. \A e \in Entry : /\ [e EXCEPT !.fate = "completed"].got = e.got
                         /\ [e EXCEPT !.fate = "completed"].qos = e.qos
                         /\ [e EXCEPT !.fate = "completed"].fate = "completed"
    BY DEF Entry
  <2>2. \A k \in DOMAIN ledger : ledger[k] \in Entry
    BY <1>3, ElementOfSeq
  <2> QED BY <1>1, <1>3, <1>4, <2>1, <2>2 DEF Settle
<1>7. /\ \A a \in DOMAIN c2b : c2b[a].id # m.id
      /\ \A b \in DOMAIN b2c' : b2c'[b].id # m.id /\ \E x \in DOMAIN b2c : b2c'[b] = b2c[x]
  <2>1. OnePacketIn(c2b, b2c)
    BY DEF FlightInv, OnePacket
  <2>2. Among(b2c', b2c)
    BY <1>2, AmongFacts
  <2> QED BY <1>2, <2>1, <2>2, FirstIn, FewerFacts
<1>8. OutgoingMatch'
  <2> SUFFICES ASSUME NEW a \in DOMAIN c2b
               PROVE  \/ /\ c2b[a].type = "PUBLISH" /\ c2b[a].id = 0 /\ c2b[a].qos = 0
                         /\ c2b[a].pub \in DOMAIN ledger'
                         /\ ledger'[c2b[a].pub].qos = 0 /\ ledger'[c2b[a].pub].got = 0
                      \/ \E n \in Msgs' : c2b[a] = RetryPacket(n)
    BY DEF OutgoingMatch
  <2>1. CASE \E n \in Msgs : c2b[a] = RetryPacket(n)
    <3>1. PICK n \in Msgs : c2b[a] = RetryPacket(n)
      BY <2>1
    <3>2. n # m
      BY <1>4, <1>7, <3>1, RetryFacts
    <3> QED BY <1>1, <3>1, <3>2
  <2>2. CASE ~ \E n \in Msgs : c2b[a] = RetryPacket(n)
    BY <1>6, <2>2 DEF FlightInv, OutgoingMatch
  <2> QED BY <2>1, <2>2
<1>9. IncomingMatch'
  <2> SUFFICES ASSUME NEW b \in DOMAIN b2c'
               PROVE  \E n \in Msgs' : /\ b2c'[b] = Ack(n.next, n.id)
                                       /\ ledger'[n.pub].got > 0
                                       /\ n.next = "PUBCOMP" => n.id \notin bstored
    BY DEF IncomingMatch, Got
  <2>1. PICK x \in DOMAIN b2c : b2c'[b] = b2c[x]
    BY <1>7
  <2>2. PICK n \in Msgs : /\ b2c[x] = Ack(n.next, n.id)
                          /\ ledger[n.pub].got > 0
                          /\ n.next = "PUBCOMP" => n.id \notin bstored
    BY DEF FlightInv, IncomingMatch, Got
  <2>3. n # m
    BY <1>7, <2>1, <2>2, AckFacts
  <2> QED BY <1>1, <1>4, <1>6, <2>1, <2>2, <2>3
<1>10. OnePacket'
  <2>1. OnePacketIn(c2b, b2c) /\ Among(c2b', c2b) /\ Among(b2c', b2c)
    BY <1>2, AmongFacts DEF FlightInv, OnePacket, TypeOK
  <2> QED BY <2>1, FewerPackets DEF OnePacket
<1>11. BrokerMatches'
  <2>1. ASSUME NEW d \in bstored PROVE \E n \in Msgs' : n.id = d /\ n.qos = 2 /\ ledger'[n.pub].got > 0
    <3>1. PICK n \in Msgs : n.id = d /\ n.qos = 2 /\ ledger[n.pub].got > 0
      BY DEF FlightInv, BrokerMatches, Got
    <3>2. n # m
      BY <1>4, <1>5, <3>1
    <3> QED BY <1>1, <1>4, <1>6, <3>1, <3>2
  <2>2. ASSUME NEW n \in Msgs'
        PROVE  /\ n.next = "PUBCOMP" => ledger'[n.pub].got > 0
               /\ n.next = "PUBREC" /\ ledger'[n.pub].got > 0 => n.id \in bstored
    BY <1>1, <1>4, <1>6, <2>2 DEF FlightInv, BrokerMatches, Got
  <2>3. bclean' => bstored' = {}
    BY DEF FlightInv, BrokerMatches
  <2> QED BY <2>1, <2>2, <2>3 DEF BrokerMatches, Got
<1>12. LedgerTrue'
  BY <1>1, <1>4, <1>5, <1>6 DEF FlightInv, LedgerTrue
<1>13. FlightInv'
  BY <1>8, <1>9, <1>10, <1>11, <1>12 DEF FlightInv
<1> QED BY <1>5, <1>13 DEF m

\* A PUBREC moves its message on: the PUBREL takes the place of the PUBLISH.
LEMMA PubrecFlight ==
  ASSUME TypeOK, ListInv, HeldInv, FlightInv, Receive("PUBREC"), NEW i \in DOMAIN outboundMsgs,
         Matches(i, Head(b2c).id, 2), outboundMsgs[i].next = "PUBREC",
         outboundMsgs' = [outboundMsgs EXCEPT ![i].next = "PUBCOMP"], Send(Pubrel(Head(b2c).id)),
         UNCHANGED <<ledger, bstored, bclean>>, Undisturbed'
  PROVE  FlightInv'
<1> DEFINE m == outboundMsgs[i]
           m2 == [m EXCEPT !.next = "PUBCOMP"]
           e == Pubrel(m.id)
<1>1. m \in Msgs /\ Msgs' = (Msgs \ {m}) \cup {m2}
  BY AdvanceMsgs DEF Msgs
<1>2. b2c \in Seq(Reply) /\ b2c # <<>> /\ b2c' = Tail(b2c) /\ Head(b2c).id = m.id /\ m.qos = 2 /\ m.next = "PUBREC"
  BY DEF TypeOK, Receive, Matches
<1>3. Send(e)
  BY <1>2
<1>4. /\ \A n \in Msgs : n \in Message
      /\ \A n, o \in Msgs : n.id = o.id => n = o
  BY MsgsFacts
<1>5. /\ m2 \in Message /\ m2.id = m.id /\ m2.qos = 2 /\ m2.pub = m.pub /\ m2.next = "PUBCOMP"
      /\ RetryPacket(m2) = e /\ e.id = m.id
  <2>1. m2 \in Message /\ m2.id = m.id /\ m2.qos = m.qos /\ m2.pub = m.pub /\ m2.next = "PUBCOMP"
    BY <1>1, <1>4 DEF Message
  <2> QED BY <1>2, <2>1 DEF RetryPacket, Pubrel
<1> HIDE DEF m, m2, e
<1>6. ledger[m.pub].got > 0
  <2>1. 1 \in DOMAIN b2c /\ Head(b2c) = b2c[1]
    BY <1>2, TailFacts
  <2>2. PICK n \in Msgs : b2c[1] = Ack(n.next, n.id) /\ ledger[n.pub].got > 0
    BY <2>1 DEF FlightInv, IncomingMatch, Got
  <2>3. n = m
    BY <1>1, <1>2, <1>4, <2>1, <2>2, AckFacts
  <2> QED BY <2>2, <2>3
<1>7. /\ \A a \in DOMAIN c2b : c2b[a].id # m.id
      /\ \A b \in DOMAIN b2c' : b2c'[b].id # m.id /\ \E x \in DOMAIN b2c : b2c'[b] = b2c[x]
      /\ OnePacketIn(c2b, b2c')
  <2>1. OnePacketIn(c2b, b2c)
    BY DEF FlightInv, OnePacket
  <2>2. Among(c2b, c2b) /\ Among(b2c', b2c)
    BY <1>2, AmongFacts DEF TypeOK
  <2>3. OnePacketIn(c2b, b2c')
    BY <2>1, <2>2, FewerPackets
  <2> QED BY <1>2, <2>1, <2>2, <2>3, FirstIn, FewerFacts
<1>8. /\ OnePacket'
      /\ \A a \in DOMAIN c2b' : c2b'[a] = e \/ \E x \in DOMAIN c2b : c2b'[a] = c2b[x]
  BY <1>3, <1>5, <1>7, SentOne
<1>9. OutgoingMatch'
  <2> SUFFICES ASSUME NEW a \in DOMAIN c2b'
               PROVE  \/ /\ c2b'[a].type = "PUBLISH" /\ c2b'[a].id = 0 /\ c2b'[a].qos = 0
                         /\ c2b'[a].pub \in DOMAIN ledger'
                         /\ ledger'[c2b'[a].pub].qos = 0 /\ ledger'[c2b'[a].pub].got = 0
                      \/ \E n \in Msgs' : c2b'[a] = RetryPacket(n)
    BY DEF OutgoingMatch
  <2>1. CASE c2b'[a] = e
    BY <1>1, <1>5, <2>1
  <2>2. ASSUME NEW x \in DOMAIN c2b, c2b'[a] = c2b[x], NEW n \in Msgs, c2b[x] = RetryPacket(n)
        PROVE  \E o \in Msgs' : c2b'[a] = RetryPacket(o)
    <3>1. n # m
      BY <1>4, <1>7, <2>2, RetryFacts
    <3> QED BY <1>1, <2>2, <3>1
  <2>3. ASSUME NEW x \in DOMAIN c2b, c2b'[a] = c2b[x], ~ \E n \in Msgs : c2b[x] = RetryPacket(n)
        PROVE  /\ c2b'[a].type = "PUBLISH" /\ c2b'[a].id = 0 /\ c2b'[a].qos = 0
               /\ c2b'[a].pub \in DOMAIN ledger'
               /\ ledger'[c2b'[a].pub].qos = 0 /\ ledger'[c2b'[a].pub].got = 0
    BY <2>3 DEF FlightInv, OutgoingMatch
  <2> QED BY <1>8, <2>1, <2>2, <2>3
<1>10. IncomingMatch'
  <2> SUFFICES ASSUME NEW b \in DOMAIN b2c'
               PROVE  \E n \in Msgs' : /\ b2c'[b] = Ack(n.next, n.id)
                                       /\ ledger[n.pub].got > 0
                                       /\ n.next = "PUBCOMP" => n.id \notin bstored
    BY DEF IncomingMatch, Got
  <2>1. PICK x \in DOMAIN b2c : b2c'[b] = b2c[x]
    BY <1>7
  <2>2. PICK n \in Msgs : /\ b2c[x] = Ack(n.next, n.id)
                          /\ ledger[n.pub].got > 0
                          /\ n.next = "PUBCOMP" => n.id \notin bstored
    BY DEF FlightInv, IncomingMatch, Got
  <2>3. n # m
    BY <1>7, <2>1, <2>2, AckFacts
  <2> QED BY <1>1, <2>1, <2>2, <2>3
<1>11. BrokerMatches'
  <2>1. ASSUME NEW d \in bstored PROVE \E n \in Msgs' : n.id = d /\ n.qos = 2 /\ ledger[n.pub].got > 0
    <3>1. PICK n \in Msgs : n.id = d /\ n.qos = 2 /\ ledger[n.pub].got > 0
      BY DEF FlightInv, BrokerMatches, Got
    <3>2. CASE n = m
      BY <1>1, <1>5, <1>6, <3>1, <3>2
    <3>3. CASE n # m
      BY <1>1, <3>1, <3>3
    <3> QED BY <3>2, <3>3
  <2>2. ASSUME NEW n \in Msgs'
        PROVE  /\ n.next = "PUBCOMP" => ledger[n.pub].got > 0
               /\ n.next = "PUBREC" /\ ledger[n.pub].got > 0 => n.id \in bstored
    <3>1. CASE n = m2
      BY <1>5, <1>6, <3>1
    <3>2. CASE n \in Msgs
      BY <3>2 DEF FlightInv, BrokerMatches, Got
    <3> QED BY <1>1, <3>1, <3>2
  <2>3. bclean' => bstored' = {}
    BY DEF FlightInv, BrokerMatches
  <2> QED BY <2>1, <2>2, <2>3 DEF BrokerMatches, Got
<1>12. LedgerTrue'
  BY DEF FlightInv, LedgerTrue
<1> QED BY <1>8, <1>9, <1>10, <1>11, <1>12 DEF FlightInv

\* What is resent when nothing else is under way: by a retry, and by a
\* connect, the first messages of the list.
LEMMA ResendFlight ==
  ASSUME TypeOK, ListInv, HeldInv, FlightInv, Msgs' = Msgs, UNCHANGED <<ledger, bstored>>,
         bclean' => bclean, b2c' = <<>>, Undisturbed',
         \A a \in DOMAIN c2b' : \E m \in Msgs : c2b'[a] = RetryPacket(m),
         \A a, b \in DOMAIN c2b' : a # b => c2b'[a].id # c2b'[b].id
  PROVE  FlightInv'
<1>1. OutgoingMatch'
  BY DEF OutgoingMatch
<1>2. DOMAIN b2c' = {}
  OBVIOUS
<1>3. IncomingMatch'
  BY <1>2 DEF IncomingMatch
<1>4. OnePacketIn(c2b', b2c')
  BY <1>2 DEF OnePacketIn
<1>5. BrokerMatches'
  BY DEF FlightInv, BrokerMatches, Got
<1>6. LedgerTrue'
  BY DEF FlightInv, LedgerTrue
<1> QED BY <1>1, <1>3, <1>4, <1>5, <1>6 DEF FlightInv, OnePacket

LEMMA RetryFlight ==
  ASSUME TypeOK, ListInv, HeldInv, FlightInv, NEW i \in DOMAIN outboundMsgs, retry(i)
  PROVE  FlightInv'
<1>1. Quiet /\ UNCHANGED left
  BY RetryIntervalAssumption DEF retry, FlightInv, Undisturbed, Disturb, TypeOK, Kinds
<1>2. /\ UNCHANGED <<outboundMsgs, ledger, bstored, bclean, cleansession>>
      /\ b2c' = <<>> /\ c2b = <<>> /\ Send(RetryPacket(outboundMsgs[i]))
  BY <1>1 DEF retry, broker, Quiet
<1>3. Msgs' = Msgs /\ outboundMsgs[i] \in Msgs
  BY <1>2 DEF Msgs
<1>4. c2b' = <<>> \/ c2b' = <<RetryPacket(outboundMsgs[i])>>
  BY <1>2 DEF Send
<1>5. /\ \A a \in DOMAIN c2b' : a = 1 /\ c2b'[a] = RetryPacket(outboundMsgs[i])
  BY <1>4
<1>6. Undisturbed'
  BY <1>1, <1>2 DEF FlightInv, Undisturbed
<1> QED BY <1>2, <1>3, <1>5, <1>6, ResendFlight

LEMMA ReconnectFlight ==
  ASSUME TypeOK, ListInv, HeldInv, FlightInv, connect(FALSE)
  PROVE  FlightInv'
<1>1. PICK n \in ResentOnConnect(outboundMsgs) : c2b' = RetryPackets(n)
  BY DEF connect
<1>2. UNCHANGED <<outboundMsgs, ledger, left>> /\ b2c' = <<>> /\ cleansession' = FALSE
  BY DEF connect
<1>3. bstored' = bstored /\ bclean' = FALSE
  BY DEF connect, BrokerConnect, FlightInv, BrokerMatches
<1>4. Msgs' = Msgs
  BY <1>2 DEF Msgs
<1>5. /\ Len(outboundMsgs) \in Nat /\ DOMAIN outboundMsgs = 1..Len(outboundMsgs)
      /\ \A i \in DOMAIN outboundMsgs : outboundMsgs[i] \in Message /\ outboundMsgs[i] \in Msgs
  BY LenProperties DEF TypeOK, Msgs
<1>6. n \in 0..Len(outboundMsgs)
  BY <1>5 DEF ResentOnConnect
<1>7. DOMAIN c2b' = 1..n /\ \A a \in 1..n : a \in DOMAIN outboundMsgs /\ c2b'[a] = RetryPacket(outboundMsgs[a])
  BY <1>1, <1>5, <1>6 DEF RetryPackets
<1>8. ASSUME NEW a \in DOMAIN c2b', NEW b \in DOMAIN c2b', a # b PROVE c2b'[a].id # c2b'[b].id
  <2>1. c2b'[a].id = outboundMsgs[a].id /\ c2b'[b].id = outboundMsgs[b].id
    BY <1>5, <1>7, RetryFacts
  <2>2. outboundMsgs[a].id # outboundMsgs[b].id
    BY <1>7, <1>8 DEF ListInv, UniqueIds
  <2> QED BY <2>1, <2>2
<1>9. \A a \in DOMAIN c2b' : \E m \in Msgs : c2b'[a] = RetryPacket(m)
  BY <1>5, <1>7
<1>10. Undisturbed'
  BY <1>2 DEF FlightInv, Undisturbed
<1> QED BY <1>2, <1>3, <1>4, <1>8, <1>9, <1>10, ResendFlight

\* The broker reads a packet with an id, and its answer takes the place of the packet.
LEMMA AnsweredOne ==
  ASSUME TypeOK, OnePacket, c2b # <<>>, Head(c2b).id # 0, c2b' = Tail(c2b),
         NEW type, Answer(type, Head(c2b).id)
  PROVE  /\ OnePacket'
         /\ \A a \in DOMAIN c2b' : c2b'[a].id # Head(c2b).id /\ \E x \in DOMAIN c2b : c2b'[a] = c2b[x]
         /\ \A b \in DOMAIN b2c : b2c[b].id # Head(c2b).id
         /\ \A b \in DOMAIN b2c' : \/ b2c'[b] = Ack(type, Head(c2b).id)
                                   \/ \E x \in DOMAIN b2c : b2c'[b] = b2c[x]
<1> DEFINE e == Ack(type, Head(c2b).id)
<1>1. c2b \in Seq(Packet) /\ b2c \in Seq(Reply) /\ OnePacketIn(c2b, b2c)
  BY DEF TypeOK, OnePacket
<1>2. /\ \A a \in DOMAIN c2b' : c2b'[a].id # Head(c2b).id
      /\ \A b \in DOMAIN b2c : b2c[b].id # Head(c2b).id
  BY <1>1, FirstOut
<1>3. Among(c2b', c2b) /\ Among(b2c, b2c)
  BY <1>1, AmongFacts
<1>4. OnePacketIn(c2b', b2c)
  BY <1>1, <1>3, FewerPackets
<1>5. \A a \in DOMAIN c2b' : \E x \in DOMAIN c2b : c2b'[a] = c2b[x]
  <2>1. Among(c2b', c2b)
    BY <1>3
  <2> QED BY <2>1 DEF Among
<1>6. e.id = Head(c2b).id
  BY AckFacts
<1> HIDE DEF e
<1>7. OnePacketIn(c2b', Append(b2c, e))
  BY <1>1, <1>2, <1>4, <1>6, OneMoreIn
<1>8. \A b \in DOMAIN Append(b2c, e) : Append(b2c, e)[b] = e \/ \E x \in DOMAIN b2c : Append(b2c, e)[b] = b2c[x]
  BY <1>1, AppendFacts
<1>9. b2c' = b2c \/ b2c' = Append(b2c, e)
  BY DEF Answer, e
<1>10. OnePacket' /\ \A b \in DOMAIN b2c' : b2c'[b] = e \/ \E x \in DOMAIN b2c : b2c'[b] = b2c[x]
  BY <1>4, <1>7, <1>8, <1>9 DEF OnePacket
<1> QED BY <1>2, <1>5, <1>10 DEF e

\* What a delivery does to the history.
LEMMA DeliverEffect ==
  ASSUME TypeOK, NEW k \in DOMAIN ledger, Deliver(k)
  PROVE  /\ DOMAIN ledger' = DOMAIN ledger
         /\ \A j \in DOMAIN ledger : j # k => ledger'[j] = ledger[j]
         /\ ledger'[k] = [ledger[k] EXCEPT !.got = @ + 1]
         /\ ledger'[k].qos = ledger[k].qos /\ ledger'[k].fate = ledger[k].fate
         /\ ledger'[k].got = ledger[k].got + 1 /\ ledger'[k].got > 0
<1>1. ledger \in Seq(Entry) /\ ledger[k] \in Entry
  BY ElementOfSeq DEF TypeOK
<1>2. ledger' = [ledger EXCEPT ![k] = [ledger[k] EXCEPT !.got = @ + 1]]
  BY DEF Deliver
<1>3. LET e == [ledger[k] EXCEPT !.got = @ + 1]
      IN e.qos = ledger[k].qos /\ e.fate = ledger[k].fate /\ e.got = ledger[k].got + 1 /\ e.got > 0
  BY <1>1 DEF Entry
<1> QED BY <1>2, <1>3

\* The broker gets a QoS 0 publication.
LEMMA BrokerQoS0Flight ==
  ASSUME TypeOK, ListInv, HeldInv, FlightInv, brokerPublish, Head(c2b).qos = 0
  PROVE  /\ FlightInv'
         /\ Head(c2b).pub \in DOMAIN ledger /\ Deliver(Head(c2b).pub)
         /\ ledger[Head(c2b).pub].qos = 0 /\ ledger[Head(c2b).pub].got = 0
<1> DEFINE p == Head(c2b)
           k == p.pub
<1>1. /\ c2b # <<>> /\ c2b' = Tail(c2b) /\ p.type = "PUBLISH" /\ Deliver(k)
      /\ UNCHANGED <<bstored, b2c, outboundMsgs, bclean, cleansession, left>>
  BY DEF brokerPublish, session
<1>2. c2b \in Seq(Packet) /\ b2c \in Seq(Reply) /\ 1 \in DOMAIN c2b /\ p = c2b[1]
  BY <1>1, TailFacts DEF TypeOK
<1>3. \A n \in Msgs : /\ n \in Message /\ n.pub \in DOMAIN ledger
                      /\ ledger[n.pub].qos = n.qos /\ n.qos # 0
  BY MsgsFacts DEF Message
<1>4. p.id = 0 /\ k \in DOMAIN ledger /\ ledger[k].qos = 0 /\ ledger[k].got = 0
  <2>1. ~ \E m \in Msgs : p = RetryPacket(m)
    BY <1>1, <1>3, RetryFacts
  <2> QED BY <1>2, <2>1 DEF FlightInv, OutgoingMatch
<1> HIDE DEF p, k
<1>5. /\ DOMAIN ledger' = DOMAIN ledger
      /\ \A j \in DOMAIN ledger : j # k => ledger'[j] = ledger[j]
      /\ ledger'[k].qos = ledger[k].qos /\ ledger'[k].fate = ledger[k].fate /\ ledger'[k].got > 0
  BY <1>1, <1>4, DeliverEffect
<1>6. \A n \in Msgs : ledger'[n.pub] = ledger[n.pub]
  BY <1>3, <1>4, <1>5
<1>7. Msgs' = Msgs
  BY <1>1 DEF Msgs
<1>8. Among(c2b', c2b) /\ Among(b2c', b2c)
  BY <1>1, <1>2, AmongFacts
<1>9. /\ \A a \in DOMAIN c2b' : \E x \in DOMAIN c2b : c2b'[a] = c2b[x]
      /\ \A a \in DOMAIN c2b' : c2b'[a].id = 0 => c2b'[a].pub # k
  <2>1. \A a \in DOMAIN c2b' : c2b'[a].id = p.id => c2b'[a].pub # p.pub
    BY <1>1, <1>2, FirstOut DEF FlightInv, OnePacket, p
  <2> QED BY <1>4, <1>8, <2>1, FewerFacts DEF k
<1>10. OutgoingMatch'
  <2> SUFFICES ASSUME NEW a \in DOMAIN c2b'
               PROVE  \/ /\ c2b'[a].type = "PUBLISH" /\ c2b'[a].id = 0 /\ c2b'[a].qos = 0
                         /\ c2b'[a].pub \in DOMAIN ledger'
                         /\ ledger'[c2b'[a].pub].qos = 0 /\ ledger'[c2b'[a].pub].got = 0
                      \/ \E n \in Msgs' : c2b'[a] = RetryPacket(n)
    BY DEF OutgoingMatch
  <2>1. PICK x \in DOMAIN c2b : c2b'[a] = c2b[x]
    BY <1>9
  <2>2. CASE \E n \in Msgs : c2b[x] = RetryPacket(n)
    BY <1>7, <2>1, <2>2
  <2>3. CASE ~ \E n \in Msgs : c2b[x] = RetryPacket(n)
    <3>1. /\ c2b'[a].type = "PUBLISH" /\ c2b'[a].id = 0 /\ c2b'[a].qos = 0
          /\ c2b'[a].pub \in DOMAIN ledger
          /\ ledger[c2b'[a].pub].qos = 0 /\ ledger[c2b'[a].pub].got = 0
      BY <2>1, <2>3 DEF FlightInv, OutgoingMatch
    <3> QED BY <1>5, <1>9, <3>1
  <2> QED BY <2>2, <2>3
<1>11. IncomingMatch'
  BY <1>1, <1>6, <1>7 DEF FlightInv, IncomingMatch, Got
<1>12. OnePacket'
  BY <1>8, FewerPackets DEF FlightInv, OnePacket
<1>13. BrokerMatches'
  BY <1>1, <1>6, <1>7 DEF FlightInv, BrokerMatches, Got
<1>14. LedgerTrue'
  BY <1>4, <1>5 DEF FlightInv, LedgerTrue
<1>15. Undisturbed'
  BY <1>1 DEF FlightInv, Undisturbed
<1>16. FlightInv'
  BY <1>10, <1>11, <1>12, <1>13, <1>14, <1>15 DEF FlightInv
<1> QED BY <1>1, <1>4, <1>16 DEF p, k

\* The broker gets a publication of a message in flight.  A QoS 2 one that it
\* holds already is not delivered again.
LEMMA BrokerPublishFlight ==
  ASSUME TypeOK, ListInv, HeldInv, FlightInv, brokerPublish, Head(c2b).qos # 0, ~bclean
  PROVE  /\ FlightInv'
         /\ \/ ledger' = ledger
            \/ \E k \in DOMAIN ledger : Deliver(k) /\ (ledger[k].qos = 1 \/ ledger[k].got = 0)
                                        /\ ledger[k].fate = "inflight"
<1> DEFINE p == Head(c2b)
<1>1. /\ c2b # <<>> /\ c2b' = Tail(c2b) /\ p.type = "PUBLISH"
      /\ UNCHANGED <<outboundMsgs, bclean, cleansession, left>>
  BY DEF brokerPublish, session
<1>2. c2b \in Seq(Packet) /\ b2c \in Seq(Reply) /\ 1 \in DOMAIN c2b /\ p = c2b[1]
  BY <1>1, TailFacts DEF TypeOK
<1>3. /\ \A n \in Msgs : /\ n \in Message /\ n.pub \in DOMAIN ledger
                         /\ n.next \in IF n.qos = 1 THEN {"PUBACK"} ELSE {"PUBREC", "PUBCOMP"}
                         /\ ledger[n.pub].qos = n.qos /\ ledger[n.pub].fate = "inflight"
                         /\ n.id # 0 /\ n.qos \in 1..2
      /\ \A n, o \in Msgs : n.id = o.id => n = o
      /\ \A n, o \in Msgs : n.pub = o.pub => n = o
  BY MsgsFacts, MaxMsgIdAssumption DEF Message, MsgIds
<1>4. PICK m \in Msgs : p = RetryPacket(m)
  BY <1>1, <1>2 DEF FlightInv, OutgoingMatch
<1>5. /\ p.id = m.id /\ p.qos = m.qos /\ p.pub = m.pub /\ p.id # 0
      /\ m.next = FirstReply(m.qos) /\ m.next # "PUBCOMP"
  BY <1>1, <1>3, <1>4, RetryFacts DEF FirstReply
<1>6. Answer(m.next, p.id)
  BY <1>1, <1>3, <1>5 DEF brokerPublish, FirstReply
<1>7. bstored' = IF m.qos = 2 THEN bstored \cup {m.id} ELSE bstored
  BY <1>1, <1>3, <1>5 DEF brokerPublish
<1>8. IF m.qos = 2 /\ m.id \in bstored THEN ledger' = ledger ELSE Deliver(m.pub)
  BY <1>1, <1>3, <1>5 DEF brokerPublish
<1>9. m.qos = 2 /\ m.id \in bstored => ledger[m.pub].got > 0
  BY <1>3 DEF FlightInv, BrokerMatches, Got
<1>10. m.qos = 2 /\ m.id \notin bstored => ledger[m.pub].got = 0
  <2>1. ledger[m.pub] \in Entry
    BY <1>3, ElementOfSeq DEF TypeOK
  <2>2. ledger[m.pub].got \in Nat
    BY <2>1 DEF Entry
  <2> QED BY <1>3, <1>5, <2>2 DEF FlightInv, BrokerMatches, Got, FirstReply
<1>11. /\ DOMAIN ledger' = DOMAIN ledger
       /\ \A k \in DOMAIN ledger : k # m.pub => ledger'[k] = ledger[k]
       /\ ledger'[m.pub].qos = ledger[m.pub].qos /\ ledger'[m.pub].fate = ledger[m.pub].fate
       /\ ledger'[m.pub].got > 0
  <2>1. CASE m.qos = 2 /\ m.id \in bstored
    BY <1>8, <1>9, <2>1
  <2>2. CASE ~(m.qos = 2 /\ m.id \in bstored)
    BY <1>3, <1>8, <2>2, DeliverEffect
  <2> QED BY <2>1, <2>2
<1>12. Msgs' = Msgs
  BY <1>1 DEF Msgs
<1>13. \A n \in Msgs : ledger[n.pub].got > 0 => ledger'[n.pub].got > 0
  BY <1>3, <1>11
<1> HIDE DEF p
<1>14. /\ OnePacket'
       /\ \A a \in DOMAIN c2b' : c2b'[a].id # p.id /\ \E x \in DOMAIN c2b : c2b'[a] = c2b[x]
       /\ \A b \in DOMAIN b2c : b2c[b].id # p.id
       /\ \A b \in DOMAIN b2c' : \/ b2c'[b] = Ack(m.next, p.id)
                                 \/ \E x \in DOMAIN b2c : b2c'[b] = b2c[x]
  BY <1>1, <1>5, <1>6, AnsweredOne DEF FlightInv, p
<1>15. OutgoingMatch'
  <2> SUFFICES ASSUME NEW a \in DOMAIN c2b'
               PROVE  \/ /\ c2b'[a].type = "PUBLISH" /\ c2b'[a].id = 0 /\ c2b'[a].qos = 0
                         /\ c2b'[a].pub \in DOMAIN ledger'
                         /\ ledger'[c2b'[a].pub].qos = 0 /\ ledger'[c2b'[a].pub].got = 0
                      \/ \E n \in Msgs' : c2b'[a] = RetryPacket(n)
    BY DEF OutgoingMatch
  <2>1. PICK x \in DOMAIN c2b : c2b'[a] = c2b[x]
    BY <1>14
  <2>2. CASE \E n \in Msgs : c2b[x] = RetryPacket(n)
    BY <1>12, <2>1, <2>2
  <2>3. CASE ~ \E n \in Msgs : c2b[x] = RetryPacket(n)
    <3>1. /\ c2b'[a].type = "PUBLISH" /\ c2b'[a].id = 0 /\ c2b'[a].qos = 0
          /\ c2b'[a].pub \in DOMAIN ledger
          /\ ledger[c2b'[a].pub].qos = 0 /\ ledger[c2b'[a].pub].got = 0
      BY <2>1, <2>3 DEF FlightInv, OutgoingMatch
    <3>2. c2b'[a].pub # m.pub
      BY <1>3, <3>1
    <3> QED BY <1>11, <3>1, <3>2
  <2> QED BY <2>2, <2>3
<1>16. IncomingMatch'
  <2> SUFFICES ASSUME NEW b \in DOMAIN b2c'
               PROVE  \E n \in Msgs : /\ b2c'[b] = Ack(n.next, n.id)
                                      /\ ledger'[n.pub].got > 0
                                      /\ n.next = "PUBCOMP" => n.id \notin bstored'
    BY <1>12 DEF IncomingMatch, Got
  <2>1. CASE b2c'[b] = Ack(m.next, p.id)
    BY <1>5, <1>11, <2>1
  <2>2. ASSUME NEW x \in DOMAIN b2c, b2c'[b] = b2c[x]
        PROVE  \E n \in Msgs : /\ b2c'[b] = Ack(n.next, n.id)
                               /\ ledger'[n.pub].got > 0
                               /\ n.next = "PUBCOMP" => n.id \notin bstored'
    <3>1. PICK n \in Msgs : /\ b2c[x] = Ack(n.next, n.id)
                            /\ ledger[n.pub].got > 0
                            /\ n.next = "PUBCOMP" => n.id \notin bstored
      BY DEF FlightInv, IncomingMatch, Got
    <3>2. n.id # m.id
      BY <1>5, <1>14, <3>1, AckFacts
    <3> QED BY <1>7, <1>13, <2>2, <3>1, <3>2
  <2> QED BY <1>14, <2>1, <2>2
<1>17. BrokerMatches'
  <2>1. ASSUME NEW d \in bstored' PROVE \E n \in Msgs : n.id = d /\ n.qos = 2 /\ ledger'[n.pub].got > 0
    <3>1. CASE m.qos = 2 /\ d = m.id
      BY <1>11, <3>1
    <3>2. CASE d \in bstored
      BY <1>13, <3>2 DEF FlightInv, BrokerMatches, Got
    <3> QED BY <1>7, <3>1, <3>2
  <2>2. ASSUME NEW n \in Msgs
        PROVE  /\ n.next = "PUBCOMP" => ledger'[n.pub].got > 0
               /\ n.next = "PUBREC" /\ ledger'[n.pub].got > 0 => n.id \in bstored'
    <3>1. CASE n = m
      BY <1>3, <1>5, <1>7, <3>1 DEF FirstReply
    <3>2. CASE n # m
      <4>1. n.pub # m.pub
        BY <1>3, <3>2
      <4>2. ledger'[n.pub] = ledger[n.pub]
        BY <1>3, <1>11, <4>1
      <4> QED BY <1>7, <4>2 DEF FlightInv, BrokerMatches, Got
    <3> QED BY <3>1, <3>2
  <2> QED BY <1>1, <1>12, <2>1, <2>2 DEF BrokerMatches, Got
<1>18. LedgerTrue'
  <2>1. ledger[m.pub].fate = "inflight"
    BY <1>3
  <2> QED BY <1>3, <1>11, <2>1 DEF FlightInv, LedgerTrue
<1>19. Undisturbed'
  BY <1>1 DEF FlightInv, Undisturbed
<1>20. FlightInv'
  BY <1>14, <1>15, <1>16, <1>17, <1>18, <1>19 DEF FlightInv
<1>21. \/ ledger' = ledger
       \/ \E k \in DOMAIN ledger : Deliver(k) /\ (ledger[k].qos = 1 \/ ledger[k].got = 0)
                                   /\ ledger[k].fate = "inflight"
  BY <1>3, <1>8, <1>10
<1> QED BY <1>20, <1>21

\* The broker lets go of a QoS 2 message, and answers that it did.
LEMMA BrokerPubrelFlight ==
  ASSUME TypeOK, ListInv, HeldInv, FlightInv, brokerPubrel
  PROVE  FlightInv'
<1> DEFINE p == Head(c2b)
<1>1. /\ c2b # <<>> /\ c2b' = Tail(c2b) /\ p.type = "PUBREL"
      /\ bstored' = bstored \ {p.id} /\ Answer("PUBCOMP", p.id)
      /\ UNCHANGED <<outboundMsgs, ledger, bclean, cleansession, left>>
  BY DEF brokerPubrel, session
<1>2. c2b \in Seq(Packet) /\ b2c \in Seq(Reply) /\ 1 \in DOMAIN c2b /\ p = c2b[1]
  BY <1>1, TailFacts DEF TypeOK
<1>3. /\ \A n \in Msgs : n \in Message /\ n.id # 0
      /\ \A n, o \in Msgs : n.id = o.id => n = o
  BY MsgsFacts, MaxMsgIdAssumption DEF Message, MsgIds
<1>4. PICK m \in Msgs : p = RetryPacket(m)
  BY <1>1, <1>2 DEF FlightInv, OutgoingMatch
<1>5. p.id = m.id /\ m.next = "PUBCOMP" /\ p.id # 0
  BY <1>1, <1>3, <1>4, RetryFacts
<1>6. Msgs' = Msgs
  BY <1>1 DEF Msgs
<1> HIDE DEF p
<1>7. /\ OnePacket'
      /\ \A a \in DOMAIN c2b' : c2b'[a].id # p.id /\ \E x \in DOMAIN c2b : c2b'[a] = c2b[x]
      /\ \A b \in DOMAIN b2c' : \/ b2c'[b] = Ack("PUBCOMP", p.id)
                                \/ \E x \in DOMAIN b2c : b2c'[b] = b2c[x]
  BY <1>1, <1>5, AnsweredOne DEF FlightInv, p
<1>8. OutgoingMatch'
  <2> SUFFICES ASSUME NEW a \in DOMAIN c2b'
               PROVE  \/ /\ c2b'[a].type = "PUBLISH" /\ c2b'[a].id = 0 /\ c2b'[a].qos = 0
                         /\ c2b'[a].pub \in DOMAIN ledger
                         /\ ledger[c2b'[a].pub].qos = 0 /\ ledger[c2b'[a].pub].got = 0
                      \/ \E n \in Msgs : c2b'[a] = RetryPacket(n)
    BY <1>1, <1>6 DEF OutgoingMatch
  <2>1. PICK x \in DOMAIN c2b : c2b'[a] = c2b[x]
    BY <1>7
  <2> QED BY <2>1 DEF FlightInv, OutgoingMatch
<1>9. IncomingMatch'
  <2> SUFFICES ASSUME NEW b \in DOMAIN b2c'
               PROVE  \E n \in Msgs : /\ b2c'[b] = Ack(n.next, n.id)
                                      /\ ledger[n.pub].got > 0
                                      /\ n.next = "PUBCOMP" => n.id \notin bstored'
    BY <1>1, <1>6 DEF IncomingMatch, Got
  <2>1. CASE b2c'[b] = Ack("PUBCOMP", p.id)
    BY <1>1, <1>5, <2>1 DEF FlightInv, BrokerMatches, Got
  <2>2. ASSUME NEW x \in DOMAIN b2c, b2c'[b] = b2c[x]
        PROVE  \E n \in Msgs : /\ b2c'[b] = Ack(n.next, n.id)
                               /\ ledger[n.pub].got > 0
                               /\ n.next = "PUBCOMP" => n.id \notin bstored'
    BY <1>1, <2>2 DEF FlightInv, IncomingMatch, Got
  <2> QED BY <1>7, <2>1, <2>2
<1>10. BrokerMatches'
  <2>1. \A d \in bstored' : \E n \in Msgs : n.id = d /\ n.qos = 2 /\ ledger[n.pub].got > 0
    BY <1>1 DEF FlightInv, BrokerMatches, Got
  <2>2. ASSUME NEW n \in Msgs
        PROVE  /\ n.next = "PUBCOMP" => ledger[n.pub].got > 0
               /\ n.next = "PUBREC" /\ ledger[n.pub].got > 0 => n.id \in bstored'
    <3>1. n.next = "PUBREC" => n.id # p.id
      BY <1>3, <1>5
    <3> QED BY <1>1, <3>1 DEF FlightInv, BrokerMatches, Got
  <2>3. bclean' => bstored' = {}
    BY <1>1 DEF FlightInv, BrokerMatches
  <2> QED BY <1>1, <1>6, <2>1, <2>2, <2>3 DEF BrokerMatches, Got
<1>11. LedgerTrue'
  BY <1>1 DEF FlightInv, LedgerTrue
<1>12. Undisturbed'
  BY <1>1 DEF FlightInv, Undisturbed
<1> QED BY <1>7, <1>8, <1>9, <1>10, <1>11, <1>12 DEF FlightInv

-----------------------------------------------------------------------------
(* The steps *)

\* Before the first CONNECT nothing can be sent.
FreshInv == bclean => ~link /\ c2b = <<>>

LEMMA FreshStep ==
  ASSUME KeptSessions, FreshInv, [Next]_vars
  PROVE  FreshInv'
<1>1. CASE publishQoS0
  BY <1>1 DEF publishQoS0, Send, broker, FreshInv
<1>2. ASSUME NEW qos \in 1..2, publish(qos) \/ publishFails(qos)
      PROVE  FreshInv'
  BY <1>2 DEF publish, publishFails, startPublish, Send, broker, FreshInv
<1>3. CASE subscribe
  BY <1>3 DEF subscribe, network, broker, FreshInv
<1>4. CASE receive
  BY <1>4 DEF receive, handlePubacks, handlePubrecs, handlePubcomps, Send, broker, FreshInv
<1>5. CASE retries
  BY <1>5 DEF retries, retry, Send, broker, FreshInv
<1>6. ASSUME NEW cs \in CleanSessions, connect(cs) PROVE FreshInv'
  BY <1>6 DEF connect, BrokerConnect, KeptSessions, FreshInv
<1>7. ASSUME NEW cs \in CleanSessions, NEW stage, connectFails(cs, stage) PROVE FreshInv'
  BY <1>7 DEF connectFails, BrokerConnect, KeptSessions, FreshInv
<1>8. CASE disconnect \/ disconnect_internal
  BY <1>8 DEF disconnect, disconnect_internal, closeSession, broker, FreshInv
<1>9. CASE protocolCloseSession
  BY <1>9 DEF protocolCloseSession, network, broker, FreshInv
<1>10. CASE crash
  BY <1>10 DEF crash, broker, FreshInv
<1>11. CASE linkBreaks
  BY <1>11 DEF linkBreaks, broker, FreshInv
<1>12. CASE brokerStep
  BY <1>12 DEF brokerStep, brokerPublish, brokerPubrel, FreshInv
<1>13. CASE UNCHANGED vars
  BY <1>13 DEF vars, network, broker, FreshInv
<1> QED BY <1>1, <1>2, <1>3, <1>4, <1>5, <1>6, <1>7, <1>8, <1>9, <1>10, <1>11, <1>12, <1>13 DEF Next

\* No session becomes a clean one, and the early retries do not come back.
LEMMA DisturbEarly ==
  ASSUME TypeOK, NEW kind \in Kinds, Disturb(kind), left["early"] = 0
  PROVE  left'["early"] = 0
BY DEF TypeOK, Disturb, Kinds

LEMMA UndisturbedStep ==
  ASSUME KeptSessions, TypeOK, Undisturbed, [Next]_vars
  PROVE  Undisturbed'
<1>1. ~cleansession'
  BY DEF Next, publishQoS0, publish, publishFails, subscribe, receive, handlePubacks, handlePubrecs,
     handlePubcomps, retries, retry, connect, connectFails, disconnect, disconnect_internal,
     closeSession, protocolCloseSession, crash, linkBreaks, brokerStep, brokerPublish, brokerPubrel,
     vars, Undisturbed, KeptSessions
<1>2. left' = left \/ \E kind \in Kinds : Disturb(kind)
  BY DEF Next, publishQoS0, publish, publishFails, subscribe, receive, handlePubacks, handlePubrecs,
     handlePubcomps, retries, retry, connect, connectFails, disconnect, disconnect_internal,
     closeSession, protocolCloseSession, crash, linkBreaks, brokerStep, brokerPublish, brokerPubrel,
     vars, Kinds
<1>3. RetryInterval = 0 \/ left'["early"] = 0
  BY <1>2, DisturbEarly DEF Undisturbed
<1> QED BY <1>1, <1>3 DEF Undisturbed

\* What becomes of the publications in one step.
LedgerStep ==
  \/ UNCHANGED ledger
  \/ \E id \in 0..MaxMsgId, qos \in 0..2 :
       /\ ledger' = Accept(id, qos, IF qos = 0 THEN "qos0" ELSE "inflight")
       /\ Len(outboundMsgs) < MaxInflight
  \/ \E k \in DOMAIN ledger :
       \/ /\ Deliver(k)
          /\ ledger[k].qos = 1 \/ ledger[k].got = 0
          /\ ledger[k].fate \in {"qos0", "inflight"}
       \/ /\ ledger[k].fate = "inflight" /\ ledger[k].got > 0
          /\ ledger' = Settle(ledger, {k}, "completed")

\* Packets are read or lost and no publication is affected.
LEMMA QuietStep ==
  ASSUME FlightInv, UNCHANGED <<outboundMsgs, ledger, bstored>>, bclean' => bclean,
         Among(c2b', c2b), Among(b2c', b2c), Undisturbed'
  PROVE  FlightInv' /\ LedgerStep
<1>1. Msgs' = Msgs
  BY DEF Msgs
<1> QED BY <1>1, SameFlow DEF LedgerStep

LEMMA CloseStep ==
  ASSUME TypeOK, FlightInv, closeSession, Undisturbed'
  PROVE  FlightInv' /\ LedgerStep
<1>1. UNCHANGED <<outboundMsgs, ledger, bstored, bclean, c2b>> /\ b2c' = <<>>
  BY DEF closeSession, session, broker, FlightInv, Undisturbed
<1>2. Among(c2b', c2b) /\ Among(b2c', b2c)
  BY <1>1, AmongFacts DEF TypeOK
<1> QED BY <1>1, <1>2, QuietStep

LEMMA PublishStep ==
  ASSUME TypeOK, ListInv, HeldInv, FlightInv, NEW id \in MsgIds, NEW qos \in 1..2,
         MayPublish, assignMsgId(id), startPublish(id, qos),
         UNCHANGED <<bstored, bclean>>, b2c' = b2c \/ b2c' = <<>>, Undisturbed'
  PROVE  FlightInv' /\ LedgerStep
<1>1. ~HasId(outboundMsgs, id)
  BY DEF assignMsgId
<1>2. FlightInv'
  BY <1>1, PublishFlight
<1>3. id \in 0..MaxMsgId /\ qos \in 0..2 /\ qos # 0
  BY MaxMsgIdAssumption DEF MsgIds
<1>4. ledger' = Accept(id, qos, "inflight") /\ Len(outboundMsgs) < MaxInflight
  BY DEF startPublish, MayPublish
<1> QED BY <1>2, <1>3, <1>4 DEF LedgerStep

LEMMA AckStep ==
  ASSUME TypeOK, ListInv, HeldInv, FlightInv, NEW type \in {"PUBACK", "PUBCOMP"}, Receive(type),
         NEW i \in DOMAIN outboundMsgs, outboundMsgs[i].id = Head(b2c).id, Complete(i),
         UNCHANGED <<c2b, bstored, bclean>>, Undisturbed'
  PROVE  FlightInv' /\ LedgerStep
<1>1. FlightInv' /\ ledger[outboundMsgs[i].pub].got > 0
  BY AckFlight
<1>2. outboundMsgs[i].pub \in DOMAIN ledger /\ ledger[outboundMsgs[i].pub].fate = "inflight"
  BY DEF HeldInv
<1>3. ledger' = Settle(ledger, {outboundMsgs[i].pub}, "completed")
  BY DEF Complete
<1> QED BY <1>1, <1>2, <1>3 DEF LedgerStep

LEMMA ReceiveStep ==
  ASSUME TypeOK, ListInv, HeldInv, FlightInv, receive, Undisturbed'
  PROVE  FlightInv' /\ LedgerStep
<1>1. ASSUME NEW type, Receive(type), UNCHANGED <<outboundMsgs, ledger, c2b, bstored, bclean>>
      PROVE  FlightInv' /\ LedgerStep
  <2>1. Among(c2b', c2b) /\ Among(b2c', b2c)
    BY <1>1, AmongFacts DEF TypeOK, Receive
  <2> QED BY <1>1, <2>1, QuietStep
<1>2. CASE handlePubacks
  <2>1. Receive("PUBACK") /\ UNCHANGED <<c2b, bstored, bclean>>
    BY <1>2 DEF handlePubacks, broker
  <2>2. CASE Ignore
    BY <1>1, <2>1, <2>2 DEF Ignore
  <2>3. CASE ~Ignore
    <3>1. PICK i \in DOMAIN outboundMsgs : outboundMsgs[i].id = Head(b2c).id /\ Complete(i)
      BY <1>2, <2>3 DEF handlePubacks, Matches
    <3> QED BY <2>1, <3>1, AckStep
  <2> QED BY <2>2, <2>3
<1>3. CASE handlePubcomps
  <2>1. Receive("PUBCOMP") /\ UNCHANGED <<c2b, bstored, bclean>>
    BY <1>3 DEF handlePubcomps, broker
  <2>2. CASE Ignore
    BY <1>1, <2>1, <2>2 DEF Ignore
  <2>3. CASE ~Ignore
    <3>1. PICK i \in DOMAIN outboundMsgs : outboundMsgs[i].id = Head(b2c).id /\ Complete(i)
      BY <1>3, <2>3 DEF handlePubcomps, Matches
    <3> QED BY <2>1, <3>1, AckStep
  <2> QED BY <2>2, <2>3
<1>4. CASE handlePubrecs
  <2>1. Receive("PUBREC") /\ UNCHANGED <<ledger, bstored, bclean>>
    BY <1>4 DEF handlePubrecs, broker
  <2>2. CASE UNCHANGED <<outboundMsgs, c2b>>
    BY <1>1, <2>1, <2>2
  <2>3. CASE ~ UNCHANGED <<outboundMsgs, c2b>>
    <3>1. PICK i \in DOMAIN outboundMsgs :
            /\ Matches(i, Head(b2c).id, 2) /\ outboundMsgs[i].next = "PUBREC"
            /\ outboundMsgs' = [outboundMsgs EXCEPT ![i].next = "PUBCOMP"]
            /\ Send(Pubrel(Head(b2c).id))
      BY <1>4, <2>3 DEF handlePubrecs
    <3>2. FlightInv'
      BY <2>1, <3>1, PubrecFlight
    <3> QED BY <2>1, <3>2 DEF LedgerStep
  <2> QED BY <2>2, <2>3
<1> QED BY <1>2, <1>3, <1>4 DEF receive

LEMMA BrokerStep ==
  ASSUME TypeOK, ListInv, HeldInv, FlightInv, FreshInv, brokerStep
  PROVE  FlightInv' /\ LedgerStep
<1>1. ~bclean
  BY DEF FreshInv, brokerStep, brokerPublish, brokerPubrel
<1>2. CASE brokerPublish /\ Head(c2b).qos = 0
  <2> DEFINE k == Head(c2b).pub
  <2>1. FlightInv' /\ k \in DOMAIN ledger /\ Deliver(k) /\ ledger[k].qos = 0 /\ ledger[k].got = 0
    BY <1>2, BrokerQoS0Flight
  <2>2. ledger[k].fate = "qos0"
    BY <2>1 DEF FlightInv, LedgerTrue
  <2> QED BY <2>1, <2>2 DEF LedgerStep
<1>3. CASE brokerPublish /\ Head(c2b).qos # 0
  BY <1>1, <1>3, BrokerPublishFlight DEF LedgerStep
<1>4. CASE brokerPubrel
  <2>1. FlightInv'
    BY <1>4, BrokerPubrelFlight
  <2> QED BY <1>4, <2>1 DEF brokerPubrel, LedgerStep
<1> QED BY <1>2, <1>3, <1>4 DEF brokerStep

LEMMA FlightStep ==
  ASSUME KeptSessions, TypeOK, ListInv, HeldInv, FreshInv, FlightInv, [Next]_vars
  PROVE  FlightInv' /\ LedgerStep
<1>1. Undisturbed'
  BY UndisturbedStep DEF FlightInv
<1>2. Among(c2b, c2b) /\ Among(<<>>, c2b) /\ Among(b2c, b2c) /\ Among(<<>>, b2c)
  BY AmongFacts DEF TypeOK
<1>3. CASE publishQoS0
  <2>1. FlightInv'
    BY <1>1, <1>3, PublishQoS0Flight
  <2>2. ledger' = Accept(0, 0, "qos0") /\ Len(outboundMsgs) < MaxInflight
    BY <1>3 DEF publishQoS0, MayPublish
  <2>3. 0 \in 0..MaxMsgId /\ 0 \in 0..2
    BY MaxMsgIdAssumption
  <2> QED BY <2>1, <2>2, <2>3 DEF LedgerStep
<1>4. ASSUME NEW qos \in 1..2, publish(qos) PROVE FlightInv' /\ LedgerStep
  <2>1. PICK id \in MsgIds : MayPublish /\ assignMsgId(id) /\ startPublish(id, qos)
    BY <1>4 DEF publish
  <2>2. UNCHANGED <<b2c, bstored, bclean>>
    BY <1>4 DEF publish, broker
  <2> QED BY <1>1, <2>1, <2>2, PublishStep
<1>5. ASSUME NEW qos \in 1..2, publishFails(qos) PROVE FlightInv' /\ LedgerStep
  <2>1. PICK id \in MsgIds : MayPublish /\ assignMsgId(id) /\ startPublish(id, qos)
    BY <1>5 DEF publishFails, FlightInv, Undisturbed
  <2>2. UNCHANGED <<bstored, bclean>> /\ b2c' = <<>>
    BY <1>5 DEF publishFails, broker
  <2> QED BY <1>1, <2>1, <2>2, PublishStep
<1>6. CASE subscribe
  <2>1. UNCHANGED <<outboundMsgs, ledger, bstored, bclean, c2b, b2c>>
    BY <1>6 DEF subscribe, network, broker
  <2> QED BY <1>1, <1>2, <2>1, QuietStep
<1>7. CASE receive
  BY <1>1, <1>7, ReceiveStep
<1>8. CASE retries
  <2>1. PICK i \in DOMAIN outboundMsgs : retry(i)
    BY <1>8 DEF retries
  <2>2. FlightInv' /\ UNCHANGED ledger
    BY <2>1, RetryFlight DEF retry
  <2> QED BY <2>2 DEF LedgerStep
<1>9. ASSUME NEW cs \in CleanSessions, connect(cs) PROVE FlightInv' /\ LedgerStep
  <2>1. connect(FALSE)
    BY <1>9 DEF KeptSessions
  <2>2. FlightInv' /\ UNCHANGED ledger
    BY <2>1, ReconnectFlight DEF connect
  <2> QED BY <2>2 DEF LedgerStep
<1>10. ASSUME NEW cs \in CleanSessions, NEW stage, connectFails(cs, stage) PROVE FlightInv' /\ LedgerStep
  <2>1. connectFails(FALSE, stage)
    BY <1>10 DEF KeptSessions
  <2>2. UNCHANGED <<outboundMsgs, ledger, b2c>> /\ (c2b' = <<>> \/ c2b' = c2b)
    BY <2>1 DEF connectFails, session
  <2>3. bstored' = bstored /\ (bclean' => bclean)
    BY <2>1 DEF connectFails, BrokerConnect, FlightInv, BrokerMatches
  <2> QED BY <1>1, <1>2, <2>2, <2>3, QuietStep
<1>11. CASE disconnect \/ disconnect_internal
  BY <1>1, <1>11, CloseStep DEF disconnect, disconnect_internal
<1>12. CASE protocolCloseSession
  <2>1. UNCHANGED <<outboundMsgs, ledger, bstored, bclean, c2b, b2c>>
    BY <1>12 DEF protocolCloseSession, session, network, broker
  <2> QED BY <1>1, <1>2, <2>1, QuietStep
<1>13. CASE crash
  <2>1. Msgs' = Msgs /\ ledger' = ledger
    BY <1>13, RestartMsgs, RestartLedger DEF KeptSessions
  <2>2. UNCHANGED <<bstored, bclean, c2b>> /\ b2c' = <<>>
    BY <1>13 DEF crash, broker
  <2>3. FlightInv'
    BY <1>1, <1>2, <2>1, <2>2, SameFlow
  <2> QED BY <2>1, <2>3 DEF LedgerStep
<1>14. CASE linkBreaks
  <2>1. UNCHANGED <<outboundMsgs, ledger, bstored, bclean>> /\ c2b' = <<>>
    BY <1>14 DEF linkBreaks, session, broker
  <2>2. PICK n \in 0..Len(b2c) : b2c' = Front(b2c, n)
    BY <1>14 DEF linkBreaks
  <2>3. Among(b2c', b2c)
    BY <2>2, AmongFacts DEF TypeOK
  <2> QED BY <1>1, <1>2, <2>1, <2>3, QuietStep
<1>15. CASE brokerStep
  BY <1>15, BrokerStep
<1>16. CASE UNCHANGED vars
  <2>1. UNCHANGED <<outboundMsgs, ledger, bstored, bclean, c2b, b2c>>
    BY <1>16 DEF vars, session, network, broker
  <2> QED BY <1>1, <1>2, <2>1, QuietStep
<1> QED BY <1>3, <1>4, <1>5, <1>6, <1>7, <1>8, <1>9, <1>10, <1>11, <1>12, <1>13, <1>14, <1>15, <1>16 DEF Next

-----------------------------------------------------------------------------
(* The order of the deliveries *)

\* The earlier publications that are still in flight were in the window with k.
Ahead(k) == {j \in 1..(k - 1) : ledger[j].fate = "inflight"}
QueueInv == \A k \in DOMAIN ledger : ledger[k].qos > 0 => Cardinality(Ahead(k)) < MaxInflight

LEMMA LedgerEffects ==
  ASSUME TypeOK, LedgerStep
  PROVE  /\ \A k \in DOMAIN ledger : /\ k \in DOMAIN ledger' /\ ledger'[k].qos = ledger[k].qos
                                     /\ ledger'[k].fate = "inflight" => ledger[k].fate = "inflight"
         /\ \A k \in DOMAIN ledger' : \/ k \in DOMAIN ledger
                                      \/ k = Len(ledger) + 1 /\ Len(outboundMsgs) < MaxInflight
<1>1. CASE UNCHANGED ledger
  BY <1>1
<1>2. ASSUME NEW id \in 0..MaxMsgId, NEW qos \in 0..2,
             ledger' = Accept(id, qos, IF qos = 0 THEN "qos0" ELSE "inflight"),
             Len(outboundMsgs) < MaxInflight
      PROVE  /\ \A k \in DOMAIN ledger : k \in DOMAIN ledger' /\ ledger'[k] = ledger[k]
             /\ \A k \in DOMAIN ledger' : k \in DOMAIN ledger \/ k = Len(ledger) + 1
  <2> DEFINE fate == IF qos = 0 THEN "qos0" ELSE "inflight"
  <2>1. ledger' = Accept(id, qos, fate)
    BY <1>2
  <2> HIDE DEF fate
  <2>2. /\ DOMAIN Accept(id, qos, fate) = DOMAIN ledger \cup {Len(ledger) + 1}
        /\ \A k \in DOMAIN ledger : Accept(id, qos, fate)[k] = ledger[k]
    BY AppendFacts DEF Accept, TypeOK
  <2> QED BY <2>1, <2>2
<1>3. ASSUME NEW k \in DOMAIN ledger, Deliver(k)
      PROVE  /\ DOMAIN ledger' = DOMAIN ledger
             /\ \A j \in DOMAIN ledger : ledger'[j].qos = ledger[j].qos /\ ledger'[j].fate = ledger[j].fate
  BY <1>3, DeliverEffect
<1>4. ASSUME NEW k \in DOMAIN ledger, ledger' = Settle(ledger, {k}, "completed")
      PROVE  /\ DOMAIN ledger' = DOMAIN ledger
             /\ \A j \in DOMAIN ledger : /\ ledger'[j].qos = ledger[j].qos
                                         /\ ledger'[j].fate = "inflight" => ledger[j].fate = "inflight"
  BY <1>4, SettleEffect DEF TypeOK, Fates
<1> QED BY <1>1, <1>2, <1>3, <1>4 DEF LedgerStep

LEMMA UpTo ==
  ASSUME NEW n \in Nat
  PROVE  IsFiniteSet(1..n) /\ Cardinality(1..n) = n
<1>1. 1 \in Int /\ n \in Int
  OBVIOUS
<1>2. IsFiniteSet(1..n) /\ Cardinality(1..n) = IF 1 > n THEN 0 ELSE n - 1 + 1
  BY <1>1, FS_Interval, Zenon
<1>3. n = IF 1 > n THEN 0 ELSE n - 1 + 1
  OBVIOUS
<1> QED BY <1>2, <1>3

\* The publications in flight fit in the list.
LEMMA InflightFits ==
  ASSUME TypeOK, HeldInv, NEW S \in SUBSET DOMAIN ledger, \A k \in S : ledger[k].fate = "inflight"
  PROVE  Cardinality(S) <= Len(outboundMsgs)
<1> DEFINE n == Len(outboundMsgs)
           I == {outboundMsgs[i].pub : i \in 1..n}
<1>1. n \in Nat /\ DOMAIN outboundMsgs = 1..n
  BY LenProperties DEF TypeOK
<1>2. IsFiniteSet(1..n) /\ Cardinality(1..n) = n
  BY <1>1, UpTo
<1>3. IsFiniteSet(I) /\ Cardinality(I) <= Cardinality(1..n)
  <2> DEFINE g == [i \in 1..n |-> outboundMsgs[i].pub]
  <2>1. g \in Surjection(1..n, I)
    BY DEF Surjection
  <2> HIDE DEF I, n, g
  <2> QED BY <1>2, <2>1, FS_Surjection
<1>4. S \subseteq I
  BY <1>1 DEF HeldInv
<1> HIDE DEF I, n
<1>5. IsFiniteSet(S) /\ Cardinality(S) <= Cardinality(I)
  BY <1>3, <1>4, FS_Subset
<1>6. Cardinality(S) \in Nat /\ Cardinality(I) \in Nat
  BY <1>3, <1>5, FS_CardinalityType
<1> QED BY <1>1, <1>2, <1>3, <1>5, <1>6 DEF n

LEMMA QueueStep ==
  ASSUME TypeOK, HeldInv, QueueInv, LedgerStep
  PROVE  QueueInv'
<1> SUFFICES ASSUME NEW k \in DOMAIN ledger', ledger'[k].qos > 0
             PROVE  Cardinality(Ahead(k)') < MaxInflight
  BY DEF QueueInv
<1>1. Len(ledger) \in Nat /\ DOMAIN ledger = 1..Len(ledger) /\ Len(outboundMsgs) \in Nat
  BY LenProperties DEF TypeOK
<1>2. /\ \A j \in DOMAIN ledger : /\ ledger'[j].qos = ledger[j].qos
                                  /\ ledger'[j].fate = "inflight" => ledger[j].fate = "inflight"
      /\ k \in DOMAIN ledger \/ (k = Len(ledger) + 1 /\ Len(outboundMsgs) < MaxInflight)
  BY LedgerEffects
<1>3. Ahead(k)' = {j \in 1..(k - 1) : ledger'[j].fate = "inflight"}
  BY DEF Ahead
<1>4. CASE k \in DOMAIN ledger
  <2>1. Ahead(k)' \subseteq Ahead(k)
    BY <1>1, <1>2, <1>3, <1>4 DEF Ahead
  <2>2. IsFiniteSet(Ahead(k))
    <3>1. k - 1 \in Nat /\ Ahead(k) \subseteq 1..(k - 1)
      BY <1>1, <1>4 DEF Ahead
    <3> QED BY <3>1, UpTo, FS_Subset
  <2>3. IsFiniteSet(Ahead(k)') /\ Cardinality(Ahead(k)') <= Cardinality(Ahead(k))
    BY <2>1, <2>2, FS_Subset
  <2>4. Cardinality(Ahead(k)) < MaxInflight
    BY <1>2, <1>4 DEF QueueInv
  <2>5. Cardinality(Ahead(k)) \in Nat /\ Cardinality(Ahead(k)') \in Nat
    BY <2>2, <2>3, FS_CardinalityType
  <2> QED BY <2>3, <2>4, <2>5, MaxInflightAssumption, MaxMsgIdAssumption
<1>5. CASE k = Len(ledger) + 1 /\ Len(outboundMsgs) < MaxInflight
  <2>1. Ahead(k)' \subseteq DOMAIN ledger /\ \A j \in Ahead(k)' : ledger[j].fate = "inflight"
    BY <1>1, <1>2, <1>3, <1>5
  <2> HIDE DEF Ahead
  <2>2. Cardinality(Ahead(k)') <= Len(outboundMsgs)
    BY <2>1, InflightFits
  <2>3. Cardinality(Ahead(k)') \in Nat
    <3>1. IsFiniteSet(1..Len(ledger))
      BY <1>1, UpTo
    <3>2. IsFiniteSet(Ahead(k)')
      BY <1>1, <2>1, <3>1, FS_Subset
    <3> QED BY <3>2, FS_CardinalityType
  <2> QED BY <1>1, <1>5, <2>2, <2>3, MaxInflightAssumption, MaxMsgIdAssumption
<1> QED BY <1>2, <1>4, <1>5

\* A delivered publication has overtaken only what is ahead of it in the window.
LEMMA QueueOrder ==
  ASSUME TypeOK, LedgerTrue, QueueInv
  PROVE  DeliveredInOrder
<1> SUFFICES ASSUME NEW k \in DOMAIN ledger, ledger[k].qos > 0
             PROVE  Cardinality(Overtaken(k)) < MaxInflight
  BY DEF DeliveredInOrder
<1>1. Len(ledger) \in Nat /\ DOMAIN ledger = 1..Len(ledger) /\ \A j \in DOMAIN ledger : ledger[j] \in Entry
  BY LenProperties, ElementOfSeq DEF TypeOK
<1>2. ASSUME NEW j \in Overtaken(k) PROVE j \in Ahead(k)
  <2>1. /\ j \in 1..(k - 1) /\ j \in DOMAIN ledger /\ ledger[j].qos > 0 /\ ledger[j].got = 0
        /\ ledger[j].fate # "dropped"
    BY <1>1 DEF Overtaken
  <2>2. ledger[j].fate \in Fates
    BY <1>1, <2>1 DEF Entry
  <2>3. ledger[j].fate # "completed" /\ ledger[j].fate # "qos0"
    BY <2>1 DEF LedgerTrue
  <2> QED BY <2>1, <2>2, <2>3 DEF Ahead, Fates
<1>3. IsFiniteSet(Ahead(k))
  <2>1. k - 1 \in Nat /\ Ahead(k) \subseteq 1..(k - 1)
    BY <1>1 DEF Ahead
  <2> QED BY <2>1, UpTo, FS_Subset
<1>4. IsFiniteSet(Overtaken(k)) /\ Cardinality(Overtaken(k)) <= Cardinality(Ahead(k))
  <2>1. Overtaken(k) \subseteq Ahead(k)
    BY <1>2
  <2> QED BY <1>3, <2>1, FS_Subset
<1>5. Cardinality(Ahead(k)) \in Nat /\ Cardinality(Overtaken(k)) \in Nat
  BY <1>3, <1>4, FS_CardinalityType
<1>6. Cardinality(Ahead(k)) < MaxInflight
  BY DEF QueueInv
<1> QED BY <1>4, <1>5, <1>6, MaxInflightAssumption, MaxMsgIdAssumption

-----------------------------------------------------------------------------
(* The refinement: every step is one of Delivery's, or none *)

View(e) == [qos |-> e.qos, fate |-> e.fate, got |-> e.got]
Promised == [k \in DOMAIN ledger |-> View(ledger[k])]

LEMMA PromisedFacts ==
  ASSUME TypeOK
  PROVE  /\ Len(ledger) \in Nat /\ DOMAIN ledger = 1..Len(ledger)
         /\ Promised \in Seq([qos : 0..2, fate : Fates, got : Nat])
         /\ Len(Promised) = Len(ledger) /\ DOMAIN Promised = DOMAIN ledger
         /\ \A k \in DOMAIN ledger :
              /\ ledger[k] \in Entry
              /\ Promised[k] = View(ledger[k])
              /\ Promised[k].qos = ledger[k].qos /\ Promised[k].fate = ledger[k].fate
              /\ Promised[k].got = ledger[k].got
<1>1. /\ Len(ledger) \in Nat /\ DOMAIN ledger = 1..Len(ledger)
      /\ \A k \in DOMAIN ledger : ledger[k] \in Entry
  BY LenProperties, ElementOfSeq DEF TypeOK
<1>2. \A e \in Entry : View(e) \in [qos : 0..2, fate : Fates, got : Nat]
  BY DEF Entry, View
<1>3. Promised \in [1..Len(ledger) -> [qos : 0..2, fate : Fates, got : Nat]]
  BY <1>1, <1>2 DEF Promised
<1>4. /\ Promised \in Seq([qos : 0..2, fate : Fates, got : Nat])
      /\ Len(Promised) = Len(ledger) /\ DOMAIN Promised = DOMAIN ledger
  <2>1. PICK n \in Nat : n = Len(ledger)
    BY <1>1
  <2>2. PICK V : V = [qos : 0..2, fate : Fates, got : Nat]
    OBVIOUS
  <2>3. PICK f \in [1..n -> V] : f = Promised
    BY <1>3, <2>1, <2>2
  <2>4. f \in Seq(V) /\ Len(f) = n /\ DOMAIN f = 1..n
    BY FunctionIsSeq
  <2> QED BY <1>1, <2>1, <2>2, <2>3, <2>4
<1>5. \A k \in DOMAIN ledger :
        /\ Promised[k] = View(ledger[k])
        /\ Promised[k].qos = ledger[k].qos /\ Promised[k].fate = ledger[k].fate
        /\ Promised[k].got = ledger[k].got
  BY DEF Promised, View
<1> QED BY <1>1, <1>4, <1>5

LEMMA AcceptPromised ==
  ASSUME TypeOK, NEW id, NEW qos \in 0..2, NEW fate \in Fates, ledger' = Accept(id, qos, fate)
  PROVE  Promised' = Append(Promised, [qos |-> qos, fate |-> fate, got |-> 0])
<1> DEFINE n == Len(ledger)
           e == [id |-> id, qos |-> qos, fate |-> fate, got |-> 0]
           v == [qos |-> qos, fate |-> fate, got |-> 0]
<1>1. n \in Nat /\ DOMAIN ledger = 1..n /\ Len(Promised) = n /\ DOMAIN Promised = 1..n
      /\ \A k \in 1..n : Promised[k] = View(ledger[k])
  BY PromisedFacts
<1>2. /\ DOMAIN ledger' = 1..(n + 1) /\ ledger'[n + 1] = e
      /\ \A k \in 1..n : ledger'[k] = ledger[k]
  <2>1. ledger \in Seq(Entry) /\ ledger' = Append(ledger, e)
    BY DEF TypeOK, Accept
  <2> HIDE DEF e
  <2>2. /\ DOMAIN ledger' = DOMAIN ledger \cup {n + 1} /\ ledger'[n + 1] = e
        /\ \A k \in DOMAIN ledger : ledger'[k] = ledger[k]
    BY <2>1, AppendFacts
  <2> QED BY <1>1, <2>2
<1> DEFINE S == [qos : 0..2, fate : Fates, got : Nat]
<1>3. View(e) = v /\ v \in S /\ Promised \in Seq(S)
  BY PromisedFacts DEF View
<1> HIDE DEF n, e, v, S
<1>4. Promised' = [k \in 1..(n + 1) |-> IF k = n + 1 THEN v ELSE Promised[k]]
  <2>1. Promised' = [k \in DOMAIN ledger' |-> View(ledger'[k])]
    BY DEF Promised
  <2>2. \A k \in 1..(n + 1) : View(ledger'[k]) = IF k = n + 1 THEN v ELSE Promised[k]
    BY <1>1, <1>2, <1>3
  <2> QED BY <1>2, <2>1, <2>2
<1>5. Append(Promised, v) = [k \in 1..(n + 1) |-> IF k = n + 1 THEN v ELSE Promised[k]]
  <2>1. /\ Append(Promised, v) \in Seq(S) /\ Len(Append(Promised, v)) = n + 1
        /\ \A k \in 1..n : Append(Promised, v)[k] = Promised[k]
        /\ Append(Promised, v)[n + 1] = v
    BY <1>1, <1>3, AppendProperties
  <2>2. Append(Promised, v) \in [1..(n + 1) -> S]
    BY <2>1, LenProperties
  <2>3. \A k \in 1..(n + 1) : Append(Promised, v)[k] = IF k = n + 1 THEN v ELSE Promised[k]
    BY <1>1, <2>1
  <2> QED BY <2>2, <2>3
<1> QED BY <1>4, <1>5 DEF v

LEMMA DeliverPromised ==
  ASSUME TypeOK, NEW k \in DOMAIN ledger, Deliver(k)
  PROVE  Promised' = [Promised EXCEPT ![k].got = @ + 1]
<1>1. /\ DOMAIN ledger' = DOMAIN ledger
      /\ \A j \in DOMAIN ledger : j # k => ledger'[j] = ledger[j]
      /\ ledger'[k].qos = ledger[k].qos /\ ledger'[k].fate = ledger[k].fate
      /\ ledger'[k].got = ledger[k].got + 1
  BY DeliverEffect
<1>2. /\ DOMAIN Promised = DOMAIN ledger
      /\ \A j \in DOMAIN ledger : Promised[j] = View(ledger[j])
  BY PromisedFacts
<1>3. View(ledger'[k]) = [Promised[k] EXCEPT !.got = @ + 1]
  BY <1>1, <1>2 DEF View
<1>4. Promised' = [j \in DOMAIN ledger |-> View(ledger'[j])]
  BY <1>1 DEF Promised
<1>5. Promised = [j \in DOMAIN ledger |-> View(ledger[j])]
  BY DEF Promised
<1> QED BY <1>1, <1>2, <1>3, <1>4, <1>5

LEMMA CompletePromised ==
  ASSUME TypeOK, NEW k \in DOMAIN ledger, ledger[k].fate = "inflight",
         ledger' = Settle(ledger, {k}, "completed")
  PROVE  Promised' = [j \in DOMAIN Promised |->
                        IF j \in {k} THEN [Promised[j] EXCEPT !.fate = "completed"] ELSE Promised[j]]
<1>1. /\ DOMAIN Promised = DOMAIN ledger
      /\ \A j \in DOMAIN ledger : Promised[j] = View(ledger[j]) /\ ledger[j] \in Entry
  BY PromisedFacts
<1>2. /\ DOMAIN ledger' = DOMAIN ledger
      /\ \A j \in DOMAIN ledger :
           ledger'[j] = IF j = k THEN [ledger[j] EXCEPT !.fate = "completed"] ELSE ledger[j]
  BY DEF Settle
<1>3. View(ledger'[k]) = [Promised[k] EXCEPT !.fate = "completed"]
  <2>1. ledger[k] \in Entry /\ ledger'[k] = [ledger[k] EXCEPT !.fate = "completed"]
    BY <1>1, <1>2
  <2>2. ledger'[k].qos = ledger[k].qos /\ ledger'[k].got = ledger[k].got /\ ledger'[k].fate = "completed"
    BY <2>1 DEF Entry
  <2> QED BY <1>1, <2>2 DEF View
<1>4. Promised' = [j \in DOMAIN ledger |-> View(ledger'[j])]
  BY <1>2 DEF Promised
<1>5. \A j \in DOMAIN ledger : View(ledger'[j]) =
        IF j \in {k} THEN [Promised[j] EXCEPT !.fate = "completed"] ELSE Promised[j]
  BY <1>1, <1>2, <1>3
<1> QED BY <1>1, <1>4, <1>5

LEMMA PromiseStep ==
  ASSUME TypeOK, LedgerTrue, LedgerStep
  PROVE  [Promise!Next]_Promised
<1>1. CASE UNCHANGED ledger
  BY <1>1 DEF Promised
<1>2. ASSUME NEW id \in 0..MaxMsgId, NEW qos \in 0..2,
             ledger' = Accept(id, qos, IF qos = 0 THEN "qos0" ELSE "inflight")
      PROVE  Promise!Accept
  <2> DEFINE fate == IF qos = 0 THEN "qos0" ELSE "inflight"
  <2>1. Promised' = Append(Promised, [qos |-> qos, fate |-> fate, got |-> 0])
    <3>1. fate \in Fates /\ ledger' = Accept(id, qos, fate)
      BY <1>2 DEF Fates
    <3> HIDE DEF fate
    <3> QED BY <3>1, AcceptPromised
  <2>2. CASE qos = 0
    BY <2>1, <2>2 DEF Promise!Accept, Promise!Publication, Promised, View
  <2>3. CASE qos \in 1..2
    BY <2>1, <2>3 DEF Promise!Accept, Promise!Publication, Promised, View
  <2> QED BY <2>2, <2>3
<1>3. ASSUME NEW k \in DOMAIN ledger, Deliver(k), ledger[k].qos = 1 \/ ledger[k].got = 0,
             ledger[k].fate \in {"qos0", "inflight"}
      PROVE  k \in DOMAIN Promised /\ Promise!Deliver(k)
  <2>1. Promised' = [Promised EXCEPT ![k].got = @ + 1]
    BY <1>3, DeliverPromised
  <2>2. /\ k \in DOMAIN Promised
        /\ Promised[k].qos = 1 \/ (Promised[k].got = 0 /\ Promised[k].fate # "completed")
    BY <1>3, PromisedFacts
  <2> QED BY <2>1, <2>2 DEF Promise!Deliver, Promised, View
<1>4. ASSUME NEW k \in DOMAIN ledger, ledger[k].fate = "inflight", ledger[k].got > 0,
             ledger' = Settle(ledger, {k}, "completed")
      PROVE  k \in DOMAIN Promised /\ Promise!Complete(k)
  <2>1. Promised' = [j \in DOMAIN Promised |->
                       IF j \in {k} THEN [Promised[j] EXCEPT !.fate = "completed"] ELSE Promised[j]]
    BY <1>4, CompletePromised
  <2>2. k \in DOMAIN Promised /\ Promised[k].fate = "inflight" /\ Promised[k].got > 0
    BY <1>4, PromisedFacts
  <2> QED BY <2>1, <2>2 DEF Promise!Complete, Promise!InFlight, Promise!Settled, Promised, View
<1> QED BY <1>1, <1>2, <1>3, <1>4 DEF LedgerStep, Promise!Next, Promised, View

-----------------------------------------------------------------------------
(* The theorems *)

DeliveryInv == SessionInv /\ HeldInv /\ FreshInv /\ FlightInv /\ QueueInv

LEMMA DeliveryInit ==
  ASSUME PatientRetries, Init
  PROVE  DeliveryInv
<1>1. SessionInv
  <2>1. DOMAIN outboundMsgs = {} /\ Len(outboundMsgs) = 0 /\ sent = {} /\ rel = {}
    BY DEF Init
  <2> QED BY <2>1, InitTypeOK, MaxInflightAssumption, MaxMsgIdAssumption
          DEF SessionInv, ListInv, UniqueIds, WindowKept, MessageShape, StoreMirrorsList, NoStoreUnused
<1>2. /\ DOMAIN outboundMsgs = {} /\ DOMAIN ledger = {} /\ DOMAIN c2b = {} /\ DOMAIN b2c = {}
      /\ bstored = {} /\ Msgs = {} /\ ~link /\ c2b = <<>> /\ ~cleansession
  BY DEF Init, Msgs
<1>3. HeldInv /\ FreshInv /\ QueueInv
  BY <1>2 DEF HeldInv, FreshInv, QueueInv
<1>4. Undisturbed
  BY <1>2 DEF Init, PatientRetries, Undisturbed
<1>5. FlightInv
  BY <1>2, <1>4 DEF FlightInv, OutgoingMatch, IncomingMatch, OnePacket, OnePacketIn, BrokerMatches, LedgerTrue
<1> QED BY <1>1, <1>3, <1>5 DEF DeliveryInv

LEMMA DeliveryStep ==
  ASSUME KeptSessions, DeliveryInv, [Next]_vars
  PROVE  DeliveryInv' /\ LedgerStep
<1>1. TypeOK /\ ListInv /\ HeldInv /\ FreshInv /\ FlightInv /\ QueueInv
  BY DEF DeliveryInv, SessionInv
<1>2. SessionInv' /\ HeldInv' /\ FreshInv'
  BY <1>1, TypeStep, ListStep, HeldStep, FreshStep DEF SessionInv
<1>3. FlightInv' /\ LedgerStep
  BY <1>1, FlightStep
<1>4. QueueInv'
  BY <1>1, <1>3, QueueStep
<1> QED BY <1>2, <1>3, <1>4 DEF DeliveryInv

\* In a kept session with a store, and with retries that wait for the answers,
\* what is under way always fits what the list, the broker and the history say.
THEOREM DeliverySafe ==
  ASSUME KeptSessions, PatientRetries
  PROVE  Spec => []DeliveryInv
<1>1. Init => DeliveryInv
  BY DeliveryInit
<1>2. DeliveryInv /\ [Next]_vars => DeliveryInv'
  BY DeliveryStep
<1> QED BY <1>1, <1>2, PTL DEF Spec

\* Through any number of losses and restarts, every publication is delivered
\* as its quality of service promises and none is given up: at most once for
\* QoS 0, at least once for QoS 1, exactly once for QoS 2, before
\* handlePubacks or handlePubcomps counts it as completed.
THEOREM DeliveryImplemented ==
  ASSUME KeptSessions, PatientRetries
  PROVE  Spec => PromiseKept
<1>1. Init => Promise!Init
  <2> SUFFICES ASSUME Init PROVE Promised = <<>>
    BY DEF Promise!Init, Promised, View
  <2>1. ledger = <<>>
    BY DEF Init
  <2> QED BY <2>1 DEF Promised
<1>2. DeliveryInv /\ [Next]_vars => [Promise!Next]_Promised
  <2> SUFFICES ASSUME DeliveryInv, [Next]_vars PROVE [Promise!Next]_Promised
    OBVIOUS
  <2>1. TypeOK /\ LedgerTrue /\ LedgerStep
    BY DeliveryStep DEF DeliveryInv, SessionInv, FlightInv
  <2> QED BY <2>1, PromiseStep
<1> QED BY <1>1, <1>2, DeliverySafe, PTL DEF Spec, PromiseKept, Promise!Spec, Promised, View

\* MQTTCLIENT_SUCCESS of MQTTClient_waitForCompletion means that the message
\* was delivered, also when the client lost its connection meanwhile.
THEOREM WaitedDelivered ==
  ASSUME KeptSessions, PatientRetries
  PROVE  Spec => []WaitedWasDelivered
<1>1. DeliveryInv => WaitedWasDelivered
  <2> SUFFICES ASSUME DeliveryInv, NEW k \in DOMAIN ledger, NEW first \in BOOLEAN, ledger[k].qos > 0,
                      waitForCompletion(ledger[k].id, first) = "SUCCESS"
               PROVE  ledger[k].got > 0
    BY DEF WaitedWasDelivered
  <2>1. ~HasId(outboundMsgs, ledger[k].id)
    BY DEF waitForCompletion
  <2>2. ledger[k].fate # "inflight"
    BY <2>1 DEF DeliveryInv, HeldInv, HasId
  <2>3. ledger[k].fate \in Fates
    <3>1. ledger[k] \in Entry
      BY ElementOfSeq DEF DeliveryInv, SessionInv, TypeOK
    <3> QED BY <3>1 DEF Entry
  <2>4. ledger[k].fate # "dropped" /\ ledger[k].fate # "qos0"
    BY DEF DeliveryInv, FlightInv, LedgerTrue
  <2> QED BY <2>2, <2>3, <2>4 DEF DeliveryInv, FlightInv, LedgerTrue, Fates
<1> QED BY <1>1, DeliverySafe, PTL

\* A resend that stops half way lets a publication overtake others, but never
\* as many as the in-flight window holds.
THEOREM InOrder ==
  ASSUME KeptSessions, PatientRetries
  PROVE  Spec => []DeliveredInOrder
<1>1. DeliveryInv => DeliveredInOrder
  BY QueueOrder DEF DeliveryInv, SessionInv, FlightInv
<1> QED BY <1>1, DeliverySafe, PTL
=============================================================================
