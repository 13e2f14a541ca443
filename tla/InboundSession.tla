---------------------------- MODULE InboundSession ----------------------------
(***************************************************************************)
(* The receiving half of one MQTT client session: what becomes of a        *)
(* message the broker publishes, from its packet through the inbound list, *)
(* the message queue and their records in the persistent store, to the     *)
(* application, which takes it from MQTTClient_receive or is handed it by  *)
(* the messageArrived callback of the run thread.                          *)
(*                                                                         *)
(* mqttclient_mutex keeps other threads out of a handler, but the process  *)
(* may end inside one: a handler is split where it has written to the      *)
(* network or to the store.  The mutex is free while the callback runs.    *)
(***************************************************************************)
EXTENDS Integers, Sequences, FiniteSets

CONSTANTS MaxMsgId,       \* external: the ids the broker gives its messages
          Callback,       \* whether messageArrived is set, else MQTTClient_receive
          Persistent,     \* whether the client has a persistent store
          CleanSessions,  \* the values of cleansession the application connects with
          Versions,       \* external: the versions of MQTT a broker may speak, 3 (3.1) or 4 (3.1.1)
          Qoss,           \* the qualities of service of the messages
          MaxPublish,     \* bound: messages published
          Limit           \* bound: disturbances of each kind

Kinds == {"loss",      \* the connection, or a connect call, fails or is ended
          "restart",   \* the process ends and starts again
          "refuse"}    \* messageArrived returns false

ASSUME MaxMsgIdAssumption == MaxMsgId \in Nat \ {0}
ASSUME OptionsAssumption == /\ Callback \in BOOLEAN /\ Persistent \in BOOLEAN
                            /\ Versions \subseteq 3..4 /\ CleanSessions \subseteq BOOLEAN
ASSUME QossAssumption == Qoss \subseteq 0..2
ASSUME BoundsAssumption == MaxPublish \in Nat /\ Limit \in [Kinds -> Nat]

VARIABLES
  inboundMsgs,   \* the QoS 2 publications that wait for their PUBREL
  messageQueue,  \* the messages the application has not taken, oldest first
  qentry_seqno,  \* the number of the last queue entry
  rcvd,          \* persistent store, keys "r-<id>": the QoS 2 PUBLISHes received
  queued,        \* persistent store, keys "q-<seqno>": the queue entries
  step, cur, ok, \* where the receiving thread is, on what, and whether its sends went out
  connected,     \* CONNACK received and the session not closed since
  cleansession,  \* cleansession of the last connect call
  version,       \* external: the version of MQTT the broker speaks
  link,          \* external: the TCP connection is up
  c2b, b2c,      \* external: the bytes in flight, client to broker and back
  unacked,       \* external: the broker's own in-flight list
  ledger,        \* history: what became of each message
  used           \* bound: how much of each Limit is used

memory  == <<inboundMsgs, messageQueue, qentry_seqno>>
store   == <<rcvd, queued>>
thread  == <<step, cur, ok>>
conn    == <<connected, cleansession, version>>
network == <<link, c2b, b2c>>
vars == <<memory, store, thread, conn, network, unacked, ledger, used>>

MsgIds == 1..MaxMsgId
Pubs   == Nat \ {0}
Inbound == [id : MsgIds, pub : Pubs]
Msg     == [id : {0}, qos : {0}, pub : Pubs] \cup [id : MsgIds, qos : 1..2, pub : Pubs]
Called  == [id : {0}, qos : 0..2, pub : Pubs]
QEntry  == [seqno : Nat, qos : 0..2, pub : Pubs]
Packet  == [type : {"PUBLISH"}, msg : Msg]
             \cup [type : {"PUBREL"}, id : MsgIds, dup : BOOLEAN] \cup [type : {"PINGRESP"}]
Ack     == [type : {"PUBACK", "PUBREC", "PUBCOMP"}, id : MsgIds]
Unacked == [id : MsgIds, qos : 1..2, pub : Pubs, released : BOOLEAN]
Steps   == {"idle",     \* in MQTTClient_cycle, waiting for a packet
            "pubrec",   \* a QoS 2 PUBLISH is stored, MQTTPacket_Factory has returned
            "process",  \* the acknowledgement is sent, Protocol_processPublication comes next
            "release",  \* the PUBCOMP is sent, Protocol_processPublication comes next
            "forget",   \* the released message is queued, its record still there
            "call",     \* MQTTClient_run is about to look at the queue
            "called",   \* messageArrived is running
            "error",    \* MQTTClient_cycle returned SOCKET_ERROR
            "failed"}   \* ... and MQTTClient_receive has taken its message all the same
Entry   == [qos : 0..2, fate : {"open", "settled", "dropped"}, got : Nat]
Nobody  == [id |-> 0, qos |-> 0, pub |-> 1]

Remove(s, i) == [j \in 1..(Len(s) - 1) |-> IF j < i THEN s[j] ELSE s[j + 1]]
Send(type, id) == c2b' = IF link THEN Append(c2b, [type |-> type, id |-> id]) ELSE c2b
Disturb(kind) == used[kind] < Limit[kind] /\ used' = [used EXCEPT ![kind] = @ + 1]
HandOver(pub) == ledger' = [ledger EXCEPT ![pub].got = @ + 1]
Drop(P) == [k \in DOMAIN ledger |-> IF k \in P /\ ledger[k].fate = "open"
                                      THEN [ledger[k] EXCEPT !.fate = "dropped"] ELSE ledger[k]]

-----------------------------------------------------------------------------
(* Packets *)

Receive(type) == /\ connected /\ step = "idle"
                 /\ b2c # <<>>
                 /\ Head(b2c).type = type
                 /\ b2c' = Tail(b2c)

\* MQTTClient_cycle returns: after an error the session is closed, otherwise
\* MQTTClient_run looks at the queue.  (MQTTClient_receive does so itself.)
EndOfCycle(sent) == /\ step' = IF ~sent THEN "error" ELSE IF Callback THEN "call" ELSE "idle"
                    /\ cur' = Nobody
                    /\ ok' = TRUE

\* The record of a queue entry, and its removal.
persistQueueEntry(e) == queued' = IF Persistent THEN {q \in queued : q.seqno # e.seqno} \cup {e} ELSE queued
unpersistQueueEntry(e) == queued' = {q \in queued : q.seqno # e.seqno}

\* Mutant: the number is decremented.
EnqueueDown(m) ==
  LET e == [seqno |-> qentry_seqno - 1, qos |-> m.qos, pub |-> m.pub]
  IN /\ qentry_seqno' = IF Persistent THEN qentry_seqno - 1 ELSE qentry_seqno
     /\ messageQueue' = Append(messageQueue, e)
     /\ persistQueueEntry(e)

\* Mutant: to the front of the queue.
EnqueueFirst(m) ==
  LET e == [seqno |-> qentry_seqno + 1, qos |-> m.qos, pub |-> m.pub]
  IN /\ qentry_seqno' = IF Persistent THEN qentry_seqno + 1 ELSE qentry_seqno
     /\ messageQueue' = <<e>> \o messageQueue
     /\ persistQueueEntry(e)

\* Protocol_processPublication: to the end of the queue, and to the store.
\* (Without a store the entry has no number, and nothing reads it.)
Enqueue(m) ==
  LET e == [seqno |-> qentry_seqno + 1, qos |-> m.qos, pub |-> m.pub]
  IN /\ qentry_seqno' = IF Persistent THEN qentry_seqno + 1 ELSE qentry_seqno
     /\ messageQueue' = Append(messageQueue, e)
     /\ persistQueueEntry(e)

\* MQTTProtocol_handlePublishes, QoS 0.
handlePublish0 ==
  /\ Receive("PUBLISH")
  /\ Head(b2c).msg.qos = 0
  /\ Enqueue(Head(b2c).msg)
  /\ EndOfCycle(TRUE)
  /\ UNCHANGED <<inboundMsgs, rcvd, conn, link, c2b, unacked, ledger, used>>

\* QoS 1: the PUBACK goes out before the message is queued.
handlePublish1 ==
  /\ Receive("PUBLISH")
  /\ Head(b2c).msg.qos = 1
  /\ Send("PUBACK", Head(b2c).msg.id)
  /\ step' = "process" /\ cur' = Head(b2c).msg /\ ok' = link
  /\ UNCHANGED <<memory, store, conn, link, unacked, ledger, used>>

processPublication ==
  /\ step = "process"
  /\ Enqueue(cur)
  /\ EndOfCycle(ok)
  /\ UNCHANGED <<inboundMsgs, rcvd, conn, network, unacked, ledger, used>>

\* QoS 2: MQTTPacket_Factory writes the packet to the store ...
storePublish2 ==
  /\ Receive("PUBLISH")
  /\ LET m == Head(b2c).msg
     IN /\ m.qos = 2
        /\ rcvd' = IF Persistent THEN {r \in rcvd : r.id # m.id} \cup {[id |-> m.id, pub |-> m.pub]}
                                 ELSE rcvd
        /\ step' = "pubrec" /\ cur' = m /\ ok' = TRUE
  /\ UNCHANGED <<memory, queued, conn, link, c2b, unacked, ledger, used>>

\* A publication with the same id that still waits is replaced.
InboundWith(m) == {n \in inboundMsgs : n.id # m.id} \cup {[id |-> m.id, pub |-> m.pub]}

\* ... and MQTTProtocol_handlePublishes keeps the message and answers PUBREC.
handlePublish2 ==
  /\ step = "pubrec"
  /\ inboundMsgs' = InboundWith(cur)
  /\ Send("PUBREC", cur.id)
  /\ EndOfCycle(link)
  /\ UNCHANGED <<messageQueue, qentry_seqno, store, conn, link, b2c, unacked, ledger, used>>

\* Mutant: a PUBREL for a message that it does not have is never answered.
handlePubrelsSilent ==
  /\ Receive("PUBREL")
  /\ LET id == Head(b2c).id
         M == {m \in inboundMsgs : m.id = id}
     IN IF M # {}
          THEN \E m \in M : /\ Send("PUBCOMP", id)
                            /\ step' = "release" /\ ok' = link
                            /\ cur' = [id |-> id, qos |-> 2, pub |-> m.pub]
          ELSE c2b' = c2b /\ EndOfCycle(TRUE)
  /\ UNCHANGED <<memory, store, conn, link, unacked, ledger, used>>

\* MQTTProtocol_handlePubrels: PUBCOMP goes out first.  For a message it does
\* not have the client answers only a PUBREL marked as a duplicate.
handlePubrels ==
  /\ Receive("PUBREL")
  /\ LET id == Head(b2c).id
         M == {m \in inboundMsgs : m.id = id}
     IN IF M # {}
          THEN \E m \in M : /\ Send("PUBCOMP", id)
                            /\ step' = "release" /\ ok' = link
                            /\ cur' = [id |-> id, qos |-> 2, pub |-> m.pub]
          ELSE IF Head(b2c).dup THEN Send("PUBCOMP", id) /\ EndOfCycle(link)
                                ELSE c2b' = c2b /\ EndOfCycle(TRUE)
  /\ UNCHANGED <<memory, store, conn, link, unacked, ledger, used>>

releasePublication ==
  /\ step = "release"
  /\ Enqueue(cur)
  /\ step' = "forget"
  /\ UNCHANGED <<inboundMsgs, rcvd, cur, ok, conn, network, unacked, ledger, used>>

\* Mutant: the released message stays in the inbound list.
forgetInboundKeep ==
  /\ step = "forget"
  /\ rcvd' = {r \in rcvd : r.id # cur.id}
  /\ EndOfCycle(ok)
  /\ UNCHANGED <<memory, queued, conn, network, unacked, ledger, used>>

forgetInbound ==
  /\ step = "forget"
  /\ rcvd' = {r \in rcvd : r.id # cur.id}
  /\ inboundMsgs' = {m \in inboundMsgs : m.id # cur.id}
  /\ EndOfCycle(ok)
  /\ UNCHANGED <<messageQueue, qentry_seqno, queued, conn, network, unacked, ledger, used>>

\* Any other packet only tells MQTTClient_run to look at the queue.
handlePingresps ==
  /\ Receive("PINGRESP")
  /\ EndOfCycle(TRUE)
  /\ UNCHANGED <<memory, store, conn, link, c2b, unacked, ledger, used>>

\* The socket is readable and has nothing more: the connection is gone.
readFails ==
  /\ connected /\ step = "idle"
  /\ ~link /\ b2c = <<>>
  /\ step' = "error"
  /\ UNCHANGED <<memory, store, cur, ok, conn, network, unacked, ledger, used>>

-----------------------------------------------------------------------------
(* The application takes its messages *)

\* Mutant: the entry taken stays in the store.
receiveKeepsRecord ==
  /\ ~Callback /\ connected
  /\ step \in {"idle", "error"}
  /\ step' = IF step = "error" THEN "failed" ELSE step
  /\ messageQueue # <<>>
  /\ messageQueue' = Tail(messageQueue)
  /\ HandOver(Head(messageQueue).pub)
  /\ UNCHANGED <<inboundMsgs, qentry_seqno, store, cur, ok, conn, network, unacked, used>>

\* The first message leaves the queue and the store.
deliverMessage == /\ unpersistQueueEntry(Head(messageQueue))
                  /\ messageQueue' = Tail(messageQueue)
                  /\ HandOver(Head(messageQueue).pub)

\* MQTTClient_receive: one message, even when the last cycle failed.
receive ==
  /\ ~Callback /\ connected
  /\ step \in {"idle", "error"}
  /\ step' = IF step = "error" THEN "failed" ELSE step
  /\ messageQueue # <<>>
  /\ deliverMessage
  /\ UNCHANGED <<inboundMsgs, qentry_seqno, rcvd, cur, ok, conn, network, unacked, used>>

\* MQTTClient_run calls messageArrived for the first message, if there is one;
\* after a disconnect by the application tostop is set and the thread ends.
callMessageArrived ==
  /\ step = "call"
  /\ IF ~connected \/ messageQueue = <<>> THEN step' = "idle" /\ cur' = cur
     ELSE /\ step' = "called"
          /\ cur' = [id |-> 0, qos |-> Head(messageQueue).qos, pub |-> Head(messageQueue).pub]
  /\ UNCHANGED <<memory, store, ok, conn, network, unacked, ledger, used>>

\* ListRemove of the entry the callback was called for: the first, unless the
\* queue was emptied meanwhile.
WithoutFirst == IF messageQueue = <<>> THEN <<>> ELSE Tail(messageQueue)

\* Mutant: a message that messageArrived refused is removed too.
messageArrivedAlwaysRemoves(accepted) ==
  /\ step = "called"
  /\ messageQueue' = WithoutFirst
  /\ IF accepted THEN HandOver(cur.pub) /\ UNCHANGED used
                 ELSE ledger' = ledger /\ Disturb("refuse")
  /\ step' = "idle" /\ cur' = Nobody
  /\ UNCHANGED <<inboundMsgs, qentry_seqno, store, ok, conn, network, unacked>>

\* It returns.  An accepted message leaves the queue, its record in the store
\* stays; a refused one stays first in the queue.
messageArrived(accepted) ==
  /\ step = "called"
  /\ IF accepted
       THEN /\ HandOver(cur.pub)
            /\ messageQueue' = WithoutFirst
            /\ UNCHANGED used
       ELSE Disturb("refuse") /\ UNCHANGED <<ledger, messageQueue>>
  /\ step' = "idle" /\ cur' = Nobody
  /\ UNCHANGED <<inboundMsgs, qentry_seqno, store, ok, conn, network, unacked>>

-----------------------------------------------------------------------------
(* Connections *)

emptyMessageQueue == messageQueue' = <<>>

cleanSession == /\ inboundMsgs' = {} /\ emptyMessageQueue
                /\ rcvd' = {} /\ queued' = {}
                /\ qentry_seqno' = qentry_seqno

\* External: the broker discards a clean session with its connection.
EndBrokerSession ==
  IF cleansession THEN unacked' = <<>> /\ ledger' = Drop(DOMAIN ledger)
                  ELSE UNCHANGED <<unacked, ledger>>

\* External: what the broker sends when it resumes a session.  MQTT 3.1 marks a PUBREL that
\* is sent again as a duplicate, MQTT 3.1.1 does not.
Resend(u) == IF u.released THEN [type |-> "PUBREL", id |-> u.id, dup |-> version = 3]
             ELSE [type |-> "PUBLISH", msg |-> [id |-> u.id, qos |-> u.qos, pub |-> u.pub]]

\* The run thread of a session that ended has ended too: MQTTClient_stop
\* waited for the callback it was in.
connect(cs) ==
  /\ ~connected /\ step = "idle"
  /\ connected' = TRUE /\ cleansession' = cs
  /\ link' = TRUE /\ c2b' = <<>> /\ UNCHANGED version
  /\ IF cs THEN /\ cleanSession
                /\ b2c' = <<>> /\ unacked' = <<>>
                /\ ledger' = Drop(DOMAIN ledger)
     ELSE /\ b2c' = [i \in DOMAIN unacked |-> Resend(unacked[i])]
          /\ UNCHANGED <<memory, store, unacked, ledger>>
  /\ UNCHANGED <<thread, used>>

\* Mutant: every session is cleaned when it is closed.
closeSessionCleans ==
  /\ connected' = FALSE /\ link' = FALSE /\ b2c' = <<>>
  /\ cleanSession /\ EndBrokerSession
  /\ UNCHANGED <<cleansession, version, c2b>>

\* MQTTClient_closeSession.  What was already written may still arrive.
closeSession ==
  /\ connected' = FALSE /\ link' = FALSE /\ b2c' = <<>>
  /\ IF cleansession THEN cleanSession ELSE UNCHANGED <<memory, store>>
  /\ EndBrokerSession
  /\ UNCHANGED <<cleansession, version, c2b>>

\* After SOCKET_ERROR.  Another thread may have disconnected meanwhile.
disconnect_internal ==
  /\ step \in {"error", "failed"} /\ step' = "idle"
  /\ IF connected THEN closeSession ELSE UNCHANGED <<memory, store, conn, network, unacked, ledger>>
  /\ UNCHANGED <<cur, ok, used>>

\* MQTTClient_disconnect by the application, when it gets the mutex.
disconnect ==
  /\ connected
  /\ step \in IF Callback THEN {"idle", "call", "called", "error"} ELSE {"idle"}
  /\ Disturb("loss")
  /\ closeSession
  /\ UNCHANGED thread

-----------------------------------------------------------------------------
(* Crash and restart *)

\* MQTTPersistence_insertInSeqOrder.
InSeqOrder(Q) == CHOOSE s \in [1..Cardinality(Q) -> Q] :
                   \A i, j \in DOMAIN s : i < j => s[i].seqno < s[j].seqno

\* The process ends at any point; MQTTClient_create restores the inbound list
\* and the queue, and the counter as the largest number found.
crash ==
  /\ Disturb("restart")
  /\ inboundMsgs' = rcvd
  /\ messageQueue' = InSeqOrder(queued)
  /\ qentry_seqno' = IF queued = {} THEN 0
                     ELSE (CHOOSE q \in queued : \A r \in queued : r.seqno <= q.seqno).seqno
  /\ step' = "idle" /\ cur' = Nobody /\ ok' = TRUE
  /\ connected' = FALSE /\ cleansession' = FALSE
  /\ link' = FALSE /\ b2c' = <<>>
  /\ EndBrokerSession
  /\ UNCHANGED <<store, version, c2b>>

-----------------------------------------------------------------------------
(* External: the connection and the broker *)

linkBreaks ==
  /\ link
  /\ Disturb("loss")
  /\ link' = FALSE
  /\ c2b' = <<>>
  /\ \E n \in 0..Len(b2c) : b2c' = SubSeq(b2c, 1, n)
  /\ EndBrokerSession
  /\ UNCHANGED <<memory, store, thread, conn>>

Reply(p) == b2c' = IF link THEN Append(b2c, p) ELSE b2c

brokerPublish(qos) ==
  /\ link
  /\ Len(ledger) < MaxPublish
  /\ ledger' = Append(ledger, [qos |-> qos, fate |-> IF qos = 0 THEN "settled" ELSE "open", got |-> 0])
  /\ \E id \in IF qos = 0 THEN {0} ELSE MsgIds :
       /\ \A i \in DOMAIN unacked : unacked[i].id # id
       /\ Reply([type |-> "PUBLISH", msg |-> [id |-> id, qos |-> qos, pub |-> Len(ledger) + 1]])
       /\ unacked' = IF qos = 0 THEN unacked
                     ELSE Append(unacked, [id |-> id, qos |-> qos, pub |-> Len(ledger) + 1,
                                           released |-> FALSE])
  /\ UNCHANGED <<memory, store, thread, conn, link, c2b, used>>

\* PUBACK and PUBCOMP end a flow, PUBREC is answered.
brokerAck ==
  /\ c2b # <<>>
  /\ c2b' = Tail(c2b)
  /\ LET a == Head(c2b)
         I == {i \in DOMAIN unacked : unacked[i].id = a.id /\ (unacked[i].qos = 1 <=> a.type = "PUBACK")}
     IN IF I = {} THEN UNCHANGED <<b2c, unacked, ledger>>
        ELSE \E i \in I :
          IF a.type = "PUBREC"
            THEN /\ unacked' = [unacked EXCEPT ![i].released = TRUE]
                 /\ Reply([type |-> "PUBREL", id |-> a.id, dup |-> FALSE])
                 /\ UNCHANGED ledger
            ELSE /\ unacked' = Remove(unacked, i)
                 /\ ledger' = [ledger EXCEPT ![unacked[i].pub].fate = "settled"]
                 /\ UNCHANGED b2c
  /\ UNCHANGED <<memory, store, thread, conn, link, used>>

\* The keepalive exchange of an otherwise quiet connection.
keepalive ==
  /\ connected /\ link /\ step = "idle"
  /\ messageQueue # <<>> /\ b2c = <<>> /\ c2b = <<>>
  /\ b2c' = <<[type |-> "PINGRESP"]>>
  /\ UNCHANGED <<memory, store, thread, conn, link, c2b, unacked, ledger, used>>

-----------------------------------------------------------------------------
Init ==
  /\ inboundMsgs = {} /\ messageQueue = <<>> /\ qentry_seqno = 0
  /\ rcvd = {} /\ queued = {}
  /\ step = "idle" /\ cur = Nobody /\ ok = TRUE
  /\ connected = FALSE /\ cleansession = FALSE /\ version \in Versions
  /\ link = FALSE /\ c2b = <<>> /\ b2c = <<>>
  /\ unacked = <<>> /\ ledger = <<>>
  /\ used = [kind \in Kinds |-> 0]

handlers == \/ handlePublish0 \/ handlePublish1 \/ processPublication
            \/ storePublish2 \/ handlePublish2
            \/ handlePubrels \/ releasePublication \/ forgetInbound
            \/ handlePingresps

run == callMessageArrived \/ messageArrived(TRUE)

Next == \/ handlers \/ readFails
        \/ receive \/ run \/ messageArrived(FALSE)
        \/ \E cs \in CleanSessions : connect(cs)
        \/ disconnect \/ disconnect_internal
        \/ crash
        \/ linkBreaks \/ keepalive
        \/ \E qos \in Qoss : brokerPublish(qos)
        \/ brokerAck

Spec == Init /\ [][Next]_vars

\* The receiving thread keeps cycling, messageArrived returns, the application
\* keeps receiving and reconnects, broker and keepalive go on.
Fairness == /\ WF_vars(handlers) /\ WF_vars(readFails)
            /\ WF_vars(receive) /\ WF_vars(run)
            /\ WF_vars(\E cs \in CleanSessions : connect(cs))
            /\ WF_vars(disconnect_internal)
            /\ WF_vars(keepalive) /\ WF_vars(brokerAck)

FairSpec == Spec /\ Fairness

-----------------------------------------------------------------------------
(* Properties *)

TypeOK ==
  /\ inboundMsgs \in SUBSET Inbound /\ rcvd \in SUBSET Inbound
  /\ messageQueue \in Seq(QEntry) /\ queued \in SUBSET QEntry
  /\ qentry_seqno \in Nat
  /\ step \in Steps /\ cur \in Msg \cup Called /\ ok \in BOOLEAN
  /\ connected \in BOOLEAN /\ cleansession \in BOOLEAN /\ version \in Versions /\ link \in BOOLEAN
  /\ c2b \in Seq(Ack) /\ b2c \in Seq(Packet)
  /\ unacked \in Seq(Unacked) /\ ledger \in Seq(Entry)
  /\ used \in [Kinds -> Nat]

InQueue(k) == \E i \in DOMAIN messageQueue : messageQueue[i].pub = k
InHand(k)  == step \in {"process", "release", "forget"} /\ cur.pub = k

\* The application gets a QoS 0 message at most once and a QoS 2 message
\* exactly once, however often its packets are repeated.
NeverTwice == \A k \in DOMAIN ledger : ledger[k].qos # 1 => ledger[k].got <= 1

\* A message the broker may forget, because its PUBACK or PUBCOMP arrived, has
\* reached the application or is still in the client on its way there: the
\* acknowledgement goes out before the message is queued.
SettledIsHeld ==
  \A k \in DOMAIN ledger :
    ledger[k].qos > 0 /\ ledger[k].fate = "settled" /\ ledger[k].got = 0
      => InQueue(k) \/ InHand(k)

\* What a restart would restore is what the client has now, except between
\* the two halves of receiving a QoS 2 message: neither a message already taken
\* nor one already released comes back, and none is missing.
StoreMirrorsMemory ==
  /\ queued = {messageQueue[i] : i \in DOMAIN messageQueue}
  /\ step # "pubrec" => rcvd = inboundMsgs

\* The queue is in the order of its numbers, which no entry to come repeats:
\* a restart restores it in the same order and continues the numbers.
NumberedInOrder ==
  /\ \A i, j \in DOMAIN messageQueue : i < j => messageQueue[i].seqno < messageQueue[j].seqno
  /\ \A q \in queued : q.seqno <= qentry_seqno

\* The first delivery of a QoS 1 or 2 message follows those of all earlier
\* messages of its quality of service: neither resends, the two-step QoS 2 flow
\* nor a message that messageArrived refused lets a later one overtake.
DeliveredInOrder ==
  [][\A k \in DOMAIN ledger :
       ledger[k].qos > 0 /\ ledger[k].got = 0 /\ ledger'[k].got = 1 =>
         \A j \in 1..(k - 1) : ledger[j].qos = ledger[k].qos => ledger[j].got > 0]_vars

\* The message messageArrived is working on stays in the queue, and so in
\* memory, until it returns: the mutex is free meanwhile and other threads
\* may disconnect.
CalledIsQueued ==
  step = "called" => /\ messageQueue # <<>>
                     /\ Head(messageQueue).pub = cur.pub

\* The PUBCOMP of message k was lost with a connection: the broker waits for it, the client has
\* released the message, and what the broker sends again is not marked, so not answered.
PubcompLost(k) ==
  /\ version = 4 /\ used["loss"] > 0
  /\ \E i \in DOMAIN unacked :
       /\ unacked[i].pub = k /\ unacked[i].released
       /\ \A m \in inboundMsgs : m.id # unacked[i].id
       /\ \A j \in DOMAIN c2b : c2b[j].id # unacked[i].id

\* The message of every flow the broker began reaches the application, and the flow ends, also
\* when an answer was lost with its connection; one of QoS 2 stays open for good
\* if that was its PUBCOMP and the broker speaks MQTT 3.1.1.
FlowEnds ==
  \A k \in 1..MaxPublish :
    (k \in DOMAIN ledger /\ ledger[k].fate = "open")
      ~> (/\ k \in DOMAIN ledger /\ ledger[k].got > 0
          /\ ledger[k].fate = "settled" \/ PubcompLost(k))
=============================================================================
