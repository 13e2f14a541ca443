--------------------------- MODULE OutboundSession ---------------------------
(***************************************************************************)
(* The sending half of one MQTT client session: what MQTTClient_publish    *)
(* puts in flight, how acknowledgements, retries, reconnections, crashes   *)
(* and cleaned sessions move a message on, and what the persistent store   *)
(* holds meanwhile.  The library handles every packet and every call with  *)
(* mqttclient_mutex held, so a handler is one step here.                   *)
(*                                                                         *)
(* The broker and the TCP connection are external: the broker is the one   *)
(* the MQTT specification describes, the connection is a FIFO stream in    *)
(* each direction that may break at any time.                              *)
(***************************************************************************)
EXTENDS Integers, Sequences, FiniteSets

CONSTANTS MaxMsgId,       \* MAX_MSG_ID, 65535 in the code
          MaxInflight,    \* maxInflightMessages: 1 when "reliable", else 10
          Persistent,     \* whether the client has a persistent store
          CleanSessions,  \* the values of cleansession the application connects with
          RetryInterval,  \* retryInterval; 0 turns the timed retries off
          Qoss,           \* the qualities of service the application publishes with
          MaxPublish,     \* bound: messages published
          Budgets         \* bound: how many disturbances of each kind may come together

ASSUME MaxMsgIdAssumption == MaxMsgId \in Nat /\ MaxMsgId >= 2
ASSUME MaxInflightAssumption == MaxInflight \in 1..(MaxMsgId - 1)
ASSUME PersistentAssumption == Persistent \in BOOLEAN
ASSUME CleanSessionsAssumption == CleanSessions \subseteq BOOLEAN
ASSUME RetryIntervalAssumption == RetryInterval \in Nat
ASSUME QossAssumption == Qoss \subseteq 0..2

Kinds == {"loss",       \* the connection, or a connect call, fails or is ended
          "restart",    \* the process ends and starts again
          "early",      \* a retry while answers are still on their way
          "subscribe"}  \* a subscription takes a message id
ASSUME BoundsAssumption == MaxPublish \in Nat /\ Budgets \subseteq [Kinds -> Nat]

VARIABLES
  outboundMsgs,  \* the in-flight list: a sequence of messages, oldest first
  msgID,         \* the last message id assigned
  connected,     \* CONNACK received and the session not closed since
  cleansession,  \* cleansession of the last connect call
  hung,          \* a thread waits for mqttclient_mutex while holding it
  sent,          \* persistent store, keys "s-<id>": the PUBLISHes sent
  rel,           \* persistent store, keys "sc-<id>": the PUBRELs sent
  link,          \* external: the TCP connection is up
  c2b, b2c,      \* external: the bytes in flight, client to broker and back
  bstored,       \* external: ids of the QoS 2 messages the broker holds
  bclean,        \* external: the broker's session is a clean one
  ledger,        \* history: what became of each accepted publication
  left           \* bound: the disturbances of each kind that may still come

session == <<outboundMsgs, msgID, sent, rel>>
network == <<link, c2b, b2c>>
broker  == <<bstored, bclean>>
vars == <<session, connected, cleansession, hung, network, broker, ledger, left>>

MsgIds  == 1..MaxMsgId
Pubs    == Nat \ {0}
Message == [id : MsgIds, qos : 1..2, pub : Pubs, next : {"PUBACK", "PUBREC", "PUBCOMP"}]
Stored  == [id : MsgIds, qos : 1..2, pub : Pubs]
Packet  == [type : {"PUBLISH"}, id : {0}, qos : {0}, pub : Pubs]
             \cup [type : {"PUBLISH"}, id : MsgIds, qos : 1..2, pub : Pubs]
             \cup [type : {"PUBREL"}, id : MsgIds]
Reply   == [type : {"PUBACK", "PUBREC", "PUBCOMP"}, id : MsgIds]
Fates   == {"qos0", "inflight", "completed", "dropped"}
Entry   == [id : 0..MaxMsgId, qos : 0..2, fate : Fates, got : Nat]

Front(s, n) == SubSeq(s, 1, n)

\* Mutant: the element after the one meant is unlinked.
RemoveNext(s, i) == [j \in 1..(Len(s) - 1) |-> IF j <= i THEN s[j] ELSE s[j + 1]]

Remove(s, i) == [j \in 1..(Len(s) - 1) |-> IF j < i THEN s[j] ELSE s[j + 1]]
HasId(s, id) == \E i \in DOMAIN s : s[i].id = id

-----------------------------------------------------------------------------
(* Message ids *)

\* The k-th id MQTTProtocol_assignMsgId tries: it counts on from the last
\* one assigned and wraps to 1.
Candidate(k) == IF msgID + k <= MaxMsgId THEN msgID + k ELSE msgID + k - MaxMsgId

\* The search ends when it is back at the id it started from, which is never
\* tried; from the initial 0, which is no id, it tries them all.
Tries == IF msgID = 0 THEN 1..MaxMsgId ELSE 1..(MaxMsgId - 1)

\* Mutant: the id after the last one is taken whether or not it is in use.
assignMsgIdNoSkip(id) == id = Candidate(1)

\* id is the one the search returns.  (No try may find a free id: then the
\* code returns 0 and the caller MQTTCLIENT_MAX_MESSAGES_INFLIGHT.)
assignMsgId(id) ==
  \E k \in Tries : /\ id = Candidate(k)
                   /\ ~HasId(outboundMsgs, id)
                   /\ \A j \in 1..(k - 1) : HasId(outboundMsgs, Candidate(j))

-----------------------------------------------------------------------------
(* Packets, the store and the history *)

FirstReply(qos) == IF qos = 1 THEN "PUBACK" ELSE "PUBREC"

NewMessage(id, qos, pub) == [id |-> id, qos |-> qos, pub |-> pub, next |-> FirstReply(qos)]
Record(m) == [id |-> m.id, qos |-> m.qos, pub |-> m.pub]

Publish(m) == [type |-> "PUBLISH", id |-> m.id, qos |-> m.qos, pub |-> m.pub]
Pubrel(id) == [type |-> "PUBREL", id |-> id]
Ack(type, id) == [type |-> type, id |-> id]

\* Mutant: a retry always sends the PUBLISH.
RetryPacketPublish(m) == Publish(m)

\* What a retry of m sends: the PUBLISH until its PUBREC came, then the PUBREL.
RetryPacket(m) == IF m.next = "PUBCOMP" THEN Pubrel(m.id) ELSE Publish(m)

\* A write on a broken connection goes nowhere.
Send(p) == c2b' = IF link THEN Append(c2b, p) ELSE c2b

\* MQTTPersistence_put replaces what the key held.
PutSent(m) == IF Persistent THEN {r \in sent : r.id # m.id} \cup {Record(m)} ELSE sent
PutRel(id) == IF Persistent THEN rel \cup {id} ELSE rel

\* Mutant: MQTTPersistence_remove forgets the "sc-" key of a QoS 2 message.
RemoveStoredKeepRel(m) == /\ sent' = {r \in sent : r.id # m.id}
                          /\ rel' = rel

RemoveStored(m) == /\ sent' = {r \in sent : r.id # m.id}
                   /\ rel' = IF m.qos = 2 THEN rel \ {m.id} ELSE rel

Accept(id, qos, fate) == Append(ledger, [id |-> id, qos |-> qos, fate |-> fate, got |-> 0])
Settle(lg, P, fate) ==
  [k \in DOMAIN lg |-> IF k \in P /\ lg[k].fate = "inflight"
                         THEN [lg[k] EXCEPT !.fate = fate] ELSE lg[k]]

\* A disturbance, of which a behaviour has no more than one of the Budgets.
Disturb(kind) == left[kind] > 0 /\ left' = [left EXCEPT ![kind] = @ - 1]

-----------------------------------------------------------------------------
(* Publishing *)

\* Mutant: the window is one message too wide.
MayPublishWide == /\ connected /\ ~hung
                  /\ Len(outboundMsgs) <= MaxInflight
                  /\ Len(ledger) < MaxPublish

\* The tests MQTTClient_publish makes before it sends: it waits for room in
\* the window, QoS 0 included.
MayPublish == /\ connected /\ ~hung
              /\ Len(outboundMsgs) < MaxInflight
              /\ Len(ledger) < MaxPublish

publishQoS0 ==
  /\ MayPublish
  /\ 0 \in Qoss
  /\ Send(Publish([id |-> 0, qos |-> 0, pub |-> Len(ledger) + 1]))
  /\ ledger' = Accept(0, 0, "qos0")
  /\ UNCHANGED <<session, connected, cleansession, hung, link, b2c, broker, left>>

\* The message joins the list, is written to the store, and then sent.
startPublish(id, qos) ==
  LET m == NewMessage(id, qos, Len(ledger) + 1)
  IN /\ outboundMsgs' = Append(outboundMsgs, m)
     /\ msgID' = id
     /\ sent' = PutSent(m)
     /\ rel' = rel
     /\ Send(Publish(m))
     /\ ledger' = Accept(id, qos, "inflight")

publish(qos) ==
  /\ MayPublish
  /\ qos \in Qoss \ {0}
  /\ \E id \in MsgIds : assignMsgId(id) /\ startPublish(id, qos)
  /\ UNCHANGED <<connected, cleansession, hung, link, b2c, broker, left>>

\* Mutant: a publication whose send fails is not kept for the next connection.
publishFailsForgets(qos) ==
  /\ MayPublish
  /\ ~link
  /\ qos \in Qoss \ {0}
  /\ \E id \in MsgIds : /\ assignMsgId(id)
                        /\ msgID' = id
                        /\ ledger' = Accept(id, qos, "inflight")
  /\ connected' = FALSE
  /\ b2c' = <<>>
  /\ UNCHANGED <<outboundMsgs, sent, rel, cleansession, hung, link, c2b, broker, left>>

\* The send fails: the session is closed, which discards the message again
\* if it is a clean one, and the caller of a QoS 1 or 2 publication is told
\* MQTTCLIENT_SUCCESS all the same.
publishFails(qos) ==
  /\ MayPublish
  /\ ~link
  /\ qos \in Qoss \ {0}
  /\ \E id \in MsgIds :
       /\ assignMsgId(id)
       /\ IF cleansession
            THEN /\ outboundMsgs' = <<>> /\ msgID' = 0
                 /\ sent' = {} /\ rel' = {} /\ c2b' = c2b
                 /\ ledger' = Settle(Accept(id, qos, "inflight"), 1..(Len(ledger) + 1), "dropped")
            ELSE startPublish(id, qos)
  /\ connected' = FALSE
  /\ b2c' = <<>>
  /\ UNCHANGED <<cleansession, hung, link, broker, left>>

\* MQTTClient_subscribeMany and _unsubscribeMany take an id from the same
\* counter; their packets meet no publication.
subscribe ==
  /\ connected /\ ~hung
  /\ Disturb("subscribe")
  /\ \E id \in MsgIds : assignMsgId(id) /\ msgID' = id
  /\ UNCHANGED <<outboundMsgs, sent, rel, connected, cleansession, hung,
                 network, broker, ledger>>

\* What MQTTClient_waitForCompletion finds out about a token.  Only its first
\* look asks whether the client is connected; in its loop it yields, which may
\* end the session, and looks for the token again.
waitForCompletion(token, first) ==
  IF first /\ ~connected THEN "DISCONNECTED"
  ELSE IF HasId(outboundMsgs, token) THEN "FAILURE" ELSE "SUCCESS"

-----------------------------------------------------------------------------
(* Acknowledgements *)

\* The client reads the next packet; it may still find some in its buffer
\* when the connection has gone.
Receive(type) == /\ connected /\ ~hung
                 /\ b2c # <<>>
                 /\ Head(b2c).type = type
                 /\ b2c' = Tail(b2c)

\* The message with id is finished: forget it and its records.
Complete(i) ==
  /\ outboundMsgs' = Remove(outboundMsgs, i)
  /\ RemoveStored(outboundMsgs[i])
  /\ ledger' = Settle(ledger, {outboundMsgs[i].pub}, "completed")

Ignore == UNCHANGED <<outboundMsgs, sent, rel, ledger>>

Matches(i, id, qos) == outboundMsgs[i].id = id /\ outboundMsgs[i].qos = qos

handlePubacks ==
  /\ Receive("PUBACK")
  /\ LET I == {i \in DOMAIN outboundMsgs : Matches(i, Head(b2c).id, 1)}
     IN IF I = {} THEN Ignore ELSE \E i \in I : Complete(i)
  /\ UNCHANGED <<msgID, connected, cleansession, hung, link, c2b, broker, left>>

\* A PUBREC no message waits for is not answered.
handlePubrecs ==
  /\ Receive("PUBREC")
  /\ LET id == Head(b2c).id
         I == {i \in DOMAIN outboundMsgs :
                 Matches(i, id, 2) /\ outboundMsgs[i].next = "PUBREC"}
     IN IF I = {} THEN UNCHANGED <<outboundMsgs, rel, c2b>>
        ELSE \E i \in I : /\ outboundMsgs' = [outboundMsgs EXCEPT ![i].next = "PUBCOMP"]
                          /\ rel' = PutRel(id)
                          /\ Send(Pubrel(id))
  /\ UNCHANGED <<msgID, sent, connected, cleansession, hung, link, broker, ledger, left>>

\* Mutant: the quality of service looked for is that of handlePubacks.
handlePubcompsQoS1 ==
  /\ Receive("PUBCOMP")
  /\ LET I == {i \in DOMAIN outboundMsgs :
                 Matches(i, Head(b2c).id, 1) /\ outboundMsgs[i].next = "PUBCOMP"}
     IN IF I = {} THEN Ignore ELSE \E i \in I : Complete(i)
  /\ UNCHANGED <<msgID, connected, cleansession, hung, link, c2b, broker, left>>

handlePubcomps ==
  /\ Receive("PUBCOMP")
  /\ LET I == {i \in DOMAIN outboundMsgs :
                 Matches(i, Head(b2c).id, 2) /\ outboundMsgs[i].next = "PUBCOMP"}
     IN IF I = {} THEN Ignore ELSE \E i \in I : Complete(i)
  /\ UNCHANGED <<msgID, connected, cleansession, hung, link, c2b, broker, left>>

-----------------------------------------------------------------------------
(* Retries *)

\* A resent packet is written to the store again, as it was when first sent.
PutAgain(M) == /\ sent' = IF Persistent
                            THEN {r \in sent : \A m \in M : m.next # "PUBCOMP" => r.id # m.id}
                                   \cup {Record(m) : m \in {n \in M : n.next # "PUBCOMP"}}
                            ELSE sent
               /\ rel' = IF Persistent
                           THEN rel \cup {m.id : m \in {n \in M : n.next = "PUBCOMP"}}
                           ELSE rel

Quiet == c2b = <<>> /\ b2c = <<>>

\* MQTTProtocol_retries resends what has waited longer than the retry
\* interval.  A loop over the list is a run of these steps.  While answers
\* are still on their way the interval passes only as a disturbance.
retry(i) ==
  /\ connected /\ ~hung
  /\ RetryInterval > 0
  /\ IF Quiet THEN UNCHANGED left ELSE Disturb("early")
  /\ Send(RetryPacket(outboundMsgs[i]))
  /\ PutAgain({outboundMsgs[i]})
  /\ UNCHANGED <<outboundMsgs, msgID, connected, cleansession, hung, link, b2c, broker, ledger>>

retries == \E i \in DOMAIN outboundMsgs : retry(i)

-----------------------------------------------------------------------------
(* Connections *)

\* Nothing in flight survives MQTTClient_cleanSession, on disk or in memory.
cleanSession == /\ outboundMsgs' = <<>>
                /\ msgID' = 0
                /\ sent' = {}
                /\ rel' = {}
                /\ ledger' = Settle(ledger, DOMAIN ledger, "dropped")

\* The broker takes over, or starts, the session of this client id.
BrokerConnect(cs) == /\ bstored' = IF cs \/ bclean THEN {} ELSE bstored
                     /\ bclean' = cs

\* How much of the list the connect resends: the loop stops early when a
\* packet is not written completely at once.
ResentOnConnect(list) == IF list = <<>> THEN {0} ELSE 1..Len(list)

RetryPackets(n) == [i \in 1..n |-> RetryPacket(outboundMsgs[i])]

\* MQTTClient_connectURIVersion up to its success: CONNECT, CONNACK, then a
\* clean session is cleaned and another one's messages are resent.
connect(cs) ==
  /\ ~connected /\ ~hung
  /\ BrokerConnect(cs)
  /\ connected' = TRUE
  /\ cleansession' = cs
  /\ link' = TRUE
  /\ b2c' = <<>>
  /\ IF cs THEN cleanSession /\ c2b' = <<>>
     ELSE /\ \E n \in ResentOnConnect(outboundMsgs) :
               /\ c2b' = RetryPackets(n)
               /\ PutAgain({outboundMsgs[i] : i \in 1..n})
          /\ UNCHANGED <<outboundMsgs, msgID, ledger>>
  /\ UNCHANGED <<hung, left>>

\* A connect that fails.  "refused": no TCP connection.  "sent": the CONNECT
\* is lost.  "answered": the broker acts on it, the CONNACK is lost.  In the
\* last two MQTTClient_disconnect1 closes the session, with the new setting.
connectFails(cs, stage) ==
  /\ ~connected /\ ~hung
  /\ Disturb("loss")
  /\ cleansession' = cs
  /\ IF stage = "answered" THEN BrokerConnect(cs) /\ c2b' = <<>>
                           ELSE UNCHANGED <<bstored, bclean, c2b>>
  /\ IF cs /\ stage # "refused" THEN cleanSession ELSE UNCHANGED <<session, ledger>>
  /\ UNCHANGED <<connected, hung, link, b2c>>

\* Mutant: every session is cleaned when it is closed.
closeSessionCleans ==
  /\ connected' = FALSE
  /\ link' = FALSE
  /\ b2c' = <<>>
  /\ cleanSession
  /\ UNCHANGED <<cleansession, hung, c2b, broker>>

\* MQTTClient_closeSession.  What was already written may still arrive.
closeSession ==
  /\ connected' = FALSE
  /\ link' = FALSE
  /\ b2c' = <<>>
  /\ IF cleansession THEN cleanSession ELSE UNCHANGED <<session, ledger>>
  /\ UNCHANGED <<cleansession, hung, c2b, broker>>

\* MQTTClient_disconnect, whose wait for the flows in progress may time out.
disconnect == /\ connected /\ ~hung
              /\ Disturb("loss")
              /\ closeSession

\* A read fails; the session is closed with the mutex released.
disconnect_internal == /\ connected /\ ~hung /\ ~link
                       /\ UNCHANGED left
                       /\ closeSession

\* MQTTProtocol_keepalive finds no PINGRESP or cannot send its PINGREQ, or
\* MQTTProtocol_retries cannot send.  Both run inside MQTTClient_cycle, which
\* holds mqttclient_mutex, and call MQTTProtocol_closeSession, which locks it.
protocolCloseSession ==
  /\ connected /\ ~hung
  /\ ~link \/ \E i \in DOMAIN outboundMsgs : outboundMsgs[i].next = "PUBCOMP"
  /\ hung' = TRUE
  /\ UNCHANGED <<session, connected, cleansession, network, broker, ledger, left>>

-----------------------------------------------------------------------------
(* Crash and restart *)

\* MQTTPersistence_insertInOrder: the stored records by increasing id.
insertInOrder(s) ==
  /\ \A i, j \in DOMAIN s : i < j => s[i].id < s[j].id
  /\ \A r \in sent : \E i \in DOMAIN s : s[i] = r

\* MQTTPersistence_wrapMsgID: the first of the largest gaps between
\* neighbours is where the ids wrapped, unless the gap around the end is as
\* large.  The list then starts at w.
wrapMsgID(s, w) ==
  LET n == Len(s)
      Gap(j) == s[j].id - s[j - 1].id
      Around == MaxMsgId - s[n].id + s[1].id
  IN \/ w = 1 /\ \A j \in 2..n : Gap(j) <= Around
     \/ /\ w \in 2..n
        /\ Gap(w) > Around
        /\ \A j \in 2..n : Gap(j) <= Gap(w)
        /\ \A j \in 2..(w - 1) : Gap(j) < Gap(w)

Rotate(s, w) ==
  [i \in DOMAIN s |-> s[IF i + w - 1 <= Len(s) THEN i + w - 1 ELSE i + w - 1 - Len(s)]]

\* Mutant: what is restored waits for the packet an inbound message waits for.
RestoredMessagePubrel(r) ==
  [id |-> r.id, qos |-> r.qos, pub |-> r.pub,
   next |-> IF r.id \in rel THEN "PUBREL" ELSE FirstReply(r.qos)]

\* MQTTPersistence_restore of one record: a PUBREL record marks how far it got.
RestoredMessage(r) ==
  [id |-> r.id, qos |-> r.qos, pub |-> r.pub,
   next |-> IF r.id \in rel THEN "PUBCOMP" ELSE FirstReply(r.qos)]

\* The process ends at any point and MQTTClient_create restores the session.
\* A PUBREL record without its PUBLISH record is removed.
crash ==
  /\ Disturb("restart")
  /\ \E n \in 0..MaxMsgId : \E s \in [1..n -> sent] :
       /\ insertInOrder(s)
       /\ \E w \in 1..(n + 1) :
            /\ IF n = 0 THEN w = 1 ELSE wrapMsgID(s, w)
            /\ outboundMsgs' = [i \in DOMAIN s |-> RestoredMessage(Rotate(s, w)[i])]
  /\ rel' = {id \in rel : \E r \in sent : r.id = id}
  /\ sent' = sent
  /\ msgID' = 0
  /\ connected' = FALSE /\ cleansession' = FALSE /\ hung' = FALSE
  /\ link' = FALSE /\ b2c' = <<>>
  /\ ledger' = Settle(ledger, {k \in DOMAIN ledger : \A r \in sent : r.pub # k}, "dropped")
  /\ UNCHANGED <<c2b, broker>>

-----------------------------------------------------------------------------
(* External: the connection and the broker *)

\* The connection breaks.  What the client has received it can still read.
linkBreaks ==
  /\ link
  /\ Disturb("loss")
  /\ link' = FALSE
  /\ c2b' = <<>>
  /\ \E n \in 0..Len(b2c) : b2c' = Front(b2c, n)
  /\ UNCHANGED <<session, connected, cleansession, hung, broker, ledger>>

Answer(type, id) == b2c' = IF link THEN Append(b2c, Ack(type, id)) ELSE b2c
Deliver(pub) == ledger' = [ledger EXCEPT ![pub].got = @ + 1]

brokerPublish ==
  /\ c2b # <<>>
  /\ LET p == Head(c2b)
     IN /\ p.type = "PUBLISH"
        /\ \/ p.qos = 0 /\ Deliver(p.pub) /\ UNCHANGED <<bstored, b2c>>
           \/ p.qos = 1 /\ Deliver(p.pub) /\ Answer("PUBACK", p.id) /\ UNCHANGED bstored
           \/ /\ p.qos = 2
              /\ IF p.id \in bstored THEN UNCHANGED ledger ELSE Deliver(p.pub)
              /\ bstored' = bstored \cup {p.id}
              /\ Answer("PUBREC", p.id)
  /\ c2b' = Tail(c2b)
  /\ UNCHANGED <<session, connected, cleansession, hung, link, bclean, left>>

brokerPubrel ==
  /\ c2b # <<>>
  /\ Head(c2b).type = "PUBREL"
  /\ bstored' = bstored \ {Head(c2b).id}
  /\ Answer("PUBCOMP", Head(c2b).id)
  /\ c2b' = Tail(c2b)
  /\ UNCHANGED <<session, connected, cleansession, hung, link, bclean, ledger, left>>

-----------------------------------------------------------------------------
Init ==
  /\ outboundMsgs = <<>> /\ msgID = 0 /\ sent = {} /\ rel = {}
  /\ connected = FALSE /\ cleansession = FALSE /\ hung = FALSE
  /\ link = FALSE /\ c2b = <<>> /\ b2c = <<>>
  /\ bstored = {} /\ bclean = TRUE
  /\ ledger = <<>> /\ left \in Budgets

receive == handlePubacks \/ handlePubrecs \/ handlePubcomps
brokerStep == brokerPublish \/ brokerPubrel

Next ==
  \/ publishQoS0
  \/ \E qos \in 1..2 : publish(qos) \/ publishFails(qos)
  \/ subscribe
  \/ receive
  \/ retries
  \/ \E cs \in CleanSessions :
       \/ connect(cs)
       \/ \E stage \in {"refused", "sent", "answered"} : connectFails(cs, stage)
  \/ disconnect
  \/ disconnect_internal
  \/ protocolCloseSession
  \/ crash
  \/ linkBreaks
  \/ brokerStep

Spec == Init /\ [][Next]_vars

\* The run thread (or the application's yields) keeps reading and retrying,
\* the broker answers, and the application reconnects when connectionLost
\* tells it to.  Nothing obliges a fault or a publication to happen.
Fairness == /\ WF_vars(receive)
            /\ WF_vars(retries)
            /\ WF_vars(disconnect_internal)
            /\ WF_vars(brokerStep)
            /\ WF_vars(\E cs \in CleanSessions : connect(cs))

FairSpec == Spec /\ Fairness

-----------------------------------------------------------------------------
\* Every variable has its type; in particular every id in use is an MQTT id.
TypeOK ==
  /\ outboundMsgs \in Seq(Message)
  /\ msgID \in 0..MaxMsgId
  /\ connected \in BOOLEAN /\ cleansession \in BOOLEAN /\ hung \in BOOLEAN
  /\ sent \subseteq Stored
  /\ rel \subseteq MsgIds
  /\ link \in BOOLEAN
  /\ c2b \in Seq(Packet)
  /\ b2c \in Seq(Reply)
  /\ bstored \subseteq MsgIds
  /\ bclean \in BOOLEAN
  /\ ledger \in Seq(Entry)
  /\ left \in [Kinds -> Nat]

\* No two messages in flight share a message id, whatever the counter's
\* wraps, the subscriptions in between and the restored messages did: an
\* acknowledgement names one message (MQTTProtocol_assignMsgId's contract).
UniqueIds ==
  \A i, j \in DOMAIN outboundMsgs : outboundMsgs[i].id = outboundMsgs[j].id => i = j

\* The in-flight window is never exceeded, across restarts too.
WindowKept == Len(outboundMsgs) <= MaxInflight

\* The store holds exactly what the list holds: one PUBLISH record per
\* message in flight, and a PUBREL record for those that wait for PUBCOMP.
\* This is what makes a restart restore the session that crashed.
StoreMirrorsList ==
  Persistent => /\ sent = {Record(outboundMsgs[i]) : i \in DOMAIN outboundMsgs}
                /\ rel = {outboundMsgs[i].id : i \in {j \in DOMAIN outboundMsgs :
                                                        outboundMsgs[j].next = "PUBCOMP"}}

\* What a message waits for fits its quality of service.
MessageShape ==
  \A i \in DOMAIN outboundMsgs :
    outboundMsgs[i].next \in IF outboundMsgs[i].qos = 1 THEN {"PUBACK"} ELSE {"PUBREC", "PUBCOMP"}

\* A client without a store writes none.
NoStoreUnused == ~Persistent => sent = {} /\ rel = {}

\* The inductive invariant behind UniqueIds, WindowKept and StoreMirrorsList:
\* none of the three survives every step without the others.
ListInv == UniqueIds /\ WindowKept /\ MessageShape /\ StoreMirrorsList /\ NoStoreUnused
SessionInv == TypeOK /\ ListInv

\* Every accepted publication that is neither completed nor discarded is in
\* the list, under the token its caller was given, and nothing else is.
ListHoldsInflight ==
  /\ \A k \in DOMAIN ledger : ledger[k].fate = "inflight" =>
       \E i \in DOMAIN outboundMsgs : /\ outboundMsgs[i].pub = k
                                      /\ outboundMsgs[i].id = ledger[k].id
                                      /\ outboundMsgs[i].qos = ledger[k].qos
  /\ \A i \in DOMAIN outboundMsgs : LET k == outboundMsgs[i].pub IN
       k \in DOMAIN ledger /\ ledger[k].fate = "inflight"

Overtaken(k) == {j \in 1..(k - 1) : /\ ledger[j].qos > 0 /\ ledger[j].got = 0
                                    /\ ledger[j].fate # "dropped"}

\* Publications with a handshake are delivered in the order the application
\* made them, as far as the window allows: one that is delivered has overtaken
\* fewer than MaxInflight others, so none when there is one in flight at a
\* time (reliable).  A resend that stops half way is what lets it overtake.
DeliveredInOrder ==
  \A k \in DOMAIN ledger :
    ledger[k].qos > 0 /\ ledger[k].got > 0 => Cardinality(Overtaken(k)) < MaxInflight

\* When MQTTClient_waitForCompletion returns MQTTCLIENT_SUCCESS for a token
\* the message was delivered (MQTTClient.h:820), also when the connection was
\* lost while it waited.
WaitedWasDelivered ==
  \A k \in DOMAIN ledger : \A first \in BOOLEAN :
    ledger[k].qos > 0 /\ waitForCompletion(ledger[k].id, first) = "SUCCESS"
      => ledger[k].got > 0

\* Every accepted QoS 1 or 2 publication is eventually completed or
\* discarded, unless the client has locked itself out.
InflightEnds ==
  \A k \in 1..MaxPublish :
    (k \in DOMAIN ledger /\ ledger[k].fate = "inflight")
      ~> (hung \/ (k \in DOMAIN ledger /\ ledger[k].fate \in {"completed", "dropped"}))
=============================================================================
