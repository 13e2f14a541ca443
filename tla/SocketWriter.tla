----------------------------- MODULE SocketWriter -----------------------------
(***************************************************************************)
(* How packets get onto a connection whose send buffer may be full: the    *)
(* part the socket does not take is kept in SocketBuffer's list writes and *)
(* continued by the background thread under socket_mutex, while publish    *)
(* calls and the handlers of received packets use the same lists under     *)
(* mqttclient_mutex.                                                       *)
(*                                                                         *)
(* A packet is some units long.  A step is one call on the lists, or what  *)
(* happens between taking and releasing a mutex.                           *)
(***************************************************************************)
EXTENDS Integers, Sequences, SequencesExt

CONSTANTS Apps,       \* the application threads that use the client
          QoS,        \* the quality of service each publishes with
          NoSocket,   \* no socket
          Number,     \* the number the system gives each connection's socket
          Clean,      \* whether the sessions are clean ones
          Length,     \* units of a PUBLISH packet; others have one
          Buffer,     \* units the send buffer of a socket holds
          MaxSends,   \* bound: publications
          MaxOther    \* bound: breaks, disconnects, retries and messages, in all

ASSUME WriterAssumption == /\ QoS \in [Apps -> {0, 1}] /\ "run" \notin Apps
                           /\ Number \in Seq(Nat) /\ NoSocket \notin Nat
                           /\ Clean \in BOOLEAN
                           /\ Length \in Nat \ {0} /\ Buffer \in Nat \ {0}
                           /\ MaxSends \in Nat /\ MaxOther \in Nat

VARIABLES
  socket,        \* the client's socket
  connected,     \* ... and whether it is connected
  writes,        \* the packets that are not wholly written
  write_pending, \* the sockets that have one
  pending_wset,  \* ... and that select watches
  pwset,         \* those the last select found writable
  copies,        \* state.pending_writes: the stored QoS 0 publications
  outboundMsgs,  \* the ids of QoS 1 publications until they are acknowledged
  taken,         \* the socket getReadySocket has returned
  pc,            \* where the background thread and each application thread are
  job,           \* per application thread: the packet it publishes
  stream,        \* external: what the connection has taken
  room,          \* external: the free units of its send buffer
  broken,        \* external: the connection has broken
  inbox,         \* external: packets to read
  acked,         \* external: the ids the broker acknowledged on this connection
  conns,         \* the number of connections made
  sends, others  \* bounds: publications and other bounded steps made

buffers == <<writes, write_pending, pending_wset, copies>>
client  == <<socket, connected, outboundMsgs>>
network == <<stream, room, broken, inbox, acked, conns>>
bounds  == <<sends, others>>
vars == <<client, buffers, pwset, taken, pc, job, network, bounds>>

Run == "run"
Threads == Apps \cup {Run}
Publication(id, qos) == [kind |-> "publish", id |-> id, qos |-> qos]
Other(kind) == [kind |-> kind, id |-> 0, qos |-> 0]
Units(p) == IF p.kind = "publish" THEN Length ELSE 1

Go(t, place) == pc' = [pc EXCEPT ![t] = place]
At(t, place) == pc[t] = place
Return(a) == Go(a, "idle") /\ job' = [job EXCEPT ![a] = Other("none")]
Bounded == others < MaxOther /\ others' = others + 1 /\ UNCHANGED sends

\* mqttclient_mutex and socket_mutex.
ClientFree == ~At(Run, "retry") /\ \A a \in Apps : ~At(a, "store")
SocketFree == pc[Run] \notin {"continue", "clear", "complete"}

noPendingWrites(fd) == fd \notin write_pending
\* SocketBuffer_getWrite finds the first packet in the list.
getWrite(fd) == {i \in DOMAIN writes : /\ writes[i].fd = fd
                                       /\ \A j \in 1..(i - 1) : writes[j].fd # fd}

-----------------------------------------------------------------------------
(* Socket_putdatas *)

Fewer(m, n) == IF m <= n THEN m ELSE n
Slice(p, from, to) == [i \in 1..(to - from) |-> [packet |-> p, unit |-> from + i]]

\* SocketBuffer_pendingWrite, the list and the set for select.
Keep(fd, p, done, mem) ==
  /\ writes' = Append(writes, [fd |-> fd, packet |-> p, done |-> done, mem |-> mem])
  /\ write_pending' = write_pending \cup {fd}
  /\ pending_wset' = pending_wset \cup {fd}

\* Mutant: a packet is written although another one is not finished.
RefusesNever == broken

\* An unfinished packet, or the broken connection, refuses another one.
Refuses == broken \/ ~noPendingWrites(socket)

\* The units of packets of this size, one packet after the other.
AllUnits(packets, size) ==
  [j \in 1..(Len(packets) * size) |->
     [packet |-> packets[(j - 1) \div size + 1], unit |-> ((j - 1) % size) + 1]]

\* Packets of this size are written in turn on socket fd, which has taken before
\* and has free units, until one does not fit.
Written(fd, before, packets, size, mem, free) ==
  LET all == AllUnits(packets, size)
      n == Fewer(free, Len(all))
  IN /\ stream' = before \o SubSeq(all, 1, n) /\ room' = free - n
     /\ IF n = Len(all) THEN UNCHANGED <<writes, write_pending, pending_wset>>
        ELSE Keep(fd, packets[n \div size + 1], n % size, mem)
Write(packets, size, mem) == Written(socket, stream, packets, size, mem, room)

-----------------------------------------------------------------------------
(* MQTTClient_publish *)

publish(a) ==
  /\ At(a, "idle") /\ sends < MaxSends /\ sends' = sends + 1
  /\ job' = [job EXCEPT ![a] = Publication(sends + 1, QoS[a])]
  /\ Go(a, "check")
  /\ UNCHANGED <<client, buffers, pwset, taken, network, others>>

\* It waits, with the mutex free, until no packet is unfinished.
startPublish(a) ==
  LET p == job[a]
      partial == room < Units(p)
  IN /\ At(a, "check") /\ ClientFree
     /\ \/ ~connected /\ Return(a) /\ UNCHANGED <<outboundMsgs, buffers, stream, room>>
        \/ /\ connected /\ noPendingWrites(socket)
           /\ outboundMsgs' = IF p.qos = 1 THEN Append(outboundMsgs, p.id) ELSE outboundMsgs
           /\ IF Refuses
                THEN Go(a, "fail") /\ UNCHANGED <<job, buffers, stream, room>>
                ELSE /\ Write(<<p>>, Units(p), IF p.qos = 1 THEN "message" ELSE "app")
                     /\ IF partial THEN Go(a, IF p.qos = 0 THEN "store" ELSE "wait") /\ UNCHANGED job
                        ELSE Return(a)
                     /\ UNCHANGED copies
     /\ UNCHANGED <<socket, connected, pwset, taken, broken, inbox, acked, conns, bounds>>

\* SocketBuffer_updateWrite: the unfinished packet uses the stored copy.
updateWrite ==
  [i \in DOMAIN writes |->
     IF i \in getWrite(socket) /\ writes[i].packet.kind = "publish" /\ writes[i].packet.qos = 0
       THEN [writes[i] EXCEPT !.mem = "copy"] ELSE writes[i]]

\* MQTTProtocol_storeQoS0, still with the mutex.
storeQoS0(a) ==
  /\ At(a, "store")
  /\ copies' = copies \cup {[fd |-> socket, id |-> job[a].id]}
  /\ writes' = updateWrite
  /\ Go(a, "wait")
  /\ UNCHANGED <<client, write_pending, pending_wset, pwset, taken, job, network, bounds>>

\* An interrupted publish waits until the packet is written or the session is over.
publishReturns(a) ==
  /\ At(a, "wait") /\ ClientFree
  /\ ~connected \/ getWrite(socket) = {}
  /\ Return(a)
  /\ UNCHANGED <<client, buffers, pwset, taken, network, bounds>>

-----------------------------------------------------------------------------
(* Sessions *)

\* Mutant: the closed socket stays among those with an unfinished packet.
closeWatchOnly == /\ pending_wset' = pending_wset \ {socket}
                  /\ UNCHANGED write_pending

\* Socket_close.
close == /\ pending_wset' = pending_wset \ {socket}
         /\ write_pending' = write_pending \ {socket}

\* MQTTClient_closeSession sends DISCONNECT and closes the socket.  What is
\* unfinished stays in writes.
closeSession ==
  LET cut == ~Refuses /\ room = 0
  IN /\ connected' = FALSE /\ socket' = NoSocket
     /\ writes' = IF cut THEN Append(writes, [fd |-> socket, packet |-> Other("disconnect"),
                                              done |-> 0, mem |-> "own"]) ELSE writes
     /\ close
     /\ outboundMsgs' = IF Clean THEN <<>> ELSE outboundMsgs
     /\ stream' = <<>> /\ room' = 0 /\ broken' = FALSE /\ inbox' = <<>> /\ acked' = {}
     /\ UNCHANGED <<copies, conns>>

\* MQTTClient_disconnect, or MQTTClient_disconnect_internal after a failed send.
disconnect(a) ==
  /\ At(a, "idle") /\ connected /\ Bounded
  /\ Go(a, "fail")
  /\ UNCHANGED <<client, buffers, pwset, taken, job, network>>

disconnect1(a) ==
  /\ At(a, "fail") /\ ClientFree /\ SocketFree
  /\ IF connected THEN closeSession ELSE UNCHANGED <<client, buffers, network>>
  /\ Return(a)
  /\ UNCHANGED <<pwset, taken, bounds>>

Unacknowledged == [i \in DOMAIN outboundMsgs |-> Publication(outboundMsgs[i], 1)]

\* MQTTClient_connect, once accepted: what is unacknowledged is sent again.  The
\* CONNECT packet has left the send buffer.
connect(a) ==
  /\ At(a, "idle") /\ ClientFree /\ ~connected /\ conns < Len(Number)
  /\ conns' = conns + 1
  /\ socket' = Number[conns + 1] /\ connected' = TRUE
  /\ broken' = FALSE /\ inbox' = <<>> /\ acked' = {}
  /\ Written(socket', <<>>, Unacknowledged, Length, "message", Buffer)
  /\ UNCHANGED <<outboundMsgs, copies, pwset, taken, pc, job, bounds>>

-----------------------------------------------------------------------------
(* MQTTClient_cycle of the background thread *)

select ==
  /\ At(Run, "select") /\ Go(Run, "continue")
  /\ pwset' = {fd \in pending_wset : fd = socket /\ (room > 0 \/ broken)}
  /\ UNCHANGED <<client, buffers, taken, job, network, bounds>>

\* Mutant: the packet is continued from its beginning.
LeftFromStart(w) == Slice(w.packet, 0, Units(w.packet))

\* The units of a packet that are still to be written.
Left(w) == Slice(w.packet, w.done, Units(w.packet))

\* Socket_continueWrite; an error counts as the end of the packet.
continueWrite ==
  \E fd \in write_pending \cap pwset, i \in getWrite(socket) :
    LET left == Left(writes[i])
        n == Fewer(room, Len(left))
        ended == broken \/ n = Len(left)
    IN /\ At(Run, "continue") /\ fd = socket
       /\ pwset' = pwset \ {fd}
       /\ IF broken THEN UNCHANGED <<stream, room>>
          ELSE stream' = stream \o SubSeq(left, 1, n) /\ room' = room - n
       /\ writes' = IF ended THEN RemoveAt(writes, i) ELSE [writes EXCEPT ![i].done = @ + n]
       /\ IF ended THEN Go(Run, "clear") ELSE UNCHANGED pc
       /\ UNCHANGED <<client, write_pending, pending_wset, copies, taken, job,
                      broken, inbox, acked, conns, bounds>>

\* Mutant: the socket stays in the list of those with an unfinished packet.
clearWatchOnly ==
  /\ At(Run, "clear") /\ Go(Run, "complete")
  /\ pending_wset' = pending_wset \ {socket}
  /\ UNCHANGED <<client, write_pending, writes, copies, pwset, taken, job, network, bounds>>

clear ==
  /\ At(Run, "clear") /\ Go(Run, "complete")
  /\ write_pending' = write_pending \ {socket}
  /\ pending_wset' = pending_wset \ {socket}
  /\ UNCHANGED <<client, writes, copies, pwset, taken, job, network, bounds>>

\* MQTTProtocol_checkPendingWrites frees the copies of finished packets.
writeComplete ==
  /\ At(Run, "complete") /\ Go(Run, "continue")
  /\ copies' = {c \in copies : ~noPendingWrites(c.fd)}
  /\ UNCHANGED <<client, writes, write_pending, pending_wset, pwset, taken, job, network, bounds>>

Readable == socket # NoSocket /\ (inbox # <<>> \/ broken)

\* Mutant: packets are read while one is unfinished.
isReadyAlways == Readable

\* A socket is read only if nothing is unfinished on it.
isReady == Readable /\ noPendingWrites(socket)

\* Once the unfinished writes are continued.
getReadySocket ==
  /\ At(Run, "continue") /\ write_pending \cap pwset = {} /\ Go(Run, "handle")
  /\ taken' = IF isReady THEN socket ELSE NoSocket
  /\ pwset' = {}
  /\ UNCHANGED <<client, buffers, job, network, bounds>>

\* The handlers: an acknowledgement ends a publication; other work is answered,
\* which fails if a publish has been interrupted since the socket was ready.
handle ==
  /\ At(Run, "handle") /\ ClientFree /\ taken # NoSocket
  /\ IF taken # socket
       THEN Go(Run, "retry") /\ UNCHANGED <<outboundMsgs, buffers, stream, room, inbox>>
     ELSE IF inbox = <<>>
       THEN /\ Go(Run, IF broken THEN "lost" ELSE "retry")
            /\ UNCHANGED <<outboundMsgs, buffers, stream, room, inbox>>
     ELSE /\ inbox' = Tail(inbox)
          /\ \/ /\ Head(inbox).kind = "ack" /\ Go(Run, "retry")
                /\ IF Head(inbox).id \in ToSet(outboundMsgs)
                     THEN \E i \in DOMAIN outboundMsgs : /\ outboundMsgs[i] = Head(inbox).id
                                                        /\ outboundMsgs' = RemoveAt(outboundMsgs, i)
                     ELSE UNCHANGED outboundMsgs
                /\ UNCHANGED <<buffers, stream, room>>
             \/ /\ Head(inbox).kind = "work" /\ UNCHANGED <<outboundMsgs, copies>>
                /\ IF Refuses
                     THEN Go(Run, "lost") /\ UNCHANGED <<writes, write_pending, pending_wset, stream, room>>
                     ELSE Go(Run, "retry") /\ Write(<<Other("reply")>>, 1, "own")
  /\ UNCHANGED <<socket, connected, pwset, taken, job, broken, acked, conns, bounds>>

\* MQTTProtocol_retries, when the retry interval is over.  One that fails locks
\* the client out, as OutboundSession shows.
retry ==
  /\ At(Run, "retry") \/ (At(Run, "handle") /\ taken = NoSocket /\ ClientFree)
  /\ Go(Run, "select") /\ taken' = NoSocket
  /\ \/ /\ connected /\ ~Refuses /\ outboundMsgs # <<>> /\ Bounded
        /\ Write(Unacknowledged, Length, "message")
     \/ UNCHANGED <<writes, write_pending, pending_wset, stream, room, bounds>>
  /\ UNCHANGED <<client, copies, pwset, job, broken, inbox, acked, conns>>

\* The background thread ends the session of the socket that failed.
lost ==
  /\ At(Run, "lost") /\ ClientFree
  /\ Go(Run, "select") /\ taken' = NoSocket
  /\ IF connected /\ taken = socket THEN closeSession ELSE UNCHANGED <<client, buffers, network>>
  /\ UNCHANGED <<pwset, job, bounds>>

-----------------------------------------------------------------------------
(* External: the connection and the broker *)

drains ==
  /\ connected /\ ~broken /\ room < Buffer
  /\ room' \in (room + 1)..Buffer
  /\ UNCHANGED <<client, buffers, pwset, taken, pc, job, stream, broken, inbox, acked, conns, bounds>>

linkBreaks ==
  /\ connected /\ ~broken /\ Bounded
  /\ broken' = TRUE
  /\ UNCHANGED <<client, buffers, pwset, taken, pc, job, stream, room, inbox, acked, conns>>

brokerAcks ==
  /\ connected /\ ~broken
  /\ \E i \in DOMAIN stream :
       LET p == stream[i].packet
       IN /\ p.qos = 1 /\ stream[i].unit = Length /\ p.id \notin acked
          /\ acked' = acked \cup {p.id}
          /\ inbox' = Append(inbox, [kind |-> "ack", id |-> p.id])
  /\ UNCHANGED <<client, buffers, pwset, taken, pc, job, stream, room, broken, conns, bounds>>

brokerSends ==
  /\ connected /\ ~broken /\ Bounded
  /\ inbox' = Append(inbox, [kind |-> "work", id |-> 0])
  /\ UNCHANGED <<client, buffers, pwset, taken, pc, job, stream, room, broken, acked, conns>>

-----------------------------------------------------------------------------
Init ==
  /\ socket = NoSocket /\ connected = FALSE /\ outboundMsgs = <<>>
  /\ writes = <<>> /\ write_pending = {} /\ pending_wset = {} /\ pwset = {} /\ copies = {}
  /\ taken = NoSocket
  /\ pc = [t \in Threads |-> IF t = Run THEN "select" ELSE "idle"]
  /\ job = [a \in Apps |-> Other("none")]
  /\ stream = <<>> /\ room = 0 /\ broken = FALSE /\ inbox = <<>> /\ acked = {} /\ conns = 0
  /\ sends = 0 /\ others = 0

cycle == \/ select \/ continueWrite \/ clear \/ writeComplete
         \/ getReadySocket \/ handle \/ retry \/ lost
Proceed(a) == startPublish(a) \/ storeQoS0(a) \/ publishReturns(a) \/ disconnect1(a)

Next == \/ cycle
        \/ \E a \in Apps : publish(a) \/ Proceed(a) \/ disconnect(a) \/ connect(a)
        \/ drains \/ linkBreaks \/ brokerAcks \/ brokerSends

Spec == Init /\ [][Next]_vars

\* The threads are scheduled, a wait of 100 ms does not miss the mutex for ever,
\* and the broker reads.
FairSpec == Spec /\ WF_vars(cycle) /\ WF_vars(drains) /\ \A a \in Apps : SF_vars(Proceed(a))

-----------------------------------------------------------------------------
(* Properties *)

TypeOK ==
  /\ socket \in ToSet(Number) \cup {NoSocket} /\ connected = (socket # NoSocket)
  /\ \A i \in DOMAIN writes : /\ writes[i].fd \in ToSet(Number)
                              /\ writes[i].done \in 0..(Units(writes[i].packet) - 1)
                              /\ writes[i].mem \in {"app", "copy", "message", "own"}
  /\ write_pending \subseteq {socket} \ {NoSocket}
  /\ pending_wset \subseteq write_pending
  /\ pwset \subseteq ToSet(Number) /\ taken \in ToSet(Number) \cup {NoSocket}
  /\ copies \subseteq [fd : ToSet(Number), id : 1..MaxSends]
  /\ outboundMsgs \in Seq(1..MaxSends) /\ room \in 0..Buffer

\* A connection carries whole packets, one after the other: the rest of a packet
\* follows its beginning, whatever the threads do meanwhile.
StreamIsPackets ==
  \A i \in DOMAIN stream :
    LET unit == stream[i].unit
    IN IF unit > 1
         THEN i > 1 /\ stream[i - 1] = [stream[i] EXCEPT !.unit = unit - 1]
         ELSE i = 1 \/ stream[i - 1].unit = Units(stream[i - 1].packet)

\* What the library believes unfinished is what the connection has not taken,
\* from where it stopped.
UnfinishedIsKept ==
  connected /\ ~broken /\ pc[Run] \notin {"clear", "complete"} =>
    LET last == stream[Len(stream)]
    IN IF noPendingWrites(socket)
         THEN /\ getWrite(socket) = {}
              /\ stream # <<>> => last.unit = Units(last.packet)
         ELSE \E i \in getWrite(socket) :
                writes[i].done > 0 => last = [packet |-> writes[i].packet, unit |-> writes[i].done]

\* A packet that will be continued lies in memory that is not free: the caller's
\* until publish returns, the stored copy, or the message until it is acknowledged.
MemoryLives ==
  \A i \in getWrite(socket) :
    LET id == writes[i].packet.id
    IN CASE writes[i].mem = "app" -> \E a \in Apps : job[a].id = id /\ pc[a] \in {"store", "wait"}
         [] writes[i].mem = "copy" -> [fd |-> socket, id |-> id] \in copies
         [] writes[i].mem = "message" -> id \in ToSet(outboundMsgs)
         [] writes[i].mem = "own" -> TRUE

\* Every publish returns, if the broker reads or the connection breaks.
PublishReturns == \A a \in Apps : ~At(a, "idle") ~> At(a, "idle")
=============================================================================
