----------------------------- MODULE SocketReader -----------------------------
(***************************************************************************)
(* How the background thread turns the bytes of several sockets into       *)
(* packets: Socket_getReadySocket takes the ready sockets in turn, and     *)
(* MQTTPacket_Factory reads as much of one packet as there is.  The bytes  *)
(* of an unfinished packet are kept in SocketBuffer's queues, one default  *)
(* queue being shared by all sockets until a read is interrupted.          *)
(*                                                                         *)
(* Bytes are numbers; one at least Base as the byte of a length says that  *)
(* another length byte follows (128 in the code).                          *)
(***************************************************************************)
EXTENDS Integers, Sequences, SequencesExt, FiniteSetsExt

CONSTANTS Sockets,    \* socket numbers; a new connection of a client gets its old one
          NoSocket,   \* no socket
          Base,       \* what one length byte counts to
          Script,     \* per socket: the packets the broker sends on a connection
          ReaderCloses, \* whether the reading thread closes a socket whose read failed,
                      \* before it reads another: so for a connected client
          MaxConns,   \* bound: connections per socket
          MaxBreaks   \* bound: connections that the broker ends

ASSUME ReaderAssumption == /\ IsFiniteSet(Sockets) /\ NoSocket \notin Sockets
                           /\ ReaderCloses \in BOOLEAN
                           /\ Base \in Nat \ {0, 1}
                           /\ MaxConns \in Nat /\ MaxBreaks \in Nat

Byte == 0..(2 * Base - 1)
Packet == [type : Byte, body : Seq(Byte)]
MaxLength == Base * Base * Base * Base  \* what four length bytes can count

ASSUME ScriptAssumption ==
  /\ Script \in [Sockets -> Seq(Packet)]
  /\ \A s \in Sockets : \A i \in DOMAIN Script[s] : Len(Script[s][i].body) < MaxLength

VARIABLES
  clientsds,   \* the open sockets in the order they were opened
  cur,         \* the socket getReadySocket looks at next
  ready,       \* the result of the last select: readable and writable
  taken,       \* the socket getReadySocket has returned
  failed,      \* the sockets whose read failed, until they are closed
  queues,      \* per socket: the header and data of its unfinished packet
  def_queue,   \* the default queue: the socket that uses it and its header
  got,         \* per socket: the packets of this connection
  inbuf,       \* external, per socket: bytes to read
  coming,      \* external, per socket: bytes under way
  broken,      \* external: the sockets whose connection has ended
  conns,       \* bound, per socket: connections made
  breaks,      \* bound: connections ended
  overtaken    \* history, per socket: turns of others since it was ready

lists == <<clientsds, cur, ready>>
network == <<inbuf, coming, broken, conns, breaks>>
vars == <<lists, taken, failed, queues, def_queue, got, network, overtaken>>

Unused == [header |-> <<>>, data |-> <<>>]
FreeQueue == [socket |-> NoSocket, header |-> <<>>]
MaxHeader == 5      \* the type and at most four length bytes

\* MQTTPacket_encode and the layout of a packet.
encode[n \in Nat] ==
  IF n < Base THEN <<n>> ELSE <<Base + (n % Base)>> \o encode[n \div Base]
Bytes(packet) == <<packet.type>> \o encode[Len(packet.body)] \o packet.body

\* MQTTPacket_decode: the value of the length bytes that follow the type.
DecodedTo(header) ==
  LET multiplier[i \in 1..Len(header)] == IF i < 3 THEN 1 ELSE multiplier[i - 1] * Base
      value[i \in 1..Len(header)] == IF i = 1 THEN 0
                                     ELSE value[i - 1] + (header[i] % Base) * multiplier[i]
  IN value[Len(header)]

-----------------------------------------------------------------------------
(* Socket_getReadySocket *)

Open(s) == s \in ToSet(clientsds)
Readable == {s \in Sockets : Open(s) /\ (inbuf[s] # <<>> \/ s \in broken)}

\* The place in the list, from i on, of the first socket of set.
FirstOf(set, i) == {j \in i..Len(clientsds) :
                      clientsds[j] \in set /\ \A k \in i..(j - 1) : clientsds[k] \notin set}
Place(s) == IF Open(s) THEN CHOOSE i \in 1..Len(clientsds) : clientsds[i] = s
            ELSE Len(clientsds) + 1

\* Mutant: the search begins at the first socket every time.
AfterRestarts(i) == Head(clientsds)

\* ListNextElement.
After(i) == IF i < Len(clientsds) THEN clientsds[i + 1] ELSE NoSocket

\* The rest of what the last select found ready, then another select.
getReadySocket ==
  LET rest == FirstOf(ready, Place(cur))
      fresh == FirstOf(Readable, 1)
      Return(i) ==
        /\ taken' = clientsds[i] /\ cur' = After(i)
        /\ overtaken' = [s \in Sockets |->
                           IF s \in Readable \ {clientsds[i]} THEN overtaken[s] + 1 ELSE 0]
  IN /\ taken = NoSocket
     /\ ReaderCloses => failed = {}
     /\ \/ \E i \in rest : Return(i) /\ UNCHANGED ready
        \/ rest = {} /\ ready' = Readable /\ \E i \in fresh : Return(i)
        \/ /\ rest = {} /\ fresh = {} /\ cur # NoSocket
           /\ ready' = {} /\ cur' = NoSocket
           /\ UNCHANGED <<taken, overtaken>>
     /\ UNCHANGED <<clientsds, failed, queues, def_queue, got, network>>

-----------------------------------------------------------------------------
(* MQTTPacket_Factory *)

Saved(s) == queues[s] # Unused
Owns(s) == def_queue.socket \in {s, NoSocket}

\* SocketBuffer_complete: the queue of s is the default queue again, and free.
complete(s) == queues' = [queues EXCEPT ![s] = Unused] /\ def_queue' = FreeQueue

\* Mutant: an interrupted read forgets the header.
interruptedForgets(s, header, data) ==
  queues' = [queues EXCEPT ![s] = [header |-> <<>>, data |-> data]] /\ def_queue' = FreeQueue

\* SocketBuffer_interrupted: the queue of s is kept, or the default queue is
\* saved for the socket that uses it, which may be another one.
interrupted(s, header, data) ==
  LET used == IF Saved(s) \/ Owns(s) THEN [socket |-> s, header |-> header] ELSE def_queue
  IN /\ queues' = IF used.header = <<>> THEN queues
                  ELSE [queues EXCEPT ![used.socket] = [header |-> used.header, data |-> data]]
     /\ def_queue' = IF Saved(s) THEN def_queue ELSE FreeQueue

\* Mutant: the end of the stream is not taken for an error.
failSilent(s, header) == failed' = failed /\ queues' = queues /\ def_queue' = def_queue

\* A read fails: the bytes of the header stay in the queue.
fail(s, header) ==
  /\ failed' = failed \cup {s}
  /\ IF Saved(s)
       THEN queues' = [queues EXCEPT ![s].header = header] /\ UNCHANGED def_queue
       ELSE /\ UNCHANGED queues
            /\ def_queue' = IF Owns(s) /\ header # <<>>
                              THEN [socket |-> s, header |-> header] ELSE def_queue

\* One call: bytes is what was saved of the header and what can be read now.
Factory(s) ==
  LET bytes == queues[s].header \o inbuf[s]
      ends == {i \in 2..Len(bytes) : bytes[i] < Base}
      head == IF ends = {} THEN Len(bytes) ELSE Min(ends)
      header == SubSeq(bytes, 1, head)
      data == queues[s].data \o SubSeq(bytes, head + 1, Len(bytes))
      length == DecodedTo(header)
      Rest(left) == inbuf' = [inbuf EXCEPT ![s] = left]
      short == IF ends = {} THEN head < MaxHeader ELSE head <= MaxHeader
      whole == short /\ ends # {} /\ Len(data) >= length
  IN \/ /\ whole
        /\ got' = [got EXCEPT ![s] = Append(@, [type |-> header[1],
                                                body |-> SubSeq(data, 1, length)])]
        /\ complete(s) /\ Rest(SubSeq(data, length + 1, Len(data)))
        /\ UNCHANGED failed
     \/ /\ short /\ ~whole
        /\ s \notin broken \/ (ends # {} /\ data # queues[s].data)
        /\ interrupted(s, header, data) /\ Rest(<<>>)
        /\ UNCHANGED <<failed, got>>
     \/ /\ ~short \/ (~whole /\ s \in broken /\ (ends = {} \/ data = queues[s].data))
        /\ fail(s, SubSeq(header, 1, Min({head, MaxHeader}))) /\ Rest(SubSeq(bytes, MaxHeader + 1, Len(bytes)))
        /\ UNCHANGED got

\* MQTTClient_cycle: the socket may have been closed, and be another connection's,
\* since getReadySocket returned it.
cycle ==
  /\ taken # NoSocket /\ taken' = NoSocket
  /\ IF Open(taken) THEN Factory(taken)
     ELSE UNCHANGED <<queues, def_queue, got, failed, inbuf>>
  /\ UNCHANGED <<lists, coming, broken, conns, breaks, overtaken>>

-----------------------------------------------------------------------------
(* Socket_close and Socket_new *)

\* Mutant: an unfinished packet survives its connection.
cleanupKeepsSaved(s) == queues' = queues /\ def_queue' = def_queue

\* SocketBuffer_cleanup.
cleanup(s) ==
  /\ queues' = [queues EXCEPT ![s] = Unused]
  /\ def_queue' = IF def_queue.socket = s THEN FreeQueue ELSE def_queue

\* Mutant: the list is not left when its element goes.
CurWithoutStays(s) == cur

CurWithout(s) == IF cur = s THEN After(Place(s)) ELSE cur

\* After a failed read, or by an application thread.
close(s) ==
  /\ Open(s)
  /\ clientsds' = RemoveAt(clientsds, Place(s))
  /\ cur' = CurWithout(s)
  /\ cleanup(s)
  /\ failed' = failed \ {s}
  /\ inbuf' = [inbuf EXCEPT ![s] = <<>>] /\ coming' = [coming EXCEPT ![s] = <<>>]
  /\ broken' = broken \ {s}
  /\ UNCHANGED <<ready, taken, got, conns, breaks, overtaken>>

new(s) ==
  /\ ~Open(s) /\ conns[s] < MaxConns
  /\ conns' = [conns EXCEPT ![s] = @ + 1]
  /\ clientsds' = Append(clientsds, s)
  /\ got' = [got EXCEPT ![s] = <<>>]
  /\ coming' = [coming EXCEPT ![s] = FlattenSeq([i \in DOMAIN Script[s] |-> Bytes(Script[s][i])])]
  /\ overtaken' = [overtaken EXCEPT ![s] = 0]
  /\ UNCHANGED <<cur, ready, taken, failed, queues, def_queue, inbuf, broken, breaks>>

-----------------------------------------------------------------------------
(* External: the network *)

arrive(s) ==
  /\ Open(s)
  /\ \E n \in 1..Len(coming[s]) :
       /\ inbuf' = [inbuf EXCEPT ![s] = @ \o SubSeq(coming[s], 1, n)]
       /\ coming' = [coming EXCEPT ![s] = SubSeq(@, n + 1, Len(@))]
  /\ UNCHANGED <<lists, taken, failed, queues, def_queue, got, broken, conns, breaks, overtaken>>

break(s) ==
  /\ Open(s) /\ s \notin broken /\ breaks < MaxBreaks
  /\ broken' = broken \cup {s} /\ breaks' = breaks + 1
  /\ coming' = [coming EXCEPT ![s] = <<>>]
  /\ UNCHANGED <<lists, taken, failed, queues, def_queue, got, inbuf, conns, overtaken>>

-----------------------------------------------------------------------------
Init ==
  /\ clientsds = <<>> /\ cur = NoSocket /\ ready = {} /\ taken = NoSocket /\ failed = {}
  /\ queues = [s \in Sockets |-> Unused] /\ def_queue = FreeQueue
  /\ got = [s \in Sockets |-> <<>>]
  /\ inbuf = [s \in Sockets |-> <<>>] /\ coming = [s \in Sockets |-> <<>>]
  /\ broken = {} /\ conns = [s \in Sockets |-> 0] /\ breaks = 0
  /\ overtaken = [s \in Sockets |-> 0]

Next == \/ getReadySocket \/ cycle
        \/ \E s \in Sockets : close(s) \/ new(s) \/ arrive(s) \/ break(s)

Spec == Init /\ [][Next]_vars

\* The thread cycles, closes what failed, and what is sent arrives.
FairSpec == /\ Spec
            /\ WF_vars(getReadySocket) /\ WF_vars(cycle)
            /\ \A s \in Sockets : WF_vars(arrive(s)) /\ WF_vars(s \in failed /\ close(s))

-----------------------------------------------------------------------------
(* Properties *)

Queue == [header : Seq(Byte), data : Seq(Byte)]

\* Every variable keeps its type; a saved header fits its buffer.
TypeOK ==
  /\ clientsds \in Seq(Sockets) /\ IsInjective(clientsds)
  /\ cur \in ToSet(clientsds) \cup {NoSocket} /\ ready \subseteq Sockets
  /\ taken \in Sockets \cup {NoSocket} /\ failed \subseteq ToSet(clientsds)
  /\ queues \in [Sockets -> Queue]
  /\ \A s \in Sockets : Len(queues[s].header) <= MaxHeader
  /\ def_queue \in [socket : Sockets \cup {NoSocket}, header : Seq(Byte)]
  /\ got \in [Sockets -> Seq(Packet)]
  /\ inbuf \in [Sockets -> Seq(Byte)] /\ coming \in [Sockets -> Seq(Byte)]
  /\ broken \subseteq ToSet(clientsds)
  /\ conns \in [Sockets -> 0..MaxConns] /\ breaks \in 0..MaxBreaks
  /\ overtaken \in [Sockets -> Nat]

\* However the bytes of several sockets arrive in pieces, each connection's
\* packets are read whole, in order and from its own bytes only, also when its
\* number was used by a connection that ended in the middle of a packet.
PacketsAreSent ==
  \A s \in Sockets : Open(s) => IsPrefix(got[s], Script[s])

\* The bytes of an unfinished packet are kept until the rest arrives.
BytesKept ==
  \A s \in Sockets : Open(s) /\ s \notin broken \cup failed =>
    FlattenSeq([i \in DOMAIN got[s] |-> Bytes(got[s][i])])
      \o queues[s].header \o queues[s].data \o inbuf[s] \o coming[s]
        = FlattenSeq([i \in DOMAIN Script[s] |-> Bytes(Script[s][i])])

\* Others have at most twice as many turns as they are, before a socket with
\* something to read has its own: once for the rest of the last select, once for
\* the order of the list.
TakesTurns == \A s \in Sockets : overtaken[s] <= 2 * (Cardinality(Sockets) - 1)

\* Every packet sent on a connection that lasts is read, and the end of one is
\* noticed.
EverythingRead ==
  \A s \in Sockets :
    Open(s) ~> (~Open(s) \/ (s \notin broken /\ Len(got[s]) = Len(Script[s])))
=============================================================================
