# A verification of the OpenWrt MQTT-UART gateway

The repository is a gateway for OpenWrt boards: a serial line on one side, an
MQTT broker on the other. Most of its logic is the MQTT client library under
`src/src/mqtt` (a Paho C client of 2016, with a small wrapper), the rest a serial
main loop and board tools. This directory holds TLA+ modules that are
translated from that code, TLC configurations that check them, and TLAPS proofs.

Paths below are under `src/src`; library files are in `src/src/mqtt`. A number after a
file name is a line. `PROJECT.json` maps each definition to its lines, lists
the hazards of the code with the properties aimed at them, and names the
mutation (a plausible bug, defined beside the definition it replaces and
commented `Mutant`) that each property is known to catch.

    tlc -workers 4 -config Outbound_delivery.cfg MCOutboundSession
    tlapm OutboundSession_proofs.tla

## 1. Inventory

| Component | State it keeps | Operations | Model |
|---|---|---|---|
| Sending half of a session (`MQTTClient.c`, `MQTTProtocolClient.c`) | `outboundMsgs`, `msgID`, `connected`, the store's `s-` and `sc-` records | publish, waitForCompletion, PUBACK / PUBREC / PUBCOMP handlers, retries, connect, disconnect, restore | OutboundSession, Delivery |
| Receiving half | `inboundMsgs`, `messageQueue`, `qentry_seqno`, the `r-` and `q-` records | PUBLISH and PUBREL handlers, the queue, `messageArrived`, `MQTTClient_receive`, restore | InboundSession |
| Threads (`MQTTClient.c`, `Thread.c`) | `mqttclient_mutex`, `running`, `tostop`, `run_id`, per client four semaphores and `m->pack`, `m->rc`, `connect_state` | connect with two protocol versions, subscribe, unsubscribe, disconnect, waitfor, run, stop, connectionLost | ClientThreads |
| Reading from sockets (`Socket.c`, `SocketBuffer.c`, `MQTTPacket.c`) | `clientsds`, `cur_clientsds`, the ready set, `queues`, `def_queue` | getReadySocket, Factory with header and length decoding, interrupted / complete / cleanup, new, close | SocketReader |
| Writing to sockets | `writes`, `write_pending`, `pending_wset`, `state.pending_writes` | putdatas, continueWrite, clear, storeQoS0, checkPendingWrites, close | SocketWriter |
| Serial gateway (`uart_1_app.c`, `uart1.c`, `dreamflower_app.c`) | `read_data`, `read_report`, `fd_uart1` | open, set up, read a frame, execute | UartGateway |
| Persistence in files (`MQTTPersistenceDefault.c`, `MQTTPersistence.c`) | one file per record | put, get, remove, keys, containskey, clear; restore | FileStore |
| Subscriptions (`MQTTProtocolOut.c`, `MQTTPacketOut.c`) | none of their own | request, answer, failure | ClientThreads |
| Packet encoding (`MQTTPacket.c`) | none | encode and decode | the header and the length, in SocketReader |
| Wrapper (`mqtt_client.c`, `mqtt_publish.c`, `mqtt_subscribe.c`) | the last message received | connect, publish and wait, receive, yield, disconnect: calls of the library in turn | ClientWrapper |
| Lists, trees, heap tracker (`LinkedList.c`, `Tree.c`, `Heap.c`) | list and tree nodes; `heap`, `state.current_size`, `heap_mutex` | insert, remove, find, iterate; malloc, realloc and free | Registry, Tree, Heap; lists are sequences and sets |
| UTF-8 (`utf-8.c`) | none | validate a character, a string | Utf8 |
| Tracing (`Log.c`, `StackTrace.c`, `Messages.c`) | the trace ring | log | not modelled |
| TLS (`SSLSocket.c`) | | | not built: `OPENSSL` is not defined |
| Daemon mode, serial terminal, pins, clock, capture, `thread.c` | | system calls in turn | not modelled |

How they interact. An application thread (through the wrapper or not) calls the
library; every call takes `mqttclient_mutex`. One background thread,
`MQTTClient_run`, is started by the first connect of a client with callbacks. It
waits in `Socket_getReadySocket` with the mutex free, then takes it, reads one
packet and runs its handler. What a blocked call waits for it puts into `m->pack`
and posts a semaphore; a message it hands to `messageArrived` with the mutex
free; a lost session to `connectionLost` on a thread of its own. Handlers
and calls write packets through the socket layer, which keeps what does not fit
and continues it from the background thread under a second mutex, `socket_mutex`.
Sends and receives write the persistent store on the way; `MQTTClient_create`
reads it back. The serial loop is a process of its own and shares nothing with
the library: the program chooses between them by its command line.

What is hard: sixteen-bit message ids that wrap while old ones are in use; resends after a
loss, a restart or a timeout that meet late answers; two stores (list and
files) that must agree at every instant the process may end; a mutex that is let
go around callbacks and waits; a slot and semaphores that outlive the call
they served; partial reads and writes of several sockets through shared
buffers; socket numbers that come back. The properties each component needs are those of the
table in section 4.

## 2. Plan

Order, most important behaviour first; the first eleven are done.

1. **OutboundSession** with **Delivery**, the abstract specification of what
   `MQTTClient.h:1007-1033` promises a publisher. `MCOutboundSession` makes the
   instances and states the refinement; **OutboundSession_proofs** has the proofs.
2. **InboundSession**, the other half of the session.
3. **ClientThreads**, the threads and what they share.
4. **SocketReader**, **SocketWriter**, the byte level.
5. **UartGateway**, the serial side.
6. **FileStore**: the operations that the session modules take as one step are here
   several, and a crash may come between any two.
7. Proofs of the types, the list invariant and the history of the sending side.
8. **ClientWrapper**, the wrapper as the user of OutboundSession, which it extends: the
   composition of the application's calls with the session under them.
9. **Tree** and **Heap**, the red-black tree as pointers under the heap tracker, and
   **Registry**, the table they implement.
10. **Utf8**, an algorithm and its reference definition. **Utilities_proofs** has the proofs of this and of the heap.
11. **FileStore_proofs**; **InboundSession_proofs**, with the fate and the order of received messages;
    **ClientThreads_proofs**; in **OutboundSession_proofs** also that the sending side implements Delivery;
    **SocketReader_proofs** and **SocketWriter_proofs**, the packets of a connection;
    **UartGateway_proofs**, the answers on the serial line.
12. Left, models: two application threads in one client, `MQTTClient_receive` and `MQTTClient_yield`
    beside the background thread, the `r-` and `q-` files in FileStore, the message that an
    interrupted publish still points at, the ring of the trace.
13. Left, proofs: the answers of a process with several clients.

The modules meet at named places rather than in one product, which no checker
could search. OutboundSession and InboundSession take a handler as one step (or
as the steps between its writes), which ClientThreads justifies: the mutex is
held. They take a record as written or not, which FileStore examines. They
take packets as whole, which SocketReader and SocketWriter examine. ClientThreads
leaves message flows to the two session modules. ClientWrapper extends OutboundSession instead of
talking to it: its calls are the session's actions with the application's variables beside them.

## 3. Modules and the code

**OutboundSession.** A message in flight is its id, quality of service, the
packet it waits for (`next`, which is `nextMessageType`) and the number of the publication, which
stands for topic and payload. `publish` is `MQTTClient_publish` from its tests to the
send: the wait for a place in the window, `MQTTProtocol_assignMsgId`, the
append to the list, the record, the packet. `publishFails` is its error path. The
three handlers follow `MQTTProtocol_handlePubacks`, `_handlePubrecs` and `_handlePubcomps`: an
acknowledgement no message waits for changes nothing. `retry` is one message of
`MQTTProtocol_retries`; it writes the record again, as `MQTTPacket_send` does. `connect` and
`connectFails` cover `MQTTClient_connectURIVersion` with a clean session's
discarding and the resend of everything in flight, which stops where a packet
cannot be written at once. `crash` ends the process and restores: records in id
order, the list rotated at the largest gap (`MQTTPersistence_wrapMsgID`), a PUBREL
record moving its message on, orphans removed. `protocolCloseSession` is the
lock-out described under findings. The broker and the connection are external:
two FIFO streams that may break, the broker of the MQTT specification. `ledger`
is history: what became of each publication.

**InboundSession.** Handlers are split at their writes to the network and the
store, since a process may end there: `storePublish2` / `handlePublish2`,
`handlePubrels` / `releasePublication` / `forgetInbound`, `handlePublish1` /
`processPublication`. With `Callback` the run thread takes the head of the queue
(`callMessageArrived`), runs the callback without the mutex, and removes the entry
when it is accepted; without it `MQTTClient_receive` takes messages, also one after a failed cycle.
`Remove` drops one element of a sequence; the broker's list of messages in flight uses it. `Called` is
what the thread has in hand: the entry it gives to the callback, or the publication a handler works on. `version` is what
the broker speaks: MQTT 3.1 marks a PUBREL that is sent again as a duplicate, MQTT 3.1.1 does not.

**ClientThreads.** A program counter per thread, a step per stretch under the mutex,
and a step of its own for what is read without it: `running` in `waitfor`, and
`m->pack` or `m->rc` after `Thread_wait_sem` (`takeSlot`). `startVersion`/`protocolConnect` are
connect up to the sleep of 100 ms and from there; `disconnect1`, `drain` and `stop` are
`MQTTClient_disconnect1`; `runStart` to `callbackReturns` are `MQTTClient_run`. A wait that
runs out although its answer is there is a disturbance (`late`).

**SocketReader.** Bytes are numbers. `Base`, 128 in the code, is 2, so that two-byte lengths
occur with three bytes. `Factory` is `MQTTPacket_Factory` with what it calls: as many bytes as
there are, the default queue, which one socket owns until it is saved for it
(`interrupted`), the decoding of the length. `getReadySocket` follows
`Socket_getReadySocket` with the rest of the last select and the cursor in the list.

**SocketWriter.** A PUBLISH is two units long in the run, other packets one. `Written` is
`Socket_putdatas`, for one packet or the several of a resend, all of one size: `AllUnits` is the
sequence of their units, of which the connection takes as many as fit. The publisher's steps
follow the three stretches of `MQTTClient_publish`; the background thread's follow
`Socket_continueWrites` and `MQTTClient_cycle`. `mem` says in whose memory the
rest of a packet lies.

**UartGateway.** `get_complete_frame` reads pieces of any size and keeps the last
command of the piece that ends one; `uart_1_Main` answers `$0001#` and `$0002#`
and keeps the report. A body is any sequence of bytes other than `$`, `#` and NUL. `Collected` is what the loop over a
piece makes of `read_data`: what follows the last `$`, or all of it added. `Size` is the room in `read_data` (255 bytes in the code), of which
`read_tmp` has one byte more. The code checks neither: a read whose text does not fit (`Fits`), or that leaves no
NUL in `read_tmp` (`Unended`), is undefined behaviour. `runsOver` takes it to the place `overrun`, which stands for whatever
follows and is never left.

**FileStore.** The key is the file, its content a publication and a size. `fopen` empties the
file, `pstput` fills it, and a crash between leaves any prefix.
`MQTTPersistence_restorePacket`'s test of the length and the order of the removals are as in the code; `clearUnix` is as
it is written, looking names up in the working directory.

**ClientWrapper.** One application thread: `mqtt_publish` is `MQTTClient_publishMessage`
and then the looks of `MQTTClient_waitForCompletion`, between which the session goes on, as it does in
`mqtt_yield` or, with `Threaded`, by itself. `result` is what the call returned, `about` the publication it was for.

**Tree, Heap, Registry.** `Tree` has the operations of `Tree.c` as operators on a record of
nodes with parent and child links; a node is named by its content, the address of a block, and `Temp` is the
node that `TreeRemoveNodeIndex` puts on the stack to balance at a leaf that is gone. `Heap` is the
tracker: a call holds `heap_mutex` throughout, and a round of a balancing loop is a step, so
that the loop's end is a property. Where the C library has no memory the call returns with the mutex held, as
the code does. `TreeNextElement` is a step of the walk by which `HeapScan` goes through the records (`TreeWalk`); the searches
and the climb are recursive functions on the nodes. Registry is a table: a block enters once, is found while it is there,
leaves once; `Table` in Heap says what of the heap it sees.

**Utf8.** `valid_ranges` and `charlen` are the table and the bit tests of `utf-8.c`, `UTF8_char_validate`
and `UTF8_validateString` the two loops, with `char` signed or not. The reference is the encoding of
every Unicode scalar value. `StringCheck` compares the two over strings of bytes at the limits of the table;
it is an assumption that TLC evaluates before a run of `MCOutboundSession`, whose client checks its strings so.

## 4. Runs

| Run | Properties | What it shows |
|---|---|---|
| Outbound_delivery | SessionInv, ListHoldsInflight, WaitedWasDelivered, DeliveredInOrder, PromiseKept, InflightEnds | A kept session implements Delivery over two losses and a restart, or a loss and a retry that crosses its answer; list, store and the caller's view of a message agree; `waitForCompletion` tells the truth; order is kept as far as the window allows; everything accepted ends. |
| Inbound_callback | NeverTwice, SettledIsHeld, CalledIsQueued, DeliveredInOrder, FlowEnds | QoS 2 once, nothing acknowledged is lost, order, and the entry in the callback stays, while other threads disconnect and the callback refuses. The message of every flow arrives, and its flow ends; with a broker of MQTT 3.1.1 it stays open if its PUBCOMP was lost with a connection (*known limits*). |
| Inbound_store | StoreMirrorsMemory, NumberedInOrder | With two restarts, also inside a handler, what would be restored is what the client has. |
| Threads_calls | TypeOK, OneRunner, ConnectedWasAccepted, RequestGotItsAnswer, BreakNoticed, CallReturns | One background thread; no stale CONNACK, SUBACK or UNSUBACK is taken for the present one's; a broken connection is noticed and calls return. |
| Threads_silence | LossNoticed (violated) | Finding 1. |
| Socket_reader | TypeOK, PacketsAreSent, BytesKept, TakesTurns, EverythingRead | Packets are rebuilt from pieces of two sockets; none starves; a number used again starts clean. |
| Socket_writer | TypeOK, StreamIsPackets, UnfinishedIsKept, MemoryLives, PublishReturns | A connection carries whole packets, continued from live memory; publish returns. |
| Uart | AnswersWereAsked, BuffersHold, PatientIsAnswered | No answer without its command or twice; the buffers are overrun only if more bytes wait than `read_data` takes, or the line added too much; a device that waits is answered. |
| FileStore_crashes | FilesInv, ResumesWhereItWas, NothingForgotten | A crash between any two file operations, also during recovery, neither forgets a message nor mistakes how far it was. |
| FileStore_clear | ClearEmpties (violated) | Finding 2. |
| Heap | Balanced, WalkIsComplete, AccountKept, TableKept, RoundsClimb | The tracker implements a table; the tree under it stays balanced with all links mended, its loops end, and the account of bytes agrees. |
| Wrapper_publish | PublishedWasDelivered (violated) | Finding 3. |

Bounds, and why they are enough:

- *Ids.* Outbound_delivery has five, more than a run of the process assigns: a real counter does
  not come round within one retry. After a restart they are used again. That ids stay unique when the counter
  wraps, in a full window and over clean sessions is proved, for every number of ids. InboundSession has two
  ids for three messages.
- *Messages.* Three: two in flight and one that waits for room, or overtakes. Both wrong orders of
  a rotation and a message between two others need three.
- *Disturbances* are counted by kind, in `Limit` or in one of the `Budgets`. Outbound_delivery has two of the latter:
  two losses, a restart and a subscription, or a loss, an early retry and a subscription (both an early retry and a
  restart: *known limits*). Two losses make a resend that is lost as well;
  two restarts of Inbound_store a crash after a crash; two crashes of FileStore a
  crash inside recovery, beside one torn write, one full disk and one clean session, for two publications with two ids. `retry` is not bounded: it is enabled when both streams are
  empty (which bounds the streams), and as a disturbance `early` when they are not.
- *Threads.* One client, one application thread, two for connectionLost, and two
  background threads so that OneRunner could be violated. Three calls: connect, a request, disconnect, in any order the code allows.
  `Budgets` combines what may go wrong: a break with a refusal, a break with a message that arrives, or a broker that goes silent with both.
- *Sockets.* Two, with two connections each and one break; packets with lengths of one and two
  length bytes, an empty one, bodies that look like headers, every way of cutting the bytes.
  Socket_writer: two publishers, two publications of two units, a
  buffer of two units, so that a packet may be cut, two breaks, retries, disconnects or messages.
- *Heap.* Eight addresses: every case of insertion and removal, and loops of two rounds; two sizes of
  block, so that a realloc may stay or must move; one block that is unlinked and not freed.
- *Wrapper.* Two publications and one break are enough for the counterexample.
- *Serial line.* Three commands of one or two bytes, with a common beginning or one a part of the other; two bytes of noise, letters of a command
  or NULs; every cut into pieces. Room for seven bytes: a command is four, so that two commands that wait, or a command with noise, overrun the buffers.
- *Broker.* Inbound_callback has one of MQTT 3.1 and one of 3.1.1; the client tries 3.1.1 first (`MQTTClient.c:1035`). For what the store holds
  the version makes no difference, and Inbound_store has 3.1 only, where a repeated PUBREL is answered.

Deadlock is not checked where the bounded system may really stop: an idle client or a device that has sent its last command.

Fairness, and why the code justifies it:

- OutboundSession, InboundSession: weak fairness of receiving, of the retry
  loop, of closing a session whose read failed and of reconnecting (an application
  that connects again from connectionLost; `MQTTClient_run` loops every second), of
  `messageArrived` returning and of the broker. No fault, publication or refusal is obliged to happen.
- ClientThreads: weak fairness of each thread, including that of the keepalive step.
  This is a scheduler that runs every thread, and waits with time limits. Of a mutex that is never
  let go no fairness helps, as Threads_silence shows.
- SocketWriter: weak fairness of the background cycle and the broker's
  reading; strong fairness of a publisher, which looks every 100 ms and finds the mutex free
  again and again.
- SocketReader, UartGateway: the one loop runs, and bytes under way arrive.

Findings, each shown by a violation run (a counterexample of Threads_silence is a fair behaviour, the others are finite):

1. `MQTTProtocol_keepalive` (`MQTTProtocolClient.c:554`) ends a silent session through
   `MQTTClient_disconnect_internal`, which locks `mqttclient_mutex` (`MQTTClient.c:1138`) although the cycle
   it runs in holds it (1636). The mutexes are plain ones, so the
   thread waits for itself, and `MQTTClient.h:528-529`'s detection does not happen.
2. `clearUnix` (`MQTTPersistenceDefault.c:517`) asks for the records in the working directory
   instead of the client's. It can report success with every record in place, against
   `MQTTClientPersistence.h:185`.
3. `mqtt_publish` returns the token, "if success" (`mqtt_client.c:210`), for a message that was dropped. `mqtt_connect`
   always asks for a clean session; when the connection breaks during the wait, `MQTTClient_closeSession`
   (`MQTTClient.c:708`) empties the list, and the loop of `MQTTClient_waitForCompletion` (1863-1875) asks only
   whether the token is still there. One application thread is enough.

## 5. Proofs

Eight modules hold proofs, each for every value of the constants that satisfies the named
assumptions of the module it extends: any number of ids, messages, clients and threads, any bounds on disturbances. A theorem
that needs more states it as a hypothesis of its own, named below with it.

### The sending side (`OutboundSession_proofs`)

Assumed are at least two ids, a window of at least one and smaller than the number of ids, a store or
not, any set of session kinds and qualities of service.

- `TypeCorrect`: `Spec => []TypeOK`. One lemma per helper (`SendType`,
  `CompleteType`, `StartPublishType`, `RestoreType`, ...), one case per action in
  `TypeStep`.
- `SessionSafe`: `Spec => []SessionInv`, where `SessionInv` is `TypeOK` and `ListInv`:
  `UniqueIds`, `WindowKept`, `MessageShape`, `StoreMirrorsList` and `NoStoreUnused`. From it
  `IdsStayUnique`, `WindowStaysKept` and `StoreStaysMirror`.
- `InflightHeld`: `Spec => []ListHoldsInflight`, by `HeldInv`: every publication in flight has a message,
  and every message the id and the quality of service its publication was accepted with.

Why one invariant. None of its parts is inductive alone. The
restart replaces the list by the store's records: they have distinct ids only because the store mirrors
a list with distinct ids, and fit the window only because they are no more than the list had. That is a
pigeonhole argument: the restored records are enumerated by increasing id, so they are as many
as the ids of the list, and a rotation (`RotatePermutes`) neither loses nor repeats one. In turn the store mirrors the list after a
removal (`CompleteKeepsList`) only because ids are unique: removing the
records of one id removes no other message's. A
resend writes records that are there already (`PutAgainChangesNothing`), which needs
the mirror, and `MessageShape` to know which of the two records it is. `HeldInv` rests on it again: the
publication that is completed is that of no other message (`CompleteHeld`) since ids are unique, and after a restart
(`RestartHeld`) those whose record is missing are just those that had no message.

### The refinement of Delivery (`OutboundSession_proofs`)

Assumed are also a persistent store and no clean sessions (`KeptSessions`), and that no retry comes while an answer
is on its way (`PatientRetries`; the first of the two Budgets of Outbound_delivery is such). How many ids there are, how wide the
window is and how many losses, restarts and subscriptions come is left open.

- `DeliveryImplemented`: `Spec => PromiseKept`. Each step of the session is one of Delivery's or none (`LedgerStep`, `PromiseStep`).
- `WaitedDelivered` and `InOrder`: `WaitedWasDelivered` and `DeliveredInOrder`.

They rest on `DeliverySafe`, the invariant `DeliveryInv`: `SessionInv` and `HeldInv`, and `FlightInv`, which follows the packets. A message in flight
has at most one packet under way, in one direction (`OnePacket`): what its retry would send (`OutgoingMatch`) or the answer it waits
for (`IncomingMatch`), the latter only if the publication was delivered; and the broker holds the id of a QoS 2
message exactly from its delivery to its PUBREL (`BrokerMatches`). So an answer names the message it was sent for, although ids
are used again, and a PUBLISH that is resent finds its id held. A restart keeps the set of messages with what each waits for
(`RestartMsgs`), and so all of this, although packets sent before it still arrive. Each action is a lemma (`PublishFlight`, `AckFlight`,
`PubrecFlight`, `RetryFlight`, `ReconnectFlight`, `BrokerPublishFlight`, ...). An early retry puts a second packet of a message under way: that is where
`OnePacket` ends, and after a restart the promise (*known limits*). Order is a matter of counting (`QueueInv`): when a publication was
accepted, those ahead of it still in flight were in the list with it, and the list had room.

### The receiving side (`InboundSession_proofs`)

- `StoreSafe`, and from it `Mirrored` and `InOrderAgain`, with a store and without the callback. `StoreInv` adds to
  the two properties that what was stored and is not yet in the list is the publication being received. The
  restart sorts the queue's records by number; that they can be sorted at all is usually an
  induction, but here the queue that was lost is the witness: it has just these records, in order. With the
  callback an accepted message keeps its record (*known limits*), so that argument, and the property, end.
- `CalledStays`: `CalledIsQueued` for kept sessions, with and without a store.

### What becomes of a received message (`InboundSession_proofs`)

Assumed is `Steady`: the application connects with kept sessions only, and the process is not restarted. Both
are where the code gives these promises up (*known limits*): a clean session discards what was
acknowledged, and a restart between a queue record and the removal of the received message brings it again.
Callback or `MQTTClient_receive`, store or none, duplicate PUBRELs or not, the number of ids and
of losses, disconnects and refusals are left open.

- `ReceivedOnce` and `SettledIsKept`: `NeverTwice` and `SettledIsHeld`, from `FlightSafe`.
- `ReceivedInOrder`: `DeliveredInOrder`, from `OrderSafe`.

`FlightInv` follows a message through all the places it can be at. A flow of the broker has at most one packet under
way, in one direction (`OnePacket`; the PUBLISH that was stored and not yet entered in the list counts as still arriving,
`Incoming`). A PUBLISH belongs to a flow that was not released, a PUBREL to one that was (`ArrivalTrue`); a
PUBACK or PUBCOMP says that its message is `Held`: in the queue, in the thread's hands, or taken
(`AnswerTrue`). A QoS 2 message that waits for its release is not held, one that was released is in the inbound
list or held (`FlowTrue`, `ListedTrue`), and what the thread has in hand is not queued yet (`HandMatch`). So a
PUBREL that comes again after a loss finds the message either still listed and never queued, or gone from the list
because it was; and a PUBACK, which goes out before the message is queued, means something only because the thread
finishes what it began. The step lemmas have one case per action (`Publish1Flight`, `PubrelsFlight`, `ForgetFlight`,
`ConnectFlight`, `BrokerAckFlight`, ...).

`OrderInv` needs four sequences to agree. A packet after which a message is queued (`Carries`) comes after those of all
earlier messages that are not held yet (`ArrivingOrder`). For QoS 2 this is the order of the
releases (`ReleaseOrder`), which is that of the PUBRECs (`AnswerOrder`), which is that of the PUBLISHes (`PublishOrder`);
an unreleased message is missing from these only when the connection is gone (`FlowsUnderway`), and then all are sent again in the
order of the broker's list. What is queued (`QueueOrder`) is then in order up to what the application already has.

### The threads (`ClientThreads_proofs`)

- `ThreadTypes`: `Spec => []TypeOK`.
- `OneServes`: `OneRunner`, under `Prompt`: a started thread gets to run within the 100 ms that connect
  sleeps. `RunnersInv` says how the mutex and `running` work together: who starts a thread holds the mutex until it
  has slept, a thread that is starting finds `running` not yet set and the one that started it still there, and a
  thread that has begun and not ended has `running` set. So nobody passes the test of `running` in connect
  while there is another thread. Every action of every thread is a case, since each may change a place or the mutex.
- `AcceptedConnections`: `ConnectedWasAccepted`, and `OwnAnswers`: `RequestGotItsAnswer`, both under `OneOfEach`, one client and one
  application thread, and `InTime`, `Prompt` and no budget for `late`. Any number of threads for connectionLost and of
  background threads, of calls, refusals, breaks, silences and messages, and connectionLost may connect or not.
  Section 6 says what happens otherwise: two callers share the slot and the semaphores, and a wait that runs out just before its
  answer leaves the answer behind.

The invariant of these two, `AnswerInv`, says for the one caller that is in the library what the background thread may do to it. Its first
part (`Common`) is about the client: a client without a session has nothing to read and nothing posted (`Linked`), and while
`connect_state` is 3 the only packet there is, in the inbox or in the background thread's hands, is the CONNACK of the present
connection (`ConnackComes`). The second (`Answers`) relates them to the caller:
the answer comes while the caller still waits for it (`ConnackMeets`, `RequestMeets`, `RequestInHand`), and
a posted semaphore has its packet in the slot (`RequestPosted`). Three things make it hard.
A connect that fails may leave its CONNACK in the slot, since the caller reads the slot after it let the mutex go: `LeftOver` says that
this happens only without a session, and that a background thread then serves the attempt, so the packet is replaced before the
slot is read (`Replaced`, `Fresh`). The end of the first attempt's stream may be handled when the second attempt already waits, and wakes it:
the second one fails, with the packet of the first not yet taken for its own (`ErrorMeets`).
And between `tostop` and its end the background thread drops what it has (`Stops`), which must not be what the next
attempt waits for: who asks it to stop has no attempt under way. One lemma per action; a caller that waits with no background thread reads the socket itself (`poll`), so each has
both cases.

### The files (`FileStore_proofs`)

- `FilesSafe`, and from it `Resumes` and `NeverForgotten`. `FilesInv` has three layers, since the three kinds of
  disturbance take away one each. `Consistent` always holds: it is known which publication each file and each message is of, and what
  a step is at work on. `Kept` needs that no record was torn and the disk was never full: what is under way has a whole record and is in
  memory, or will be when the recovery reaches it. `Resumable` also needs that `clearUnix` left nothing
  behind: what the two records of an id say alone (`Told`), what memory says (`Remembered`) and what they say together (`Agree`) is
  how far the flow is, where the step in progress may be ahead of the files (`AtWork`).
  The hard cases are the removals: the PUBREL record must go last, and a crash between the two leaves an orphan that
  recovery finds before a new message can take its id.

### Reading from sockets (`SocketReader_proofs`)

Any finite number of sockets, connections and breaks, any packets whose length four length bytes can
count, and any `Base` of at least two. `ReadInOrder` and `NothingLost` assume `ReaderCloses`: the thread that reads closes a
socket whose read failed before it reads again, as it does unless a connect is under way (*known limits*).

- `TypesKept`: `Spec => []TypeOK`. `TypeInv` adds the one fact TypeOK leaves out, that the header in the default queue fits
  as well.
- `ReadInOrder` and `NothingLost`: `PacketsAreSent` and `BytesKept`, from `StreamInv`. An open socket has read the
  first packets of its script, and what is saved, readable and under way of the rest is just the rest (`InStep`; on a
  broken connection, but for some end that is lost). What is saved begins one packet (`Begun`): a header whose last
  byte has come, with any data, or a header that is not whole, with none. A closed socket leaves nothing for the next
  connection of its number (`NoLeft`): its queue is removed by `SocketBuffer_cleanup`. The default queue is the
  weak place: a read that fails leaves its header there. `FailedFirst` says why no other read meets it: nothing is taken from the
  last select while there is a failed socket. What `Factory` does has three cases: the packet is whole (`Whole`), it is not
  and what came is saved, or the read fails (`reads`, `stops`, `breaksOff`). On a stream of packets it fails
  only because the end was seen, never for a length of too many bytes.
- `SocketsTakeTurns`: `TakesTurns` for any number of sockets, under `[][NoStale]_vars`: no new connection gets a
  number that the result of the last select still names. `TurnInv` counts two things: a socket of the last
  select that is left (`Rest`) waits for those before it in the list (`Before`); one that is not there waits for
  all that are left, and then for the next select. Each turn takes one from the count and adds at most one to `overtaken`. Without the condition TLC finds three sockets of which one waits longer
  (*known limits*).

What makes these possible without induction over data: a recursive function of numbers is shown to exist by a least
counterexample (`LeastOf`, `SolvesOnce`, `SolvesMore`, `Recursion`), for any base case and any smaller argument. From it follow
the equations of `encode` and of the two functions in `DecodedTo`, and that a length is read back as it was
written: `Encoded`, by the four cases of one to four length bytes.

### Writing to sockets (`SocketWriter_proofs`)

Any number of threads, each with QoS 0 or 1, any numbers of connections, packets and disturbances, any length of a
PUBLISH and any send buffer, clean sessions or not.

- `TypesKept`: `Spec => []TypeOK`.
- `WholePackets`, `UnfinishedKept`, `MemoryKept`: `StreamIsPackets`, `UnfinishedIsKept` and `MemoryLives`, under
  `[][NoReuse]_vars`: a new connection does not get the number of a socket for which a record of an unfinished packet is
  left. The code does not see to that (*known limits*).
- `OwnNumbers`: `NoReuse` is what follows when every connection has a number of its own, as in the run, since the sockets of records
  are sockets of connections made before (`MadeInv`).

`OneInv` has these parts. `PendingInv`: the socket of the session has at most one record, and is marked as pending just
then, except while `Socket_continueWrites` has removed the record and not yet the mark (`clear`). `StreamInv`: the connection carries
whole packets and ends with the part of the record that is written. `MemInv` says where a record's packet lies, by its
kind and quality of service. That a QoS 1 packet lies in its message until it is written needs `AckInv`: an
acknowledgement names a publication that the connection took wholly, and a socket is not read while it has a record, so the
publication acknowledged is not the one recorded, unless its id was given out twice, which `UsedInv` excludes. A
publish may be interrupted after the socket was found ready and before the packet is handled: then `AckInv` still holds, because what
is recorded since was not yet acknowledged. The caller's payload is used only while the publisher holds `mqttclient_mutex` (`JobInv`, `MutexInv`);
`MQTTProtocol_checkPendingWrites` spares the copy of a socket that is marked. The invariant needs
the mark to be set before the record is removed and the socket to be closed outside of `Socket_continueWrites`: this
is what each mutex is held for.

How `Socket_putdatas` cuts the packets is a lemma about `Written` (`WrittenFacts`), from the unit at a position
of `AllUnits` (`InTurn`, by division with remainder) and the concatenation of two runs of units.

### The serial line (`UartGateway_proofs`)

Any commands, known and unknown, of any bytes and lengths, any noise, a Nul too, pieces of any size, and buffers of any size.

- `TypesKept`: `Spec => []TypeOK`, the types only. The other two rest on it, and no run checks it.
- `BuffersWereHeld`: `Spec => BuffersHold`. A read goes beyond a buffer only when more than `Size` bytes wait, or when `Load` of
  the noise exceeds `Size`. A byte of noise may cost a whole command: a Nul hides the `$` behind it in its piece, so that the rest of that
  command is added to the last one. The invariant has a witness, `room`: how long `read_data` may be after the first `i` bytes of
  the line (`IsRoom`). With no `$` between two places there is at least as much more room as there are bytes, a Nul leaves room
  for a command behind it, and the end of the line has `Load` of the noise so far. A read keeps it (`CollectedFits`), so a
  piece that does not fit means one of the two (`OverrunStep`). TLC finds the bound sharp: with `Longest + 1` instead of `Longest + 2`
  in `Load`, Uart fails.
- `AnsweredWasAsked`: `Spec => []AnswersWereAsked`. Two witnesses: an increasing map from the answers, with the report that
  `uart_1_Main` has in hand, to the commands sent (`AnsweredBy`), and a tag for each place in the line, how many commands had been sent with or
  before the byte there (`IsSent`). A `#` at which the tag grows ends the frame of that command; at a Nul and at the end of the line no
  command is half sent (`Between`). What is in `read_data` is the beginning of a command, or such that no bytes to come can make a known
  command of it (`Spoiled`). So a report that is answered is the command that was sent with its `#` (`ReportIs`, `ReportWasAsked`), and a later
  report takes a later `#`. The old report that `get_complete_frame` returns with after a hang-up is answered to nobody: the write
  fails.

`LeastOf` is the least-number principle, from the well-foundedness of the order of the naturals; with it inductions over
numbers are proved by a least counterexample (`MaxOf`, `MinOf`).

### Characters, the tree and the heap (`Utilities_proofs`)

- `CharacterCheck`: for signed and unsigned `char`, `UTF8_char_validate` accepts what lies at a
  position exactly when it is the encoding of a Unicode scalar value that ends within the string, and moves on by
  its length. The code compares with the length of the whole string, not of what is left; the theorem holds because a string ends with a
  NUL, which continues no character.

For the heap: any set of addresses, infinite too, that are numbers, of which neither `Nil` nor `Temp` is one; any positive
sizes asked for, any blocks the C library may have, any bound on unlinked ones. No bound is on the tree.

- `HeapIsKept`: `Spec => []HeapKept`, the inductive invariant, and from it `AlwaysBalanced`, `WalkAlwaysComplete` and
  `RoundsAlwaysClimb`: `Balanced`, `WalkIsComplete` and `RoundsClimb`.
- `AccountIsKept`: `AccountKept`.
- `HeapImplementsTable`: `TableKept`, the refinement of Registry, step by step: the blocks a search finds are
  those on record, and a balancing round, which moves most of the pointers, changes nothing that the table shows.

`HeapKept` says what state the tree is in, for each state the call in progress is in (`TreeKept`): `Ready`, `Entering` or
`Departing`. That links form a search tree with equal black heights is usually said by recursion. Here it is said by two
witnesses: `S`, which nodes there are from each node down, and `B`, how many black ones on a way down (`Shape`, `Heights`). A step
keeps the invariant when it turns the witnesses of the old tree into those of the new one:
a rotation changes `S` and `B` at two nodes (`Rotated`), an insertion adds the new node to `S` of those above it, a removal takes one
out. An entering tree (`Adding`) has one place where a red node may lie under a red one; a departing tree (`Removing`) has one
link, `edge`, below which one black node is missing. Each round of the loops moves the place up or mends it, and each case of `TreeBAASub` and
`TreeBARSub` is a lemma on its own; so is the leaf that is gone, with `Temp` in its place, and the node that takes over the content
and links of another (`Rename`). The case `sibling = Nil` of `TreeBARSub` is shown never to occur.

What the searches, the successor, `Depth`, `BlackHeights` and the walk compute is then shown without induction over data: a function that
solves the equations of the recursion exists by the witnesses, and that it is the one the definition chooses follows by a least
counterexample, in the order of the number of nodes below or above, or of position. The walk meets the nodes in order because the successor of a node is
the least one above it, which is where climbing out of right subtrees ends.

The account (`AccountIsKept`) adds sizes: a sum over a set is the number of units its blocks have, so that it grows and shrinks with the blocks
(`CountIs`). In the middle of a call the record of a block and its byte count disagree in a way that depends on the call, which is
what `HeapAccounted` adds to `HeapKept`. Where memory ran out with the mutex locked, nothing is claimed of what follows, since nothing does.

### Left to TLC

Liveness under fairness and ENABLED are out of the prover's
reach. So are the rules of induction, whose parameter is an operator; a least counterexample stands for them where the numbers or the
tree give one. Not done in this way are that `UTF8_validateString` accepts exactly the strings of such characters, and
the refinement of Delivery with early retries, which TLC checks.

## 6. Known limits

### Cases the passing runs exclude, and what happens in them

The code does not keep these promises everywhere. Where a run's constants exclude a case, this is
which and how to see it: change the constants of the named run and the property fails.

- *Waiting in a clean session* is finding 3. In the same way a QoS 1 or 2 publish of a clean session whose send
  failed returns success (`MQTTClient.c:1488-1501`). Outbound_delivery with `Persistent = FALSE`,
  `CleanSessions = {TRUE}`: WaitedWasDelivered.
- *Ids used again after a restart* (`MQTTPersistence.c:171`). `msgID` starts from 0 again. A restored
  message that is sent twice, because a retry crossed its answer, is answered twice; the second answer
  finds a new message with the same id and completes it. Outbound_delivery with
  `{Limits(1, 1, 1, 1)}` as Budgets: PromiseKept, WaitedWasDelivered.
- *Clean and kept sessions mixed*, QoS 2: a late acknowledgement meets a new message with its id.
  Outbound_delivery with `CleanSessions = {TRUE, FALSE}`, `Qoss = {2}`: PromiseKept.
- *Order with a window of more than one.* A resend that stops half way (`MQTTClient.c:904-928`) lets a new
  publication pass those not yet resent; DeliveredInOrder says how many.
- *Restarts while receiving* (`MQTTProtocolClient.c:280`, 411-450; `MQTTClient.c:557`). A QoS 1 message
  is acknowledged before it is queued; a QoS 2 message is queued before its record is
  removed; a message accepted by `messageArrived` keeps its record. Inbound_callback with restarts:
  SettledIsHeld (`Qoss = {1}`, `Callback = FALSE`) and NeverTwice (`Qoss = {2}`, either setting).
- *A clean session closed during the callback* frees the entry that the thread reads next
  (`MQTTClient.c:557`). Inbound_callback with `Persistent = FALSE`, `CleanSessions = {TRUE}`, `Qoss = {0}`: CalledIsQueued.
- *A wait that runs out just before its answer* leaves the answer in the slot. Threads_calls with one
  `late`: ConnectedWasAccepted, by a CONNACK of the attempt before.
- *Two threads that subscribe at once* share one slot and one semaphore. Threads_calls with two
  members of `Apps` and no disturbance: RequestGotItsAnswer.
- *Reconnecting from connectionLost* may find `running` still set by the thread that is about to end:
  nobody then serves the connection. OneRunner holds; that there is one does not.
- *A slow start* of the background thread. Connect sleeps 100 ms after it started the thread and then
  believes that it runs; `Prompt = FALSE` lets it not run, and a caller may cycle beside it.
- *A failed socket closed late*, as while a connect is under way: `ReaderCloses = FALSE` in Socket_reader
  and BytesKept fails, by header bytes that remain in the default queue.
- *A number used again during a scan.* `Socket_close` clears the number in the set of watched sockets, but a
  new connection that gets it before `Socket_getReadySocket` has finished with the result of the last select (`Socket.c:216`)
  finds it there, and is served out of turn. With three sockets it can be passed over, or pass over another, once more than `TakesTurns` allows.
- *No memory* (`Heap.c:151`, 158, 166, 295). `mymalloc` and `myrealloc` return with `heap_mutex` locked, and the next
  allocation of any thread waits for ever. Heap allows it (`ReturnLocked`) and asks nothing afterwards: `AccountKept` says nothing
  while the mutex is locked, and no property covers this case.
- *A lost PUBCOMP and MQTT 3.1.1.* A PUBREL for a message that was released is answered only if it is marked as a duplicate
  (`MQTTProtocolClient.c:424-428`). The client asks for MQTT 3.1.1 first (`MQTTClient.c:1035`), where the mark is reserved. When a PUBCOMP was
  lost with its connection, the flow stays open, and its id and place in the broker's window are taken, for the rest of the session. The message itself
  has arrived. Inbound_callback without `PubcompLost` in `FlowEnds`.
- *Long input on the serial line.* Nothing bounds `strcat` (`uart_1_app.c:62`, 68, 79): a command of more than 253 bytes between its `$` and
  `#`, or a long line without `$`, writes beyond the 256 bytes of `read_data`. A read of all 256 bytes (51) leaves `read_tmp` without a NUL, and
  `strlen` (55) goes on behind it. Uart allows both (`runsOver`); BuffersHold says what must come together for them, and nothing is claimed of
  what follows: AnswersWereAsked and PatientIsAnswered speak of a gateway until then.
- *A number used again with a packet unfinished.* `Socket_close` leaves the record in `writes`, and the
  rest goes into the next connection with that number. Socket_writer with
  `Number <- SameNumber`: StreamIsPackets.
- *Records torn or not written* (`MQTTPersistenceDefault.c:172`, 180). A retry empties the file it writes again; a short write
  removes the older record; a small record fails in `fclose`, unnoticed. `ResumesWhereItWas` and
  `NothingForgotten` speak of behaviours without these (and the first without a failed clear); take out the condition and FileStore_crashes fails.

### Abstractions

- The session modules clear the store as the header demands, not as `clearUnix` does.
- A crash is one of the process. Nothing is synced to disk, so a power loss may keep less than FileStore assumes.
- One client and one application thread per session model. The calls a callback makes are those of connectionLost only;
  calls from `messageArrived` are not modelled.
- The wait of an interrupted publish is one step in OutboundSession, several in SocketWriter.
- `stop` gives up after 10 s: only a slow callback reaches that, and the model lets it. EINTR in
  `Thread_wait_sem` is left out.
- A list operation is one step. The code walks some lists under different mutexes
  (`LinkedList.c:199`, `list->current`); what a torn one would do is not defined by the language, and not modelled.
- PublishReturns assumes that the broker reads. Packets are not read while one is
  unfinished (`Socket.c:186`), so two such peers with full buffers would wait for each other.
- The wrapper: `mqtt_publish` with QoS 0 returns -1 when it succeeds, as no token is set (`mqtt_client.c:216`);
  `mqtt_receive` forgets the message it gave before without freeing it (265-268). Its `mqtt_subscribe` and `mqtt_receive` pass results on.
- The heap's `HeapScan` is `WalkIsComplete`'s walk; `HeapDump` (`Heap.c`) takes no mutex, but nothing calls it. The
  byte count in `tree->size`, which only the log shows, is wrong for a block that was reallocated (299). Trees of two indexes are not used by the library.
- `UTF8_validate` would read past the end of a buffer without a NUL; it is reached only through
  `UTF8_validateString`, which has one.
- Half-written queue entries are not modelled; `MQTTPersistence_restoreQueueEntry` (`MQTTPersistence.c:534`)
  does not test their length.
- Keys of queue entries fill their buffer at the seventh digit of `qentry_seqno`; the model's numbers have no digits.
- Serial line: two commands in one piece lose one (a comment at `uart_1_app.c:13` says so), a NUL byte hides the
  rest of a piece, and after a hang-up the loop spins. Without a terminal on standard input, or when the port cannot be
  set up, `uart1_sub` repeats for ever. With another number of arguments than three it
  fails and the main loop does nothing; this and the test branches are not modelled.
- Daemon mode closes the descriptors 0 to 2 (`Daemon.c:71`), one of which may be the serial port's.

### Not modelled

Wills, user names, topics and payloads, which no transition of the modelled state depends on, but for the
check of their bytes. The trace (`Log.c`, `StackTrace.c`, `Messages.c`): its ring is written and, as the
dump is compiled out, never read. TLS, which the
build does not contain. The board tools and the demonstration of threads, which are system calls in turn. What is planned is in section 2.
