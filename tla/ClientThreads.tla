---------------------------- MODULE ClientThreads ----------------------------
(***************************************************************************)
(* The threads of the client library in its multi-threaded mode and what   *)
(* they share: mqttclient_mutex, the flags that start and stop the one     *)
(* background thread (MQTTClient_run), and, per client, the semaphores and *)
(* the packet slot by which that thread hands a blocked call its answer.   *)
(*                                                                         *)
(* Callers are application threads and the threads connectionLost_call     *)
(* runs on.  A step is what a thread does between taking and releasing the *)
(* mutex; what it reads without the mutex is a step of its own.  Message   *)
(* flows are those of OutboundSession and InboundSession.                  *)
(***************************************************************************)
EXTENDS Integers, Sequences, FiniteSets

CONSTANTS Clients,      \* the client handles of the process, callbacks set
          Apps,         \* its application threads
          LostThreads,  \* bound: the threads for connectionLost that may run at once
          Runners,      \* bound: the background threads that may be alive at once
          None,         \* no thread
          Reconnects,   \* whether the connectionLost callback calls MQTTClient_connect
          Prompt,       \* whether a started thread runs within the 100 ms connect waits
          MaxCalls,     \* bound: calls by application threads
          Budgets       \* bound: how many disturbances of each kind may come together

Kinds == {"break",    \* the connection breaks
          "silence",  \* the broker no longer answers pings
          "refuse",   \* the TCP connection or the CONNECT packet is refused
          "late",     \* a wait runs out although its answer is on the way
          "message"}  \* a message arrives, and its callback may be slow

Callers == Apps \cup LostThreads
Threads == Callers \cup Runners

ASSUME ThreadsAssumption == /\ Clients # {}
                            /\ Apps \cap LostThreads = {} /\ Callers \cap Runners = {}
                            /\ None \notin Threads /\ IsFiniteSet(Runners)
ASSUME OptionsAssumption == Reconnects \in BOOLEAN /\ Prompt \in BOOLEAN
ASSUME BoundsAssumption == MaxCalls \in Nat /\ Budgets \subseteq [Kinds -> Nat]

VARIABLES
  mutex,          \* who holds mqttclient_mutex
  running,        \* the background thread says it runs
  tostop,         \* ... and is asked to end
  run_id,         \* its thread id
  connected,      \* per client: CONNACK accepted
  connect_state,  \* per client: 0, 1 TCP pending, 3 CONNECT sent, -2 disconnecting
  sems,           \* per client: connect_sem, connack_sem, suback_sem and unsuback_sem
  slot,           \* per client: m->pack, the packet handed over
  tcprc,          \* per client: m->rc, whether the TCP connection was made
  pc,             \* per thread: where it is
  on,             \* per thread: the client it works on
  wants,          \* per thread: the packet type MQTTClient_waitfor waits for
  got,            \* per thread: the packet or the error it has got
  call,           \* per thread: the arguments of the disconnect it makes
  sock,           \* external, per client: the socket
  inbox,          \* external, per client: what the socket has to read
  conns,          \* external, per client: the number of connections made
  answered,       \* history, per client: this connection's own CONNACK made it connected
  calls, left     \* bounds: calls made, the disturbances that may still come

flags   == <<running, tostop, run_id>>
client  == <<connected, connect_state, sems, slot, tcprc>>
local   == <<on, wants, got, call>>
network == <<sock, inbox, conns>>
bounds  == <<calls, left>>
vars == <<mutex, flags, client, pc, local, network, answered, bounds>>

Requests == {"SUBACK", "UNSUBACK"}   \* by the answer
Types   == {"CONNECT", "CONNACK"} \cup Requests
Packet  == [type : {"CONNACK"}, conn : Nat, ok : BOOLEAN]
             \cup [type : Requests, req : Nat] \cup [type : {"PUBLISH"}]
Nothing == [type |-> "none"]
Failure == [type |-> "error"]
Made    == [type |-> "made"]       \* the TCP connection is complete
Results == Packet \cup {Nothing, Failure, Made}
Call    == [version : {3, 4}, req : Nat, internal : BOOLEAN, stop : BOOLEAN,
            was : BOOLEAN, back : {"idle", "version", "run"}]
NoCall  == [version |-> 4, req |-> 0, internal |-> FALSE, stop |-> FALSE,
            was |-> FALSE, back |-> "idle"]
Places  == {"idle",        \* an application thread outside the library
            "begin",       \* connectionLost is called
            "started",     \* MQTTClient_connect sleeps with the mutex
            "waitfor", "sem", "poll", "taken", "returned",   \* in MQTTClient_waitfor
            "disconnect", "draining", "stopping",            \* in MQTTClient_disconnect1
            "version",     \* MQTTClient_connectURI after a failed attempt
            "start", "recheck", "cycle", "handle", "callback",   \* in MQTTClient_run
            "hung",        \* it waits for the mutex that it holds
            "none"}        \* no such thread

Free == mutex = None
At(t, p) == pc[t] = p
Go(t, p) == pc' = [pc EXCEPT ![t] = p]
Disturb(kind) == left[kind] > 0 /\ left' = [left EXCEPT ![kind] = @ - 1]

-----------------------------------------------------------------------------
(* MQTTClient_connect *)

\* The application connects a client that is disconnected and that no other
\* thread is busy with.
Unattended(c) == /\ ~connected[c] /\ connect_state[c] = 0
                 /\ \A t \in Callers : on[t] = c => pc[t] \in {"idle", "begin", "none"}

End(t) == IF t \in Apps THEN "idle" ELSE "none"

\* Mutant: a thread is started for every attempt.
startVersionAlways(t, version) ==
  /\ mutex' = t
  /\ call' = [call EXCEPT ![t] = [NoCall EXCEPT !.version = version]]
  /\ \E r \in Runners : /\ At(r, "none")
                        /\ pc' = [pc EXCEPT ![t] = "started", ![r] = "start"]

\* MQTTClient_connectURIVersion starts the background thread unless it says
\* that it runs, and sleeps 100 ms with the mutex held.
startVersion(t, version) ==
  /\ mutex' = t
  /\ call' = [call EXCEPT ![t] = [NoCall EXCEPT !.version = version]]
  /\ \/ running /\ Go(t, "started")
     \/ \E r \in Runners : /\ ~running /\ At(r, "none")
                           /\ pc' = [pc EXCEPT ![t] = "started", ![r] = "start"]

connect(t, c) ==
  /\ Free
  /\ Unattended(c)
  /\ \/ t \in Apps /\ At(t, "idle") /\ calls < MaxCalls /\ calls' = calls + 1
     \/ t \in LostThreads /\ At(t, "begin") /\ on[t] = c /\ Reconnects /\ UNCHANGED calls
  /\ startVersion(t, 4)
  /\ on' = [on EXCEPT ![t] = c]
  /\ UNCHANGED <<flags, client, wants, got, network, answered, left>>

\* The attempt failed: disconnect1, which stops the thread after version 3 only.
Failed(t) == /\ call' = [call EXCEPT ![t].internal = FALSE, ![t].back = "version",
                                     ![t].stop = (call[t].version = 3)]
             /\ Go(t, "disconnect")

Wait(t, type) == wants' = [wants EXCEPT ![t] = type] /\ Go(t, "waitfor")

\* The CONNECT packet is sent; the broker accepts or refuses it.
SendConnect(c) ==
  /\ connect_state' = [connect_state EXCEPT ![c] = 3]
  /\ \E ok \in BOOLEAN :
       /\ IF ok THEN UNCHANGED left ELSE Disturb("refuse")
       /\ inbox' = [inbox EXCEPT ![c] = <<[type |-> "CONNACK", conn |-> conns'[c], ok |-> ok]>>]

\* MQTTProtocol_connect: the socket cannot be made, or the TCP connection is
\* pending, or it is made at once and CONNECT is sent.
protocolConnect(t) ==
  LET c == on[t]
      Opened == /\ sock' = [sock EXCEPT ![c] = "open"]
                /\ conns' = [conns EXCEPT ![c] = @ + 1]
                /\ answered' = [answered EXCEPT ![c] = FALSE]
  IN /\ At(t, "started")
     /\ Prompt => \A r \in Runners : ~At(r, "start")
     /\ mutex' = None
     /\ \/ /\ Disturb("refuse") /\ Failed(t)
           /\ UNCHANGED <<connect_state, wants, network, answered>>
        \/ /\ connect_state' = [connect_state EXCEPT ![c] = 1]
           /\ inbox' = [inbox EXCEPT ![c] = <<>>]
           /\ Opened /\ Wait(t, "CONNECT")
           /\ UNCHANGED <<call, left>>
        \/ /\ Opened /\ SendConnect(c) /\ Wait(t, "CONNACK")
           /\ UNCHANGED call
     /\ UNCHANGED <<flags, connected, sems, slot, tcprc, on, got, calls>>

-----------------------------------------------------------------------------
(* MQTTClient_waitfor *)

waitfor(t) ==
  /\ At(t, "waitfor")
  /\ Go(t, IF running THEN "sem" ELSE "poll")
  /\ UNCHANGED <<mutex, flags, client, local, network, answered, bounds>>

\* What cycle may find for client c: a completed TCP connection, a packet, or
\* the end of the stream.
Found(c) == CASE connect_state[c] = 1 -> {Made}
              [] connect_state[c] # 1 /\ inbox[c] # <<>> -> {Head(inbox[c])}
              [] connect_state[c] # 1 /\ inbox[c] = <<>> /\ sock[c] = "broken" -> {Failure}
              [] OTHER -> {}
Take(c) == inbox' = IF connect_state[c] = 1 \/ inbox[c] = <<>> THEN inbox
                    ELSE [inbox EXCEPT ![c] = Tail(@)]

\* A wait runs out when nothing can answer it, or just before the answer.
Expires(t) ==
  LET c == on[t]
      Coming == \/ At(t, "sem") /\ sems[c][wants[t]] > 0
                \/ /\ At(t, "poll") \/ \E r \in Runners : pc[r] \notin {"none", "hung"}
                   /\ Found(c) # {}
                \/ \E r \in Runners : At(r, "handle") /\ on[r] = c
  IN IF Coming THEN Disturb("late") ELSE UNCHANGED left

\* Mutant: the wait has no time limit.
waitSemForever(t) ==
  LET c == on[t]
  IN /\ At(t, "sem") /\ sems[c][wants[t]] > 0
     /\ Go(t, "taken")
     /\ sems' = [sems EXCEPT ![c][wants[t]] = @ - 1]
     /\ got' = [got EXCEPT ![t] = Nothing]
     /\ UNCHANGED <<mutex, flags, connected, connect_state, slot, tcprc, on, wants, call,
                    network, answered, bounds>>

\* Mutant: the semaphore is counted down when the time is over, too.
waitSemAlwaysTakes(t) ==
  LET c == on[t]
  IN /\ At(t, "sem")
     /\ Go(t, "taken")
     /\ sems' = [sems EXCEPT ![c][wants[t]] = @ - 1]
     /\ got' = [got EXCEPT ![t] = IF sems[c][wants[t]] > 0 THEN Nothing ELSE Failure]
     /\ UNCHANGED <<mutex, flags, connected, connect_state, slot, tcprc, on, wants, call,
                    network, answered, bounds>>

\* Thread_wait_sem: the semaphore is posted, or the time is over.
wait_sem(t) ==
  LET c == on[t]
  IN /\ At(t, "sem")
     /\ Go(t, "taken")
     /\ \/ /\ sems[c][wants[t]] > 0
           /\ sems' = [sems EXCEPT ![c][wants[t]] = @ - 1]
           /\ got' = [got EXCEPT ![t] = Nothing]
           /\ UNCHANGED left
        \/ /\ Expires(t)
           /\ got' = [got EXCEPT ![t] = Failure]
           /\ UNCHANGED sems
     /\ UNCHANGED <<mutex, flags, connected, connect_state, slot, tcprc, on, wants, call,
                    network, answered, calls>>

\* Without the mutex the result is read: m->rc if the wait for the TCP
\* connection succeeded, for a packet m->pack whether it did or not.
takeSlot(t) ==
  LET c == on[t]
  IN /\ At(t, "taken")
     /\ got' = [got EXCEPT ![t] = IF wants[t] # "CONNECT" THEN slot[c]
                                  ELSE IF @ = Nothing /\ tcprc[c] THEN Made ELSE Failure]
     /\ Go(t, "returned")
     /\ UNCHANGED <<mutex, flags, client, on, wants, call, network, answered, bounds>>

\* With no background thread the caller cycles itself.  Packets it does not
\* wait for are dropped.
poll(t) ==
  /\ At(t, "poll") /\ Free
  /\ \/ \E c \in Clients : \E e \in Found(c) :
          /\ Take(c)
          /\ IF c = on[t] /\ (e.type = wants[t] \/ e \in {Made, Failure})
               THEN /\ Go(t, "returned")
                    /\ got' = [got EXCEPT ![t] = IF e = Made /\ sock[c] # "open" THEN Failure ELSE e]
               ELSE UNCHANGED <<pc, got>>
          /\ UNCHANGED left
     \/ /\ Expires(t)
        /\ Go(t, "returned")
        /\ got' = [got EXCEPT ![t] = Nothing]
        /\ UNCHANGED inbox
  /\ UNCHANGED <<mutex, flags, client, on, wants, call, sock, conns, answered, calls>>

\* MQTTClient_connectURIVersion goes on when the TCP connection is made.
tcpConnected(t) ==
  LET c == on[t]
  IN /\ At(t, "returned") /\ wants[t] = "CONNECT"
     /\ Free
     /\ IF got[t] = Made /\ sock[c] = "open"
          THEN /\ conns' = conns /\ SendConnect(c) /\ Wait(t, "CONNACK")
               /\ UNCHANGED call
          ELSE Failed(t) /\ UNCHANGED <<connect_state, inbox, conns, wants, left>>
     /\ UNCHANGED <<mutex, flags, connected, sems, slot, tcprc, on, got, sock, answered, calls>>

\* Mutant: the packet stays in the slot.
connackKeepsSlot(t) ==
  LET c == on[t]
      p == got[t]
      accepted == IF p.type = "CONNACK" THEN p.ok ELSE FALSE
  IN /\ At(t, "returned") /\ wants[t] = "CONNACK"
     /\ Free
     /\ IF accepted
          THEN /\ connected' = [connected EXCEPT ![c] = TRUE]
               /\ connect_state' = [connect_state EXCEPT ![c] = 0]
               /\ answered' = [answered EXCEPT ![c] = (p.conn = conns[c])]
               /\ Go(t, End(t)) /\ UNCHANGED call
          ELSE Failed(t) /\ UNCHANGED <<connected, connect_state, answered>>
     /\ UNCHANGED <<mutex, flags, sems, slot, tcprc, on, wants, got, network, bounds>>

\* ... and when there is an answer to CONNECT.  A packet of another type would
\* be read as a CONNACK.
connack(t) ==
  LET c == on[t]
      p == got[t]
  IN /\ At(t, "returned") /\ wants[t] = "CONNACK"
     /\ Free
     /\ \E accepted \in IF p.type = "CONNACK" THEN {p.ok}
                         ELSE IF p \in Packet THEN BOOLEAN ELSE {FALSE} :
          IF accepted
            THEN /\ connected' = [connected EXCEPT ![c] = TRUE]
                 /\ connect_state' = [connect_state EXCEPT ![c] = 0]
                 /\ answered' = [answered EXCEPT ![c] = (p.type = "CONNACK" /\ p.conn = conns[c])]
                 /\ Go(t, End(t)) /\ UNCHANGED call
            ELSE Failed(t) /\ UNCHANGED <<connected, connect_state, answered>>
     /\ slot' = IF p \in Packet THEN [slot EXCEPT ![c] = Nothing] ELSE slot
     /\ UNCHANGED <<mutex, flags, sems, tcprc, on, wants, got, network, bounds>>

\* MQTTClient_connectURI: after a failed attempt with version 4, one with 3.
nextVersion(t) ==
  /\ At(t, "version") /\ Free
  /\ IF call[t].version = 4 THEN startVersion(t, 3)
     ELSE Go(t, End(t)) /\ UNCHANGED <<mutex, call>>
  /\ UNCHANGED <<flags, client, on, wants, got, network, answered, bounds>>

\* connectionLost returns without connecting.
lostReturns(t) ==
  /\ At(t, "begin")
  /\ ~Reconnects \/ ~Unattended(on[t])
  /\ Go(t, "none")
  /\ UNCHANGED <<mutex, flags, client, local, network, answered, bounds>>

-----------------------------------------------------------------------------
(* MQTTClient_subscribe and MQTTClient_unsubscribe *)

Internal(t) == /\ call' = [call EXCEPT ![t].internal = TRUE, ![t].stop = TRUE, ![t].back = "idle"]
               /\ Go(t, "disconnect")

\* A request is sent, whose answer is of this type, or cannot be sent.
Request(t, c, type) ==
  /\ At(t, "idle") /\ Free
  /\ calls < MaxCalls /\ calls' = calls + 1
  /\ connected[c]
  /\ on' = [on EXCEPT ![t] = c]
  /\ \/ /\ Wait(t, type)
        /\ call' = [call EXCEPT ![t] = [NoCall EXCEPT !.req = calls + 1]]
        /\ inbox' = IF sock[c] = "open"
                      THEN [inbox EXCEPT ![c] = Append(@, [type |-> type, req |-> calls + 1])]
                      ELSE inbox
     \/ /\ sock[c] = "broken"
        /\ Internal(t) /\ UNCHANGED <<wants, inbox>>
  /\ UNCHANGED <<mutex, flags, client, got, sock, conns, answered, left>>

subscribe(t, c) == Request(t, c, "SUBACK")
unsubscribe(t, c) == Request(t, c, "UNSUBACK")

\* Mutant: the packet stays in the slot.
AnswerKeepsSlot(t, type) ==
  /\ At(t, "returned") /\ wants[t] = type
  /\ Free
  /\ IF got[t] \in Packet THEN Go(t, End(t)) /\ UNCHANGED call ELSE Internal(t)
  /\ UNCHANGED <<mutex, flags, client, on, wants, got, network, answered, bounds>>

\* The call has the answer, or gives the session up.
Answer(t, type) ==
  /\ At(t, "returned") /\ wants[t] = type
  /\ Free
  /\ IF got[t] \in Packet
       THEN /\ slot' = [slot EXCEPT ![on[t]] = Nothing]
            /\ Go(t, End(t)) /\ UNCHANGED call
       ELSE Internal(t) /\ UNCHANGED slot
  /\ UNCHANGED <<mutex, flags, connected, connect_state, sems, tcprc, on, wants, got,
                 network, answered, bounds>>

suback(t) == Answer(t, "SUBACK")
unsuback(t) == Answer(t, "UNSUBACK")

-----------------------------------------------------------------------------
(* MQTTClient_disconnect1 *)

disconnect(t, c) ==
  /\ At(t, "idle")
  /\ calls < MaxCalls /\ calls' = calls + 1
  /\ connected[c]
  /\ on' = [on EXCEPT ![t] = c]
  /\ call' = [call EXCEPT ![t] = [NoCall EXCEPT !.stop = TRUE]]
  /\ Go(t, "disconnect")
  /\ UNCHANGED <<mutex, flags, client, wants, got, network, answered, left>>

\* The call returns.  If the session was lost, connectionLost gets a thread.
Leave(t, was) ==
  LET back == CASE call[t].back = "idle" -> End(t)
                [] call[t].back = "version" -> "version"
                [] call[t].back = "run" -> "recheck"
  IN IF call[t].internal /\ was
       THEN \E l \in LostThreads : /\ At(l, "none")
                                  /\ pc' = [pc EXCEPT ![t] = back, ![l] = "begin"]
                                  /\ on' = [on EXCEPT ![l] = on[t]]
       ELSE Go(t, back) /\ UNCHANGED on

\* Its end: MQTTClient_stop asks the background thread to end when no client
\* is connected or connecting, and waits for it unless it is that thread.
Exit(t, was) ==
  LET stops == /\ call[t].stop /\ running /\ ~tostop
               /\ \A c \in Clients : connect_state'[c] <= 0 /\ ~connected'[c]
  IN /\ tostop' = (tostop \/ stops)
     /\ IF stops /\ run_id # t
          THEN /\ Go(t, "stopping")
               /\ call' = [call EXCEPT ![t].was = was]
               /\ UNCHANGED on
          ELSE Leave(t, was) /\ UNCHANGED call

\* MQTTClient_closeSession, and the semaphores are drained.
Close(c) == /\ connected' = [connected EXCEPT ![c] = FALSE]
            /\ connect_state' = [connect_state EXCEPT ![c] = 0]
            /\ sems' = [sems EXCEPT ![c] = [type \in Types |-> 0]]
            /\ sock' = [sock EXCEPT ![c] = "closed"]
            /\ inbox' = [inbox EXCEPT ![c] = <<>>]

disconnect1(t) ==
  LET c == on[t]
  IN /\ At(t, "disconnect") /\ Free
     /\ IF ~connected[c] /\ connect_state[c] = 0
          THEN UNCHANGED <<connected, connect_state, sems, sock, inbox>> /\ Exit(t, FALSE)
          ELSE Close(c) /\ Exit(t, connected[c])
     /\ UNCHANGED <<mutex, running, run_id, slot, tcprc, wants, got, conns, answered, bounds>>

\* The application waits for the message flows that are under way first; the
\* mutex is free meanwhile.
drain(t) ==
  LET c == on[t]
  IN /\ Free
     /\ \/ /\ At(t, "disconnect") /\ call[t].back = "idle" /\ ~call[t].internal
           /\ connected[c]
           /\ connect_state' = [connect_state EXCEPT ![c] = -2]
           /\ Go(t, "draining")
           /\ UNCHANGED <<tostop, connected, sems, sock, inbox, on, call>>
        \/ At(t, "draining") /\ Close(c) /\ Exit(t, TRUE)
     /\ UNCHANGED <<mutex, running, run_id, slot, tcprc, wants, got, conns, answered, bounds>>

\* MQTTClient_stop looks every 100 ms, for 10 s: longer than the thread needs
\* unless it is in a callback.
stop(t) ==
  /\ At(t, "stopping") /\ Free
  /\ ~running \/ \E r \in Runners : At(r, "callback")
  /\ Leave(t, call[t].was)
  /\ UNCHANGED <<mutex, flags, client, wants, got, call, network, answered, bounds>>

-----------------------------------------------------------------------------
(* MQTTClient_run *)

runStart(r) ==
  /\ At(r, "start")
  /\ running' = TRUE /\ run_id' = r
  /\ Go(r, "recheck")
  /\ UNCHANGED <<mutex, tostop, client, local, network, answered, bounds>>

runEnds(r) == /\ tostop
              /\ running' = FALSE /\ tostop' = FALSE /\ run_id' = None
              /\ Go(r, "none")

\* The head of the loop, and the look at tostop after a cycle that found nothing.
runLoop(r) ==
  /\ Free
  /\ \/ pc[r] \in {"recheck", "cycle"} /\ runEnds(r)
     \/ At(r, "recheck") /\ ~tostop /\ Go(r, "cycle") /\ UNCHANGED flags
  /\ UNCHANGED <<mutex, client, local, network, answered, bounds>>

runCycle(r) ==
  /\ At(r, "cycle") /\ Free
  /\ \E c \in Clients : \E e \in Found(c) :
       /\ Take(c)
       /\ on' = [on EXCEPT ![r] = c]
       /\ got' = [got EXCEPT ![r] = e]
  /\ Go(r, "handle")
  /\ UNCHANGED <<mutex, flags, client, wants, call, sock, conns, answered, bounds>>

Post(c, type) == sems' = [sems EXCEPT ![c][type] = @ + 1]
Posted(c, type) == sems[c][type] > 0

\* Mutant: an error of the socket is left to the waiting call.
HandleErrorPostOnly(r, c) ==
  /\ IF connect_state[c] = 3 /\ ~Posted(c, "CONNACK") THEN Post(c, "CONNACK") ELSE UNCHANGED sems
  /\ Go(r, "recheck")
  /\ UNCHANGED <<call, slot, tcprc>>

\* SOCKET_ERROR ends a session; a connect that waits for CONNACK is woken.
HandleError(r, c) ==
  /\ IF connected[c]
       THEN /\ call' = [call EXCEPT ![r] = [NoCall EXCEPT !.internal = TRUE, !.stop = TRUE,
                                                         !.back = "run"]]
            /\ Go(r, "disconnect") /\ UNCHANGED sems
       ELSE /\ IF connect_state[c] = 3 /\ ~Posted(c, "CONNACK")
                 THEN Post(c, "CONNACK") ELSE UNCHANGED sems
            /\ Go(r, "recheck") /\ UNCHANGED call
  /\ UNCHANGED <<slot, tcprc>>

\* An answer is handed over.
HandlePacket(r, c, p) ==
  /\ IF p.type = "PUBLISH" THEN Go(r, "callback") ELSE Go(r, "recheck")
  /\ IF p.type \in Requests \/ (p.type = "CONNACK" /\ ~Posted(c, "CONNACK"))
       THEN slot' = [slot EXCEPT ![c] = p] /\ Post(c, p.type)
       ELSE UNCHANGED <<slot, sems>>
  /\ UNCHANGED <<call, tcprc>>

\* A TCP connection is complete, or has failed.
HandleMade(r, c) ==
  /\ IF connect_state[c] = 1 /\ ~Posted(c, "CONNECT")
       THEN tcprc' = [tcprc EXCEPT ![c] = (sock[c] = "open")] /\ Post(c, "CONNECT")
       ELSE UNCHANGED <<tcprc, sems>>
  /\ Go(r, "recheck")
  /\ UNCHANGED <<call, slot>>

\* After the cycle: the client is looked up again by the number of its socket,
\* which a new socket of the client has again.
runHandle(r) ==
  LET c == on[r]
      e == got[r]
  IN /\ At(r, "handle") /\ Free
     /\ IF tostop
          THEN runEnds(r) /\ UNCHANGED <<client, call>>
          ELSE /\ IF sock[c] = "closed" THEN Go(r, "recheck") /\ UNCHANGED <<sems, slot, tcprc, call>>
                  ELSE \/ e = Failure /\ HandleError(r, c)
                       \/ e = Made /\ HandleMade(r, c)
                       \/ e \in Packet /\ HandlePacket(r, c, e)
               /\ UNCHANGED <<flags, connected, connect_state>>
     /\ got' = [got EXCEPT ![r] = Nothing]
     /\ UNCHANGED <<mutex, on, wants, network, answered, bounds>>

\* messageArrived returns.
callbackReturns(r) ==
  /\ At(r, "callback") /\ Free
  /\ Go(r, "recheck")
  /\ UNCHANGED <<mutex, flags, client, local, network, answered, bounds>>

\* MQTTClient_retry in a cycle: a ping was not answered within the keepalive
\* interval, and MQTTProtocol_keepalive ends the session by
\* MQTTClient_disconnect1, which takes the mutex the cycle holds.
keepalive(t) ==
  /\ pc[t] \in {"cycle", "poll"} /\ Free
  /\ \E c \in Clients : connected[c] /\ sock[c] = "silent"
  /\ mutex' = t
  /\ Go(t, "hung")
  /\ UNCHANGED <<flags, client, local, network, answered, bounds>>

-----------------------------------------------------------------------------
(* External: the connection and the broker *)

linkBreaks(c) ==
  /\ sock[c] = "open" /\ Disturb("break")
  /\ sock' = [sock EXCEPT ![c] = "broken"]
  /\ UNCHANGED <<mutex, flags, client, pc, local, inbox, conns, answered, calls>>

goesSilent(c) ==
  /\ connected[c] /\ sock[c] = "open" /\ Disturb("silence")
  /\ sock' = [sock EXCEPT ![c] = "silent"]
  /\ UNCHANGED <<mutex, flags, client, pc, local, inbox, conns, answered, calls>>

brokerPublish(c) ==
  /\ connected[c] /\ sock[c] = "open" /\ Disturb("message")
  /\ inbox' = [inbox EXCEPT ![c] = Append(@, [type |-> "PUBLISH"])]
  /\ UNCHANGED <<mutex, flags, client, pc, local, sock, conns, answered, calls>>

-----------------------------------------------------------------------------
Init ==
  /\ mutex = None
  /\ running = FALSE /\ tostop = FALSE /\ run_id = None
  /\ connected = [c \in Clients |-> FALSE]
  /\ connect_state = [c \in Clients |-> 0]
  /\ sems = [c \in Clients |-> [type \in Types |-> 0]]
  /\ slot = [c \in Clients |-> Nothing]
  /\ tcprc = [c \in Clients |-> FALSE]
  /\ pc = [t \in Threads |-> IF t \in Apps THEN "idle" ELSE "none"]
  /\ on = [t \in Threads |-> CHOOSE c \in Clients : TRUE]
  /\ wants = [t \in Threads |-> "CONNECT"]
  /\ got = [t \in Threads |-> Nothing]
  /\ call = [t \in Threads |-> NoCall]
  /\ sock = [c \in Clients |-> "closed"]
  /\ inbox = [c \in Clients |-> <<>>]
  /\ conns = [c \in Clients |-> 0]
  /\ answered = [c \in Clients |-> FALSE]
  /\ calls = 0 /\ left \in Budgets

\* What a thread does once it is in the library.
Proceed(t) == \/ protocolConnect(t) \/ waitfor(t) \/ wait_sem(t) \/ takeSlot(t) \/ poll(t)
              \/ tcpConnected(t) \/ connack(t) \/ nextVersion(t)
              \/ suback(t) \/ unsuback(t)
              \/ disconnect1(t) \/ drain(t) \/ stop(t)
              \/ lostReturns(t) \/ \E c \in Clients : t \in LostThreads /\ connect(t, c)

run(r) == \/ runStart(r) \/ runLoop(r) \/ runCycle(r) \/ runHandle(r) \/ callbackReturns(r)
          \/ disconnect1(r)

Next == \/ \E t \in Callers : Proceed(t)
        \/ \E r \in Runners : run(r)
        \/ \E t \in Threads : keepalive(t)
        \/ \E t \in Apps, c \in Clients :
             connect(t, c) \/ subscribe(t, c) \/ unsubscribe(t, c) \/ disconnect(t, c)
        \/ \E c \in Clients : linkBreaks(c) \/ goesSilent(c) \/ brokerPublish(c)

Spec == Init /\ [][Next]_vars

\* Threads are scheduled, sockets become readable, waits run out.
Fairness == /\ \A t \in Callers : WF_vars(Proceed(t))
            /\ \A r \in Runners : WF_vars(run(r))
            /\ \A t \in Threads : WF_vars(keepalive(t))

FairSpec == Spec /\ Fairness

-----------------------------------------------------------------------------
(* Properties *)

TypeOK ==
  /\ mutex \in Threads \cup {None} /\ run_id \in Runners \cup {None}
  /\ running \in BOOLEAN /\ tostop \in BOOLEAN
  /\ connected \in [Clients -> BOOLEAN] /\ tcprc \in [Clients -> BOOLEAN]
  /\ connect_state \in [Clients -> {-2, 0, 1, 3}]
  /\ sems \in [Clients -> [Types -> Nat]]
  /\ slot \in [Clients -> Packet \cup {Nothing}]
  /\ pc \in [Threads -> Places] /\ on \in [Threads -> Clients]
  /\ wants \in [Threads -> Types] /\ got \in [Threads -> Results]
  /\ call \in [Threads -> Call]
  /\ sock \in [Clients -> {"closed", "open", "broken", "silent"}]
  /\ inbox \in [Clients -> Seq(Packet)] /\ conns \in [Clients -> Nat]
  /\ answered \in [Clients -> BOOLEAN]
  /\ calls \in Nat /\ left \in [Kinds -> Nat]

\* At most one background thread serves the clients.
OneRunner == \A r, s \in Runners : ~At(r, "none") /\ ~At(s, "none") => r = s

\* A client counts as connected only if the broker accepted this connection, not
\* by a packet left over from an earlier one.
ConnectedWasAccepted == \A c \in Clients : connected[c] => answered[c]

\* A subscribe or unsubscribe call that succeeds has got the answer to its own
\* request, not to one before or of the other kind.
RequestGotItsAnswer ==
  \A t \in Callers :
    At(t, "returned") /\ wants[t] \in Requests /\ got[t] \in Packet
      => got[t] = [type |-> wants[t], req |-> call[t].req]

\* A thread waits for the mutex that it holds: the case of Threads_silence, after
\* which nothing more is promised.
Hung == \E t \in Threads : At(t, "hung")
Unserved == \A r \in Runners : At(r, "none")

\* A lost connection ends the session, whether the socket tells or only the
\* pings go unanswered.
LossNoticed ==
  \A c \in Clients : (connected[c] /\ sock[c] \in {"broken", "silent"}) ~> ~connected[c]

\* A connection that breaks ends the session, as long as there is a background
\* thread to notice.
BreakNoticed ==
  \A c \in Clients :
    (connected[c] /\ sock[c] = "broken") ~> (~connected[c] \/ Unserved \/ Hung)

\* Every call of the application returns.
CallReturns == \A t \in Apps : ~At(t, "idle") ~> (At(t, "idle") \/ Hung)
=============================================================================
