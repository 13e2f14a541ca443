------------------------- MODULE ClientThreads_proofs -------------------------
(***************************************************************************)
(* Proofs about ClientThreads.  For any number of clients and threads: the *)
(* types, and that two background threads never serve the clients at once. *)
(* For one client and one application thread: a connect succeeds only by   *)
(* the CONNACK of its own connection, and a subscribe or unsubscribe only  *)
(* by the answer to its own request.                                       *)
(***************************************************************************)
EXTENDS ClientThreads, SequenceTheorems, TLAPS

USE ThreadsAssumption, OptionsAssumption, BoundsAssumption

\* Who does what of a thread: the mutex is held over the start of the
\* background thread, and running says that it is there.
RunnersInv ==
  /\ OneRunner
  /\ \A t \in Threads : At(t, "started") => mutex = t
  /\ \A r \in Runners : At(r, "start") => ~running /\ mutex # None /\ At(mutex, "started")
  /\ \A r \in Runners : pc[r] \notin {"none", "start"} => running

-----------------------------------------------------------------------------
(* Types *)

LEMMA GoType ==
  ASSUME TypeOK, NEW t \in Threads, NEW p \in Places, Go(t, p)
  PROVE  pc' \in [Threads -> Places]
BY DEF TypeOK, Go

LEMMA GotType ==
  ASSUME TypeOK, NEW t \in Threads, NEW g \in Results, got' = [got EXCEPT ![t] = g]
  PROVE  got' \in [Threads -> Results]
BY DEF TypeOK

LEMMA DisturbType ==
  ASSUME TypeOK, NEW kind \in Kinds, Disturb(kind)
  PROVE  left' \in [Kinds -> Nat]
BY DEF TypeOK, Disturb

LEMMA Constants ==
  /\ Callers \subseteq Threads /\ Runners \subseteq Threads
  /\ NoCall \in Call /\ Nothing \in Results /\ Failure \in Results /\ Made \in Results
  /\ \A t \in Threads : End(t) \in Places
  /\ {"break", "silence", "refuse", "late", "message"} = Kinds
BY DEF Callers, Threads, NoCall, Call, Results, End, Places, Kinds

\* The fields of a call that are set one at a time.
LEMMA CallFields ==
  ASSUME NEW a \in Call
  PROVE  /\ \A b \in BOOLEAN : /\ [a EXCEPT !.internal = b] \in Call /\ [a EXCEPT !.stop = b] \in Call
                               /\ [a EXCEPT !.was = b] \in Call
         /\ \A back \in {"idle", "version", "run"} : [a EXCEPT !.back = back] \in Call
         /\ \A version \in {3, 4} : [a EXCEPT !.version = version] \in Call
         /\ \A req \in Nat : [a EXCEPT !.req = req] \in Call
         /\ a.version \in {3, 4}
BY DEF Call

\* One who starts an attempt.
LEMMA StartVersionType ==
  ASSUME TypeOK, NEW t \in Threads, NEW version \in {3, 4}, startVersion(t, version)
  PROVE  mutex' \in Threads \cup {None} /\ call' \in [Threads -> Call] /\ pc' \in [Threads -> Places]
<1>1. [NoCall EXCEPT !.version = version] \in Call
  BY Constants, CallFields
<1>2. pc' \in [Threads -> Places]
  BY Constants, GoType DEF startVersion, TypeOK, Places
<1> QED BY <1>1, <1>2 DEF startVersion, TypeOK

\* A call that failed, and one that gives its session up.
LEMMA FailedType ==
  ASSUME TypeOK, NEW t \in Threads, Failed(t) \/ Internal(t)
  PROVE  call' \in [Threads -> Call] /\ pc' \in [Threads -> Places]
<1>1. call[t] \in Call
  BY DEF TypeOK
<1>2. pc' \in [Threads -> Places]
  BY GoType DEF Failed, Internal, Places
<1>3. CASE Failed(t)
  <2>1. [[[call[t] EXCEPT !.internal = FALSE] EXCEPT !.back = "version"] EXCEPT !.stop = (call[t].version = 3)] \in Call
    BY <1>1 DEF Call
  <2> QED BY <1>2, <1>3, <2>1 DEF Failed, TypeOK
<1>4. CASE Internal(t)
  <2>1. [[[call[t] EXCEPT !.internal = TRUE] EXCEPT !.stop = TRUE] EXCEPT !.back = "idle"] \in Call
    BY <1>1 DEF Call
  <2> QED BY <1>2, <1>4, <2>1 DEF Internal, TypeOK
<1> QED BY <1>3, <1>4

LEMMA WaitType ==
  ASSUME TypeOK, NEW t \in Threads, NEW type \in Types, Wait(t, type)
  PROVE  wants' \in [Threads -> Types] /\ pc' \in [Threads -> Places]
BY GoType DEF Wait, TypeOK, Places

LEMMA SendConnectType ==
  ASSUME TypeOK, NEW c \in Clients, SendConnect(c), conns' \in [Clients -> Nat]
  PROVE  connect_state' \in [Clients -> {-2, 0, 1, 3}] /\ inbox' \in [Clients -> Seq(Packet)]
         /\ left' \in [Kinds -> Nat]
<1>1. PICK ok \in BOOLEAN :
        /\ IF ok THEN UNCHANGED left ELSE Disturb("refuse")
        /\ inbox' = [inbox EXCEPT ![c] = <<[type |-> "CONNACK", conn |-> conns'[c], ok |-> ok]>>]
  BY DEF SendConnect
<1>2. [type |-> "CONNACK", conn |-> conns'[c], ok |-> ok] \in Packet
  BY DEF Packet
<1>3. left' \in [Kinds -> Nat]
  BY <1>1, Constants, DisturbType DEF TypeOK
<1>4. <<[type |-> "CONNACK", conn |-> conns'[c], ok |-> ok]>> \in Seq(Packet)
  BY <1>2
<1> QED BY <1>1, <1>3, <1>4 DEF SendConnect, TypeOK

LEMMA ExpiresType ==
  ASSUME TypeOK, NEW t \in Threads, Expires(t) PROVE left' \in [Kinds -> Nat]
BY Constants, DisturbType DEF Expires, TypeOK

\* What a cycle finds has the type of a result, and what is left the type of an inbox.
LEMMA FoundType ==
  ASSUME TypeOK, NEW c \in Clients, NEW e \in Found(c), Take(c)
  PROVE  e \in Results /\ inbox' \in [Clients -> Seq(Packet)]
<1>1. inbox[c] \in Seq(Packet)
  BY DEF TypeOK
<1>2. inbox[c] # <<>> => Head(inbox[c]) \in Packet /\ Tail(inbox[c]) \in Seq(Packet)
  BY <1>1, HeadTailProperties
<1>3. e \in Results
  <2>1. e = Made \/ e = Failure \/ (inbox[c] # <<>> /\ e = Head(inbox[c]))
    BY DEF Found
  <2> QED BY <1>2, <2>1 DEF Results
<1>4. inbox' \in [Clients -> Seq(Packet)]
  BY <1>2 DEF Take, TypeOK
<1> QED BY <1>3, <1>4

LEMMA LeaveType ==
  ASSUME TypeOK, NEW t \in Threads, NEW was \in BOOLEAN, Leave(t, was)
  PROVE  pc' \in [Threads -> Places] /\ on' \in [Threads -> Clients]
<1> DEFINE back == CASE call[t].back = "idle" -> End(t)
                     [] call[t].back = "version" -> "version"
                     [] call[t].back = "run" -> "recheck"
<1>1. call[t].back \in {"idle", "version", "run"}
  BY DEF TypeOK, Call
<1>2. back \in Places
  BY <1>1, Constants DEF Places
<1>3. \/ \E l \in LostThreads : /\ pc' = [pc EXCEPT ![t] = back, ![l] = "begin"]
                                /\ on' = [on EXCEPT ![l] = on[t]]
      \/ Go(t, back) /\ UNCHANGED on
  BY DEF Leave
<1> HIDE DEF back
<1>4. LostThreads \subseteq Threads /\ "begin" \in Places
  BY DEF Threads, Callers, Places
<1>5. pc \in [Threads -> Places] /\ on \in [Threads -> Clients]
  BY DEF TypeOK
<1>6. CASE \E l \in LostThreads : /\ pc' = [pc EXCEPT ![t] = back, ![l] = "begin"]
                                  /\ on' = [on EXCEPT ![l] = on[t]]
  BY <1>2, <1>4, <1>5, <1>6
<1>7. CASE Go(t, back) /\ UNCHANGED on
  BY <1>2, <1>5, <1>7 DEF Go
<1> QED BY <1>3, <1>6, <1>7

LEMMA ExitType ==
  ASSUME TypeOK, NEW t \in Threads, NEW was \in BOOLEAN, Exit(t, was)
  PROVE  /\ tostop' \in BOOLEAN
         /\ pc' \in [Threads -> Places] /\ on' \in [Threads -> Clients] /\ call' \in [Threads -> Call]
<1> DEFINE stops == /\ call[t].stop /\ running /\ ~tostop
                    /\ \A c \in Clients : connect_state'[c] <= 0 /\ ~connected'[c]
<1>1. call[t] \in Call /\ [call[t] EXCEPT !.was = was] \in Call
  BY CallFields DEF TypeOK
<1>2. tostop' = (tostop \/ stops)
  BY DEF Exit
<1>3. \/ Go(t, "stopping") /\ call' = [call EXCEPT ![t].was = was] /\ UNCHANGED on
      \/ Leave(t, was) /\ UNCHANGED call
  BY DEF Exit
<1> HIDE DEF stops
<1>4. tostop' \in BOOLEAN
  BY <1>2, Zenon
<1>t. call \in [Threads -> Call] /\ on \in [Threads -> Clients] /\ "stopping" \in Places
  BY DEF TypeOK, Places
<1>5. CASE Go(t, "stopping") /\ call' = [call EXCEPT ![t].was = was] /\ UNCHANGED on
  BY <1>1, <1>4, <1>5, <1>t, GoType
<1>6. CASE Leave(t, was) /\ UNCHANGED call
  BY <1>4, <1>6, <1>t, LeaveType
<1> QED BY <1>3, <1>5, <1>6

LEMMA CloseType ==
  ASSUME TypeOK, NEW c \in Clients, Close(c)
  PROVE  /\ connected' \in [Clients -> BOOLEAN] /\ connect_state' \in [Clients -> {-2, 0, 1, 3}]
         /\ sems' \in [Clients -> [Types -> Nat]]
         /\ sock' \in [Clients -> {"closed", "open", "broken", "silent"}]
         /\ inbox' \in [Clients -> Seq(Packet)]
BY EmptySeq DEF TypeOK, Close

LEMMA PostType ==
  ASSUME TypeOK, NEW c \in Clients, NEW type \in Types, Post(c, type)
  PROVE  sems' \in [Clients -> [Types -> Nat]]
BY DEF TypeOK, Post

LEMMA TypeInit == Init => TypeOK
<1> SUFFICES ASSUME Init PROVE TypeOK
  OBVIOUS
<1>1. (CHOOSE c \in Clients : TRUE) \in Clients
  BY ThreadsAssumption
<1>2. left \in [Kinds -> Nat]
  BY DEF Init
<1>3. on \in [Threads -> Clients]
  BY <1>1 DEF Init
<1> QED BY <1>2, <1>3, Constants, EmptySeq DEF Init, TypeOK, Types, Requests, Places

LEMMA TypeStep == TypeOK /\ [Next]_vars => TypeOK'
<1> SUFFICES ASSUME TypeOK, [Next]_vars PROVE TypeOK'
  OBVIOUS
<1>c. Callers \subseteq Threads /\ Runners \subseteq Threads /\ Apps \subseteq Threads /\ LostThreads \subseteq Threads
  BY DEF Threads, Callers
<1>o. \A t \in Threads : on[t] \in Clients /\ wants[t] \in Types /\ got[t] \in Results /\ call[t] \in Call
  BY DEF TypeOK
<1> DEFINE MutexOK == mutex' \in Threads \cup {None}
           FlagsOK == run_id' \in Runners \cup {None} /\ running' \in BOOLEAN /\ tostop' \in BOOLEAN
           ClientOK == /\ connected' \in [Clients -> BOOLEAN] /\ tcprc' \in [Clients -> BOOLEAN]
                       /\ connect_state' \in [Clients -> {-2, 0, 1, 3}]
                       /\ sems' \in [Clients -> [Types -> Nat]]
                       /\ slot' \in [Clients -> Packet \cup {Nothing}]
           PcOK == pc' \in [Threads -> Places]
           LocalOK == /\ on' \in [Threads -> Clients]
                      /\ wants' \in [Threads -> Types] /\ got' \in [Threads -> Results]
                      /\ call' \in [Threads -> Call]
           NetworkOK == /\ sock' \in [Clients -> {"closed", "open", "broken", "silent"}]
                        /\ inbox' \in [Clients -> Seq(Packet)] /\ conns' \in [Clients -> Nat]
           AnsweredOK == answered' \in [Clients -> BOOLEAN]
           BoundsOK == calls' \in Nat /\ left' \in [Kinds -> Nat]
<1>t. MutexOK /\ FlagsOK /\ ClientOK /\ PcOK /\ LocalOK /\ NetworkOK /\ AnsweredOK /\ BoundsOK => TypeOK'
  BY DEF TypeOK
\* What a step leaves alone.
<1>u. /\ UNCHANGED mutex => MutexOK
      /\ UNCHANGED flags => FlagsOK
      /\ UNCHANGED client => ClientOK
      /\ UNCHANGED pc => PcOK
      /\ UNCHANGED local => LocalOK
      /\ UNCHANGED network => NetworkOK
      /\ UNCHANGED answered => AnsweredOK
      /\ UNCHANGED bounds => BoundsOK
  BY DEF TypeOK, flags, client, local, network, bounds
<1>1. ASSUME NEW t \in Threads, NEW c \in Clients, connect(t, c) PROVE TypeOK'
  <2>1. mutex' \in Threads \cup {None} /\ call' \in [Threads -> Call] /\ pc' \in [Threads -> Places]
    BY <1>1, StartVersionType DEF connect
  <2>2. on' \in [Threads -> Clients] /\ calls' \in Nat /\ left' \in [Kinds -> Nat]
    BY <1>1 DEF connect, TypeOK
  <2>3. wants' \in [Threads -> Types] /\ got' \in [Threads -> Results]
    BY <1>1 DEF connect, TypeOK
  <2> QED BY <1>1, <1>t, <1>u, <2>1, <2>2, <2>3 DEF connect
<1>2. ASSUME NEW t \in Callers, protocolConnect(t) PROVE TypeOK'
  <2>1. on[t] \in Clients /\ t \in Threads
    BY <1>2, <1>c, <1>o
  <2> DEFINE c == on[t]
             Opened == /\ sock' = [sock EXCEPT ![c] = "open"]
                       /\ conns' = [conns EXCEPT ![c] = @ + 1]
                       /\ answered' = [answered EXCEPT ![c] = FALSE]
  <2>2. /\ mutex' = None
        /\ UNCHANGED <<flags, connected, sems, slot, tcprc, on, got, calls>>
        /\ \/ /\ Disturb("refuse") /\ Failed(t)
              /\ UNCHANGED <<connect_state, wants, network, answered>>
           \/ /\ connect_state' = [connect_state EXCEPT ![c] = 1]
              /\ inbox' = [inbox EXCEPT ![c] = <<>>]
              /\ Opened /\ Wait(t, "CONNECT")
              /\ UNCHANGED <<call, left>>
           \/ /\ Opened /\ SendConnect(c) /\ Wait(t, "CONNACK")
              /\ UNCHANGED call
    BY <1>2 DEF protocolConnect
  <2>3. Opened => /\ sock' \in [Clients -> {"closed", "open", "broken", "silent"}]
                  /\ conns' \in [Clients -> Nat] /\ answered' \in [Clients -> BOOLEAN]
    BY SMTT(30), <2>1 DEF TypeOK
  <2> HIDE DEF Opened, c
  <2>4. c \in Clients
    BY <2>1 DEF c
  <2>5. "CONNECT" \in Types /\ "CONNACK" \in Types /\ "refuse" \in Kinds
    BY DEF Types, Kinds
  <2>6. CASE Disturb("refuse") /\ Failed(t) /\ UNCHANGED <<connect_state, wants, network, answered>>
    <3>1. call' \in [Threads -> Call] /\ pc' \in [Threads -> Places] /\ left' \in [Kinds -> Nat]
      BY <2>1, <2>5, <2>6, FailedType, DisturbType
    <3> QED BY <1>t, <1>u, <2>2, <2>6, <3>1 DEF TypeOK
  <2>7. CASE /\ connect_state' = [connect_state EXCEPT ![c] = 1]
             /\ inbox' = [inbox EXCEPT ![c] = <<>>]
             /\ Opened /\ Wait(t, "CONNECT")
             /\ UNCHANGED <<call, left>>
    <3>1. wants' \in [Threads -> Types] /\ pc' \in [Threads -> Places]
      BY <2>1, <2>5, <2>7, WaitType
    <3>2. connect_state' \in [Clients -> {-2, 0, 1, 3}] /\ inbox' \in [Clients -> Seq(Packet)]
      BY <2>4, <2>7, EmptySeq DEF TypeOK
    <3> QED BY <1>t, <1>u, <2>2, <2>3, <2>7, <3>1, <3>2 DEF TypeOK
  <2>8. CASE Opened /\ SendConnect(c) /\ Wait(t, "CONNACK") /\ UNCHANGED call
    <3>1. wants' \in [Threads -> Types] /\ pc' \in [Threads -> Places]
      BY <2>1, <2>5, <2>8, WaitType
    <3>2. connect_state' \in [Clients -> {-2, 0, 1, 3}] /\ inbox' \in [Clients -> Seq(Packet)]
          /\ left' \in [Kinds -> Nat]
      BY <2>3, <2>4, <2>8, SendConnectType
    <3> QED BY <1>t, <1>u, <2>2, <2>3, <2>8, <3>1, <3>2 DEF TypeOK
  <2> QED BY <2>2, <2>6, <2>7, <2>8
<1>3. ASSUME NEW t \in Callers, waitfor(t) PROVE TypeOK'
  <2>1. pc' \in [Threads -> Places]
    BY <1>3, <1>c, GoType DEF waitfor, Places
  <2> QED BY <1>3, <1>t, <1>u, <2>1 DEF waitfor
<1>4. ASSUME NEW t \in Callers, wait_sem(t) PROVE TypeOK'
  <2>1. on[t] \in Clients /\ t \in Threads /\ wants[t] \in Types
    BY <1>4, <1>c, <1>o
  <2>2. pc' \in [Threads -> Places]
    BY <1>4, <2>1, GoType DEF wait_sem, Places
  <2>3. got' \in [Threads -> Results]
    <3>1. got' = [got EXCEPT ![t] = Nothing] \/ got' = [got EXCEPT ![t] = Failure]
      BY <1>4 DEF wait_sem
    <3> QED BY <2>1, <3>1, Constants, GotType
  <2>4. sems' \in [Clients -> [Types -> Nat]] /\ left' \in [Kinds -> Nat]
    <3>1. CASE /\ sems[on[t]][wants[t]] > 0
               /\ sems' = [sems EXCEPT ![on[t]][wants[t]] = @ - 1] /\ UNCHANGED left
      <4>1. sems[on[t]] \in [Types -> Nat] /\ sems[on[t]][wants[t]] \in Nat
        BY <2>1 DEF TypeOK
      <4>2. sems[on[t]][wants[t]] - 1 \in Nat
        BY <3>1, <4>1
      <4> QED BY <2>1, <3>1, <4>1, <4>2 DEF TypeOK
    <3>2. CASE Expires(t) /\ UNCHANGED sems
      BY <2>1, <3>2, ExpiresType DEF TypeOK
    <3> QED BY <1>4, <3>1, <3>2 DEF wait_sem
  <2> QED BY <1>4, <1>t, <1>u, <2>2, <2>3, <2>4 DEF wait_sem, TypeOK
<1>5. ASSUME NEW t \in Callers, takeSlot(t) PROVE TypeOK'
  <2>1. on[t] \in Clients /\ t \in Threads
    BY <1>5, <1>c, <1>o
  <2>2. pc' \in [Threads -> Places]
    BY <1>5, <2>1, GoType DEF takeSlot, Places
  <2>3. got' \in [Threads -> Results]
    <3>1. slot[on[t]] \in Results
      BY <2>1 DEF TypeOK, Results
    <3> QED BY <1>5, <2>1, <3>1, Constants DEF takeSlot, TypeOK
  <2> QED BY <1>5, <1>t, <1>u, <2>2, <2>3 DEF takeSlot, TypeOK
<1>6. ASSUME NEW t \in Callers, poll(t) PROVE TypeOK'
  <2>1. on[t] \in Clients /\ t \in Threads
    BY <1>6, <1>c, <1>o
  <2>2. CASE \E c \in Clients : \E e \in Found(c) :
               /\ Take(c)
               /\ IF c = on[t] /\ (e.type = wants[t] \/ e \in {Made, Failure})
                    THEN /\ Go(t, "returned")
                         /\ got' = [got EXCEPT ![t] = IF e = Made /\ sock[c] # "open" THEN Failure ELSE e]
                    ELSE UNCHANGED <<pc, got>>
               /\ UNCHANGED left
    <3>c. PICK c \in Clients : \E e \in Found(c) :
               /\ Take(c)
               /\ IF c = on[t] /\ (e.type = wants[t] \/ e \in {Made, Failure})
                    THEN /\ Go(t, "returned")
                         /\ got' = [got EXCEPT ![t] = IF e = Made /\ sock[c] # "open" THEN Failure ELSE e]
                    ELSE UNCHANGED <<pc, got>>
               /\ UNCHANGED left
      BY <2>2
    <3>1. PICK e \in Found(c) :
               /\ Take(c)
               /\ \/ Go(t, "returned") /\ \E g \in {Failure, e} : got' = [got EXCEPT ![t] = g]
                  \/ UNCHANGED <<pc, got>>
               /\ UNCHANGED left
      BY <3>c
    <3>2. e \in Results /\ inbox' \in [Clients -> Seq(Packet)]
      BY <3>1, FoundType
    <3>3. pc' \in [Threads -> Places]
      BY <2>1, <3>1, GoType DEF Places, TypeOK
    <3>4. got' \in [Threads -> Results]
      <4>1. got \in [Threads -> Results]
        BY DEF TypeOK
      <4> QED BY <2>1, <3>1, <3>2, <4>1, Constants, GotType
    <3> QED BY <1>6, <1>t, <1>u, <3>1, <3>2, <3>3, <3>4 DEF poll, TypeOK
  <2>3. CASE Expires(t) /\ Go(t, "returned") /\ got' = [got EXCEPT ![t] = Nothing] /\ UNCHANGED inbox
    <3>1. pc' \in [Threads -> Places] /\ left' \in [Kinds -> Nat]
      BY <2>1, <2>3, GoType, ExpiresType DEF Places
    <3>2. got' \in [Threads -> Results]
      BY <2>1, <2>3, Constants DEF TypeOK
    <3> QED BY <1>6, <1>t, <1>u, <2>3, <3>1, <3>2 DEF poll, TypeOK
  <2> QED BY <1>6, <2>2, <2>3 DEF poll
<1>7. ASSUME NEW t \in Callers, tcpConnected(t) PROVE TypeOK'
  <2>1. on[t] \in Clients /\ t \in Threads
    BY <1>7, <1>c, <1>o
  <2> DEFINE c == on[t]
  <2>2. /\ \/ /\ conns' = conns /\ SendConnect(c) /\ Wait(t, "CONNACK") /\ UNCHANGED call
           \/ Failed(t) /\ UNCHANGED <<connect_state, inbox, conns, wants, left>>
        /\ UNCHANGED <<mutex, flags, connected, sems, slot, tcprc, on, got, sock, answered, calls>>
    BY <1>7 DEF tcpConnected
  <2> HIDE DEF c
  <2>3. c \in Clients /\ "CONNACK" \in Types
    BY <2>1 DEF c, Types
  <2>4. CASE conns' = conns /\ SendConnect(c) /\ Wait(t, "CONNACK") /\ UNCHANGED call
    <3>1. wants' \in [Threads -> Types] /\ pc' \in [Threads -> Places]
      BY <2>1, <2>3, <2>4, WaitType
    <3>2. conns' \in [Clients -> Nat]
      BY <2>4 DEF TypeOK
    <3>3. connect_state' \in [Clients -> {-2, 0, 1, 3}] /\ inbox' \in [Clients -> Seq(Packet)]
          /\ left' \in [Kinds -> Nat]
      BY <2>3, <2>4, <3>2, SendConnectType
    <3> QED BY <1>t, <1>u, <2>2, <2>4, <3>1, <3>2, <3>3 DEF TypeOK
  <2>5. CASE Failed(t) /\ UNCHANGED <<connect_state, inbox, conns, wants, left>>
    <3>1. call' \in [Threads -> Call] /\ pc' \in [Threads -> Places]
      BY <2>1, <2>5, FailedType
    <3> QED BY <1>t, <1>u, <2>2, <2>5, <3>1 DEF TypeOK
  <2> QED BY <2>2, <2>4, <2>5
<1>8. ASSUME NEW t \in Callers, connack(t) PROVE TypeOK'
  <2>1. on[t] \in Clients /\ t \in Threads /\ End(t) \in Places
    BY <1>8, <1>c, <1>o, Constants
  <2> DEFINE c == on[t]
             p == got[t]
  <2>2. /\ \/ /\ connected' = [connected EXCEPT ![c] = TRUE]
              /\ connect_state' = [connect_state EXCEPT ![c] = 0]
              /\ answered' = [answered EXCEPT ![c] = (p.type = "CONNACK" /\ p.conn = conns[c])]
              /\ Go(t, End(t)) /\ UNCHANGED call
           \/ Failed(t) /\ UNCHANGED <<connected, connect_state, answered>>
        /\ slot' = [slot EXCEPT ![c] = Nothing] \/ slot' = slot
        /\ UNCHANGED <<mutex, flags, sems, tcprc, on, wants, got, network, bounds>>
    BY <1>8 DEF connack
  <2> HIDE DEF c, p
  <2>3. c \in Clients
    BY <2>1 DEF c
  <2>4. slot' \in [Clients -> Packet \cup {Nothing}]
    BY <2>2, <2>3 DEF TypeOK
  <2>5. CASE /\ connected' = [connected EXCEPT ![c] = TRUE]
             /\ connect_state' = [connect_state EXCEPT ![c] = 0]
             /\ answered' = [answered EXCEPT ![c] = (p.type = "CONNACK" /\ p.conn = conns[c])]
             /\ Go(t, End(t)) /\ UNCHANGED call
    <3>1. pc' \in [Threads -> Places]
      BY <2>1, <2>5, GoType
    <3>2. /\ connected' \in [Clients -> BOOLEAN] /\ connect_state' \in [Clients -> {-2, 0, 1, 3}]
          /\ answered' \in [Clients -> BOOLEAN]
      BY <2>3, <2>5 DEF TypeOK
    <3> QED BY <1>t, <1>u, <2>2, <2>4, <2>5, <3>1, <3>2 DEF TypeOK
  <2>6. CASE Failed(t) /\ UNCHANGED <<connected, connect_state, answered>>
    <3>1. call' \in [Threads -> Call] /\ pc' \in [Threads -> Places]
      BY <2>1, <2>6, FailedType
    <3> QED BY <1>t, <1>u, <2>2, <2>4, <2>6, <3>1 DEF TypeOK
  <2> QED BY <2>2, <2>5, <2>6
<1>9. ASSUME NEW t \in Callers, nextVersion(t) PROVE TypeOK'
  <2>1. t \in Threads /\ End(t) \in Places
    BY <1>c, Constants
  <2>2. mutex' \in Threads \cup {None} /\ call' \in [Threads -> Call] /\ pc' \in [Threads -> Places]
    <3>1. CASE startVersion(t, 3)
      BY <2>1, <3>1, StartVersionType
    <3>2. CASE Go(t, End(t)) /\ UNCHANGED <<mutex, call>>
      BY <2>1, <3>2, GoType DEF TypeOK
    <3> QED BY <1>9, <3>1, <3>2 DEF nextVersion
  <2>3. on' \in [Threads -> Clients] /\ wants' \in [Threads -> Types] /\ got' \in [Threads -> Results]
    BY <1>9 DEF nextVersion, TypeOK
  <2> QED BY <1>9, <1>t, <1>u, <2>2, <2>3 DEF nextVersion
<1>10. ASSUME NEW t \in Callers, lostReturns(t) PROVE TypeOK'
  <2>1. pc' \in [Threads -> Places]
    BY <1>10, <1>c, GoType DEF lostReturns, Places
  <2> QED BY <1>10, <1>t, <1>u, <2>1 DEF lostReturns
<1>11. ASSUME NEW t \in Callers, NEW c \in Clients, NEW type \in Requests, Request(t, c, type) PROVE TypeOK'
  <2>1. t \in Threads /\ calls' = calls + 1 /\ calls' \in Nat /\ type \in Types
    BY SMTT(30), <1>11, <1>c DEF Request, TypeOK, Types
  <2>2. on' \in [Threads -> Clients] /\ got' \in [Threads -> Results]
    BY <1>11 DEF Request, TypeOK
  <2>3. /\ UNCHANGED <<mutex, flags, client, sock, conns, answered, left>>
        /\ \/ /\ Wait(t, type)
              /\ call' = [call EXCEPT ![t] = [NoCall EXCEPT !.req = calls + 1]]
              /\ \/ inbox' = [inbox EXCEPT ![c] = Append(@, [type |-> type, req |-> calls + 1])]
                 \/ inbox' = inbox
           \/ Internal(t) /\ UNCHANGED <<wants, inbox>>
    BY <1>11 DEF Request
  <2>4. CASE /\ Wait(t, type)
             /\ call' = [call EXCEPT ![t] = [NoCall EXCEPT !.req = calls + 1]]
             /\ \/ inbox' = [inbox EXCEPT ![c] = Append(@, [type |-> type, req |-> calls + 1])]
                \/ inbox' = inbox
    <3>1. wants' \in [Threads -> Types] /\ pc' \in [Threads -> Places]
      BY <2>1, <2>4, WaitType
    <3>2. call' \in [Threads -> Call]
      <4>1. [NoCall EXCEPT !.req = calls + 1] \in Call
        BY <2>1, Constants, CallFields
      <4> QED BY <2>1, <2>4, <4>1 DEF TypeOK
    <3>3. inbox' \in [Clients -> Seq(Packet)]
      <4>1. [type |-> type, req |-> calls + 1] \in Packet
        BY <2>1 DEF Packet
      <4>2. inbox \in [Clients -> Seq(Packet)]
        BY DEF TypeOK
      <4>3. Append(inbox[c], [type |-> type, req |-> calls + 1]) \in Seq(Packet)
        BY <4>1, <4>2, AppendProperties
      <4>4. CASE inbox' = [inbox EXCEPT ![c] = Append(@, [type |-> type, req |-> calls + 1])]
        BY <4>2, <4>3, <4>4
      <4>5. CASE inbox' = inbox
        BY <4>2, <4>5
      <4> QED BY <2>4, <4>4, <4>5
    <3> QED BY <1>t, <1>u, <2>1, <2>2, <2>3, <3>1, <3>2, <3>3 DEF TypeOK
  <2>5. CASE Internal(t) /\ UNCHANGED <<wants, inbox>>
    <3>1. call' \in [Threads -> Call] /\ pc' \in [Threads -> Places]
      BY <2>1, <2>5, FailedType
    <3> QED BY <1>t, <1>u, <2>1, <2>2, <2>3, <2>5, <3>1 DEF TypeOK
  <2> QED BY <2>3, <2>4, <2>5
<1>12. ASSUME NEW t \in Callers, NEW type \in Requests, Answer(t, type) PROVE TypeOK'
  <2>1. on[t] \in Clients /\ t \in Threads /\ End(t) \in Places
    BY <1>c, <1>o, Constants
  <2>2. slot' \in [Clients -> Packet \cup {Nothing}]
    BY <1>12, <2>1 DEF Answer, TypeOK
  <2>3. call' \in [Threads -> Call] /\ pc' \in [Threads -> Places]
    <3>1. CASE Go(t, End(t)) /\ UNCHANGED call
      BY <2>1, <3>1, GoType DEF TypeOK
    <3>2. CASE Internal(t)
      BY <2>1, <3>2, FailedType
    <3> QED BY <1>12, <3>1, <3>2 DEF Answer
  <2> QED BY <1>12, <1>t, <1>u, <2>2, <2>3 DEF Answer, TypeOK
<1>13. ASSUME NEW t \in Threads, NEW c \in Clients, disconnect(t, c) PROVE TypeOK'
  <2>1. pc' \in [Threads -> Places]
    BY <1>13, GoType DEF disconnect, Places
  <2>2. call' \in [Threads -> Call]
    <3>1. [NoCall EXCEPT !.stop = TRUE] \in Call
      BY Constants, CallFields
    <3> QED BY <1>13, <3>1 DEF disconnect, TypeOK
  <2>3. on \in [Threads -> Clients] /\ calls \in Nat /\ left \in [Kinds -> Nat]
        /\ wants \in [Threads -> Types] /\ got \in [Threads -> Results]
    BY DEF TypeOK
  <2>4. LocalOK /\ BoundsOK
    BY <1>13, <2>2, <2>3 DEF disconnect
  <2> QED BY <1>13, <1>t, <1>u, <2>1, <2>4 DEF disconnect
<1>14. ASSUME NEW t \in Threads, disconnect1(t) PROVE TypeOK'
  <2>1. on[t] \in Clients /\ connected[on[t]] \in BOOLEAN
    BY <1>o DEF TypeOK
  <2>2. /\ tostop' \in BOOLEAN /\ pc' \in [Threads -> Places]
        /\ on' \in [Threads -> Clients] /\ call' \in [Threads -> Call]
    BY <1>14, <2>1, ExitType DEF disconnect1
  <2>3. \/ UNCHANGED <<connected, connect_state, sems, sock, inbox>>
        \/ Close(on[t])
    BY <1>14 DEF disconnect1
  <2>4. /\ connected' \in [Clients -> BOOLEAN] /\ connect_state' \in [Clients -> {-2, 0, 1, 3}]
        /\ sems' \in [Clients -> [Types -> Nat]]
        /\ sock' \in [Clients -> {"closed", "open", "broken", "silent"}]
        /\ inbox' \in [Clients -> Seq(Packet)]
    <3>1. CASE UNCHANGED <<connected, connect_state, sems, sock, inbox>>
      BY <3>1 DEF TypeOK
    <3>2. CASE Close(on[t])
      BY <2>1, <3>2, CloseType
    <3> QED BY <2>3, <3>1, <3>2
  <2> QED BY <1>14, <1>t, <1>u, <2>2, <2>4 DEF disconnect1, TypeOK
<1>15. ASSUME NEW t \in Callers, drain(t) PROVE TypeOK'
  <2>1. on[t] \in Clients /\ t \in Threads
    BY <1>c, <1>o
  <2>2. CASE /\ connect_state' = [connect_state EXCEPT ![on[t]] = -2]
             /\ Go(t, "draining")
             /\ UNCHANGED <<tostop, connected, sems, sock, inbox, on, call>>
    <3>1. pc' \in [Threads -> Places]
      BY <2>1, <2>2, GoType DEF Places
    <3>2. connect_state' \in [Clients -> {-2, 0, 1, 3}]
      BY <2>1, <2>2 DEF TypeOK
    <3> QED BY <1>15, <1>t, <1>u, <2>2, <3>1, <3>2 DEF drain, TypeOK
  <2>3. CASE Close(on[t]) /\ Exit(t, TRUE)
    <3>1. /\ tostop' \in BOOLEAN /\ pc' \in [Threads -> Places]
          /\ on' \in [Threads -> Clients] /\ call' \in [Threads -> Call]
      BY <2>1, <2>3, ExitType
    <3>2. /\ connected' \in [Clients -> BOOLEAN] /\ connect_state' \in [Clients -> {-2, 0, 1, 3}]
          /\ sems' \in [Clients -> [Types -> Nat]]
          /\ sock' \in [Clients -> {"closed", "open", "broken", "silent"}]
          /\ inbox' \in [Clients -> Seq(Packet)]
      BY <2>1, <2>3, CloseType
    <3> QED BY <1>15, <1>t, <1>u, <3>1, <3>2 DEF drain, TypeOK
  <2> QED BY <1>15, <2>2, <2>3 DEF drain
<1>16. ASSUME NEW t \in Callers, stop(t) PROVE TypeOK'
  <2>1. call[t].was \in BOOLEAN /\ t \in Threads
    BY <1>c, <1>o DEF Call
  <2>2. pc' \in [Threads -> Places] /\ on' \in [Threads -> Clients]
    BY <1>16, <2>1, LeaveType DEF stop
  <2>3. call' \in [Threads -> Call] /\ wants' \in [Threads -> Types] /\ got' \in [Threads -> Results]
    BY <1>16 DEF stop, TypeOK
  <2> QED BY <1>16, <1>t, <1>u, <2>2, <2>3 DEF stop
<1>17. ASSUME NEW r \in Runners, runStart(r) PROVE TypeOK'
  <2>1. pc' \in [Threads -> Places]
    BY <1>17, <1>c, GoType DEF runStart, Places
  <2> QED BY <1>17, <1>t, <1>u, <2>1 DEF runStart, TypeOK
<1>18. ASSUME NEW r \in Runners, runLoop(r) PROVE TypeOK'
  <2>1. pc' \in [Threads -> Places]
    BY <1>18, <1>c, GoType DEF runLoop, runEnds, Places
  <2>2. FlagsOK
    BY <1>18, <1>u DEF runLoop, runEnds
  <2> QED BY <1>18, <1>t, <1>u, <2>1, <2>2 DEF runLoop
<1>19. ASSUME NEW r \in Runners, runCycle(r) PROVE TypeOK'
  <2>1. pc' \in [Threads -> Places] /\ r \in Threads
    BY <1>19, <1>c, GoType DEF runCycle, Places
  <2>2. PICK c \in Clients : \E e \in Found(c) : /\ Take(c)
                                               /\ on' = [on EXCEPT ![r] = c]
                                               /\ got' = [got EXCEPT ![r] = e]
    BY <1>19 DEF runCycle
  <2>3. inbox' \in [Clients -> Seq(Packet)] /\ got' \in [Threads -> Results]
    BY <2>1, <2>2, FoundType, GotType
  <2>4. on' \in [Threads -> Clients]
    BY <2>1, <2>2 DEF TypeOK
  <2> QED BY <1>19, <1>t, <1>u, <2>1, <2>3, <2>4 DEF runCycle, TypeOK
<1>20. ASSUME NEW r \in Runners, runHandle(r) PROVE TypeOK'
  <2>1. on[r] \in Clients /\ r \in Threads
    BY <1>c, <1>o
  <2> DEFINE c == on[r]
             e == got[r]
  <2>2. /\ got' = [got EXCEPT ![r] = Nothing]
        /\ UNCHANGED <<mutex, on, wants, network, answered, bounds>>
        /\ \/ runEnds(r) /\ UNCHANGED <<client, call>>
           \/ /\ \/ Go(r, "recheck") /\ UNCHANGED <<sems, slot, tcprc, call>>
                 \/ HandleError(r, c)
                 \/ HandleMade(r, c)
                 \/ e \in Packet /\ HandlePacket(r, c, e)
              /\ UNCHANGED <<flags, connected, connect_state>>
    BY <1>20 DEF runHandle
  <2> HIDE DEF c, e
  <2>3. c \in Clients
    BY <2>1 DEF c
  <2>4. got' \in [Threads -> Results]
    BY <2>1, <2>2, Constants, GotType
  <2>5. Requests \cup {"CONNECT", "CONNACK"} \subseteq Types
        /\ {"none", "recheck", "callback", "disconnect"} \subseteq Places
    BY DEF Types, Places
  <2>6. /\ sems \in [Clients -> [Types -> Nat]] /\ slot \in [Clients -> Packet \cup {Nothing}]
        /\ tcprc \in [Clients -> BOOLEAN] /\ call \in [Threads -> Call]
        /\ connected \in [Clients -> BOOLEAN] /\ connect_state \in [Clients -> {-2, 0, 1, 3}]
        /\ on \in [Threads -> Clients] /\ wants \in [Threads -> Types]
    BY DEF TypeOK
  <2>7. CASE runEnds(r) /\ UNCHANGED <<client, call>>
    <3>1. pc' \in [Threads -> Places] /\ FlagsOK
      BY <2>1, <2>5, <2>7, GoType DEF runEnds
    <3>2. LocalOK
      BY <2>2, <2>4, <2>6, <2>7
    <3> QED BY <1>t, <1>u, <2>2, <2>7, <3>1, <3>2
  <2>8. ASSUME pc' \in [Threads -> Places], sems' \in [Clients -> [Types -> Nat]],
               slot' \in [Clients -> Packet \cup {Nothing}], tcprc' \in [Clients -> BOOLEAN],
               call' \in [Threads -> Call], UNCHANGED <<flags, connected, connect_state>>
        PROVE  TypeOK'
    <3>1. ClientOK /\ LocalOK
      BY <2>2, <2>4, <2>6, <2>8
    <3> QED BY <1>t, <1>u, <2>2, <2>8, <3>1
  <2>9. ASSUME Go(r, "recheck"), UNCHANGED <<sems, slot, tcprc, call>>,
               UNCHANGED <<flags, connected, connect_state>>
        PROVE  TypeOK'
    <3>1. pc' \in [Threads -> Places]
      BY <2>1, <2>5, <2>9, GoType
    <3> QED BY <2>6, <2>8, <2>9, <3>1
  <2>10. ASSUME HandleError(r, c), UNCHANGED <<flags, connected, connect_state>> PROVE TypeOK'
    <3>1. pc' \in [Threads -> Places]
      BY <2>1, <2>5, <2>10, GoType DEF HandleError
    <3>2. sems' \in [Clients -> [Types -> Nat]]
      BY <2>3, <2>5, <2>6, <2>10, PostType DEF HandleError
    <3>3. call' \in [Threads -> Call]
      <4>1. [NoCall EXCEPT !.internal = TRUE, !.stop = TRUE, !.back = "run"] \in Call
        BY DEF NoCall, Call
      <4> QED BY <2>1, <2>6, <2>10, <4>1 DEF HandleError
    <3>4. UNCHANGED <<slot, tcprc>>
      BY <2>10 DEF HandleError
    <3> QED BY <2>6, <2>8, <2>10, <3>1, <3>2, <3>3, <3>4
  <2>11. ASSUME HandleMade(r, c), UNCHANGED <<flags, connected, connect_state>> PROVE TypeOK'
    <3>1. pc' \in [Threads -> Places]
      BY <2>1, <2>5, <2>11, GoType DEF HandleMade
    <3>2. sems' \in [Clients -> [Types -> Nat]]
      BY <2>3, <2>5, <2>6, <2>11, PostType DEF HandleMade
    <3>3. tcprc' \in [Clients -> BOOLEAN]
      BY <2>3, <2>6, <2>11 DEF HandleMade
    <3>4. UNCHANGED <<call, slot>>
      BY <2>11 DEF HandleMade
    <3> QED BY <2>6, <2>8, <2>11, <3>1, <3>2, <3>3, <3>4
  <2>12. ASSUME e \in Packet, HandlePacket(r, c, e), UNCHANGED <<flags, connected, connect_state>>
         PROVE  TypeOK'
    <3>1. pc' \in [Threads -> Places]
      BY <2>1, <2>5, <2>12, GoType DEF HandlePacket
    <3>2. \/ e.type \in Types /\ slot' = [slot EXCEPT ![c] = e] /\ Post(c, e.type)
          \/ UNCHANGED <<slot, sems>>
      BY <2>5, <2>12 DEF HandlePacket
    <3>3. slot' \in [Clients -> Packet \cup {Nothing}]
      BY SMTT(30), <2>3, <2>6, <2>12, <3>2
    <3>4. sems' \in [Clients -> [Types -> Nat]]
      BY <2>3, <2>6, <3>2, PostType
    <3>5. UNCHANGED <<call, tcprc>>
      BY <2>12 DEF HandlePacket
    <3> QED BY <2>6, <2>8, <2>12, <3>1, <3>3, <3>4, <3>5
  <2> QED BY <2>2, <2>7, <2>9, <2>10, <2>11, <2>12
<1>21. ASSUME NEW r \in Runners, callbackReturns(r) PROVE TypeOK'
  <2>1. pc' \in [Threads -> Places]
    BY <1>21, <1>c, GoType DEF callbackReturns, Places
  <2> QED BY <1>21, <1>t, <1>u, <2>1 DEF callbackReturns
<1>22. ASSUME NEW t \in Threads, keepalive(t) PROVE TypeOK'
  <2>1. pc' \in [Threads -> Places]
    BY <1>22, GoType DEF keepalive, Places
  <2> QED BY <1>22, <1>t, <1>u, <2>1 DEF keepalive
<1>23. ASSUME NEW c \in Clients, linkBreaks(c) \/ goesSilent(c) PROVE TypeOK'
  <2>1. sock' = [sock EXCEPT ![c] = "broken"] \/ sock' = [sock EXCEPT ![c] = "silent"]
    BY <1>23 DEF linkBreaks, goesSilent
  <2>2. sock' \in [Clients -> {"closed", "open", "broken", "silent"}]
    BY <2>1 DEF TypeOK
  <2>3. left' \in [Kinds -> Nat]
    BY <1>23, Constants, DisturbType DEF linkBreaks, goesSilent
  <2>4. calls \in Nat /\ inbox \in [Clients -> Seq(Packet)] /\ conns \in [Clients -> Nat]
    BY DEF TypeOK
  <2>5. UNCHANGED <<mutex, flags, client, pc, local, inbox, conns, answered, calls>>
    BY <1>23 DEF linkBreaks, goesSilent
  <2> QED BY <1>t, <1>u, <2>2, <2>3, <2>4, <2>5
<1>24. ASSUME NEW c \in Clients, brokerPublish(c) PROVE TypeOK'
  <2>1. sock \in [Clients -> {"closed", "open", "broken", "silent"}]
        /\ calls \in Nat /\ inbox \in [Clients -> Seq(Packet)] /\ conns \in [Clients -> Nat]
    BY DEF TypeOK
  <2>2. Append(inbox[c], [type |-> "PUBLISH"]) \in Seq(Packet)
    <3>1. [type |-> "PUBLISH"] \in Packet
      BY DEF Packet
    <3> QED BY <2>1, <3>1, AppendProperties
  <2>3. inbox' \in [Clients -> Seq(Packet)]
    BY <1>24, <2>1, <2>2 DEF brokerPublish
  <2>4. left' \in [Kinds -> Nat]
    BY <1>24, Constants, DisturbType DEF brokerPublish
  <2>5. UNCHANGED <<mutex, flags, client, pc, local, sock, conns, answered, calls>>
    BY <1>24 DEF brokerPublish
  <2> QED BY <1>t, <1>u, <2>1, <2>3, <2>4, <2>5
<1>25. CASE UNCHANGED vars
  BY <1>25, <1>t, <1>u DEF vars
<1>26. ASSUME NEW t \in Callers, Proceed(t) PROVE TypeOK'
  BY <1>26, <1>c, <1>1, <1>2, <1>3, <1>4, <1>5, <1>6, <1>7, <1>8, <1>9, <1>10, <1>12, <1>14, <1>15,
     <1>16 DEF Proceed, suback, unsuback, Requests
<1>27. ASSUME NEW r \in Runners, run(r) PROVE TypeOK'
  BY <1>27, <1>c, <1>14, <1>17, <1>18, <1>19, <1>20, <1>21 DEF run
<1>28. ASSUME NEW t \in Apps, NEW c \in Clients,
              connect(t, c) \/ subscribe(t, c) \/ unsubscribe(t, c) \/ disconnect(t, c)
       PROVE  TypeOK'
  <2>1. t \in Callers
    BY DEF Callers
  <2> QED BY <1>28, <1>c, <2>1, <1>1, <1>11, <1>13 DEF subscribe, unsubscribe, Requests
<1> QED BY <1>22, <1>23, <1>24, <1>25, <1>26, <1>27, <1>28 DEF Next

\* Every variable keeps its type.
THEOREM ThreadTypes == Spec => []TypeOK
BY TypeInit, TypeStep, PTL DEF Spec

-----------------------------------------------------------------------------
(* The background thread *)

\* A step that neither starts nor ends a background thread, nor begins or ends
\* the 100 ms that connect sleeps.
PlacesKept ==
  /\ \A r \in Runners : \/ pc'[r] = pc[r]
                        \/ pc[r] \notin {"none", "start"} /\ pc'[r] # "start"
  /\ \A t \in Threads : pc'[t] = "started" <=> pc[t] = "started"

LEMMA Kept ==
  ASSUME TypeOK, RunnersInv, PlacesKept, UNCHANGED <<mutex, running>>
  PROVE  RunnersInv'
<1>1. Runners \subseteq Threads /\ (mutex # None => mutex \in Threads)
  BY DEF TypeOK, Threads
<1>2. OneRunner'
  BY DEF RunnersInv, OneRunner, PlacesKept, At
<1>3. \A t \in Threads : At(t, "started")' => mutex' = t
  BY DEF RunnersInv, PlacesKept, At
<1>4. \A r \in Runners : At(r, "start")' => ~running' /\ mutex' # None /\ At(mutex, "started")'
  BY <1>1 DEF RunnersInv, PlacesKept, At
<1>5. \A r \in Runners : pc'[r] \notin {"none", "start"} => running'
  BY DEF RunnersInv, PlacesKept
<1> QED BY <1>2, <1>3, <1>4, <1>5 DEF RunnersInv

LEMMA GoKept ==
  ASSUME TypeOK, NEW t \in Threads, NEW p, Go(t, p), p \notin {"start", "started"},
         pc[t] \notin {"none", "start", "started"}
  PROVE  PlacesKept
BY Constants DEF TypeOK, Go, PlacesKept

LEMMA LeaveKept ==
  ASSUME TypeOK, NEW t \in Threads, NEW was \in BOOLEAN, Leave(t, was),
         pc[t] \notin {"none", "start", "started"}
  PROVE  PlacesKept
<1> DEFINE back == CASE call[t].back = "idle" -> End(t)
                     [] call[t].back = "version" -> "version"
                     [] call[t].back = "run" -> "recheck"
<1>1. call[t].back \in {"idle", "version", "run"}
  BY DEF TypeOK, Call
<1>2. back \in {"idle", "none", "version", "recheck"}
  BY <1>1 DEF End
<1>3. \/ \E l \in LostThreads : /\ pc[l] = "none"
                                /\ pc' = [pc EXCEPT ![t] = back, ![l] = "begin"]
      \/ Go(t, back)
  BY DEF Leave, At
<1> HIDE DEF back
<1>4. CASE Go(t, back)
  BY <1>2, <1>4, GoKept
<1>5. CASE \E l \in LostThreads : /\ pc[l] = "none"
                                  /\ pc' = [pc EXCEPT ![t] = back, ![l] = "begin"]
  <2>1. PICK l \in LostThreads : pc[l] = "none" /\ pc' = [pc EXCEPT ![t] = back, ![l] = "begin"]
    BY <1>5
  <2>2. l \in Threads /\ l \notin Runners /\ l # t /\ Runners \subseteq Threads
    BY <2>1, ThreadsAssumption DEF Threads, Callers
  <2>3. pc \in [Threads -> Places]
    BY DEF TypeOK
  <2>4. \A u \in Threads : pc'[u] = IF u = l THEN "begin" ELSE IF u = t THEN back ELSE pc[u]
    BY <2>1, <2>2, <2>3
  <2>5. back # "start" /\ back # "started"
    BY <1>2
  <2>6. \A r \in Runners : pc'[r] = IF r = t THEN back ELSE pc[r]
    BY <2>2, <2>4
  <2>7. ASSUME NEW u \in Threads PROVE pc'[u] = "started" <=> pc[u] = "started"
    <3>1. CASE u = l
      <4>1. pc[u] = "none"
        BY <2>1, <3>1
      <4>2. pc'[u] = "begin"
        BY <2>4, <3>1
      <4> QED BY <4>1, <4>2
    <3>2. CASE u # l /\ u = t
      BY <2>4, <2>5, <3>2
    <3>3. CASE u # l /\ u # t
      BY <2>4, <3>3
    <3> QED BY <3>1, <3>2, <3>3
  <2> QED BY <2>5, <2>6, <2>7 DEF PlacesKept
<1> QED BY <1>3, <1>4, <1>5

LEMMA ExitKept ==
  ASSUME TypeOK, NEW t \in Threads, NEW was \in BOOLEAN, Exit(t, was),
         pc[t] \notin {"none", "start", "started"}
  PROVE  PlacesKept
<1>1. Go(t, "stopping") \/ Leave(t, was)
  BY DEF Exit
<1> QED BY <1>1, GoKept, LeaveKept

\* Only a caller begins an attempt, with the mutex it has found free.
LEMMA StartVersionRunners ==
  ASSUME TypeOK, RunnersInv, NEW t \in Callers, NEW version, Free, startVersion(t, version),
         UNCHANGED running
  PROVE  RunnersInv'
<1>1. /\ pc \in [Threads -> Places] /\ t \in Threads /\ t \notin Runners /\ t # None
      /\ Runners \subseteq Threads /\ mutex = None /\ mutex' = t
  BY ThreadsAssumption DEF TypeOK, Threads, Free, startVersion
<1>2. (\A u \in Threads : pc[u] # "started") /\ \A r \in Runners : pc[r] # "start"
  BY <1>1, ThreadsAssumption DEF RunnersInv, At
<1>3. CASE running /\ Go(t, "started")
  <2>1. \A u \in Threads : pc'[u] = IF u = t THEN "started" ELSE pc[u]
    BY <1>1, <1>3 DEF Go
  <2> QED BY <1>1, <1>2, <1>3, <2>1 DEF RunnersInv, OneRunner, At
<1>4. CASE \E r \in Runners : /\ ~running /\ At(r, "none")
                              /\ pc' = [pc EXCEPT ![t] = "started", ![r] = "start"]
  <2>1. PICK r \in Runners : /\ ~running /\ At(r, "none")
                             /\ pc' = [pc EXCEPT ![t] = "started", ![r] = "start"]
    BY <1>4
  <2>2. \A u \in Threads : pc'[u] = IF u = r THEN "start" ELSE IF u = t THEN "started" ELSE pc[u]
    BY <1>1, <2>1
  <2>3. \A s \in Runners : s # r => pc'[s] = "none"
    BY <1>1, <1>2, <2>1, <2>2 DEF RunnersInv
  <2>4. \A u \in Threads : pc'[u] = "started" => u = t
    BY <1>2, <2>2
  <2>5. pc'[t] = "started" /\ pc'[r] = "start"
    BY <1>1, <2>2
  <2> QED BY <1>1, <2>1, <2>3, <2>4, <2>5 DEF RunnersInv, OneRunner, At
<1> QED BY <1>3, <1>4 DEF startVersion

LEMMA RunnersInit == Init => RunnersInv
<1> SUFFICES ASSUME Init PROVE RunnersInv
  OBVIOUS
<1>1. \A t \in Threads : pc[t] \in {"idle", "none"}
  BY DEF Init
<1>2. \A r \in Runners : r \in Threads /\ pc[r] = "none"
  BY ThreadsAssumption DEF Init, Threads, Callers
<1> QED BY <1>1, <1>2 DEF RunnersInv, OneRunner, At

\* The background thread ends.
LEMMA EndsRunners ==
  ASSUME TypeOK, RunnersInv, NEW r \in Runners, runEnds(r), pc[r] \notin {"none", "start", "started"},
         UNCHANGED mutex
  PROVE  RunnersInv'
<1>1. pc \in [Threads -> Places] /\ r \in Threads /\ Runners \subseteq Threads
  BY DEF TypeOK, Threads
<1>2. \A u \in Threads : pc'[u] = IF u = r THEN "none" ELSE pc[u]
  BY <1>1 DEF runEnds, Go
<1>3. \A s \in Runners : pc'[s] = "none"
  BY <1>1, <1>2 DEF RunnersInv, OneRunner, At
<1> QED BY <1>1, <1>2, <1>3 DEF RunnersInv, OneRunner, At

LEMMA RunnersStep ==
  ASSUME Prompt PROVE TypeOK /\ RunnersInv /\ [Next]_vars => RunnersInv'
<1> SUFFICES ASSUME TypeOK, RunnersInv, [Next]_vars PROVE RunnersInv'
  OBVIOUS
<1>c. /\ Callers \subseteq Threads /\ Runners \subseteq Threads /\ Apps \subseteq Callers
      /\ LostThreads \subseteq Callers
      /\ \A t \in Callers : t \notin Runners
      /\ \A t \in Threads : End(t) \in {"idle", "none"}
  BY ThreadsAssumption DEF Threads, Callers, End
<1>k. ASSUME NEW t \in Threads, NEW p, Go(t, p), p \notin {"start", "started"},
             pc[t] \notin {"none", "start", "started"}, UNCHANGED <<mutex, running>>
      PROVE  RunnersInv'
  BY <1>k, GoKept, Kept
<1>s. ASSUME UNCHANGED <<pc, mutex, running>> PROVE RunnersInv'
  BY <1>s, Kept DEF PlacesKept
<1>1. ASSUME NEW t \in Callers, NEW c \in Clients, connect(t, c) PROVE RunnersInv'
  BY <1>1, StartVersionRunners DEF connect, flags
<1>2. ASSUME NEW t \in Callers, protocolConnect(t) PROVE RunnersInv'
  <2>1. PICK p \in {"disconnect", "waitfor"} : Go(t, p)
    BY <1>2 DEF protocolConnect, Failed, Wait
  <2>2. pc[t] = "started" /\ mutex' = None /\ running' = running /\ \A r \in Runners : pc[r] # "start"
    BY <1>2 DEF protocolConnect, At, flags
  <2>3. pc \in [Threads -> Places]
    BY DEF TypeOK
  <2>4. \A u \in Threads : pc'[u] = IF u = t THEN p ELSE pc[u]
    BY <1>c, <2>1, <2>3 DEF Go
  <2>5. \A u \in Threads : pc[u] = "started" => u = t
    BY <1>c, <2>2 DEF RunnersInv, At
  <2>6. \A r \in Runners : pc'[r] = pc[r]
    BY <1>c, <2>4
  <2>7. \A u \in Threads : pc'[u] # "started"
    BY <2>4, <2>5
  <2> QED BY <1>c, <2>2, <2>6, <2>7 DEF RunnersInv, OneRunner, At
<1>3. ASSUME NEW t \in Callers, waitfor(t) \/ wait_sem(t) \/ takeSlot(t) PROVE RunnersInv'
  <2>1. PICK p \in {"sem", "poll", "taken", "returned"} : Go(t, p)
    BY <1>3 DEF waitfor, wait_sem, takeSlot
  <2>2. pc[t] \in {"waitfor", "sem", "taken"} /\ UNCHANGED <<mutex, running>>
    BY <1>3 DEF waitfor, wait_sem, takeSlot, At, flags
  <2> QED BY <1>c, <1>k, <2>1, <2>2
<1>4. ASSUME NEW t \in Callers, poll(t) PROVE RunnersInv'
  <2>1. Go(t, "returned") \/ UNCHANGED pc
    BY <1>4 DEF poll
  <2>2. pc[t] = "poll" /\ UNCHANGED <<mutex, running>>
    BY <1>4 DEF poll, At, flags
  <2> QED BY <1>c, <1>k, <1>s, <2>1, <2>2
<1>5. ASSUME NEW t \in Callers, NEW type \in Requests,
             tcpConnected(t) \/ connack(t) \/ Answer(t, type)
      PROVE  RunnersInv'
  <2>1. PICK p \in {"waitfor", "disconnect", "idle", "none"} : Go(t, p)
    BY <1>5, <1>c DEF tcpConnected, connack, Answer, Failed, Internal, Wait
  <2>2. pc[t] = "returned" /\ UNCHANGED <<mutex, running>>
    BY <1>5 DEF tcpConnected, connack, Answer, At, flags
  <2> QED BY <1>c, <1>k, <2>1, <2>2
<1>6. ASSUME NEW t \in Callers, nextVersion(t) PROVE RunnersInv'
  <2>1. pc[t] = "version" /\ Free /\ UNCHANGED running
    BY <1>6 DEF nextVersion, At, flags
  <2>2. CASE startVersion(t, 3)
    BY <2>1, <2>2, StartVersionRunners
  <2>3. CASE Go(t, End(t)) /\ UNCHANGED mutex
    BY <1>c, <1>k, <2>1, <2>3
  <2> QED BY <1>6, <2>2, <2>3 DEF nextVersion
<1>7. ASSUME NEW t \in Callers, lostReturns(t) PROVE RunnersInv'
  BY <1>7, <1>c, <1>k DEF lostReturns, At, flags
<1>8. ASSUME NEW t \in Callers, NEW c \in Clients, NEW type \in Requests,
             Request(t, c, type) \/ disconnect(t, c)
      PROVE  RunnersInv'
  <2>1. PICK p \in {"waitfor", "disconnect"} : Go(t, p)
    BY <1>8 DEF Request, disconnect, Internal, Wait
  <2>2. pc[t] = "idle" /\ UNCHANGED <<mutex, running>>
    BY <1>8 DEF Request, disconnect, At, flags
  <2> QED BY <1>c, <1>k, <2>1, <2>2
<1>9. ASSUME NEW t \in Threads, disconnect1(t) PROVE RunnersInv'
  <2>1. connected[on[t]] \in BOOLEAN
    BY DEF TypeOK
  <2>2. (Exit(t, FALSE) \/ Exit(t, connected[on[t]])) /\ pc[t] = "disconnect"
    BY <1>9 DEF disconnect1, At
  <2>3. PlacesKept
    BY <2>1, <2>2, ExitKept
  <2> QED BY <1>9, <2>3, Kept DEF disconnect1
<1>10. ASSUME NEW t \in Callers, drain(t) PROVE RunnersInv'
  <2>1. UNCHANGED <<mutex, running>>
    BY <1>10 DEF drain
  <2>2. CASE pc[t] = "disconnect" /\ Go(t, "draining")
    BY <1>c, <1>k, <2>1, <2>2
  <2>3. CASE pc[t] = "draining" /\ Exit(t, TRUE)
    BY <1>c, <2>1, <2>3, ExitKept, Kept
  <2> QED BY <1>10, <2>2, <2>3 DEF drain, At
<1>11. ASSUME NEW t \in Callers, stop(t) PROVE RunnersInv'
  <2>1. call[t].was \in BOOLEAN /\ pc[t] = "stopping" /\ Leave(t, call[t].was)
        /\ UNCHANGED <<mutex, running>>
    BY <1>11, <1>c DEF stop, TypeOK, Call, At, flags
  <2>2. PlacesKept
    BY <1>c, <2>1, LeaveKept
  <2> QED BY <2>1, <2>2, Kept
<1>12. ASSUME NEW r \in Runners, runStart(r) PROVE RunnersInv'
  <2>1. pc \in [Threads -> Places] /\ pc[r] = "start" /\ running' = TRUE /\ mutex' = mutex
    BY <1>12 DEF runStart, TypeOK, At
  <2>2. \A u \in Threads : pc'[u] = IF u = r THEN "recheck" ELSE pc[u]
    BY <1>12, <2>1 DEF runStart, Go
  <2>3. \A s \in Runners : s # r => pc'[s] = "none"
    BY <1>c, <2>1, <2>2 DEF RunnersInv, OneRunner, At
  <2>4. pc'[r] = "recheck"
    BY <1>c, <2>2
  <2> QED BY <1>c, <2>1, <2>2, <2>3, <2>4 DEF RunnersInv, OneRunner, At
<1>13. ASSUME NEW r \in Runners, runLoop(r) PROVE RunnersInv'
  <2>1. CASE pc[r] \in {"recheck", "cycle"} /\ runEnds(r)
    BY <1>13, <2>1, EndsRunners DEF runLoop
  <2>2. CASE pc[r] = "recheck" /\ Go(r, "cycle") /\ UNCHANGED flags
    BY <1>13, <1>c, <1>k, <2>2 DEF runLoop, flags
  <2> QED BY <1>13, <2>1, <2>2 DEF runLoop, At
<1>14. ASSUME NEW r \in Runners, runCycle(r) \/ callbackReturns(r) PROVE RunnersInv'
  <2>1. PICK p \in {"handle", "recheck"} : Go(r, p)
    BY <1>14 DEF runCycle, callbackReturns
  <2>2. pc[r] \in {"cycle", "callback"} /\ UNCHANGED <<mutex, running>>
    BY <1>14 DEF runCycle, callbackReturns, At, flags
  <2> QED BY <1>c, <1>k, <2>1, <2>2
<1>15. ASSUME NEW r \in Runners, runHandle(r) PROVE RunnersInv'
  <2>1. pc[r] = "handle" /\ UNCHANGED mutex
    BY <1>15 DEF runHandle, At
  <2>2. \/ runEnds(r)
        \/ /\ UNCHANGED running
           /\ \E p \in {"recheck", "disconnect", "callback"} : Go(r, p)
    BY <1>15 DEF runHandle, HandleError, HandleMade, HandlePacket, flags
  <2>3. CASE runEnds(r)
    BY <2>1, <2>3, EndsRunners
  <2>4. CASE UNCHANGED running /\ \E p \in {"recheck", "disconnect", "callback"} : Go(r, p)
    <3>1. PICK p \in {"recheck", "disconnect", "callback"} : Go(r, p)
      BY <2>4
    <3> QED BY <1>c, <1>k, <2>1, <2>4, <3>1
  <2> QED BY <2>2, <2>3, <2>4
\* A hung thread holds the mutex, and no thread was being started.
<1>16. ASSUME NEW t \in Threads, keepalive(t) PROVE RunnersInv'
  <2>1. /\ pc[t] \in {"cycle", "poll"} /\ mutex = None /\ running' = running
        /\ Go(t, "hung")
    BY <1>16 DEF keepalive, Free, flags
  <2>2. (\A u \in Threads : pc[u] # "started") /\ \A r \in Runners : pc[r] # "start"
    BY <1>c, <2>1, ThreadsAssumption DEF RunnersInv, At
  <2>3. PlacesKept
    BY <2>1, GoKept
  <2>4. (\A u \in Threads : pc'[u] # "started") /\ \A r \in Runners : pc'[r] # "start"
    BY <2>2, <2>3 DEF PlacesKept
  <2> QED BY <2>1, <2>3, <2>4 DEF RunnersInv, OneRunner, PlacesKept, At
<1>17. ASSUME NEW c \in Clients, linkBreaks(c) \/ goesSilent(c) \/ brokerPublish(c) PROVE RunnersInv'
  BY <1>17, <1>s DEF linkBreaks, goesSilent, brokerPublish, flags
<1>18. CASE UNCHANGED vars
  BY <1>18, <1>s DEF vars, flags
<1>19. ASSUME NEW t \in Callers, Proceed(t) PROVE RunnersInv'
  BY <1>19, <1>c, <1>1, <1>2, <1>3, <1>4, <1>5, <1>6, <1>7, <1>9, <1>10, <1>11
     DEF Proceed, suback, unsuback, Requests
<1>20. ASSUME NEW r \in Runners, run(r) PROVE RunnersInv'
  BY <1>20, <1>c, <1>9, <1>12, <1>13, <1>14, <1>15 DEF run
<1>21. ASSUME NEW t \in Apps, NEW c \in Clients,
              connect(t, c) \/ subscribe(t, c) \/ unsubscribe(t, c) \/ disconnect(t, c)
       PROVE  RunnersInv'
  BY <1>21, <1>c, <1>1, <1>8 DEF subscribe, unsubscribe, Requests
<1> QED BY <1>16, <1>17, <1>18, <1>19, <1>20, <1>21 DEF Next

\* Two background threads never serve the clients at once, as long as a started
\* thread runs within the 100 ms that connect waits for it.
THEOREM OneServes == ASSUME Prompt PROVE Spec => []OneRunner
<1>1. Init => TypeOK /\ RunnersInv
  BY TypeInit, RunnersInit
<1>2. TypeOK /\ RunnersInv /\ [Next]_vars => (TypeOK /\ RunnersInv)'
  BY TypeStep, RunnersStep
<1>3. RunnersInv => OneRunner
  BY DEF RunnersInv
<1> QED BY <1>1, <1>2, <1>3, PTL DEF Spec

-----------------------------------------------------------------------------
(* One client and one application thread *)

HIDE ThreadsAssumption
HIDE OptionsAssumption
HIDE BoundsAssumption

TheClient == CHOOSE c \in Clients : TRUE

\* The instances of the two theorems below: one client, one application thread,
\* and a wait does not run out when its answer is on the way.
OneOfEach == (\E a : Apps = {a}) /\ Clients = {TheClient}
InTime == Prompt /\ \A budget \in Budgets : budget["late"] = 0

\* What is kept of the client.
Conn == connected[TheClient]
State == connect_state[TheClient]
Sem(type) == sems[TheClient][type]
Slot == slot[TheClient]
In == inbox[TheClient]
Sock == sock[TheClient]
Number == conns[TheClient]
Answered == answered[TheClient]

\* Where callers and background threads are.
Busy(t) == pc[t] \notin {"idle", "begin", "none"}
Waits(t, types) == pc[t] \in {"waitfor", "sem", "poll", "taken", "returned"} /\ wants[t] \in types
GivesUp(t) == pc[t] = "disconnect" /\ call[t].back = "version"
Closes(t) == pc[t] = "disconnect" /\ call[t].back = "idle"
Connecting(t) == \/ pc[t] \in {"started", "version"} \/ Waits(t, {"CONNECT", "CONNACK"})
                 \/ pc[t] \in {"disconnect", "stopping"} /\ call[t].back = "version"
Received(t) == pc[t] = "returned" /\ got[t] \in Packet
Holds(r, types) == pc[r] = "handle" /\ got[r].type \in types
Serving == ~tostop /\ (running \/ \E r \in Runners : pc[r] = "start")
Gone == ~running /\ ~tostop /\ \A r \in Runners : pc[r] = "none"
Silent == \A r \in Runners : pc[r] \in {"none", "hung"}

Clean(t) ==
  /\ pc[t] \notin {"start", "recheck", "cycle", "handle", "callback"}
  /\ call[t].back # "run"
  /\ pc[t] \in {"disconnect", "stopping"} =>
       IF call[t].back = "version" THEN ~call[t].internal /\ call[t].stop = (call[t].version = 3)
       ELSE call[t].stop
  /\ pc[t] = "stopping" => call[t].stop
  /\ pc[t] = "draining" => call[t].stop /\ ~call[t].internal /\ call[t].back = "idle"
CleanRunner(r) ==
  /\ pc[r] \in {"none", "start", "recheck", "cycle", "handle", "callback", "disconnect", "hung"}
  /\ pc[r] = "disconnect" => call[r].internal /\ call[r].stop /\ call[r].back = "run"
  /\ pc[r] \notin {"none", "start"} => run_id = r
ThreadPlaces ==
  /\ \A t \in Callers : Clean(t)
  /\ \A r \in Runners : CleanRunner(r)
  /\ \A t \in Threads : pc[t] = "hung" => mutex = t
  /\ running => \E r \in Runners : pc[r] \notin {"none", "start"}
  /\ tostop => running
  /\ left["late"] = 0

\* No caller but t is in the library, and one of connectionLost only connects.
Alone(t) ==
  /\ \A u \in Callers : u # t => ~Busy(u)
  /\ t \in LostThreads /\ Busy(t) => Connecting(t)

\* The client's state agrees with what the caller does.
Phase(t) ==
  /\ ~Busy(t) => State = 0
  /\ Connecting(t) => ~Conn
  /\ pc[t] \in {"started", "version", "stopping"} => ~Conn /\ State = 0
  /\ Waits(t, {"CONNECT"}) => State = 1
  /\ Waits(t, {"CONNACK"}) => State = 3
  /\ Waits(t, Requests) \/ pc[t] = "hung" \/ Closes(t) => State = 0
  /\ GivesUp(t) => State # -2
  /\ pc[t] = "draining" => State = IF Conn THEN -2 ELSE 0
  /\ pc[t] = "poll" => Gone
Ended == ~Conn /\ State = 0
Linked == /\ Conn => State \in {0, -2} /\ ~tostop /\ Answered
          /\ Ended => In = <<>> /\ \A type \in Types : Sem(type) = 0
          /\ Ended <=> Sock = "closed"
          /\ \A t \in Threads : pc[t] = "hung" => Conn

\* The background thread's place agrees with it.
Stopping(t) == tostop /\ pc[t] = "stopping"
Stops(t) ==
  /\ tostop => Stopping(t) \/ \E r \in Runners : pc[r] \in {"recheck", "callback"}
  /\ \A r \in Runners : /\ pc[r] = "disconnect" => Conn \/ Stopping(t)
                        /\ pc[r] = "callback" \/ Holds(r, {"PUBLISH"}) => Conn \/ tostop

\* The packet is the answer the caller waits for.
Own(t, p) == IF wants[t] = "CONNACK" THEN p.type = "CONNACK" /\ p.conn = Number
             ELSE p.type \in Requests /\ p = [type |-> wants[t], req |-> call[t].req]
GotOwn(t) == wants[t] # "CONNECT" /\ Received(t) => Own(t, got[t]) /\ (wants[t] = "CONNACK" => ~tostop)

\* The CONNACK of the present connection is still to be read or handed over.
Pending == State = 3 /\ (In # <<>> \/ \E r \in Runners : Holds(r, {"CONNACK"}))
ConnackComes ==
  /\ State = 1 => In = <<>> /\ Sem("CONNACK") = 0
  /\ State = 3 => Len(In) <= 1 /\ \A i \in 1..Len(In) : In[i].type = "CONNACK" /\ In[i].conn = Number
  /\ State \notin {1, 3} => \A i \in 1..Len(In) : In[i].type # "CONNACK"
  /\ \A r \in Runners : Holds(r, {"CONNACK"}) /\ ~tostop =>
       State = 3 /\ In = <<>> /\ got[r].conn = Number
  /\ Sem("CONNACK") <= 1
  /\ Slot.type = "CONNACK" => Slot.conn <= Number /\ (State = 1 => Slot.conn < Number)

\* It finds the caller waiting for it, or in the second attempt: an error of the
\* first one's connection that is handled late may wake the second one's wait.
ConnackMeets(t) ==
  Pending /\ (Waits(t, {"CONNACK"}) \/ GivesUp(t)) =>
    /\ ~Received(t)
    /\ \/ call[t].version = 3
       \/ pc[t] \in {"waitfor", "sem"} /\ Sem("CONNACK") = 0
       \/ Silent
    /\ Slot # Nothing => ~Own(t, Slot)
ErrorMeets(t) ==
  \A r \in Runners : Holds(r, {"error"}) /\ ~tostop /\ ~Conn =>
    /\ Connecting(t) /\ (pc[t] = "version" => call[t].version = 4)
    /\ \/ call[t].version = 3 \/ pc[t] = "version"
       \/ ~Pending /\ (Waits(t, {"CONNACK"}) \/ GivesUp(t))

\* The answer to a request finds the caller waiting for it.
InSem(t) == Waits(t, Requests) /\ pc[t] \in {"waitfor", "sem"}
RequestOnce == \A i, j \in 1..Len(In) : In[i].type \in Requests /\ In[j].type \in Requests => i = j
RequestMeets(t) ==
  \A i \in 1..Len(In) : In[i].type \in Requests =>
    /\ \A r \in Runners : ~Holds(r, Requests)
    /\ Slot = Nothing
    /\ wants[t] \in Requests /\ Own(t, In[i])
    /\ InSem(t) \/ (Silent /\ ~Received(t) /\ (Waits(t, Requests) \/ pc[t] = "hung"
                                                  \/ (Closes(t) /\ call[t].internal)))
RequestInHand(t) ==
  \A r \in Runners : Holds(r, Requests) /\ ~tostop => Conn /\ Slot = Nothing /\ InSem(t) /\ Own(t, got[r])
RequestPosted(t) ==
  \A type \in Requests : Sem(type) > 0 => Sem(type) = 1 /\ wants[t] = type /\ InSem(t) /\ Own(t, Slot)

\* The packet in the slot is for the caller, or it is left over.
Fits(t) == /\ wants[t] # "CONNECT" /\ Own(t, Slot)
           /\ pc[t] \in {"waitfor", "sem", "taken"} \/ (pc[t] = "returned" /\ got[t] = Slot)
SlotServed(t) == Slot # Nothing /\ Fits(t) => Serving \/ (wants[t] # "CONNACK" /\ ~Conn)

\* A packet left over is replaced before the slot is read again, because the
\* background thread serves the attempt and no error can wake the caller before.
Replaced(t) ==
  /\ ~Busy(t) => Gone
  /\ pc[t] \notin {"draining", "hung"}
  /\ pc[t] = "started" \/ Waits(t, {"CONNECT", "CONNACK"}) \/ GivesUp(t) => Serving
  /\ GivesUp(t) /\ call[t].version = 4 => State # 3
  /\ pc[t] = "version" => IF call[t].version = 4 THEN Serving ELSE Gone
  /\ pc[t] = "stopping" => tostop \/ Gone
  /\ Waits(t, Requests) \/ Closes(t) => Gone
  /\ Waits(t, Requests) => pc[t] \in {"poll", "returned"} /\ ~Received(t)
  /\ Waits(t, {"CONNACK"}) =>
       \/ pc[t] \in {"waitfor", "sem"} /\ Pending /\ Sem("CONNACK") = 0
       \/ pc[t] = "returned" /\ call[t].version = 3 /\ ~Received(t)
Fresh(t) ==
  \/ pc[t] = "started" \/ Waits(t, {"CONNECT"})
  \/ Waits(t, {"CONNACK"}) /\ pc[t] # "returned"
  \/ (GivesUp(t) \/ pc[t] = "version") /\ call[t].version = 4
LeftOver(t) ==
  Slot # Nothing /\ ~Fits(t) =>
    /\ ~Conn /\ Replaced(t)
    /\ \A r \in Runners : /\ pc[r] # "callback" /\ ~Holds(r, {"PUBLISH"})
                          /\ Fresh(t) => ~Holds(r, {"error"})

Answers(t) ==
  /\ Alone(t) /\ Phase(t) /\ Stops(t) /\ GotOwn(t) /\ ConnackMeets(t) /\ ErrorMeets(t)
  /\ RequestMeets(t) /\ RequestInHand(t) /\ RequestPosted(t) /\ SlotServed(t) /\ LeftOver(t)
Common == ThreadPlaces /\ Linked /\ ConnackComes /\ RequestOnce
AnswerInv == Common /\ \E t \in Callers : Answers(t)

\* The calls' records and the packets, as far as the proofs look into them.
LEMMA Kinds3 ==
  /\ Nothing \notin Packet /\ Failure \notin Packet /\ Made \notin Packet
  /\ Nothing.type = "none" /\ Failure.type = "error" /\ Made.type = "made"
  /\ \A p \in Packet : p.type \in {"CONNACK", "PUBLISH"} \cup Requests
  /\ \A p \in Results : p \in Packet <=> p.type \in {"CONNACK", "PUBLISH"} \cup Requests
  /\ \A p \in Results : (p = Failure <=> p.type = "error") /\ (p = Made <=> p.type = "made")
                        /\ (p = Nothing <=> p.type = "none")
  /\ Requests = {"SUBACK", "UNSUBACK"} /\ Types = {"CONNECT", "CONNACK", "SUBACK", "UNSUBACK"}
BY DEF Nothing, Failure, Made, Packet, Requests, Types, Results

\* What the one client and the types give.
Single ==
  /\ TheClient \in Clients /\ \A c \in Clients : c = TheClient
  /\ \A t \in Threads : on[t] = TheClient
  /\ Callers \subseteq Threads /\ Runners \subseteq Threads /\ Apps \subseteq Callers
  /\ LostThreads \subseteq Callers /\ (\A t \in Callers : t \notin Runners)
  /\ (\A t, u \in Apps : t = u) /\ (\A t \in Callers : t \in Apps \/ t \in LostThreads)
  /\ \A t \in LostThreads : t \notin Apps
  /\ None \notin Threads
Viewed ==
  /\ Conn \in BOOLEAN /\ State \in {-2, 0, 1, 3} /\ Slot \in Packet \cup {Nothing} /\ In \in Seq(Packet)
  /\ Number \in Nat /\ Sock \in {"closed", "open", "broken", "silent"}
  /\ \A type \in Types : Sem(type) \in Nat
  /\ running \in BOOLEAN /\ tostop \in BOOLEAN /\ run_id \in Runners \cup {None}
Locals ==
  \A t \in Threads : /\ wants[t] \in Types /\ got[t] \in Results /\ call[t] \in Call
                     /\ call[t].version \in {3, 4} /\ call[t].back \in {"idle", "version", "run"}
                     /\ call[t].internal \in BOOLEAN /\ call[t].stop \in BOOLEAN

LEMMA SingleIs == ASSUME OneOfEach, TypeOK PROVE Single
BY ThreadsAssumption DEF OneOfEach, Single, Threads, Callers, TypeOK

LEMMA ViewedIs == ASSUME Single, TypeOK PROVE Viewed /\ Locals
<1>1. Viewed
  BY DEF Single, TypeOK, Viewed, Conn, State, Sem, Slot, In, Sock, Number
<1>2. Locals
  BY DEF TypeOK, Locals, Call
<1> QED BY <1>1, <1>2

\* One thread goes to another place.
Moves(t, p) == pc'[t] = p /\ \A u \in Threads : u # t => pc'[u] = pc[u]
LEMMA MovesIs ==
  ASSUME TypeOK, NEW t \in Threads, NEW p, Go(t, p)
  PROVE  Moves(t, p)
BY DEF TypeOK, Go, Moves

\* What a step leaves of the client and of the other threads.
ClientKept == /\ UNCHANGED <<Conn, State, Slot, In, Sock, Number, Answered>>
              /\ \A type \in Types : Sem(type)' = Sem(type)
FlagsKept == UNCHANGED <<running, tostop, run_id, mutex, left>>
OthersKept(t) == \A u \in Threads : u # t =>
  pc'[u] = pc[u] /\ wants'[u] = wants[u] /\ got'[u] = got[u] /\ call'[u] = call[u]
RunnersKept == \A r \in Runners : pc'[r] = pc[r] /\ got'[r] = got[r] /\ call'[r] = call[r]
Quiet(t) == \A u \in Callers : u # t => ~Busy(u) /\ ~Busy(u)' /\ Clean(u)'

LEMMA ClientIsKept == ASSUME UNCHANGED <<client, network, answered>> PROVE ClientKept
BY DEF client, network, ClientKept, Conn, State, Slot, In, Sock, Number, Answered, Sem

\* The state that the lemmas about the steps begin in, and what they show of
\* its successor.
Before == /\ TypeOK /\ TypeOK' /\ RunnersInv /\ RunnersInv' /\ Common
          /\ Single /\ Viewed /\ Locals /\ Viewed' /\ Locals' /\ on' \in [Threads -> Clients]
After(t) == Common' /\ Answers(t)'

\* Who is not in the library may be any of the callers.
LEMMA Switch ==
  ASSUME Single, Common, NEW t \in Callers, NEW u \in Callers, Answers(t), ~Busy(t), ~Busy(u)
  PROVE  Answers(u)
<1>1. Alone(u)
  BY DEF Answers, Alone, Busy
<1>2. pc[t] \in {"idle", "begin", "none"} /\ pc[u] \in {"idle", "begin", "none"}
  BY DEF Busy
<1>3. /\ Phase(u) /\ Stops(u) /\ GotOwn(u) /\ ConnackMeets(u) /\ ErrorMeets(u)
  BY <1>2
     DEF Answers, Phase, Stops, GotOwn, ConnackMeets, ErrorMeets, Connecting, Waits, GivesUp, Closes,
              Received, Stopping, Busy
<1>4. RequestMeets(u) /\ RequestInHand(u) /\ RequestPosted(u)
  BY <1>2 DEF Answers, RequestMeets, RequestInHand, RequestPosted, InSem, Waits, Closes
<1>5. SlotServed(u) /\ LeftOver(u)
  BY <1>2
     DEF Answers, SlotServed, LeftOver, Fits, Replaced, Fresh, Connecting, Waits, GivesUp, Closes, Busy
<1> QED BY <1>1, <1>3, <1>4, <1>5 DEF Answers

\* No caller but t moves, and it leaves the client and the flags as they are.
LEMMA CallerMoves ==
  ASSUME Before, NEW t \in Callers, Answers(t), ClientKept, RunnersKept, Quiet(t),
         UNCHANGED <<running, tostop, run_id, left>>, pc'[t] # "hung"
  PROVE  /\ Linked' /\ ConnackComes' /\ RequestOnce' /\ (Serving' <=> Serving) /\ (Gone' <=> Gone)
         /\ (Silent' <=> Silent) /\ (Pending' <=> Pending)
         /\ \A r \in Runners : CleanRunner(r)'
<1>1. Common /\ Single
  BY DEF Before
<1>0. \A u \in Threads : pc'[u] = "hung" => pc[u] = "hung"
  BY <1>1 DEF RunnersKept, Quiet, Busy, Threads
<1>2. Linked' /\ RequestOnce'
  BY <1>0, <1>1 DEF Common, Linked, Ended, ClientKept, RequestOnce
<1>3. ConnackComes'
  BY <1>1, Kinds3 DEF Common, ConnackComes, ClientKept, RunnersKept, Holds
<1>4. (Serving' <=> Serving) /\ (Gone' <=> Gone) /\ (Silent' <=> Silent) /\ (Pending' <=> Pending)
  BY DEF Serving, Gone, Silent, Pending, RunnersKept, ClientKept, Holds
<1>5. \A r \in Runners : CleanRunner(r)'
  BY <1>1 DEF Common, ThreadPlaces, CleanRunner, RunnersKept
<1> QED BY <1>2, <1>3, <1>4, <1>5

\* A step of one caller leaves the other threads, and their places stay in order.
LEMMA OnlyCaller ==
  ASSUME Before, NEW t \in Callers, Alone(t), OthersKept(t)
  PROVE  Quiet(t) /\ RunnersKept
<1>1. Single /\ Common
  BY DEF Before
<1>2. RunnersKept
  BY <1>1 DEF Single, OthersKept, RunnersKept
<1>3. Quiet(t)
  BY <1>1 DEF Single, Common, ThreadPlaces, OthersKept, Quiet, Alone, Busy, Clean
<1> QED BY <1>2, <1>3

LEMMA PlacesStay ==
  ASSUME Before, NEW t \in Callers, RunnersKept, Quiet(t), Clean(t)', pc'[t] # "hung",
         UNCHANGED <<running, tostop, run_id, mutex>>, left'["late"] = 0
  PROVE  ThreadPlaces'
<1>1. Single /\ Common
  BY DEF Before
<1>2. \A r \in Runners : CleanRunner(r)'
  BY <1>1 DEF Common, ThreadPlaces, CleanRunner, RunnersKept
<1>3. \A u \in Callers : Clean(u)'
  BY DEF Quiet
<1>4. \A u \in Threads : pc'[u] = "hung" => mutex' = u
  BY <1>1 DEF Common, ThreadPlaces, RunnersKept, Quiet, Busy, Threads
<1>5. (running => \E r \in Runners : pc[r] \notin {"none", "start"})' /\ (tostop => running)' /\ left'["late"] = 0
  BY <1>1 DEF Common, ThreadPlaces, RunnersKept
<1> QED BY <1>2, <1>3, <1>4, <1>5 DEF ThreadPlaces

LEMMA CallerPlaces ==
  ASSUME Before, NEW t \in Callers, RunnersKept, Quiet(t), Clean(t)', pc'[t] # "hung",
         UNCHANGED <<running, tostop, run_id, left, mutex>>
  PROVE  ThreadPlaces'
<1>1. left'["late"] = 0
  BY DEF Before, Common, ThreadPlaces
<1> QED BY <1>1, PlacesStay

-----------------------------------------------------------------------------
(* A caller waits *)

LEMMA WaitforStep ==
  ASSUME Before, NEW t \in Callers, Answers(t), waitfor(t)
  PROVE  After(t)
<1> DEFINE p == IF running THEN "sem" ELSE "poll"
<1>1. ClientKept
  BY ClientIsKept DEF waitfor
<1>2. /\ t \in Threads /\ t \notin Runners /\ TypeOK /\ Common /\ Viewed /\ Locals /\ Single
      /\ RunnersInv /\ RunnersInv' /\ Alone(t)
  BY DEF Before, Single, Answers
<1>3. Moves(t, p)
  BY <1>2, MovesIs DEF waitfor
<1>4. /\ pc[t] = "waitfor" /\ p \in {"sem", "poll"} /\ (p = "poll" <=> ~running) /\ (p = "sem" <=> running)
      /\ FlagsKept /\ UNCHANGED <<wants, got, call>>
  BY <1>2 DEF waitfor, flags, local, bounds, At, FlagsKept, Viewed
<1> HIDE DEF p
<1>5. pc'[t] = p /\ RunnersKept /\ Quiet(t)
  <2>1. OthersKept(t)
    BY <1>2, <1>3, <1>4 DEF Moves, OthersKept
  <2> QED BY <1>2, <1>3, <2>1, OnlyCaller DEF Moves
<1>7. ~running => Gone
  <2>1. \A r \in Runners : pc[r] = "start" => pc[mutex] = "started" /\ mutex \in Callers /\ mutex # t
    BY <1>2, <1>4 DEF RunnersInv, At, TypeOK, Threads, Single, Common, ThreadPlaces, CleanRunner
  <2>2. \A r \in Runners : pc[r] # "start"
    BY <1>2, <2>1 DEF Alone, Busy
  <2> QED BY <1>2, <2>2 DEF Common, RunnersInv, Gone, ThreadPlaces
<1>8. /\ Linked' /\ ConnackComes' /\ RequestOnce' /\ (Serving' <=> Serving) /\ (Gone' <=> Gone)
      /\ (Silent' <=> Silent) /\ (Pending' <=> Pending)
      /\ \A r \in Runners : CleanRunner(r)'
  BY <1>1, <1>4, <1>5, CallerMoves DEF FlagsKept
<1>a. Common'
  <2>1. Clean(t)'
    BY <1>2, <1>4, <1>5 DEF Common, ThreadPlaces, Clean
  <2>2. ThreadPlaces'
    BY <1>4, <1>5, <2>1, CallerPlaces DEF FlagsKept
  <2> QED BY <1>8, <2>2 DEF Common
<1>b. Alone(t)'
  BY <1>2, <1>4, <1>5 DEF Answers, Alone, Busy, Quiet, Connecting, Waits
<1>c. Phase(t)'
  BY <1>1, <1>4, <1>5, <1>7, <1>8
     DEF Answers, Phase, Busy, Connecting, Waits, GivesUp, Closes, ClientKept
<1>d. Stops(t)'
  BY <1>1, <1>4, <1>5 DEF Answers, Stops, Stopping, RunnersKept, Holds, ClientKept, FlagsKept
<1>e. ConnackMeets(t)' /\ ErrorMeets(t)'
  <2>1. ConnackMeets(t)'
    BY <1>1, <1>4, <1>5, <1>7, <1>8, Kinds3
       DEF Answers, ConnackMeets, Waits, GivesUp, Received, Own, Gone, Silent, ClientKept
  <2>2. ErrorMeets(t)'
    BY <1>1, <1>4, <1>5, <1>8
       DEF Answers, ErrorMeets, Holds, Waits, GivesUp, Connecting, RunnersKept, ClientKept, FlagsKept
  <2> QED BY <2>1, <2>2
<1>f. ASSUME NEW type \in Requests, Sem(type) > 0 PROVE running
  <2>1. ~Conn /\ State = 0 => Sem(type) = 0
    BY <1>2, Kinds3 DEF Common, Linked, Ended
  <2>2. wants[t] = type /\ InSem(t) /\ Own(t, Slot)
    BY <1>f DEF Answers, RequestPosted
  <2>3. Fits(t) /\ Slot # Nothing /\ State = 0 /\ wants[t] # "CONNACK"
    BY <1>f, <2>2, Kinds3 DEF Fits, Answers, Phase, Waits, InSem, Own
  <2> QED BY <1>7, <1>f, <2>1, <2>3 DEF Answers, SlotServed, Serving, Gone
<1>g. RequestMeets(t)' /\ RequestInHand(t)' /\ RequestPosted(t)'
  <2>1. RequestMeets(t)'
    BY <1>1, <1>4, <1>5, <1>7, <1>8
       DEF Answers, RequestMeets, InSem, RunnersKept, Holds, Waits, Received, Own, Silent, Gone, ClientKept
  <2>2. RequestInHand(t)'
    BY <1>1, <1>4, <1>5, <1>7, Kinds3
       DEF Answers, RequestInHand, InSem, RunnersKept, Holds, Waits, Own, Gone, ClientKept, FlagsKept
  <2>3. RequestPosted(t)'
    BY <1>1, <1>4, <1>5, <1>f, Kinds3 DEF Answers, RequestPosted, InSem, Waits, Own, ClientKept
  <2> QED BY <2>1, <2>2, <2>3
<1>h. GotOwn(t)' /\ SlotServed(t)'
  BY <1>1, <1>4, <1>5, <1>8 DEF Answers, GotOwn, Received, SlotServed, Fits, Own, ClientKept
<1>i. LeftOver(t)'
  <2>1. CASE p = "sem"
    <3>1. (Slot # Nothing /\ ~Fits(t))' => Slot # Nothing /\ ~Fits(t)
      BY <1>1, <1>4, <1>5, <2>1 DEF Fits, Own, ClientKept
    <3>2. Replaced(t) => Replaced(t)'
      BY <1>1, <1>4, <1>5, <1>8, <2>1, Kinds3
         DEF Replaced, ClientKept, FlagsKept, Busy, Waits, GivesUp, Closes, Received
    <3> QED BY <1>1, <1>4, <1>5, <2>1, <3>1, <3>2
       DEF Answers, LeftOver, Fresh, ClientKept, RunnersKept, Holds, Waits, GivesUp
  <2>2. CASE p = "poll"
    <3>1. (wants[t] \in Requests /\ ~Conn /\ Gone) \/ Slot = Nothing
      BY <1>2, <1>4, <1>7, <2>2, Kinds3
         DEF Answers, LeftOver, SlotServed, Replaced, Fits, Own, Serving, Gone, Waits, Locals
    <3> QED BY <1>1, <1>4, <1>5, <1>8, <2>2, <3>1, Kinds3
       DEF LeftOver, Replaced, Fresh, Gone, ClientKept, RunnersKept, Holds, Busy, Waits, GivesUp, Closes, Received
  <2> QED BY <1>4, <2>1, <2>2
<1> QED BY <1>a, <1>b, <1>c, <1>d, <1>e, <1>g, <1>h, <1>i DEF After, Answers

LEMMA TakeSlotStep ==
  ASSUME Before, NEW t \in Callers, Answers(t), takeSlot(t)
  PROVE  After(t)
<1>1. ClientKept
  BY ClientIsKept DEF takeSlot
<1>2. /\ t \in Threads /\ TypeOK /\ Common /\ Viewed /\ Locals /\ Single /\ on[t] = TheClient /\ Alone(t)
  BY DEF Before, Single, Answers
<1>3. /\ pc[t] = "taken" /\ FlagsKept /\ UNCHANGED <<wants, call>>
      /\ Moves(t, "returned") /\ got'[t] = IF wants[t] # "CONNECT" THEN Slot ELSE got'[t]
      /\ wants[t] = "CONNECT" => got'[t] \in {Made, Failure}
      /\ \A u \in Threads : u # t => got'[u] = got[u]
  <2>1. Moves(t, "returned") /\ UNCHANGED <<wants, call>>
    BY <1>2, MovesIs DEF takeSlot
  <2>2. got \in [Threads -> Results]
    BY <1>2 DEF TypeOK
  <2> QED BY <1>2, <2>1, <2>2 DEF takeSlot, At, flags, bounds, FlagsKept, Slot
<1>4. pc'[t] = "returned" /\ RunnersKept /\ Quiet(t)
  <2>1. OthersKept(t)
    BY <1>2, <1>3 DEF Moves, OthersKept
  <2> QED BY <1>2, <1>3, <2>1, OnlyCaller DEF Moves
<1>5. /\ Linked' /\ ConnackComes' /\ RequestOnce' /\ (Serving' <=> Serving) /\ (Gone' <=> Gone)
      /\ (Silent' <=> Silent) /\ (Pending' <=> Pending)
  BY <1>1, <1>3, <1>4, CallerMoves DEF FlagsKept
<1>6. Slot \in Packet => Slot # Nothing
  BY Kinds3
\* What it takes is for the caller: a packet left over has been replaced.
<1>7. wants[t] # "CONNECT" /\ Slot # Nothing => Fits(t)
  BY <1>2, <1>3, Kinds3 DEF Answers, LeftOver, Replaced, Waits, Locals
<1>a. Common'
  <2>1. Clean(t)'
    BY <1>2, <1>3, <1>4 DEF Common, ThreadPlaces, Clean
  <2>2. ThreadPlaces'
    BY <1>3, <1>4, <2>1, CallerPlaces DEF FlagsKept
  <2> QED BY <1>5, <2>2 DEF Common
<1>b. Alone(t)'
  BY <1>2, <1>3, <1>4 DEF Answers, Alone, Busy, Quiet, Connecting, Waits
<1>c. Phase(t)'
  BY <1>1, <1>3, <1>4, <1>5 DEF Answers, Phase, Busy, Connecting, Waits, GivesUp, Closes, ClientKept
<1>d. Stops(t)'
  BY <1>1, <1>3, <1>4 DEF Answers, Stops, Stopping, RunnersKept, Holds, ClientKept, FlagsKept
<1>e. GotOwn(t)' /\ SlotServed(t)'
  <2>1. Slot # Nothing /\ Fits(t)' => Fits(t)
    BY <1>1, <1>3, <1>4, <1>7 DEF Fits, ClientKept
  <2>2. SlotServed(t)'
    BY <1>1, <1>3, <1>5, <2>1 DEF Answers, SlotServed, ClientKept
  <2>3. GotOwn(t)'
    BY <1>1, <1>3, <1>4, <1>6, <1>7
       DEF Answers, SlotServed, Serving, GotOwn, Received, Fits, Own, ClientKept, FlagsKept
  <2> QED BY <2>2, <2>3
<1>f. ConnackMeets(t)' /\ ErrorMeets(t)'
  <2>1. ConnackMeets(t)'
    BY <1>1, <1>3, <1>4, <1>5, <1>6, <1>7, Kinds3
       DEF Answers, ConnackMeets, Waits, GivesUp, Received, Fits, Own, ClientKept
  <2>2. ErrorMeets(t)'
    BY <1>1, <1>3, <1>4, <1>5
       DEF Answers, ErrorMeets, Holds, Waits, GivesUp, Connecting, RunnersKept, ClientKept, FlagsKept
  <2> QED BY <2>1, <2>2
<1>g. RequestMeets(t)' /\ RequestInHand(t)' /\ RequestPosted(t)'
  <2>1. RequestMeets(t)'
    BY <1>1, <1>3, <1>4, <1>5, Kinds3
       DEF Answers, RequestMeets, InSem, RunnersKept, Holds, Waits, Closes, Received, Own, ClientKept
  <2>2. RequestInHand(t)' /\ RequestPosted(t)'
    BY <1>1, <1>3, <1>4, Kinds3
       DEF Answers, RequestInHand, RequestPosted, InSem, RunnersKept, Holds, Waits, Own, ClientKept, FlagsKept
  <2> QED BY <2>1, <2>2
<1>h. LeftOver(t)'
  <2>1. Slot # Nothing /\ wants[t] # "CONNECT" => Fits(t)'
    BY <1>1, <1>3, <1>4, <1>7 DEF Fits, Own, ClientKept
  <2>2. wants[t] = "CONNECT" => ~Fits(t)
    BY DEF Fits
  <2>3. wants[t] = "CONNECT" /\ Replaced(t) => Replaced(t)'
    BY <1>1, <1>3, <1>4, <1>5, Kinds3 DEF Replaced, ClientKept, FlagsKept, Busy, Waits, GivesUp, Closes
  <2> QED BY <1>1, <1>3, <1>4, <2>1, <2>2, <2>3
     DEF Answers, LeftOver, Fresh, ClientKept, RunnersKept, Holds, Waits, GivesUp
<1> QED BY <1>a, <1>b, <1>c, <1>d, <1>e, <1>f, <1>g, <1>h DEF After, Answers

\* A wait runs out only when nothing can answer it.
LEMMA NotLate ==
  ASSUME Before, NEW t \in Callers, Expires(t)
  PROVE  /\ UNCHANGED left
         /\ pc[t] = "sem" => Sem(wants[t]) = 0
         /\ pc[t] = "poll" \/ ~Silent => State # 1 /\ In = <<>> /\ Sock # "broken"
         /\ \A r \in Runners : pc[r] # "handle"
<1>1. /\ ThreadPlaces /\ Single /\ Viewed /\ Locals /\ t \in Threads /\ on[t] = TheClient
  BY DEF Before, Common, Single
<1>2. ~Disturb("late")
  BY <1>1 DEF ThreadPlaces, Disturb
<1>3. /\ UNCHANGED left
      /\ ~(pc[t] = "sem" /\ Sem(wants[t]) > 0)
      /\ ~((pc[t] = "poll" \/ ~Silent) /\ Found(TheClient) # {})
      /\ \A r \in Runners : ~(pc[r] = "handle")
  BY <1>1, <1>2 DEF Expires, At, Sem, Silent, Single
<1>4. Found(TheClient) = {} => State # 1 /\ In = <<>> /\ Sock # "broken"
  BY DEF Found, State, In, Sock
<1> QED BY <1>1, <1>3, <1>4 DEF Viewed, Locals

LEMMA WaitSemStep ==
  ASSUME Before, NEW t \in Callers, Answers(t), wait_sem(t)
  PROVE  After(t)
<1>1. /\ t \in Threads /\ TypeOK /\ Common /\ Viewed /\ Locals /\ Single /\ on[t] = TheClient /\ Alone(t)
      /\ wants[t] \in Types
  BY DEF Before, Single, Answers, Locals
<1>2. /\ pc[t] = "sem" /\ FlagsKept /\ UNCHANGED <<wants, call>> /\ Moves(t, "taken")
      /\ UNCHANGED <<Conn, State, Slot, In, Sock, Number, Answered>>
      /\ \A u \in Threads : u # t => got'[u] = got[u]
      /\ got'[t] \in {Nothing, Failure}
      /\ \/ Sem(wants[t]) > 0 /\ \A type \in Types :
              Sem(type)' = IF type = wants[t] THEN Sem(type) - 1 ELSE Sem(type)
         \/ Expires(t) /\ \A type \in Types : Sem(type)' = Sem(type)
  <2>1. Moves(t, "taken") /\ UNCHANGED <<wants, call>> /\ pc[t] = "sem"
    BY <1>1, MovesIs DEF wait_sem, At
  <2>2. got \in [Threads -> Results] /\ sems \in [Clients -> [Types -> Nat]] /\ TheClient \in Clients
    BY <1>1 DEF TypeOK, Single
  <2>3. UNCHANGED <<Conn, State, Slot, In, Sock, Number, Answered>> /\ UNCHANGED <<running, tostop, run_id, mutex>>
    BY DEF wait_sem, flags, network, Conn, State, Slot, In, Sock, Number, Answered
  <2>4. (\A u \in Threads : u # t => got'[u] = got[u]) /\ got'[t] \in {Nothing, Failure}
    BY <1>1, <2>2 DEF wait_sem
  <2>5. CASE /\ sems[on[t]][wants[t]] > 0 /\ UNCHANGED left
             /\ sems' = [sems EXCEPT ![on[t]][wants[t]] = @ - 1]
    BY <1>1, <2>1, <2>2, <2>3, <2>4, <2>5 DEF Sem, FlagsKept
  <2>6. CASE Expires(t) /\ UNCHANGED sems
    BY <2>1, <2>3, <2>4, <2>6, NotLate DEF Sem, FlagsKept
  <2> QED BY <2>5, <2>6 DEF wait_sem
<1>3. pc'[t] = "taken" /\ RunnersKept /\ Quiet(t)
  <2>1. OthersKept(t)
    BY <1>1, <1>2 DEF Moves, OthersKept
  <2> QED BY <1>1, <1>2, <2>1, OnlyCaller DEF Moves
<1>4. /\ (Serving' <=> Serving) /\ (Gone' <=> Gone) /\ (Silent' <=> Silent) /\ (Pending' <=> Pending)
      /\ \A type \in Types : Sem(type)' <= Sem(type) /\ Sem(type)' \in Nat /\ Sem(type) \in Nat
  BY <1>1, <1>2, <1>3 DEF Serving, Gone, Silent, Pending, RunnersKept, Holds, FlagsKept, Viewed
\* If the time is over, nothing was on the way.
<1>5. Sem(wants[t]) > 0 \/ (Expires(t) /\ Sem(wants[t]) = 0 /\ (In # <<>> /\ State # 1 => Silent)
                            /\ \A r \in Runners : pc[r] # "handle")
  BY <1>2, NotLate
<1>a. Common'
  <2>1. Clean(t)'
    BY <1>1, <1>2, <1>3 DEF Common, ThreadPlaces, Clean
  <2>2. ThreadPlaces'
    BY <1>2, <1>3, <2>1, CallerPlaces DEF FlagsKept
  <2>3. Linked' /\ RequestOnce'
    <3>1. \A u \in Threads : pc'[u] = "hung" => pc[u] = "hung"
      BY <1>3 DEF RunnersKept, Quiet, Busy, Threads
    <3> QED BY <1>1, <1>2, <1>4, <3>1 DEF Common, Linked, Ended, RequestOnce, FlagsKept
  <2>4. ConnackComes'
    BY SMTT(30), <1>1, <1>2, <1>3, <1>4, Kinds3 DEF Common, ConnackComes, Holds, RunnersKept, FlagsKept
  <2> QED BY <2>2, <2>3, <2>4 DEF Common
<1>b. Alone(t)'
  BY <1>1, <1>2, <1>3 DEF Answers, Alone, Busy, Quiet, Connecting, Waits
<1>c. Phase(t)'
  BY <1>1, <1>2, <1>3, <1>4 DEF Answers, Phase, Busy, Connecting, Waits, GivesUp, Closes
<1>d. Stops(t)'
  BY <1>1, <1>2, <1>3 DEF Answers, Stops, Stopping, RunnersKept, Holds, FlagsKept
<1>e. GotOwn(t)' /\ SlotServed(t)'
  BY <1>1, <1>2, <1>3, <1>4 DEF Answers, GotOwn, Received, SlotServed, Fits, Own
<1>f. ConnackMeets(t)' /\ ErrorMeets(t)'
  <2>1. ConnackMeets(t)'
    BY <1>1, <1>2, <1>3, <1>4, <1>5, Kinds3
       DEF Answers, ConnackMeets, Pending, Waits, GivesUp, Received, Own, Holds
  <2>2. ErrorMeets(t)'
    BY <1>1, <1>2, <1>3, <1>4
       DEF Answers, ErrorMeets, Holds, Waits, GivesUp, Connecting, RunnersKept, FlagsKept
  <2> QED BY <2>1, <2>2
<1>g. RequestMeets(t)' /\ RequestInHand(t)' /\ RequestPosted(t)'
  <2>1. Sem(wants[t]) > 0 /\ wants[t] \in Requests => Slot # Nothing
    BY Kinds3 DEF Answers, RequestPosted, Own
  <2>2. RequestMeets(t)'
    <3> SUFFICES ASSUME NEW i \in 1..Len(In), In[i].type \in Requests
                 PROVE  /\ \A r \in Runners : ~Holds(r, Requests)
                        /\ Slot = Nothing
                        /\ wants[t] \in Requests /\ Own(t, In[i])
                        /\ Silent
      BY <1>1, <1>2, <1>3, <1>4 DEF RequestMeets, RunnersKept, Holds, Own, Received, Waits
    <3>1. /\ \A r \in Runners : ~Holds(r, Requests)
          /\ Slot = Nothing
          /\ wants[t] \in Requests /\ Own(t, In[i])
      BY DEF Answers, RequestMeets
    <3>2. In # <<>> /\ State # 1
      BY <1>1 DEF Common, ConnackComes, Viewed
    <3> QED BY <1>5, <2>1, <3>1, <3>2
  <2>3. RequestInHand(t)'
    BY <1>1, <1>2, <1>3, <1>5, <2>1
       DEF Answers, RequestInHand, InSem, RunnersKept, Holds, Waits, FlagsKept
  <2>4. RequestPosted(t)'
    <3> SUFFICES ASSUME NEW type \in Requests, Sem(type)' > 0 PROVE FALSE
      BY DEF RequestPosted
    <3>1. type \in Types /\ Sem(type) > 0
      BY <1>4, Kinds3
    <3>2. Sem(type) = 1 /\ wants[t] = type
      BY <3>1 DEF Answers, RequestPosted
    <3>3. Expires(t) => Sem(type) = 0
      BY <1>2, <3>2, NotLate
    <3> QED BY <1>2, <3>1, <3>2, <3>3
  <2> QED BY <2>2, <2>3, <2>4
<1>h. LeftOver(t)'
  <2>1. (Slot # Nothing /\ ~Fits(t))' => Slot # Nothing /\ ~Fits(t)
    BY <1>2, <1>3 DEF Fits, Own
  <2>2. Replaced(t) /\ ~Conn => wants[t] = "CONNECT"
    <3> SUFFICES ASSUME Replaced(t), ~Conn, wants[t] # "CONNECT" PROVE FALSE
      OBVIOUS
    <3>1. wants[t] = "CONNACK" /\ Pending /\ Sem("CONNACK") = 0 /\ Serving
      BY <1>1, <1>2, Kinds3 DEF Replaced, Waits
    <3>2. Silent
      BY <1>5, <3>1 DEF Pending, Holds
    <3>3. \A r \in Runners : pc[r] = "none"
      BY <1>1, <3>2 DEF Common, Linked, Silent, Single
    <3> QED BY <1>1, <3>1, <3>3 DEF Serving, Common, ThreadPlaces
  <2>3. Replaced(t) /\ ~Conn => Replaced(t)'
    BY <1>2, <1>3, <1>4, <2>2, Kinds3 DEF Replaced, Busy, Waits, GivesUp, Closes
  <2> QED BY <1>2, <1>3, <2>1, <2>2, <2>3
             DEF Answers, LeftOver, Fresh, RunnersKept, Holds, Waits, GivesUp
<1> QED BY <1>a, <1>b, <1>c, <1>d, <1>e, <1>f, <1>g, <1>h DEF After, Answers

\* What there is to be found, and what is left of it.
LEMMA FoundIs ==
  ASSUME Before, NEW c \in Clients, NEW e \in Found(c), Take(c)
  PROVE  /\ c = TheClient /\ e \in Results
         /\ \/ State = 1 /\ e = Made /\ UNCHANGED In
            \/ State # 1 /\ In # <<>> /\ e = Head(In) /\ In' = Tail(In) /\ e \in Packet
            \/ State # 1 /\ In = <<>> /\ Sock = "broken" /\ e = Failure /\ UNCHANGED In
         /\ In # <<>> => Len(In) > 0 /\ Head(In) = In[1] /\ Len(Tail(In)) = Len(In) - 1
                         /\ \A i \in 1..Len(Tail(In)) : Tail(In)[i] = In[i + 1]
<1>1. /\ TypeOK /\ Single /\ Viewed /\ c = TheClient /\ In \in Seq(Packet) /\ TheClient \in Clients
      /\ inbox \in [Clients -> Seq(Packet)]
  BY DEF Before, Single, Viewed, TypeOK
<1>2. In # <<>> => Len(In) > 0 /\ Head(In) = In[1] /\ Head(In) \in Packet /\ Len(Tail(In)) = Len(In) - 1
                   /\ \A i \in 1..Len(Tail(In)) : Tail(In)[i] = In[i + 1]
  BY <1>1
<1>3. \/ State = 1 /\ e = Made /\ UNCHANGED In
      \/ State # 1 /\ In # <<>> /\ e = Head(In) /\ In' = Tail(In)
      \/ State # 1 /\ In = <<>> /\ Sock = "broken" /\ e = Failure /\ UNCHANGED In
  BY <1>1 DEF Found, Take, State, In, Sock
<1>4. e \in Results
  BY <1>2, <1>3 DEF Results
<1> QED BY <1>1, <1>2, <1>3, <1>4

\* The places of a caller that is in the library, by the client's state.
LEMMA StateShows ==
  ASSUME Before, NEW t \in Callers, Answers(t)
  PROVE  /\ State \in {0, -2} => Conn \/ Ended
         /\ State = 1 => Waits(t, {"CONNECT"}) \/ GivesUp(t)
         /\ State = 3 => Waits(t, {"CONNACK"}) \/ GivesUp(t)
         /\ Conn => State \in {0, -2} /\ ~Connecting(t) /\ pc[t] # "stopping" /\ ~tostop
<1>1. /\ pc[t] \in {"idle", "begin", "none", "started", "waitfor", "sem", "poll", "taken", "returned",
                    "disconnect", "draining", "stopping", "version", "hung"}
      /\ call[t].back \in {"idle", "version"} /\ wants[t] \in {"CONNECT", "CONNACK"} \cup Requests
  BY Kinds3 DEF Before, Single, TypeOK, Places, Common, ThreadPlaces, Clean, Locals
<1>2. Phase(t) /\ Linked /\ State \in {-2, 0, 1, 3}
  BY DEF Answers, Before, Common, Viewed
<1> QED BY <1>1, <1>2, Kinds3 DEF Phase, Busy, Connecting, Waits, GivesUp, Closes, Linked, Ended

\* What a caller that cycles itself gets, and whether it goes on.
Polled(t) ==
  /\ UNCHANGED left
  /\ \A u \in Threads : u # t => pc'[u] = pc[u] /\ got'[u] = got[u]
  /\ \/ State = 1 /\ UNCHANGED In
     \/ State # 1 /\ In # <<>> /\ In' = Tail(In)
     \/ State # 1 /\ In = <<>> /\ UNCHANGED In
  /\ pc'[t] = "poll" \/ pc'[t] = "returned"
  /\ pc'[t] = "returned" /\ got'[t] \in Packet => 
       State # 1 /\ In # <<>> /\ In' = Tail(In) /\ got'[t] = Head(In) /\ Head(In).type = wants[t]
  /\ In # <<>> => Len(In) > 0 /\ Head(In) = In[1] /\ Len(Tail(In)) = Len(In) - 1
                  /\ \A i \in 1..Len(Tail(In)) : Tail(In)[i] = In[i + 1]

LEMMA PollIs ==
  ASSUME Before, NEW t \in Callers, poll(t)
  PROVE  Polled(t)
<1>1. /\ t \in Threads /\ TypeOK /\ Single /\ on[t] = TheClient /\ pc[t] = "poll" /\ UNCHANGED State
  BY DEF Before, Single, poll, At, client, State
<1>a. got \in [Threads -> Results] /\ pc \in [Threads -> Places]
  BY <1>1 DEF TypeOK
<1>2. ASSUME NEW c \in Clients, NEW e \in Found(c), Take(c), UNCHANGED left,
             IF c = on[t] /\ (e.type = wants[t] \/ e \in {Made, Failure})
             THEN /\ Go(t, "returned")
                  /\ got' = [got EXCEPT ![t] = IF e = Made /\ sock[c] # "open" THEN Failure ELSE e]
             ELSE UNCHANGED <<pc, got>>
      PROVE  Polled(t)
  <2>1. /\ c = TheClient /\ e \in Results
        /\ \/ State = 1 /\ e = Made /\ UNCHANGED In
           \/ State # 1 /\ In # <<>> /\ e = Head(In) /\ In' = Tail(In) /\ e \in Packet
           \/ State # 1 /\ In = <<>> /\ Sock = "broken" /\ e = Failure /\ UNCHANGED In
        /\ In # <<>> => Len(In) > 0 /\ Head(In) = In[1] /\ Len(Tail(In)) = Len(In) - 1
                        /\ \A i \in 1..Len(Tail(In)) : Tail(In)[i] = In[i + 1]
    BY <1>2, FoundIs
  <2>2. /\ \A u \in Threads : u # t => pc'[u] = pc[u] /\ got'[u] = got[u]
        /\ \/ pc'[t] = "returned" /\ got'[t] \in {Failure, e} /\ (e.type = wants[t] \/ e \in {Made, Failure})
           \/ pc'[t] = pc[t]
    BY <1>1, <1>a, <1>2 DEF Go
  <2> QED BY <1>1, <1>2, <2>1, <2>2, Kinds3 DEF Polled
<1>3. ASSUME Expires(t), Go(t, "returned"), got' = [got EXCEPT ![t] = Nothing], UNCHANGED inbox
      PROVE  Polled(t)
  <2>1. UNCHANGED left /\ State # 1 /\ In = <<>>
    BY <1>1, <1>3, NotLate
  <2>2. got'[t] = Nothing /\ pc'[t] = "returned" /\ \A u \in Threads : u # t => pc'[u] = pc[u] /\ got'[u] = got[u]
    BY <1>1, <1>a, <1>3 DEF Go
  <2> QED BY <1>1, <1>3, <2>1, <2>2, Kinds3 DEF In, Polled
<1> QED BY <1>2, <1>3 DEF poll

LEMMA PollStep ==
  ASSUME Before, NEW t \in Callers, Answers(t), poll(t)
  PROVE  After(t)
<1>1. /\ t \in Threads /\ TypeOK /\ Common /\ Viewed /\ Locals /\ Single /\ on[t] = TheClient /\ Alone(t)
      /\ wants[t] \in Types
  BY DEF Before, Single, Answers, Locals
<1>2. /\ pc[t] = "poll" /\ UNCHANGED <<running, tostop, run_id, mutex, wants, call>>
      /\ UNCHANGED <<Conn, State, Slot, Sock, Number, Answered>>
      /\ \A type \in Types : Sem(type)' = Sem(type)
  BY DEF poll, At, flags, client, Conn, State, Slot, Sock, Number, Answered, Sem
<1>3. Polled(t) /\ Gone
  BY <1>2, PollIs DEF Answers, Phase
<1>4. RunnersKept /\ Quiet(t) /\ (\A r \in Runners : pc'[r] = "none" /\ pc[r] = "none")
      /\ (pc'[t] = "poll" \/ pc'[t] = "returned")
  <2>1. OthersKept(t)
    BY <1>1, <1>2, <1>3 DEF Polled, OthersKept
  <2> QED BY <1>1, <1>3, <2>1, OnlyCaller DEF Polled, Gone, RunnersKept
<1>5. \/ In = <<>> /\ UNCHANGED In
      \/ /\ State # 1 /\ Len(In) > 0 /\ Len(In') = Len(In) - 1 /\ In'= Tail(In) /\ Len(In) \in Nat
         /\ \A i \in 1..Len(In') : i + 1 \in 1..Len(In) /\ In'[i] = In[i + 1]
  <2>1. State = 1 => In = <<>>
    BY <1>1 DEF Common, ConnackComes
  <2>2. Len(In) \in Nat
    BY <1>1 DEF Viewed
  <2> QED BY <1>3, <2>1, <2>2 DEF Polled
<1>6. pc'[t] = "returned" /\ got'[t] \in Packet =>
        /\ Len(In) > 0 /\ got'[t] = In[1] /\ In[1].type = wants[t] /\ 1 \in 1..Len(In)
  BY <1>3, <1>5 DEF Polled
<1>7. Gone' /\ ~Serving /\ Silent'
  BY <1>2, <1>3, <1>4 DEF Gone, Serving, Silent
<1>a. Common'
  <2>1. Clean(t)'
    BY <1>1, <1>2, <1>4 DEF Common, ThreadPlaces, Clean
  <2>2. ThreadPlaces'
    BY <1>2, <1>3, <1>4, <2>1, CallerPlaces DEF Polled
  <2>3. \A u \in Threads : pc'[u] = "hung" => pc[u] = "hung"
    BY <1>4 DEF RunnersKept, Quiet, Busy, Threads
  <2>4. Linked'
    BY <1>1, <1>2, <1>5, <2>3 DEF Common, Linked, Ended
  <2>5. RequestOnce'
    <3> SUFFICES ASSUME NEW i \in 1..Len(In'), NEW j \in 1..Len(In'),
                        In'[i].type \in Requests, In'[j].type \in Requests
                 PROVE  i = j
      BY DEF RequestOnce
    <3>1. CASE UNCHANGED In
      BY <1>1, <3>1 DEF Common, RequestOnce
    <3>2. CASE \A k \in 1..Len(In') : k + 1 \in 1..Len(In) /\ In'[k] = In[k + 1]
      <4>1. i + 1 = j + 1
        BY <1>1, <3>2 DEF Common, RequestOnce
      <4> QED BY <4>1
    <3> QED BY <1>5, <3>1, <3>2
  <2>6. ConnackComes'
    BY <1>1, <1>2, <1>4, <1>5, Kinds3 DEF Common, ConnackComes, Holds
  <2> QED BY <2>2, <2>4, <2>5, <2>6 DEF Common
<1>b. Alone(t)'
  BY <1>1, <1>2, <1>4 DEF Alone, Busy, Quiet, Connecting, Waits
<1>c. Phase(t)'
  BY <1>2, <1>4, <1>7 DEF Answers, Phase, Busy, Connecting, Waits, GivesUp, Closes
<1>d. Stops(t)'
  BY <1>2, <1>3, <1>4 DEF Stops, Stopping, Gone, Holds
<1>e. GotOwn(t)' /\ SlotServed(t)'
  <2>1. pc'[t] = "returned" /\ got'[t] \in Packet /\ wants[t] \in Requests =>
          Slot = Nothing /\ Own(t, got'[t])
    BY <1>6 DEF Answers, RequestMeets
  <2>2. pc'[t] = "returned" /\ got'[t] \in Packet /\ wants[t] = "CONNACK" => Own(t, got'[t])
    BY <1>1, <1>2, <1>6 DEF Answers, Phase, Waits, Common, ConnackComes, Own
  <2>3. GotOwn(t)'
    BY <1>1, <1>2, <1>3, <2>1, <2>2, Kinds3 DEF GotOwn, Received, Own, Gone
  <2>4. ASSUME Slot # Nothing PROVE ~Fits(t)' \/ (wants[t] # "CONNACK" /\ ~Conn)
    <3>1. ~Fits(t)
      BY <1>2 DEF Fits
    <3>2. ~Conn /\ (wants[t] = "CONNACK" => FALSE)
      BY <1>2, <2>4, <3>1 DEF Answers, LeftOver, Replaced, Waits
    <3> QED BY <3>2
  <2> QED BY <1>2, <2>3, <2>4 DEF SlotServed
<1>f. ConnackMeets(t)' /\ ErrorMeets(t)'
  <2>1. ~Pending'
    BY <1>1, <1>2, <1>4, <1>5 DEF Pending, Holds, Common, ConnackComes
  <2> QED BY <1>4, <2>1 DEF ConnackMeets, ErrorMeets, Holds
<1>g. RequestMeets(t)' /\ RequestInHand(t)' /\ RequestPosted(t)'
  <2>1. ASSUME NEW i \in 1..Len(In'), In'[i].type \in Requests
        PROVE  /\ Slot = Nothing /\ wants[t] \in Requests /\ Own(t, In'[i])
               /\ ~(pc'[t] = "returned" /\ got'[t] \in Packet)
    <3>1. /\ i + 1 \in 1..Len(In) /\ In'[i] = In[i + 1] /\ 1 \in 1..Len(In) /\ i + 1 # 1
      BY <1>5, <2>1
    <3>2. Slot = Nothing /\ wants[t] \in Requests /\ Own(t, In[i + 1])
      BY <2>1, <3>1 DEF Answers, RequestMeets
    <3>3. In[1].type \notin Requests
      BY <1>1, <2>1, <3>1 DEF Common, RequestOnce
    <3> QED BY <1>6, <3>1, <3>2, <3>3
  <2>2. RequestMeets(t)'
    BY <1>2, <1>4, <1>7, <2>1 DEF RequestMeets, Own, Received, Waits, Holds
  <2>3. RequestInHand(t)' /\ RequestPosted(t)'
    BY <1>2, <1>4, Kinds3 DEF Answers, RequestInHand, RequestPosted, InSem, Holds
  <2> QED BY <2>2, <2>3
<1>h. LeftOver(t)'
  <2> SUFFICES ASSUME Slot # Nothing PROVE ~Conn /\ Replaced(t)'
    BY <1>2, <1>4 DEF LeftOver, Holds
  <2>1. ~Conn /\ Replaced(t)
    BY <1>2 DEF Answers, LeftOver, Fits
  <2>2. wants[t] \in Requests
    BY <1>1, <1>2, <1>7, <2>1, Kinds3 DEF Replaced, Waits
  <2>3. ~(pc'[t] = "returned" /\ got'[t] \in Packet)
    BY <1>6, <2>2 DEF Answers, RequestMeets
  <2> QED BY <1>2, <1>4, <1>7, <2>1, <2>2, <2>3, Kinds3
             DEF Replaced, Busy, Waits, GivesUp, Closes, Received
<1> QED BY <1>a, <1>b, <1>c, <1>d, <1>e, <1>f, <1>g, <1>h DEF After, Answers

-----------------------------------------------------------------------------
(* A caller connects *)

\* The attempt failed: what the caller has to do before it returns.
LEMMA FailedIs ==
  ASSUME TypeOK, NEW t \in Threads, Failed(t)
  PROVE  /\ Moves(t, "disconnect") /\ (\A u \in Threads : u # t => call'[u] = call[u])
         /\ call'[t].back = "version" /\ call'[t].internal = FALSE /\ call'[t].version = call[t].version
         /\ call'[t].stop = (call[t].version = 3) /\ call'[t].req = call[t].req
<1>1. call \in [Threads -> Call]
  BY DEF TypeOK
<1>2. call'[t] = [call[t] EXCEPT !.internal = FALSE, !.back = "version", !.stop = (call[t].version = 3)]
      /\ \A u \in Threads : u # t => call'[u] = call[u]
  BY <1>1 DEF Failed
<1>3. call[t] \in Call
  BY <1>1
<1>4. Moves(t, "disconnect")
  BY MovesIs DEF Failed
<1> QED BY <1>2, <1>3, <1>4 DEF Call

LEMMA WaitIs ==
  ASSUME TypeOK, NEW t \in Threads, NEW type, Wait(t, type)
  PROVE  Moves(t, "waitfor") /\ wants'[t] = type /\ \A u \in Threads : u # t => wants'[u] = wants[u]
BY MovesIs DEF Wait, TypeOK

\* CONNECT is sent, and its answer will come.
LEMMA SendConnectIs ==
  ASSUME Before, SendConnect(TheClient)
  PROVE  /\ State' = 3 /\ left'["late"] = 0 /\ Number' \in Nat
         /\ Len(In') = 1 /\ In'[1].type = "CONNACK" /\ In'[1].conn = Number' /\ In' # <<>>
<1>1. TypeOK /\ TheClient \in Clients /\ left["late"] = 0 /\ Viewed'
  BY DEF Before, Single, Common, ThreadPlaces
<1>2. State' = 3
  BY <1>1 DEF TypeOK, SendConnect, State
<1>3. \E ok \in BOOLEAN : In' = <<[type |-> "CONNACK", conn |-> Number', ok |-> ok]>>
  BY <1>1 DEF TypeOK, SendConnect, In, Number
<1>4. left'["late"] = 0
  <2>1. UNCHANGED left \/ left' = [left EXCEPT !["refuse"] = @ - 1]
    BY DEF SendConnect, Disturb
  <2> QED BY <1>1, <2>1 DEF TypeOK, Kinds
<1> QED BY <1>1, <1>2, <1>3, <1>4 DEF Viewed

LEMMA TcpConnectedStep ==
  ASSUME Before, NEW t \in Callers, Answers(t), tcpConnected(t)
  PROVE  After(t)
<1>1. /\ t \in Threads /\ TypeOK /\ Common /\ Viewed /\ Locals /\ Single /\ on[t] = TheClient /\ Alone(t)
      /\ TheClient \in Clients
  BY DEF Before, Single, Answers, Locals
<1>2. /\ pc[t] = "returned" /\ wants[t] = "CONNECT" /\ State = 1
      /\ UNCHANGED <<running, tostop, run_id, mutex, got>> /\ UNCHANGED <<Conn, Slot, Sock, Number, Answered>>
      /\ \A type \in Types : Sem(type)' = Sem(type)
  <2>1. pc[t] = "returned" /\ wants[t] = "CONNECT"
    BY DEF tcpConnected, At
  <2>2. State = 1
    BY <2>1 DEF Answers, Phase, Waits
  <2> QED BY <2>1, <2>2 DEF tcpConnected, flags, Conn, Slot, Sock, Number, Answered, Sem
<1>3. ~Conn /\ Connecting(t) /\ In = <<>> /\ Sem("CONNACK") = 0 /\ ~Fits(t) /\ ~Waits(t, {"CONNACK"})
      /\ ~Waits(t, Requests) /\ ~GivesUp(t) /\ ~InSem(t) /\ Sock # "closed"
      /\ (Slot.type = "CONNACK" => Slot.conn < Number) /\ Number \in Nat
      /\ ~Holds(t, {"CONNACK"}) /\ \A r \in Runners : Holds(r, {"CONNACK"}) => tostop
  BY <1>1, <1>2, Kinds3 DEF Answers, Phase, Connecting, Waits, GivesUp, InSem, Fits, Holds, Viewed,
                            Common, ConnackComes, Linked, Ended
<1>4. CASE /\ conns' = conns /\ SendConnect(TheClient) /\ Wait(t, "CONNACK") /\ UNCHANGED call
  <2>1. /\ pc'[t] = "waitfor" /\ wants'[t] = "CONNACK" /\ OthersKept(t) /\ UNCHANGED call
    BY <1>1, <1>2, <1>4, WaitIs DEF Moves, OthersKept
  <2>2. Quiet(t) /\ RunnersKept
    BY <1>1, <2>1, OnlyCaller
  <2>3. /\ State' = 3 /\ left'["late"] = 0
        /\ Len(In') = 1 /\ In'[1].type = "CONNACK" /\ In'[1].conn = Number /\ In' # <<>>
    BY <1>2, <1>4, SendConnectIs
  <2>4. (Serving' <=> Serving) /\ (Silent' <=> Silent) /\ Pending' /\ (Slot # Nothing => ~Own(t, Slot)')
    BY <1>2, <1>3, <2>1, <2>2, <2>3 DEF Serving, Silent, Pending, RunnersKept, Own
  <2>a. Common'
    <3>1. Clean(t)'
      BY <1>1, <1>2, <2>1 DEF Common, ThreadPlaces, Clean
    <3>2. ThreadPlaces'
      BY <1>1, <1>2, <2>1, <2>2, <2>3, <3>1, PlacesStay
    <3>3. Linked'
      BY <1>1, <1>2, <1>3, <2>1, <2>2, <2>3 DEF Common, Linked, Ended, RunnersKept, Quiet, Busy, Threads
    <3>4. ConnackComes' /\ RequestOnce'
      BY <1>1, <1>2, <1>3, <2>2, <2>3, Kinds3 DEF Common, ConnackComes, RequestOnce, Holds, RunnersKept
    <3> QED BY <3>2, <3>3, <3>4 DEF Common
  <2>b. Alone(t)' /\ Phase(t)'
    BY <1>1, <1>2, <1>3, <2>1, <2>2, <2>3, Kinds3
       DEF Alone, Phase, Busy, Quiet, Connecting, Waits, GivesUp, Closes
  <2>d. Stops(t)'
    BY <1>2, <2>1, <2>2 DEF Answers, Stops, Stopping, RunnersKept, Holds
  <2>e. GotOwn(t)' /\ SlotServed(t)'
    BY <1>2, <2>1, <2>4 DEF GotOwn, Received, SlotServed, Fits
  <2>f. ConnackMeets(t)'
    BY <1>2, <1>3, <2>1, <2>4, Kinds3 DEF ConnackMeets, Received
  <2>g. ErrorMeets(t)'
    BY <1>2, <1>3, <2>1, <2>2 DEF Answers, ErrorMeets, Holds, RunnersKept, Connecting, Waits
  <2>h. RequestMeets(t)' /\ RequestInHand(t)' /\ RequestPosted(t)'
    BY <1>2, <1>3, <2>1, <2>2, <2>3, Kinds3
       DEF Answers, RequestMeets, RequestInHand, RequestPosted, RunnersKept, Holds
  <2>i. LeftOver(t)'
    <3>1. Replaced(t) => Replaced(t)'
      BY <1>2, <1>3, <2>1, <2>4, Kinds3 DEF Replaced, Busy, Waits, GivesUp, Closes
    <3> QED BY <1>2, <1>3, <2>1, <2>2, <3>1 DEF Answers, LeftOver, Fresh, RunnersKept, Holds, Waits
  <2> QED BY <2>a, <2>b, <2>d, <2>e, <2>f, <2>g, <2>h, <2>i DEF After, Answers
<1>5. CASE Failed(t) /\ UNCHANGED <<connect_state, inbox, conns, wants, left>>
  <2>1. /\ pc'[t] = "disconnect" /\ call'[t].back = "version" /\ call'[t].internal = FALSE
        /\ call'[t].version = call[t].version /\ call'[t].stop = (call[t].version = 3)
        /\ OthersKept(t)
    BY <1>1, <1>2, <1>5, FailedIs DEF Moves, OthersKept
  <2>2. Quiet(t) /\ RunnersKept
    BY <1>1, <2>1, OnlyCaller
  <2>3. ClientKept
    BY <1>2, <1>5 DEF ClientKept, State, In
  <2>4. /\ Linked' /\ ConnackComes' /\ RequestOnce' /\ (Serving' <=> Serving)
        /\ (Silent' <=> Silent) /\ (Pending' <=> Pending)
    BY <1>1, <1>2, <1>5, <2>1, <2>2, <2>3, CallerMoves DEF Answers
  <2>a. Common'
    <3>1. Clean(t)'
      BY <2>1 DEF Clean
    <3>2. ThreadPlaces'
      BY <1>2, <1>5, <2>1, <2>2, <3>1, CallerPlaces
    <3> QED BY <2>4, <3>2 DEF Common
  <2>b. Alone(t)' /\ Phase(t)'
    BY <1>1, <1>2, <1>3, <2>1, <2>2, <2>3, Kinds3
       DEF Alone, Phase, Busy, Quiet, Connecting, Waits, GivesUp, Closes, ClientKept
  <2>d. Stops(t)'
    BY <1>2, <2>1, <2>2, <2>3 DEF Answers, Stops, Stopping, RunnersKept, Holds, ClientKept
  <2>e. GotOwn(t)' /\ SlotServed(t)'
    BY <1>2, <2>1 DEF GotOwn, Received, SlotServed, Fits
  <2>f. ConnackMeets(t)'
    BY <1>2, <2>3 DEF ConnackMeets, Pending, ClientKept
  <2>g. ErrorMeets(t)'
    BY <1>2, <1>3, <2>1, <2>2, <2>3 DEF Answers, ErrorMeets, Holds, RunnersKept, Connecting, ClientKept
  <2>h. RequestMeets(t)' /\ RequestInHand(t)' /\ RequestPosted(t)'
    BY <1>2, <1>3, <2>1, <2>2, <2>3, Kinds3
       DEF Answers, RequestMeets, RequestInHand, RequestPosted, RunnersKept, Holds, ClientKept
  <2>i. LeftOver(t)'
    <3>1. Replaced(t) => Replaced(t)'
      BY <1>2, <1>3, <2>1, <2>3, <2>4, Kinds3 DEF Replaced, Busy, Waits, GivesUp, Closes, ClientKept
    <3>2. Fresh(t)
      BY <1>2 DEF Fresh, Waits
    <3> QED BY <1>2, <1>3, <2>1, <2>2, <2>3, <3>1, <3>2
               DEF Answers, LeftOver, RunnersKept, Holds, ClientKept
  <2> QED BY <2>a, <2>b, <2>d, <2>e, <2>f, <2>g, <2>h, <2>i DEF After, Answers
<1> QED BY <1>1, <1>4, <1>5 DEF tcpConnected

LEMMA ConnackStep ==
  ASSUME Before, NEW t \in Callers, Answers(t), connack(t)
  PROVE  After(t)
<1>1. /\ t \in Threads /\ TypeOK /\ Common /\ Viewed /\ Locals /\ Single /\ on[t] = TheClient /\ Alone(t)
      /\ TheClient \in Clients /\ got[t] \in Results
  BY DEF Before, Single, Answers, Locals
<1>2. /\ pc[t] = "returned" /\ wants[t] = "CONNACK" /\ State = 3 /\ ~Conn
      /\ UNCHANGED <<running, tostop, run_id, mutex, left, got, wants>> /\ UNCHANGED <<In, Sock, Number>>
      /\ \A type \in Types : Sem(type)' = Sem(type)
  <2>1. pc[t] = "returned" /\ wants[t] = "CONNACK"
    BY DEF connack, At
  <2>2. State = 3 /\ ~Conn
    BY <2>1 DEF Answers, Phase, Waits, Connecting
  <2> QED BY <2>1, <2>2 DEF connack, flags, bounds, network, In, Sock, Number, Sem
<1>3. /\ Connecting(t) /\ Waits(t, {"CONNACK"}) /\ ~Waits(t, Requests) /\ ~GivesUp(t) /\ ~InSem(t) /\ Sock # "closed"
      /\ ~Stopping(t)
  BY <1>1, <1>2, Kinds3 DEF Connecting, Waits, GivesUp, InSem, Common, Linked, Ended, Stopping
<1>4. CASE /\ got[t] \in Packet
           /\ connected' = [connected EXCEPT ![TheClient] = TRUE]
           /\ connect_state' = [connect_state EXCEPT ![TheClient] = 0]
           /\ answered' = [answered EXCEPT ![TheClient] = (got[t].type = "CONNACK" /\ got[t].conn = conns[TheClient])]
           /\ Go(t, End(t)) /\ UNCHANGED call
           /\ slot' = [slot EXCEPT ![TheClient] = Nothing]
  <2>1. pc'[t] \in {"idle", "none"} /\ OthersKept(t) /\ UNCHANGED call
    BY <1>1, <1>2, <1>4, MovesIs DEF Moves, OthersKept, End
  <2>2. Quiet(t) /\ RunnersKept
    BY <1>1, <2>1, OnlyCaller
  <2>3. got[t].type = "CONNACK" /\ got[t].conn = Number /\ ~tostop
    BY <1>2, <1>4 DEF Answers, GotOwn, Received, Own
  <2>4. Conn' /\ State' = 0 /\ Answered' /\ Slot' = Nothing
    <3>1. got[t].conn = conns[TheClient]
      BY <2>3 DEF Number
    <3> QED BY <1>1, <1>4, <2>3, <3>1 DEF TypeOK, Conn, State, Answered, Slot
  <2>5. ~Pending
    BY <1>2, <1>3, <1>4 DEF Answers, ConnackMeets, Received
  <2>6. In = <<>> /\ Len(In) = 0 /\ \A r \in Runners : ~Holds(r, {"CONNACK"})
    BY <1>2, <2>5 DEF Pending
  <2>a. Common'
    <3>1. Clean(t)'
      BY <1>1, <2>1 DEF Common, ThreadPlaces, Clean
    <3>2. ThreadPlaces'
      BY <1>2, <2>1, <2>2, <3>1, CallerPlaces
    <3>3. Linked'
      BY <1>1, <1>2, <1>3, <2>1, <2>2, <2>3, <2>4 DEF Linked, Ended
    <3>4. ConnackComes' /\ RequestOnce'
      BY <1>1, <1>2, <2>2, <2>4, <2>6, Kinds3 DEF Common, ConnackComes, RequestOnce, Holds, RunnersKept
    <3> QED BY <3>2, <3>3, <3>4 DEF Common
  <2>b. Alone(t)' /\ Phase(t)'
    BY <2>1, <2>2, <2>4 DEF Alone, Phase, Busy, Quiet, Connecting, Waits, GivesUp, Closes
  <2>d. Stops(t)' /\ ErrorMeets(t)'
    BY <1>2, <2>3, <2>4 DEF Stops, ErrorMeets
  <2>e. GotOwn(t)' /\ SlotServed(t)' /\ LeftOver(t)'
    BY <2>1, <2>4 DEF GotOwn, Received, SlotServed, LeftOver
  <2>f. ConnackMeets(t)'
    BY <2>4 DEF ConnackMeets, Pending
  <2>h. RequestMeets(t)' /\ RequestInHand(t)' /\ RequestPosted(t)'
    BY <1>2, <1>3, <2>2, <2>6, Kinds3
       DEF Answers, RequestMeets, RequestInHand, RequestPosted, RunnersKept, Holds
  <2> QED BY <2>a, <2>b, <2>d, <2>e, <2>f, <2>h DEF After, Answers
<1>5. CASE /\ Failed(t) /\ UNCHANGED <<connected, connect_state, answered>>
           /\ slot' = IF got[t] \in Packet THEN [slot EXCEPT ![TheClient] = Nothing] ELSE slot
  <2>1. /\ pc'[t] = "disconnect" /\ call'[t].back = "version" /\ call'[t].internal = FALSE
        /\ call'[t].version = call[t].version /\ call'[t].stop = (call[t].version = 3)
        /\ OthersKept(t)
    BY <1>1, <1>2, <1>5, FailedIs DEF Moves, OthersKept
  <2>2. Quiet(t) /\ RunnersKept
    BY <1>1, <2>1, OnlyCaller
  <2>3. UNCHANGED <<Conn, State, Answered>> /\ (Slot' = Nothing \/ (Slot' = Slot /\ ~Received(t)))
    BY <1>1, <1>5 DEF Conn, State, Answered, Slot, TypeOK, Received
  <2>4. (Serving' <=> Serving) /\ (Silent' <=> Silent) /\ (Pending' <=> Pending)
        /\ Nothing.type # "CONNACK" /\ Number \in Nat
    BY <1>1, <1>2, <2>2, <2>3, Kinds3 DEF Serving, Silent, Pending, RunnersKept, Holds, Viewed
  <2>a. Common'
    <3>1. Clean(t)'
      BY <2>1 DEF Clean
    <3>2. ThreadPlaces'
      BY <1>2, <2>1, <2>2, <3>1, CallerPlaces
    <3>3. Linked'
      BY <1>1, <1>2, <2>1, <2>2, <2>3 DEF Common, Linked, Ended, RunnersKept, Quiet, Busy, Threads
    <3>4. ConnackComes'
      BY <1>1, <1>2, <2>2, <2>3, <2>4, Kinds3 DEF Common, ConnackComes, Holds, RunnersKept
    <3>5. RequestOnce'
      BY <1>1, <1>2 DEF Common, RequestOnce
    <3> QED BY <3>2, <3>3, <3>4, <3>5 DEF Common
  <2>b. Alone(t)' /\ Phase(t)'
    BY <1>1, <1>2, <1>3, <2>1, <2>2, <2>3, Kinds3
       DEF Alone, Phase, Busy, Quiet, Connecting, Waits, GivesUp, Closes
  <2>d. Stops(t)'
    BY <1>2, <2>1, <2>2, <2>3 DEF Answers, Stops, Stopping, RunnersKept, Holds
  <2>e. GotOwn(t)' /\ SlotServed(t)'
    BY <1>2, <2>1 DEF GotOwn, Received, SlotServed, Fits
  <2>f. ConnackMeets(t)'
    BY <1>2, <1>3, <2>1, <2>3, <2>4 DEF Answers, ConnackMeets, Received, Own
  <2>g. ErrorMeets(t)'
    BY <1>2, <1>3, <2>1, <2>2, <2>3, <2>4
       DEF Answers, ErrorMeets, Holds, RunnersKept, Connecting, GivesUp
  <2>h. RequestMeets(t)' /\ RequestInHand(t)' /\ RequestPosted(t)'
    BY <1>2, <1>3, <2>1, <2>2, <2>3, Kinds3
       DEF Answers, RequestMeets, RequestInHand, RequestPosted, RunnersKept, Holds
  <2>i. LeftOver(t)'
    <3> SUFFICES ASSUME Slot' # Nothing PROVE LeftOver(t)'
      BY DEF LeftOver
    <3>1. Slot' = Slot /\ ~Received(t) /\ ~Fits(t)
      BY <1>1, <1>2, <2>3 DEF Received, Fits, Viewed
    <3>2. ~Conn /\ Replaced(t)
      BY <3>1 DEF Answers, LeftOver
    <3>3. call[t].version = 3 /\ Serving
      BY <1>2, <1>3, <3>2 DEF Replaced, Waits
    <3>4. Replaced(t)'
      BY <1>2, <1>3, <2>1, <2>4, <3>3, Kinds3 DEF Replaced, Busy, Waits, GivesUp, Closes
    <3> QED BY <1>2, <1>3, <2>1, <2>2, <2>3, <3>1, <3>3, <3>4
            DEF Answers, LeftOver, Fresh, RunnersKept, Holds, Waits
  <2> QED BY <2>a, <2>b, <2>d, <2>e, <2>f, <2>g, <2>h, <2>i DEF After, Answers
<1>6. got[t] \in Packet => got[t].type = "CONNACK"
  BY <1>2 DEF Answers, GotOwn, Received, Own
<1>7. got[t].type = "CONNACK" => got[t] \in Packet
  BY <1>1, Kinds3
<1> QED BY <1>1, <1>4, <1>5, <1>6, <1>7 DEF connack

\* One begins an attempt: a thread for the background is started unless one runs.
LEMMA StartIs ==
  ASSUME Before, NEW t \in Callers, NEW version \in {3, 4}, Free, startVersion(t, version), Clean(t),
         Alone(t), UNCHANGED <<flags, client, wants, got, network, answered, left>>
  PROVE  /\ pc'[t] = "started" /\ call'[t].version = version /\ call'[t].back = "idle"
         /\ Quiet(t) /\ ClientKept /\ UNCHANGED <<running, tostop, run_id, left>>
         /\ \A r \in Runners : /\ got'[r] = got[r]
                               /\ pc'[r] = pc[r] \/ (~running /\ ~tostop /\ pc[r] = "none" /\ pc'[r] = "start")
         /\ Serving \/ Gone => Serving'
         /\ ThreadPlaces' /\ Linked' /\ ConnackComes' /\ RequestOnce'
<1>1. /\ TypeOK /\ t \in Threads /\ t \notin Runners /\ Single /\ Common /\ Viewed /\ Locals /\ mutex = None /\ mutex' = t
  BY DEF Before, Single, Free, startVersion
<1>2. /\ pc \in [Threads -> Places] /\ call \in [Threads -> Call]
  BY <1>1 DEF TypeOK
<1>3. ClientKept /\ UNCHANGED <<running, tostop, run_id, left, got>>
  BY ClientIsKept DEF flags
<1>4. /\ call'[t].version = version /\ call'[t].back = "idle" /\ \A u \in Threads : u # t => call'[u] = call[u]
  <2>1. call'[t] = [NoCall EXCEPT !.version = version]
    BY <1>1, <1>2 DEF startVersion
  <2> QED BY <1>1, <1>2, <2>1 DEF startVersion, NoCall
<1>5. /\ pc'[t] = "started"
      /\ \A u \in Callers : u # t => pc'[u] = pc[u]
      /\ \A r \in Runners : pc'[r] = pc[r] \/ (~running /\ pc[r] = "none" /\ pc'[r] = "start")
      /\ running \/ \E r \in Runners : pc'[r] = "start"
  <2>1. CASE running /\ Go(t, "started")
    BY <1>1, <1>2, <2>1 DEF Go, Single
  <2>2. ASSUME NEW r \in Runners, ~running, At(r, "none"),
               pc' = [pc EXCEPT ![t] = "started", ![r] = "start"]
        PROVE  /\ pc'[t] = "started"
               /\ \A u \in Callers : u # t => pc'[u] = pc[u]
               /\ \A s \in Runners : pc'[s] = pc[s] \/ (~running /\ pc[s] = "none" /\ pc'[s] = "start")
               /\ \E s \in Runners : pc'[s] = "start"
    <3>1. \A u \in Threads : pc'[u] = IF u = r THEN "start" ELSE IF u = t THEN "started" ELSE pc[u]
      BY <1>1, <1>2, <2>2
    <3> QED BY <1>1, <2>2, <3>1 DEF Single, At
  <2> QED BY <2>1, <2>2 DEF startVersion
<1>6. ~running => ~tostop
  BY <1>1 DEF Common, ThreadPlaces
<1>7. Quiet(t)
  BY <1>1, <1>3, <1>4, <1>5 DEF Single, Common, ThreadPlaces, Quiet, Alone, Busy, Clean
<1>8. \A u \in Threads : pc[u] # "hung" /\ pc'[u] # "hung"
  <2>1. \A u \in Threads : pc[u] # "hung"
    BY <1>1 DEF Common, ThreadPlaces, Single
  <2> QED BY <1>1, <1>5, <2>1 DEF Threads
<1>9. ThreadPlaces'
  <2>1. \A r \in Runners : call'[r] = call[r] /\ pc[r] # "started"
    BY <1>1, <1>4 DEF Single, Common, ThreadPlaces, CleanRunner
  <2>2. \A r \in Runners : CleanRunner(r)'
    BY <1>1, <1>3, <1>5, <2>1 DEF Common, ThreadPlaces, CleanRunner
  <2>3. Clean(t)'
    BY <1>4, <1>5 DEF Clean
  <2>4. running' => \E r \in Runners : pc'[r] \notin {"none", "start"}
    BY <1>1, <1>3, <1>5 DEF Common, ThreadPlaces
  <2> QED BY <1>1, <1>3, <1>7, <1>8, <2>2, <2>3, <2>4 DEF Common, ThreadPlaces, Quiet
<1>10. Linked' /\ RequestOnce'
  BY <1>1, <1>3, <1>8 DEF Common, Linked, Ended, RequestOnce, ClientKept
<1>11. ConnackComes'
  BY <1>1, <1>3, <1>5, Kinds3 DEF Common, ConnackComes, ClientKept, Holds
<1>12. Serving \/ Gone => Serving'
  BY <1>3, <1>5 DEF Serving, Gone
<1> QED BY <1>3, <1>4, <1>5, <1>6, <1>7, <1>9, <1>10, <1>11, <1>12

\* ... and then the answers are as they should be.
LEMMA StartStep ==
  ASSUME Before, NEW t \in Callers, NEW version \in {3, 4}, Free, startVersion(t, version), Answers(t),
         UNCHANGED <<flags, client, wants, got, network, answered, left>>,
         (~Busy(t) /\ ~Conn) \/ (pc[t] = "version" /\ call[t].version = 4 /\ version = 3)
  PROVE  After(t)
<1>1. Clean(t) /\ Alone(t) /\ Viewed /\ pc[t] \notin {"started", "disconnect", "stopping"}
      /\ ~Stopping(t) /\ ~Fits(t) /\ ~InSem(t) /\ ~Received(t)
  BY DEF Before, Common, ThreadPlaces, Answers, Busy, Stopping, Fits, InSem, Waits, Received
<1>2. ~Conn /\ State = 0
  BY DEF Answers, Phase
<1>3. /\ pc'[t] = "started" /\ call'[t].version = version /\ call'[t].back = "idle"
      /\ Quiet(t) /\ ClientKept /\ UNCHANGED <<running, tostop, run_id, left>>
      /\ \A r \in Runners : /\ got'[r] = got[r]
                            /\ pc'[r] = pc[r] \/ (~running /\ ~tostop /\ pc[r] = "none" /\ pc'[r] = "start")
      /\ Serving \/ Gone => Serving'
      /\ ThreadPlaces' /\ Linked' /\ ConnackComes' /\ RequestOnce'
  BY <1>1, StartIs
<1>4. \A r \in Runners : \A types : Holds(r, types)' <=> Holds(r, types)
  BY <1>3 DEF Holds
<1>a. Alone(t)' /\ Phase(t)'
  BY <1>2, <1>3 DEF Alone, Phase, Busy, Quiet, Connecting, Waits, GivesUp, Closes, ClientKept
<1>b. Stops(t)'
  BY <1>1, <1>2, <1>3, <1>4 DEF Answers, Stops, Stopping, ClientKept
<1>c. GotOwn(t)' /\ SlotServed(t)' /\ ConnackMeets(t)'
  BY <1>2, <1>3 DEF GotOwn, Received, SlotServed, Fits, ConnackMeets, Pending, ClientKept
<1>d. ErrorMeets(t)'
  <2>1. ~Busy(t) => \A r \in Runners : ~(Holds(r, {"error"}) /\ ~tostop)
    BY <1>2 DEF Answers, ErrorMeets, Connecting, Waits, Busy
  <2> QED BY <1>2, <1>3, <1>4, <2>1 DEF ErrorMeets, Connecting, ClientKept
<1>e. In = <<>> /\ Len(In) = 0
  BY <1>2 DEF Before, Common, Linked, Ended
<1>f. RequestMeets(t)' /\ RequestInHand(t)' /\ RequestPosted(t)'
  BY <1>1, <1>2, <1>3, <1>4, <1>e, Kinds3
     DEF Answers, RequestMeets, RequestInHand, RequestPosted, ClientKept
<1>g. LeftOver(t)'
  <2> SUFFICES ASSUME Slot # Nothing PROVE LeftOver(t)'
    BY <1>3 DEF LeftOver, ClientKept
  <2>1. /\ Replaced(t) /\ \A r \in Runners : pc[r] # "callback" /\ ~Holds(r, {"PUBLISH"})
        /\ Fresh(t) => \A r \in Runners : ~Holds(r, {"error"})
    BY <1>1 DEF Answers, LeftOver
  <2>2. Serving \/ Gone
    BY <2>1 DEF Replaced
  <2>3. Gone \/ Fresh(t)
    BY <2>1 DEF Replaced, Fresh
  <2>4. Replaced(t)'
    BY <1>3, <2>2 DEF Replaced, Busy, Waits, GivesUp, Closes
  <2> QED BY <1>2, <1>3, <1>4, <2>1, <2>3, <2>4 DEF LeftOver, Gone, Holds, ClientKept
<1> QED BY <1>3, <1>a, <1>b, <1>c, <1>d, <1>f, <1>g DEF After, Common, Answers

LEMMA NextVersionStep ==
  ASSUME Before, NEW t \in Callers, Answers(t), nextVersion(t)
  PROVE  After(t)
<1>1. /\ t \in Threads /\ TypeOK /\ Common /\ Viewed /\ Locals /\ Single /\ Alone(t)
      /\ UNCHANGED <<flags, client, wants, got, network, answered, left>>
      /\ pc[t] = "version" /\ Free
  BY DEF Before, Single, Answers, nextVersion, At, bounds
<1>2. CASE call[t].version = 4 /\ startVersion(t, 3)
  BY <1>1, <1>2, StartStep
<1>3. CASE call[t].version # 4 /\ Go(t, End(t)) /\ UNCHANGED <<mutex, call>>
  <2>1. ClientKept /\ FlagsKept
    BY <1>1, <1>3, ClientIsKept DEF FlagsKept, flags
  <2>2. pc'[t] \in {"idle", "none"} /\ OthersKept(t)
    BY <1>1, <1>3, MovesIs DEF Moves, OthersKept, End
  <2>3. Quiet(t) /\ RunnersKept
    BY <1>1, <2>2, OnlyCaller
  <2>4. /\ Linked' /\ ConnackComes' /\ RequestOnce' /\ (Serving' <=> Serving) /\ (Gone' <=> Gone)
        /\ (Silent' <=> Silent) /\ (Pending' <=> Pending)
    BY <2>1, <2>2, <2>3, CallerMoves DEF FlagsKept
  <2>5. ~Conn /\ State = 0 /\ ~Stopping(t) /\ ~Fits(t) /\ ~InSem(t)
    BY <1>1 DEF Answers, Phase, Stopping, Fits, InSem, Waits
  <2>6. In = <<>> /\ Len(In) = 0
    BY <1>1, <2>5 DEF Common, Linked, Ended
  <2>a. Common'
    <3>1. Clean(t)'
      BY <1>1, <1>3, <2>2 DEF Common, ThreadPlaces, Clean
    <3> QED BY <2>1, <2>2, <2>3, <2>4, <3>1, CallerPlaces DEF Common, FlagsKept
  <2>b. Alone(t)' /\ Phase(t)'
    BY <2>1, <2>2, <2>3, <2>5
       DEF Alone, Phase, Busy, Quiet, Connecting, Waits, GivesUp, Closes, ClientKept
  <2>c. Stops(t)'
    BY <2>1, <2>3, <2>5 DEF Answers, Stops, Stopping, ClientKept, FlagsKept, RunnersKept, Holds
  <2>d. GotOwn(t)' /\ SlotServed(t)' /\ ConnackMeets(t)'
    BY <2>1, <2>2, <2>5 DEF GotOwn, Received, SlotServed, Fits, ConnackMeets, Pending, ClientKept
  <2>e. ErrorMeets(t)'
    BY <1>1, <1>3, <2>1, <2>3 DEF Answers, ErrorMeets, Holds, RunnersKept, ClientKept, FlagsKept
  <2>f. RequestMeets(t)' /\ RequestInHand(t)' /\ RequestPosted(t)'
    BY <2>1, <2>3, <2>5, <2>6, Kinds3
       DEF Answers, RequestMeets, RequestInHand, RequestPosted, ClientKept, RunnersKept, Holds, FlagsKept
  <2>g. LeftOver(t)'
    <3>1. Slot # Nothing => Replaced(t) /\ \A r \in Runners : pc[r] # "callback" /\ ~Holds(r, {"PUBLISH"})
      BY <2>5 DEF Answers, LeftOver
    <3>2. Slot # Nothing => Gone
      BY <1>1, <1>3, <3>1 DEF Replaced
    <3>3. Slot # Nothing => Replaced(t)'
      BY <2>2, <2>4, <3>2 DEF Replaced, Waits, GivesUp, Closes
    <3> QED BY <2>1, <2>2, <2>3, <2>5, <3>1, <3>2, <3>3
               DEF LeftOver, Fresh, Gone, Holds, Waits, GivesUp, ClientKept, RunnersKept
  <2> QED BY <2>a, <2>b, <2>c, <2>d, <2>e, <2>f, <2>g DEF After, Answers
<1> QED BY <1>2, <1>3 DEF nextVersion

LEMMA ConnectStep ==
  ASSUME Before, NEW t \in Callers, Answers(t), NEW u \in Callers, NEW c \in Clients, connect(u, c)
  PROVE  After(u)
<1>1. /\ Single /\ Common /\ c = TheClient /\ pc[u] \in {"idle", "begin"}
      /\ Free /\ startVersion(u, 4) /\ Unattended(c)
      /\ UNCHANGED <<flags, client, wants, got, network, answered, left>>
  BY DEF Before, Single, connect, At
<1>2. ~Conn /\ \A v \in Callers : ~Busy(v)
  BY <1>1 DEF Unattended, Single, Busy, Conn
<1>3. Answers(u)
  BY <1>1, <1>2, Switch
<1> QED BY <1>1, <1>2, <1>3, StartStep

\* A thread of connectionLost that does not connect: it was not in the library.
LEMMA LostReturnsStep ==
  ASSUME Before, NEW t \in Callers, Answers(t), NEW u \in Callers, lostReturns(u)
  PROVE  After(t)
<1>1. /\ u \in Threads /\ t \in Threads /\ TypeOK /\ Common /\ Viewed /\ Locals /\ Single /\ Alone(t)
  BY DEF Before, Single, Answers
<1>2. ClientKept /\ FlagsKept /\ UNCHANGED <<wants, got, call>>
  BY ClientIsKept DEF lostReturns, flags, local, bounds, FlagsKept
<1>3. pc[u] = "begin" /\ pc'[u] = "none" /\ \A v \in Threads : v # u => pc'[v] = pc[v]
  BY <1>1, MovesIs DEF lostReturns, At, Moves
<1>4. RunnersKept /\ Quiet(t)
  BY <1>1, <1>2, <1>3 DEF Single, RunnersKept, Quiet, Alone, Busy, Common, ThreadPlaces, Clean
<1>5. pc'[t] = pc[t] \/ (pc[t] = "begin" /\ pc'[t] = "none")
  BY <1>1, <1>3
<1>6. Linked' /\ ConnackComes' /\ RequestOnce'
  <2>1. \A v \in Threads : pc'[v] = "hung" => pc[v] = "hung"
    BY <1>3
  <2> QED BY <1>1, <1>2, <1>4, <2>1, Kinds3
          DEF Common, Linked, Ended, ConnackComes, RequestOnce, ClientKept, FlagsKept, RunnersKept, Holds
<1>7. (Serving' <=> Serving) /\ (Gone' <=> Gone) /\ (Silent' <=> Silent) /\ (Pending' <=> Pending)
  BY <1>2, <1>4 DEF Serving, Gone, Silent, Pending, RunnersKept, ClientKept, FlagsKept, Holds
<1>8. ThreadPlaces'
  <2>1. \A v \in Callers : Clean(v)'
    BY <1>1, <1>2, <1>3 DEF Common, ThreadPlaces, Clean, Threads
  <2> QED BY <1>1, <1>2, <1>3, <1>4, <2>1 DEF Common, ThreadPlaces, CleanRunner, RunnersKept, FlagsKept
<1>a. Alone(t)' /\ Phase(t)'
  BY <1>1, <1>2, <1>4, <1>5, <1>7
     DEF Answers, Alone, Phase, Busy, Quiet, Connecting, Waits, GivesUp, Closes, ClientKept
<1>b. Stops(t)' /\ ErrorMeets(t)' /\ ConnackMeets(t)'
  <2>1. Stops(t)'
    BY <1>2, <1>4, <1>5 DEF Answers, Stops, Stopping, RunnersKept, Holds, ClientKept, FlagsKept
  <2>2. ErrorMeets(t)'
    BY <1>2, <1>4, <1>5, <1>7
       DEF Answers, ErrorMeets, Holds, RunnersKept, Connecting, Waits, GivesUp, ClientKept, FlagsKept
  <2>3. ConnackMeets(t)'
    BY <1>2, <1>5, <1>7, Kinds3 DEF Answers, ConnackMeets, Waits, GivesUp, Received, Own, ClientKept
  <2> QED BY <2>1, <2>2, <2>3
<1>c. GotOwn(t)' /\ SlotServed(t)'
  BY <1>2, <1>5, <1>7 DEF Answers, GotOwn, Received, SlotServed, Fits, Own, ClientKept, FlagsKept
<1>d. RequestMeets(t)' /\ RequestInHand(t)' /\ RequestPosted(t)'
  <2>1. RequestMeets(t)'
    BY <1>2, <1>4, <1>5, <1>7
       DEF Answers, RequestMeets, InSem, RunnersKept, Holds, Waits, Closes, Received, Own, ClientKept
  <2>2. RequestInHand(t)' /\ RequestPosted(t)'
    BY <1>2, <1>4, <1>5, Kinds3
       DEF Answers, RequestInHand, RequestPosted, InSem, RunnersKept, Holds, Waits, Own, ClientKept, FlagsKept
  <2> QED BY <2>1, <2>2
<1>e. LeftOver(t)'
  <2>1. Fits(t)' <=> Fits(t)
    BY <1>2, <1>5 DEF Fits, Own, ClientKept
  <2>2. Replaced(t) => Replaced(t)'
    BY <1>2, <1>5, <1>7, Kinds3
       DEF Replaced, Busy, Waits, GivesUp, Closes, Received, ClientKept, FlagsKept
  <2> QED BY <1>2, <1>4, <1>5, <2>1, <2>2
             DEF Answers, LeftOver, Fresh, RunnersKept, Holds, Waits, GivesUp, ClientKept
<1> QED BY <1>6, <1>8, <1>a, <1>b, <1>c, <1>d, <1>e DEF After, Common, Answers

\* A socket has been made: what is known of the client, and that the slot holds
\* no packet of the new connection.
LEMMA ProtocolConnectStep ==
  ASSUME Before, Prompt, NEW t \in Callers, Answers(t), protocolConnect(t)
  PROVE  After(t)
<1>1. /\ t \in Threads /\ TypeOK /\ Common /\ Viewed /\ Locals /\ Single /\ on[t] = TheClient /\ Alone(t)
      /\ TheClient \in Clients
  BY DEF Before, Single, Answers, Locals
<1>2. /\ pc[t] = "started" /\ (\A r \in Runners : pc[r] # "start") /\ mutex' = None
      /\ UNCHANGED <<running, tostop, run_id, got>> /\ UNCHANGED <<Conn, Slot>>
      /\ \A type \in Types : Sem(type)' = Sem(type)
  BY DEF protocolConnect, At, flags, Conn, Slot, Sem
<1>3. /\ ~Conn /\ State = 0 /\ Connecting(t) /\ ~Stopping(t) /\ In = <<>> /\ Len(In) = 0 /\ Sem("CONNACK") = 0
      /\ ~Fits(t) /\ ~InSem(t) /\ Number \in Nat
      /\ (Slot.type = "CONNACK" => Slot.conn \in Nat /\ Slot.conn < Number + 1)
      /\ \A r \in Runners : Holds(r, {"CONNACK"}) => tostop
  <2>1. ~Conn /\ State = 0 /\ Connecting(t) /\ ~Stopping(t) /\ ~Fits(t) /\ ~InSem(t)
    BY <1>2 DEF Answers, Phase, Connecting, Stopping, Fits, InSem, Waits
  <2>2. In = <<>> /\ Sem("CONNACK") = 0
    BY <1>1, <2>1, Kinds3 DEF Common, Linked, Ended
  <2>3. Slot.type = "CONNACK" => Slot.conn \in Nat
    BY <1>1, Kinds3 DEF Viewed, Packet, Nothing, Requests
  <2> QED BY <1>1, <2>1, <2>2, <2>3 DEF Common, ConnackComes, Viewed
<1>4. \A u \in Threads : pc[u] # "hung"
  <2>1. mutex = t
    BY <1>1, <1>2 DEF Before, RunnersInv, At
  <2> QED BY <1>1, <1>2, <2>1 DEF Common, ThreadPlaces
\* What holds whichever way it goes.
<1>5. ASSUME NEW p \in {"waitfor", "disconnect"}, Moves(t, p), OthersKept(t), Clean(t)', left'["late"] = 0
      PROVE  ThreadPlaces' /\ Quiet(t) /\ RunnersKept /\ pc'[t] = p /\ (Serving' <=> Serving) /\ (Silent' <=> Silent)
             /\ (\A u \in Threads : pc'[u] # "hung")
  <2>1. pc'[t] = p /\ Quiet(t) /\ RunnersKept
    BY <1>1, <1>5, OnlyCaller DEF Moves
  <2>2. \A u \in Threads : pc'[u] # "hung"
    BY <1>4, <1>5 DEF Moves
  <2>3. \A r \in Runners : CleanRunner(r)'
    BY <1>1, <1>2, <2>1 DEF Common, ThreadPlaces, CleanRunner, RunnersKept
  <2>4. ThreadPlaces'
    BY <1>1, <1>2, <1>5, <2>1, <2>2, <2>3 DEF Common, ThreadPlaces, Quiet, RunnersKept
  <2>5. (Serving' <=> Serving) /\ (Silent' <=> Silent)
    BY <1>2, <2>1 DEF Serving, Silent, RunnersKept
  <2> QED BY <2>1, <2>2, <2>4, <2>5
<1>6. CASE Disturb("refuse") /\ Failed(t) /\ UNCHANGED <<connect_state, wants, network, answered>>
  <2>1. /\ Moves(t, "disconnect") /\ call'[t].back = "version" /\ call'[t].internal = FALSE
        /\ call'[t].version = call[t].version /\ call'[t].stop = (call[t].version = 3)
        /\ OthersKept(t) /\ pc'[t] = "disconnect"
    BY <1>1, <1>2, <1>6, FailedIs DEF Moves, OthersKept
  <2>2. Clean(t)' /\ left'["late"] = 0
    <3>1. left' = [left EXCEPT !["refuse"] = @ - 1]
      BY <1>6 DEF Disturb
    <3> QED BY <1>1, <2>1, <3>1 DEF Clean, TypeOK, Kinds, Common, ThreadPlaces
  <2>3. ThreadPlaces' /\ Quiet(t) /\ RunnersKept /\ (Serving' <=> Serving) /\ \A u \in Threads : pc'[u] # "hung"
    BY <1>5, <2>1, <2>2
  <2>4. ClientKept
    BY <1>2, <1>6 DEF ClientKept, State, In, Sock, Number, Answered, network
  <2>a. Linked' /\ ConnackComes' /\ RequestOnce'
    BY <1>1, <1>2, <2>3, <2>4, Kinds3
       DEF Common, Linked, Ended, ConnackComes, RequestOnce, ClientKept, RunnersKept, Holds
  <2>b. Alone(t)' /\ Phase(t)'
    BY <1>1, <1>3, <2>1, <2>3, <2>4
       DEF Alone, Phase, Busy, Quiet, Connecting, Waits, GivesUp, Closes, ClientKept
  <2>c. Stops(t)'
    BY <1>2, <1>3, <2>1, <2>3, <2>4 DEF Answers, Stops, Stopping, RunnersKept, Holds, ClientKept
  <2>d. GotOwn(t)' /\ SlotServed(t)' /\ ConnackMeets(t)'
    BY <1>3, <2>1, <2>4 DEF GotOwn, Received, SlotServed, Fits, ConnackMeets, Pending, ClientKept
  <2>e. ErrorMeets(t)'
    BY <1>2, <1>3, <2>1, <2>3, <2>4
       DEF Answers, ErrorMeets, Holds, RunnersKept, Connecting, Waits, GivesUp, ClientKept
  <2>f. RequestMeets(t)' /\ RequestInHand(t)' /\ RequestPosted(t)'
    BY <1>2, <1>3, <2>3, <2>4, Kinds3
       DEF Answers, RequestMeets, RequestInHand, RequestPosted, RunnersKept, Holds, ClientKept
  <2>g. LeftOver(t)'
    <3>1. Replaced(t) => Replaced(t)' /\ Fresh(t)
      BY <1>2, <1>3, <2>1, <2>3, <2>4 DEF Replaced, Fresh, Busy, Waits, GivesUp, Closes, ClientKept
    <3> QED BY <1>3, <2>3, <2>4, <3>1 DEF Answers, LeftOver, RunnersKept, Holds, ClientKept
  <2> QED BY <2>3, <2>a, <2>b, <2>c, <2>d, <2>e, <2>f, <2>g DEF After, Common, Answers
\* The caller waits for the connection or for the broker's answer.
<1>7. ASSUME NEW type \in {"CONNECT", "CONNACK"}, Wait(t, type), UNCHANGED call, left'["late"] = 0,
             State' = (IF type = "CONNECT" THEN 1 ELSE 3), Number' = Number + 1, Sock' # "closed",
             IF type = "CONNECT" THEN In' = <<>>
             ELSE Len(In') = 1 /\ In'[1].type = "CONNACK" /\ In'[1].conn = Number' /\ In' # <<>>
      PROVE  After(t)
  <2>1. Moves(t, "waitfor") /\ OthersKept(t) /\ wants'[t] = type /\ call'[t] = call[t] /\ pc'[t] = "waitfor"
    BY <1>1, <1>2, <1>7, WaitIs DEF Moves, OthersKept
  <2>2. Clean(t)'
    BY <1>1, <2>1 DEF Clean, Common, ThreadPlaces
  <2>3. ThreadPlaces' /\ Quiet(t) /\ RunnersKept /\ (Serving' <=> Serving) /\ \A u \in Threads : pc'[u] # "hung"
    BY <1>5, <1>7, <2>1, <2>2
  <2>4. Len(In') <= 1 /\ \A i \in 1..Len(In') : In'[i].type = "CONNACK" /\ In'[i].conn = Number' /\ type = "CONNACK"
    <3>1. CASE type = "CONNECT"
      BY <1>7, <3>1
    <3>2. CASE type = "CONNACK"
      <4>1. Len(In') = 1 /\ In'[1].type = "CONNACK" /\ In'[1].conn = Number'
        BY <1>7, <3>2
      <4>2. \A i \in 1..Len(In') : i = 1
        BY <4>1
      <4> QED BY <3>2, <4>1, <4>2
    <3> QED BY <3>1, <3>2
  <2>a. Linked' /\ RequestOnce'
    BY <1>2, <1>3, <1>7, <2>3, <2>4, Kinds3 DEF Linked, Ended, RequestOnce
  <2>b. ConnackComes'
    BY <1>1, <1>2, <1>3, <1>7, <2>3, <2>4, Kinds3 DEF ConnackComes, RunnersKept, Holds
  <2>c. Alone(t)' /\ Phase(t)'
    BY <1>1, <1>2, <1>3, <1>7, <2>1, <2>3, Kinds3
       DEF Alone, Phase, Busy, Quiet, Connecting, Waits, GivesUp, Closes
  <2>d. Stops(t)'
    BY <1>2, <1>3, <2>1, <2>3 DEF Answers, Stops, Stopping, RunnersKept, Holds
  <2>e. Slot # Nothing => ~Fits(t)' /\ (type = "CONNACK" => ~Own(t, Slot)')
    BY <1>2, <1>3, <1>7, <2>1 DEF Fits, Own
  <2>f. GotOwn(t)' /\ SlotServed(t)' /\ ConnackMeets(t)'
    BY <1>2, <1>3, <1>7, <2>1, <2>e, Kinds3 DEF GotOwn, Received, SlotServed, ConnackMeets, Pending
  <2>g. ErrorMeets(t)'
    BY <1>2, <1>3, <2>1, <2>3 DEF Answers, ErrorMeets, Holds, RunnersKept, Connecting, Waits, GivesUp
  <2>h. RequestMeets(t)' /\ RequestInHand(t)' /\ RequestPosted(t)'
    BY <1>2, <1>3, <2>3, <2>4, Kinds3
       DEF Answers, RequestMeets, RequestInHand, RequestPosted, RunnersKept, Holds
  <2>i. LeftOver(t)'
    <3>1. Replaced(t) => Replaced(t)' /\ Fresh(t)
      BY <1>2, <1>3, <1>7, <2>1, <2>3, Kinds3 DEF Replaced, Fresh, Pending, Busy, Waits, GivesUp, Closes
    <3> QED BY <1>2, <1>3, <2>3, <3>1 DEF Answers, LeftOver, RunnersKept, Holds
  <2> QED BY <2>3, <2>a, <2>b, <2>c, <2>d, <2>f, <2>g, <2>h, <2>i DEF After, Common, Answers
<1>8. ASSUME sock' = [sock EXCEPT ![TheClient] = "open"], conns' = [conns EXCEPT ![TheClient] = @ + 1]
      PROVE  Sock' # "closed" /\ Number' = Number + 1
  BY <1>1, <1>8 DEF TypeOK, Sock, Number
<1>9. CASE /\ connect_state' = [connect_state EXCEPT ![TheClient] = 1]
           /\ inbox' = [inbox EXCEPT ![TheClient] = <<>>] /\ Wait(t, "CONNECT") /\ UNCHANGED <<call, left>>
           /\ sock' = [sock EXCEPT ![TheClient] = "open"] /\ conns' = [conns EXCEPT ![TheClient] = @ + 1]
  <2>1. State' = 1 /\ In' = <<>> /\ left'["late"] = 0
    BY <1>1, <1>9 DEF TypeOK, State, In, Common, ThreadPlaces
  <2> QED BY <1>7, <1>8, <1>9, <2>1
<1>10. CASE /\ SendConnect(TheClient) /\ Wait(t, "CONNACK") /\ UNCHANGED call
            /\ sock' = [sock EXCEPT ![TheClient] = "open"] /\ conns' = [conns EXCEPT ![TheClient] = @ + 1]
  BY <1>7, <1>8, <1>10, SendConnectIs
<1> QED BY <1>1, <1>6, <1>9, <1>10 DEF protocolConnect

-----------------------------------------------------------------------------
(* A caller subscribes, unsubscribes or disconnects *)

\* Nobody but the one application thread calls while the client is connected.
LEMMA AppCalls ==
  ASSUME Before, NEW t \in Callers, Answers(t), NEW u \in Apps, pc[u] = "idle", Conn
  PROVE  /\ u \in Callers /\ u \in Threads /\ u \notin LostThreads /\ Answers(u) /\ ~Busy(u)
         /\ State = 0 /\ ~tostop /\ Slot = Nothing /\ \A r \in Runners : ~Holds(r, Requests)
         /\ \A i \in 1..Len(In) : In[i].type \notin Requests
<1>1. Single /\ Common
  BY DEF Before
<1>2. u \in Callers /\ u \in Threads /\ u \notin LostThreads /\ ~Busy(u)
  BY <1>1 DEF Single, Busy
<1>3. ~Busy(t)
  <2>1. t = u \/ t \in LostThreads
    BY <1>1 DEF Single
  <2>2. Busy(t) /\ t \in LostThreads => ~Conn
    BY DEF Answers, Alone, Phase
  <2> QED BY <1>2, <2>1, <2>2
<1>4. Answers(u)
  BY <1>1, <1>2, <1>3, Switch
<1>5. State = 0 /\ ~tostop
  BY <1>1, <1>2, <1>4 DEF Answers, Phase, Common, Linked
<1>6. ~InSem(u) /\ ~Fits(u) /\ ~Waits(u, Requests) /\ ~Closes(u)
  BY DEF InSem, Fits, Waits, Closes
<1>7. Slot = Nothing
  BY <1>4, <1>6 DEF Answers, LeftOver
<1> QED BY <1>2, <1>4, <1>5, <1>6, <1>7 DEF Answers, RequestInHand, RequestMeets

\* An application thread waits for an answer, or closes a session, of the client
\* that is connected.
LEMMA AppStep ==
  ASSUME Before, NEW t \in Apps, Answers(t), pc[t] = "idle", Conn,
         UNCHANGED <<mutex, flags, client, got, answered, sock, conns, left>>, OthersKept(t), Clean(t)',
         \/ /\ pc'[t] = "waitfor" /\ wants'[t] \in Requests
            /\ \/ UNCHANGED In
               \/ In' = Append(In, [type |-> wants'[t], req |-> call'[t].req])
         \/ pc'[t] = "disconnect" /\ call'[t].back = "idle" /\ UNCHANGED In
  PROVE  After(t)
<1>1. /\ t \in Callers /\ t \in Threads /\ t \notin LostThreads /\ ~Busy(t)
      /\ State = 0 /\ ~tostop /\ Slot = Nothing /\ (\A r \in Runners : ~Holds(r, Requests))
      /\ \A i \in 1..Len(In) : In[i].type \notin Requests
  BY AppCalls DEF Before, Single
<1>2. /\ Single /\ Common /\ Viewed /\ Alone(t) /\ Len(In) \in Nat
  BY DEF Before, Answers, Viewed
<1>3. /\ UNCHANGED <<running, tostop, run_id, mutex, left, got>>
      /\ UNCHANGED <<Conn, State, Slot, Sock, Number, Answered>>
      /\ \A type \in Types : Sem(type)' = Sem(type)
  BY DEF flags, client, Conn, State, Slot, Sock, Number, Answered, Sem
<1>4. Quiet(t) /\ RunnersKept /\ pc'[t] # "hung"
  BY <1>1, <1>2, OnlyCaller
<1>5. /\ Len(In') \in Nat /\ Len(In) <= Len(In') /\ Len(In') <= Len(In) + 1
      /\ \A i \in 1..Len(In) : In'[i] = In[i]
      /\ \A i \in 1..Len(In') : i \notin 1..Len(In) =>
           i = Len(In) + 1 /\ pc'[t] = "waitfor" /\ In'[i] = [type |-> wants'[t], req |-> call'[t].req]
  <2>1. CASE UNCHANGED In
    BY <1>2, <2>1
  <2>2. CASE In' = Append(In, [type |-> wants'[t], req |-> call'[t].req]) /\ pc'[t] = "waitfor"
    BY <1>2, <2>2 DEF Viewed
  <2> QED BY <2>1, <2>2
<1>6. [type |-> wants'[t], req |-> call'[t].req].type = wants'[t]
  OBVIOUS
<1>7. \A i \in 1..Len(In') : In'[i].type \in Requests =>
        i = Len(In) + 1 /\ pc'[t] = "waitfor" /\ In'[i] = [type |-> wants'[t], req |-> call'[t].req]
  BY <1>1, <1>5
<1>a. ThreadPlaces' /\ Linked' /\ RequestOnce'
  <2>1. ThreadPlaces'
    BY <1>1, <1>3, <1>4, CallerPlaces
  <2>2. Linked'
    BY <1>2, <1>3, <1>4 DEF Common, Linked, Ended
  <2>3. RequestOnce'
    BY <1>7 DEF RequestOnce
  <2> QED BY <2>1, <2>2, <2>3
<1>b. ConnackComes'
  <2>1. \A i \in 1..Len(In') : In'[i].type # "CONNACK"
    BY <1>1, <1>2, <1>5, <1>6, Kinds3 DEF Common, ConnackComes
  <2> QED BY <1>1, <1>2, <1>3, <1>4, <2>1, Kinds3 DEF Common, ConnackComes, Holds, RunnersKept
<1>c. Alone(t)' /\ Phase(t)'
  BY <1>1, <1>3, <1>4, Kinds3 DEF Alone, Phase, Busy, Quiet, Connecting, Waits, GivesUp, Closes
<1>d. Stops(t)' /\ ErrorMeets(t)' /\ ConnackMeets(t)'
  BY <1>1, <1>3 DEF Stops, ErrorMeets, ConnackMeets, Pending
<1>e. GotOwn(t)' /\ SlotServed(t)' /\ LeftOver(t)'
  BY <1>1, <1>3 DEF GotOwn, SlotServed, LeftOver, Received
<1>f. RequestMeets(t)'
  BY <1>1, <1>3, <1>4, <1>6, <1>7, Kinds3 DEF RequestMeets, InSem, Waits, Own, RunnersKept, Holds
<1>g. RequestInHand(t)' /\ RequestPosted(t)'
  <2>1. ~InSem(t)
    BY DEF InSem, Waits
  <2> QED BY <1>1, <1>3, <1>4, <2>1, Kinds3 DEF Answers, RequestInHand, RequestPosted, RunnersKept, Holds
<1> QED BY <1>a, <1>b, <1>c, <1>d, <1>e, <1>f, <1>g DEF After, Common, Answers

LEMMA RequestStep ==
  ASSUME Before, NEW t \in Callers, Answers(t), NEW u \in Apps, NEW c \in Clients, NEW type \in Requests,
         Request(u, c, type)
  PROVE  After(u)
<1>1. /\ TypeOK /\ Single /\ c = TheClient /\ pc[u] = "idle" /\ Conn /\ u \in Threads /\ TheClient \in Clients
      /\ UNCHANGED <<mutex, flags, client, got, answered, sock, conns, left>> /\ calls \in Nat
  BY DEF Before, Single, Request, At, Conn, TypeOK
<1>2. Answers(u)
  BY <1>1, AppCalls
<1>3. /\ call \in [Threads -> Call] /\ wants \in [Threads -> Types] /\ inbox \in [Clients -> Seq(Packet)]
      /\ call[u] \in Call /\ Clean(u) /\ Requests \subseteq Types
  BY <1>1, Kinds3 DEF TypeOK, Before, Common, ThreadPlaces, Single
<1>4. CASE /\ Wait(u, type)
           /\ call' = [call EXCEPT ![u] = [NoCall EXCEPT !.req = calls + 1]]
           /\ inbox' = IF sock[c] = "open"
                       THEN [inbox EXCEPT ![c] = Append(@, [type |-> type, req |-> calls + 1])]
                       ELSE inbox
  <2>1. pc'[u] = "waitfor" /\ wants'[u] = type /\ Moves(u, "waitfor")
        /\ \A v \in Threads : v # u => wants'[v] = wants[v]
    BY <1>1, <1>4, WaitIs DEF Moves
  <2>2. call'[u] = [NoCall EXCEPT !.req = calls + 1] /\ \A v \in Threads : v # u => call'[v] = call[v]
    BY <1>1, <1>3, <1>4
  <2>3. call'[u].req = calls + 1 /\ call'[u].back = "idle"
    BY <2>2 DEF NoCall
  <2>4. UNCHANGED In \/ In' = Append(In, [type |-> wants'[u], req |-> call'[u].req])
    BY <1>1, <1>3, <1>4, <2>1, <2>3 DEF In
  <2>5. OthersKept(u)
    BY <1>1, <2>1, <2>2 DEF OthersKept, Moves
  <2>6. Clean(u)'
    BY <2>1, <2>3 DEF Clean
  <2> QED BY <1>1, <1>2, <2>1, <2>4, <2>5, <2>6, AppStep
<1>5. CASE Internal(u) /\ UNCHANGED <<wants, inbox>>
  <2>1. call'[u] = [call[u] EXCEPT !.internal = TRUE, !.stop = TRUE, !.back = "idle"]
        /\ \A v \in Threads : v # u => call'[v] = call[v]
    BY <1>1, <1>3, <1>5 DEF Internal
  <2>2. call'[u].stop /\ call'[u].back = "idle"
    BY <1>3, <2>1 DEF Call
  <2>3. Moves(u, "disconnect") /\ pc'[u] = "disconnect"
    BY <1>1, <1>5, MovesIs DEF Internal, Moves
  <2>4. OthersKept(u) /\ Clean(u)' /\ UNCHANGED In
    BY <1>1, <1>5, <2>1, <2>2, <2>3 DEF OthersKept, Moves, Clean, In
  <2> QED BY <1>1, <1>2, <2>2, <2>3, <2>4, AppStep
<1> QED BY <1>4, <1>5 DEF Request

LEMMA DisconnectStep ==
  ASSUME Before, NEW t \in Callers, Answers(t), NEW u \in Apps, NEW c \in Clients, disconnect(u, c)
  PROVE  After(u)
<1>1. /\ TypeOK /\ Single /\ c = TheClient /\ pc[u] = "idle" /\ Conn /\ u \in Threads
      /\ UNCHANGED <<mutex, flags, client, got, answered, sock, conns, left>> /\ UNCHANGED In
  BY DEF Before, Single, disconnect, At, Conn, In, network
<1>2. Answers(u) /\ call \in [Threads -> Call]
  BY <1>1, AppCalls DEF TypeOK
<1>3. call'[u] = [NoCall EXCEPT !.stop = TRUE] /\ \A v \in Threads : v # u => call'[v] = call[v]
  BY <1>1, <1>2 DEF disconnect
<1>4. call'[u].stop /\ call'[u].back = "idle"
  BY <1>3 DEF NoCall
<1>5. Moves(u, "disconnect") /\ pc'[u] = "disconnect" /\ UNCHANGED wants
  BY <1>1, MovesIs DEF disconnect, Moves
<1>6. OthersKept(u) /\ Clean(u)'
  BY <1>1, <1>3, <1>4, <1>5 DEF OthersKept, Moves, Clean
<1> QED BY <1>1, <1>2, <1>4, <1>5, <1>6, AppStep

LEMMA AnswerStep ==
  ASSUME Before, NEW t \in Callers, Answers(t), NEW type \in Requests, Answer(t, type)
  PROVE  After(t)
<1>1. /\ t \in Threads /\ TypeOK /\ Common /\ Viewed /\ Locals /\ Single /\ on[t] = TheClient /\ Alone(t)
      /\ TheClient \in Clients /\ call \in [Threads -> Call]
  BY DEF Before, Single, Answers, TypeOK
<1>2. /\ pc[t] = "returned" /\ wants[t] \in Requests /\ wants[t] = type
      /\ UNCHANGED <<running, tostop, run_id, mutex, left, got, wants>>
      /\ UNCHANGED <<Conn, State, In, Sock, Number, Answered>>
      /\ \A ty \in Types : Sem(ty)' = Sem(ty)
  BY DEF Answer, At, flags, bounds, network, Conn, State, In, Sock, Number, Answered, Sem
<1>3. /\ Waits(t, Requests) /\ ~Connecting(t) /\ ~InSem(t) /\ ~Stopping(t) /\ State = 0 /\ t \notin LostThreads
      /\ \A r \in Runners : ~(Holds(r, {"error"}) /\ ~tostop /\ ~Conn)
  <2>1. Waits(t, Requests) /\ ~Connecting(t) /\ ~InSem(t) /\ ~Stopping(t)
    BY <1>2, Kinds3 DEF Waits, Connecting, InSem, Stopping
  <2> QED BY <1>2, <2>1 DEF Answers, Phase, Alone, Busy, ErrorMeets
<1>4. (Slot' = Nothing \/ (Slot' = Slot /\ ~Received(t))) /\ Nothing.type # "CONNACK"
  BY <1>1, <1>2, Kinds3 DEF Answer, TypeOK, Slot, Received
<1>5. ASSUME OthersKept(t), Clean(t)', pc'[t] # "hung"
      PROVE  /\ Quiet(t) /\ RunnersKept /\ Common' /\ (Serving' <=> Serving) /\ (Gone' <=> Gone)
             /\ (Silent' <=> Silent) /\ ~Pending'
  <2>1. Quiet(t) /\ RunnersKept
    BY <1>1, <1>5, OnlyCaller
  <2>2. (Serving' <=> Serving) /\ (Gone' <=> Gone) /\ (Silent' <=> Silent) /\ ~Pending'
    BY <1>2, <1>3, <2>1 DEF Serving, Gone, Silent, Pending, RunnersKept
  <2>3. ThreadPlaces'
    BY <1>2, <1>5, <2>1, CallerPlaces
  <2>4. Linked' /\ RequestOnce'
    BY <1>1, <1>2, <1>5, <2>1 DEF Common, Linked, Ended, RequestOnce, RunnersKept, Quiet, Busy, Threads
  <2>5. ConnackComes'
    BY <1>1, <1>2, <1>3, <1>4, <2>1, Kinds3 DEF Common, ConnackComes, Holds, RunnersKept
  <2> QED BY <2>1, <2>2, <2>3, <2>4, <2>5 DEF Common
<1>6. CASE /\ got[t] \in Packet /\ slot' = [slot EXCEPT ![on[t]] = Nothing]
           /\ Go(t, End(t)) /\ UNCHANGED call
  <2>1. pc'[t] \in {"idle", "none"} /\ OthersKept(t) /\ UNCHANGED call
    BY <1>1, <1>2, <1>6, MovesIs DEF Moves, OthersKept, End
  <2>2. Clean(t)'
    BY <1>1, <2>1 DEF Common, ThreadPlaces, Clean
  <2>3. Quiet(t) /\ RunnersKept /\ Common' /\ ~Pending'
    BY <1>5, <2>1, <2>2
  <2>4. Slot' = Nothing
    BY <1>1, <1>6 DEF Slot, TypeOK
  <2>5. Received(t) /\ \A i \in 1..Len(In) : In[i].type \notin Requests
    BY <1>2, <1>3, <1>6 DEF Answers, RequestMeets, Received
  <2>a. Alone(t)' /\ Phase(t)'
    BY <1>2, <1>3, <2>1, <2>3 DEF Alone, Phase, Busy, Quiet, Connecting, Waits, GivesUp, Closes
  <2>b. Stops(t)'
    BY <1>2, <1>3, <2>3 DEF Answers, Stops, Stopping, RunnersKept, Holds
  <2>c. GotOwn(t)' /\ SlotServed(t)' /\ LeftOver(t)' /\ ConnackMeets(t)'
    BY <2>1, <2>3, <2>4 DEF GotOwn, Received, SlotServed, LeftOver, ConnackMeets
  <2>d. ErrorMeets(t)'
    BY <1>2, <1>3, <2>3 DEF ErrorMeets, Holds, RunnersKept
  <2>e. RequestMeets(t)' /\ RequestInHand(t)' /\ RequestPosted(t)'
    BY <1>2, <1>3, <2>3, <2>5, Kinds3
       DEF Answers, RequestMeets, RequestInHand, RequestPosted, RunnersKept, Holds
  <2> QED BY <2>3, <2>a, <2>b, <2>c, <2>d, <2>e DEF After, Answers
<1>7. CASE got[t] \notin Packet /\ Internal(t) /\ UNCHANGED slot
  <2>1. /\ call'[t].stop /\ call'[t].back = "idle" /\ call'[t].internal /\ call'[t].req = call[t].req
        /\ \A u \in Threads : u # t => call'[u] = call[u]
    <3>1. call'[t] = [call[t] EXCEPT !.internal = TRUE, !.stop = TRUE, !.back = "idle"]
          /\ \A v \in Threads : v # t => call'[v] = call[v]
      BY <1>1, <1>7 DEF Internal
    <3> QED BY <1>1, <3>1 DEF Call
  <2>2. Moves(t, "disconnect") /\ pc'[t] = "disconnect" /\ OthersKept(t)
    BY <1>1, <1>2, <1>7, <2>1, MovesIs DEF Internal, Moves, OthersKept
  <2>3. Clean(t)'
    BY <2>1, <2>2 DEF Clean
  <2>4. Quiet(t) /\ RunnersKept /\ Common' /\ (Serving' <=> Serving) /\ (Gone' <=> Gone) /\ (Silent' <=> Silent) /\ ~Pending'
    BY <1>5, <2>2, <2>3
  <2>5. Slot' = Slot /\ ~Received(t)
    BY <1>7 DEF Slot, Received
  <2>a. Alone(t)' /\ Phase(t)'
    BY <1>2, <1>3, <2>1, <2>2, <2>4 DEF Alone, Phase, Busy, Quiet, Connecting, Waits, GivesUp, Closes
  <2>b. Stops(t)'
    BY <1>2, <1>3, <2>4 DEF Answers, Stops, Stopping, RunnersKept, Holds
  <2>c. GotOwn(t)' /\ SlotServed(t)' /\ ConnackMeets(t)'
    BY <2>2, <2>4 DEF GotOwn, Received, SlotServed, Fits, ConnackMeets
  <2>d. ErrorMeets(t)'
    BY <1>2, <1>3, <2>4 DEF ErrorMeets, Holds, RunnersKept
  <2>e. RequestMeets(t)'
    BY <1>2, <1>3, <2>1, <2>2, <2>4, <2>5
       DEF Answers, RequestMeets, RunnersKept, Holds, Own, Closes, Received
  <2>f. RequestInHand(t)' /\ RequestPosted(t)'
    BY <1>2, <1>3, <2>4, Kinds3 DEF Answers, RequestInHand, RequestPosted, RunnersKept, Holds
  <2>g. LeftOver(t)'
    <3>1. Slot # Nothing => ~Fits(t)
      BY <1>1, <1>2, <2>5 DEF Fits, Received, Viewed
    <3>2. Replaced(t) => Replaced(t)'
      BY <1>2, <1>3, <2>1, <2>2, <2>4 DEF Replaced, Busy, Waits, GivesUp, Closes
    <3> QED BY <1>2, <2>1, <2>2, <2>4, <2>5, <3>1, <3>2
               DEF Answers, LeftOver, Fresh, RunnersKept, Holds, Waits, GivesUp
  <2> QED BY <2>4, <2>a, <2>b, <2>c, <2>d, <2>e, <2>f, <2>g DEF After, Answers
<1> QED BY <1>6, <1>7 DEF Answer

\* A call returns: where to, and whom connectionLost gets.
LEMMA LeaveIs ==
  ASSUME Before, NEW t \in Threads, NEW was, Leave(t, was), pc[t] # "none"
  PROVE  /\ pc'[t] = CASE call[t].back = "idle" -> End(t)
                       [] call[t].back = "version" -> "version"
                       [] call[t].back = "run" -> "recheck"
         /\ \A u \in Threads : u # t =>
              pc'[u] = pc[u] \/ (u \in LostThreads /\ pc[u] = "none" /\ pc'[u] = "begin")
<1> DEFINE back == CASE call[t].back = "idle" -> End(t)
                     [] call[t].back = "version" -> "version"
                     [] call[t].back = "run" -> "recheck"
<1>1. pc \in [Threads -> Places] /\ \A l \in LostThreads : l \in Threads
  BY DEF Before, TypeOK, Single
<1>2. \/ \E l \in LostThreads : pc[l] = "none" /\ pc' = [pc EXCEPT ![t] = back, ![l] = "begin"]
      \/ Go(t, back)
  BY DEF Leave, At
<1> HIDE DEF back
<1>3. CASE Go(t, back)
  BY <1>1, <1>3 DEF Go, back
<1>4. ASSUME NEW l \in LostThreads, pc[l] = "none", pc' = [pc EXCEPT ![t] = back, ![l] = "begin"]
      PROVE  pc'[t] = back /\ \A u \in Threads : u # t =>
               pc'[u] = pc[u] \/ (u \in LostThreads /\ pc[u] = "none" /\ pc'[u] = "begin")
  <2>1. \A u \in Threads : pc'[u] = IF u = l THEN "begin" ELSE IF u = t THEN back ELSE pc[u]
    BY <1>1, <1>4
  <2> QED BY <1>4, <2>1
<1> QED BY <1>2, <1>3, <1>4 DEF back

\* The session is closed.
Closed == /\ ~Conn' /\ State' = 0 /\ In' = <<>> /\ Sock' = "closed" /\ (\A type \in Types : Sem(type)' = 0)
          /\ UNCHANGED <<Slot, Number>>

LEMMA ExitStep ==
  ASSUME Before, NEW t \in Callers, NEW was, Answers(t), pc[t] \in {"disconnect", "draining"}, Free,
         Exit(t, was), Closed, UNCHANGED <<running, run_id, wants, got, mutex, left>>
  PROVE  After(t)
<1>1. /\ t \in Threads /\ TypeOK /\ Common /\ Viewed /\ Locals /\ Single /\ Alone(t) /\ Clean(t)
      /\ call \in [Threads -> Call] /\ call[t] \in Call /\ \A r \in Runners : r # t
  BY DEF Before, Single, Answers, TypeOK, Common, ThreadPlaces
<1>2. (\A r \in Runners : pc[r] # "start") /\ (running \/ \A r \in Runners : pc[r] = "none")
  BY DEF Before, RunnersInv, Free, At
<1>3. \A c \in Clients : connect_state'[c] <= 0 /\ ~connected'[c]
  BY <1>1 DEF Closed, Conn, State, Single
<1>4. ~InSem(t) /\ ~Fits(t) /\ ~Stopping(t) /\ ~Received(t) /\ ~Waits(t, {"CONNECT", "CONNACK"}) /\ ~Waits(t, Requests)
  BY DEF InSem, Fits, Stopping, Received, Waits
<1>5. \A u \in Threads : pc[u] # "hung"
  BY <1>1 DEF Common, ThreadPlaces, Free, Single
<1>6. ASSUME RunnersKept, Quiet(t), Clean(t)', pc'[t] # "hung", tostop' => running,
             \A r \in Runners : Holds(r, {"CONNACK"}) => tostop'
      PROVE  Common' /\ (\A r \in Runners : \A types : Holds(r, types)' <=> Holds(r, types)) /\ ~Pending'
             /\ RequestMeets(t)' /\ RequestPosted(t)'
  <2>1. \A r \in Runners : CleanRunner(r)'
    BY <1>1, <1>6 DEF Common, ThreadPlaces, CleanRunner, RunnersKept
  <2>2. \A u \in Threads : pc'[u] # "hung"
    BY <1>1, <1>5, <1>6 DEF RunnersKept, Quiet, Busy, Threads
  <2>3. ThreadPlaces'
    BY <1>1, <1>6, <2>1, <2>2 DEF Common, ThreadPlaces, Quiet, RunnersKept
  <2>4. Linked'
    BY <2>2 DEF Linked, Ended, Closed
  <2>5. Len(In') = 0
    BY DEF Closed
  <2>6. \A r \in Runners : \A types : Holds(r, types)' <=> Holds(r, types)
    BY <1>6 DEF RunnersKept, Holds
  <2>7. RequestOnce' /\ RequestMeets(t)'
    BY <2>5 DEF RequestOnce, RequestMeets
  <2>8. ConnackComes'
    BY <1>1, <1>6, <2>5, <2>6, Kinds3 DEF Common, ConnackComes, Closed
  <2>9. ~Pending'
    BY DEF Pending, Closed
  <2>10. RequestPosted(t)'
    BY Kinds3 DEF RequestPosted, Closed
  <2> QED BY <2>3, <2>4, <2>6, <2>7, <2>8, <2>9, <2>10 DEF Common
<1> DEFINE stops == /\ call[t].stop /\ running /\ ~tostop
                    /\ \A c \in Clients : connect_state'[c] <= 0 /\ ~connected'[c]
<1>7. /\ tostop' = (tostop \/ stops) /\ (stops <=> call[t].stop /\ running /\ ~tostop) /\ run_id # t
      /\ (tostop => running) /\ tostop \in BOOLEAN
  BY <1>1, <1>3 DEF Exit, Viewed, Common, ThreadPlaces, Single
<1>8. CASE stops
  <2>1. tostop' /\ running /\ call[t].stop /\ Go(t, "stopping") /\ call' = [call EXCEPT ![t].was = was] /\ tostop'= TRUE
    BY <1>7, <1>8 DEF Exit
  <2>2. /\ call'[t].stop = call[t].stop /\ call'[t].back = call[t].back /\ call'[t].internal = call[t].internal
        /\ call'[t].version = call[t].version /\ \A u \in Threads : u # t => call'[u] = call[u]
    <3>1. call'[t] = [call[t] EXCEPT !.was = was] /\ \A u \in Threads : u # t => call'[u] = call[u]
      BY <1>1, <2>1
    <3> QED BY <1>1, <3>1 DEF Call
  <2>3. OthersKept(t) /\ pc'[t] = "stopping"
    BY <1>1, <2>1, <2>2, MovesIs DEF OthersKept, Moves
  <2>4. Clean(t)'
    BY <1>1, <2>1, <2>2, <2>3 DEF Clean
  <2>5. /\ RunnersKept /\ Quiet(t) /\ Common' /\ ~Pending' /\ RequestMeets(t)' /\ RequestPosted(t)'
        /\ \A r \in Runners : \A types : Holds(r, types)' <=> Holds(r, types)
    <3>1. RunnersKept /\ Quiet(t)
      BY <1>1, <2>3, OnlyCaller
    <3> QED BY <1>6, <2>1, <2>3, <2>4, <3>1
  <2>a. Alone(t)' /\ Phase(t)'
    BY <1>1, <1>4, <2>2, <2>3, <2>5
       DEF Alone, Phase, Busy, Quiet, Connecting, Waits, GivesUp, Closes, Closed
  <2>b. Stops(t)' /\ ErrorMeets(t)' /\ RequestInHand(t)'
    BY <2>1, <2>3 DEF Stops, Stopping, ErrorMeets, RequestInHand
  <2>c. GotOwn(t)' /\ SlotServed(t)' /\ ConnackMeets(t)'
    BY <2>3, <2>5 DEF GotOwn, Received, SlotServed, Fits, ConnackMeets
  <2>d. LeftOver(t)'
    <3>1. Replaced(t)'
      BY <2>1, <2>3 DEF Replaced, Busy, Waits, GivesUp, Closes
    <3>2. ~Fresh(t)'
      BY <2>3 DEF Fresh, Waits, GivesUp
    <3> QED BY <1>4, <2>5, <3>1, <3>2 DEF Answers, LeftOver, Closed, RunnersKept
  <2> QED BY <2>5, <2>a, <2>b, <2>c, <2>d DEF After, Answers
<1>9. CASE ~stops
  <2>1. /\ tostop' = tostop /\ Leave(t, was) /\ UNCHANGED call
        /\ ~call[t].stop \/ ~running \/ tostop
    BY <1>7, <1>9 DEF Exit
  <2>2. /\ pc'[t] = CASE call[t].back = "idle" -> End(t)
                      [] call[t].back = "version" -> "version"
                      [] call[t].back = "run" -> "recheck"
        /\ \A u \in Threads : u # t =>
              pc'[u] = pc[u] \/ (u \in LostThreads /\ pc[u] = "none" /\ pc'[u] = "begin")
    BY <1>1, <2>1, LeaveIs
  <2>3. /\ call[t].back \in {"idle", "version"} /\ pc'[t] \in {"idle", "none", "version"}
        /\ call[t].back = "idle" => pc'[t] # "version"
        /\ call[t].back = "version" => pc'[t] = "version"
    BY <1>1, <2>2 DEF Locals, Clean, End
  <2>4. RunnersKept /\ Quiet(t) /\ Clean(t)'
    <3>1. RunnersKept
      BY <1>1, <2>1, <2>2 DEF Single, RunnersKept
    <3>2. Quiet(t)
      BY <1>1, <2>1, <2>2 DEF Single, Common, ThreadPlaces, Quiet, Alone, Busy, Clean
    <3>3. Clean(t)'
      BY <1>1, <2>1, <2>3 DEF Clean
    <3> QED BY <3>1, <3>2, <3>3
  \* Nothing of the session is under way if the background thread goes on.
  <2>5. /\ running /\ ~tostop => GivesUp(t) /\ call[t].version = 4
        /\ \A r \in Runners : pc[r] # "none" => running
        /\ GivesUp(t) => ~Conn
    <3>1. running /\ ~tostop => GivesUp(t) /\ call[t].version = 4
      BY <1>1, <2>1 DEF Clean, GivesUp, Locals
    <3>2. GivesUp(t) => ~Conn
      BY DEF Answers, Phase, GivesUp, Connecting
    <3> QED BY <1>2, <3>1, <3>2
  <2>6. \A r \in Runners : Holds(r, {"CONNACK"}) => tostop
    <3> SUFFICES ASSUME NEW r \in Runners, Holds(r, {"CONNACK"}), ~tostop PROVE FALSE
      OBVIOUS
    <3>1. ~Silent /\ pc[r] # "none" /\ Pending
      BY <1>1 DEF Holds, Silent, Pending, Common, ConnackComes
    <3>2. GivesUp(t) /\ call[t].version = 4
      BY <2>5, <3>1
    <3> QED BY <3>1, <3>2 DEF Answers, ConnackMeets, GivesUp
  <2>7. /\ Common' /\ ~Pending' /\ RequestMeets(t)' /\ RequestPosted(t)'
        /\ \A r \in Runners : \A types : Holds(r, types)' <=> Holds(r, types)
    BY <1>6, <1>7, <2>1, <2>3, <2>4, <2>6
  <2>8. (Serving' <=> Serving) /\ (Gone' <=> Gone)
    BY <2>1, <2>4 DEF Serving, Gone, RunnersKept
  <2>9. tostop => \A r \in Runners : pc[r] # "disconnect"
    <3> SUFFICES ASSUME tostop, NEW r \in Runners, pc[r] = "disconnect" PROVE FALSE
      OBVIOUS
    <3>1. PICK s \in Runners : pc[s] \in {"recheck", "callback"}
      BY <1>4 DEF Answers, Stops
    <3> QED BY <3>1 DEF Before, RunnersInv, OneRunner, At
  <2>10. \A r \in Runners : pc[r] # "disconnect"
    BY <1>4, <2>5, <2>9 DEF Answers, Stops
  <2>a. Alone(t)' /\ Phase(t)'
    BY <1>1, <1>4, <2>1, <2>3, <2>4
       DEF Alone, Phase, Busy, Quiet, Connecting, Waits, GivesUp, Closes, Closed
  <2>b. Stops(t)'
    <3>1. \A r \in Runners : pc[r] = "callback" \/ Holds(r, {"PUBLISH"}) => tostop
      BY <2>5 DEF Answers, Stops, Stopping, Holds
    <3>2. tostop => \E r \in Runners : pc[r] \in {"recheck", "callback"}
      BY <1>4 DEF Answers, Stops
    <3> QED BY <2>1, <2>4, <2>7, <2>10, <3>1, <3>2 DEF Stops, RunnersKept
  <2>c. GotOwn(t)' /\ SlotServed(t)' /\ ConnackMeets(t)'
    BY <2>3, <2>7 DEF GotOwn, Received, SlotServed, Fits, ConnackMeets
  <2>d. ErrorMeets(t)' /\ RequestInHand(t)'
    <3>1. \A r \in Runners : \A types : Holds(r, types) => running
      BY <2>5 DEF Holds
    <3>2. ErrorMeets(t)'
      BY <2>1, <2>3, <2>5, <2>7, <3>1 DEF ErrorMeets, Connecting, GivesUp
    <3>3. RequestInHand(t)'
      BY <2>1, <2>5, <2>7, <3>1 DEF Answers, RequestInHand
    <3> QED BY <3>2, <3>3
  <2>e. LeftOver(t)'
    <3> SUFFICES ASSUME Slot # Nothing
                 PROVE  /\ Replaced(t)'
                        /\ \A r \in Runners : /\ pc'[r] # "callback" /\ ~Holds(r, {"PUBLISH"})'
                                              /\ Fresh(t)' => ~Holds(r, {"error"})'
      BY DEF LeftOver, Closed
    <3>1. /\ ~Conn /\ Replaced(t)
          /\ \A r \in Runners : /\ pc[r] # "callback" /\ ~Holds(r, {"PUBLISH"})
                                /\ Fresh(t) => ~Holds(r, {"error"})
      BY <1>4 DEF Answers, LeftOver
    <3>2. pc[t] = "disconnect"
      BY <3>1 DEF Replaced
    <3>3. CASE call[t].back = "idle"
      <4>1. Gone /\ pc'[t] \in {"idle", "none"}
        BY <2>3, <3>1, <3>2, <3>3 DEF Replaced, Closes
      <4>2. Replaced(t)' /\ ~Fresh(t)'
        BY <2>8, <4>1 DEF Replaced, Fresh, Waits, GivesUp, Closes
      <4> QED BY <2>4, <2>7, <3>1, <4>2 DEF RunnersKept
    <3>4. CASE call[t].back = "version"
      <4>1. Serving /\ GivesUp(t) /\ running /\ ~tostop
        BY <1>2, <3>1, <3>2, <3>4 DEF Replaced, GivesUp, Serving
      <4>2. Fresh(t) /\ call[t].version = 4
        BY <2>5, <4>1 DEF Fresh
      <4>3. Replaced(t)'
        BY <2>1, <2>3, <2>8, <3>4, <4>1, <4>2 DEF Replaced, Busy, Waits, GivesUp, Closes
      <4> QED BY <2>4, <2>7, <3>1, <4>2, <4>3 DEF RunnersKept
    <3> QED BY <2>3, <3>3, <3>4
  <2> QED BY <2>7, <2>a, <2>b, <2>c, <2>d, <2>e DEF After, Answers
<1> QED BY <1>8, <1>9

LEMMA CloseIs ==
  ASSUME Before, Close(TheClient), UNCHANGED <<slot, conns>>
  PROVE  Closed
BY DEF Before, Single, TypeOK, Close, Closed, Conn, State, In, Sock, Sem, Slot, Number

LEMMA EndedIsClosed ==
  ASSUME Before, Ended, UNCHANGED <<connected, connect_state, sems, sock, inbox, slot, conns>>
  PROVE  Closed
<1>1. In = <<>> /\ (\A type \in Types : Sem(type) = 0) /\ Sock = "closed"
  BY DEF Before, Common, Linked
<1> QED BY <1>1 DEF Ended, Closed, Conn, State, In, Sock, Sem, Slot, Number

LEMMA Disconnect1Step ==
  ASSUME Before, NEW t \in Callers, Answers(t), disconnect1(t)
  PROVE  After(t)
<1>1. /\ on[t] = TheClient /\ pc[t] = "disconnect" /\ Free /\ UNCHANGED <<running, run_id, wants, got, mutex, left>>
      /\ UNCHANGED <<slot, conns>>
  BY DEF Before, Single, disconnect1, At, bounds
<1>2. CASE Ended /\ UNCHANGED <<connected, connect_state, sems, sock, inbox>> /\ Exit(t, FALSE)
  BY <1>1, <1>2, EndedIsClosed, ExitStep
<1>3. CASE Close(TheClient) /\ Exit(t, connected[TheClient])
  BY <1>1, <1>3, CloseIs, ExitStep
<1> QED BY <1>1, <1>2, <1>3 DEF disconnect1, Ended, Conn, State

LEMMA DrainStep ==
  ASSUME Before, NEW t \in Callers, Answers(t), drain(t)
  PROVE  After(t)
<1>1. /\ on[t] = TheClient /\ Free /\ UNCHANGED <<running, run_id, wants, got, mutex, left>>
      /\ UNCHANGED <<slot, conns>> /\ t \in Threads /\ TypeOK /\ Common /\ Single /\ Viewed /\ Locals /\ Alone(t)
  BY DEF Before, Single, drain, bounds, Answers
<1>2. CASE pc[t] = "draining" /\ Close(TheClient) /\ Exit(t, TRUE)
  BY <1>1, <1>2, CloseIs, ExitStep
<1>3. CASE /\ pc[t] = "disconnect" /\ call[t].back = "idle" /\ ~call[t].internal /\ Conn
           /\ connect_state' = [connect_state EXCEPT ![TheClient] = -2]
           /\ Go(t, "draining")
           /\ UNCHANGED <<tostop, connected, sems, sock, inbox, on, call>>
  <2>1. /\ State' = -2 /\ UNCHANGED <<running, tostop, run_id, mutex, left, Conn, Slot, In, Sock, Number, Answered>>
        /\ \A type \in Types : Sem(type)' = Sem(type)
    BY <1>1, <1>3 DEF drain, TypeOK, Single, State, Conn, Slot, In, Sock, Number, Answered, Sem
  <2>2. OthersKept(t) /\ pc'[t] = "draining" /\ UNCHANGED <<wants, got, call>>
    BY <1>1, <1>3, MovesIs DEF Moves, OthersKept
  <2>3. /\ Closes(t) /\ State = 0 /\ ~InSem(t) /\ ~Fits(t) /\ ~Received(t) /\ ~tostop
        /\ ~GivesUp(t) /\ ~Waits(t, Requests) /\ ~Connecting(t)
    BY <1>1, <1>3
       DEF Closes, InSem, Fits, Received, Answers, Phase, Waits, Common, Linked, GivesUp, Connecting
  <2>4. Slot = Nothing /\ (\A r \in Runners : ~Holds(r, Requests)) /\ ~Pending /\ ~Pending'
        /\ \A i \in 1..Len(In) : In[i].type \notin Requests
    BY <1>3, <2>1, <2>3 DEF Answers, LeftOver, RequestInHand, RequestMeets, Pending, Waits
  <2>5. Clean(t)' /\ Quiet(t) /\ RunnersKept
    BY <1>1, <1>3, <2>2, OnlyCaller DEF Clean, Common, ThreadPlaces
  <2>6. ThreadPlaces'
    BY <1>1, <2>1, <2>2, <2>5, CallerPlaces
  <2>7. Linked' /\ RequestOnce'
    BY <1>1, <1>3, <2>1, <2>2, <2>5
       DEF Common, Linked, Ended, RequestOnce, RunnersKept, Quiet, Busy, Threads
  <2>8. ConnackComes'
    BY <1>1, <2>1, <2>3, <2>5, Kinds3 DEF Common, ConnackComes, RunnersKept, Holds
  <2>a. Alone(t)' /\ Phase(t)'
    BY <1>1, <1>3, <2>1, <2>2, <2>3, <2>5
       DEF Alone, Phase, Busy, Quiet, Connecting, Waits, GivesUp, Closes
  <2>b. Stops(t)' /\ ErrorMeets(t)' /\ ConnackMeets(t)'
    BY <1>3, <2>1, <2>3, <2>4 DEF Stops, ErrorMeets, ConnackMeets
  <2>c. GotOwn(t)' /\ SlotServed(t)' /\ LeftOver(t)'
    BY <2>1, <2>2, <2>4 DEF GotOwn, Received, SlotServed, LeftOver
  <2>d. RequestMeets(t)' /\ RequestInHand(t)' /\ RequestPosted(t)'
    BY <2>1, <2>3, <2>4, <2>5, Kinds3
       DEF Answers, RequestMeets, RequestInHand, RequestPosted, RunnersKept, Holds
  <2> QED BY <2>6, <2>7, <2>8, <2>a, <2>b, <2>c, <2>d DEF After, Common, Answers
<1> QED BY <1>1, <1>2, <1>3 DEF drain, At, Conn

LEMMA StopStep ==
  ASSUME Before, NEW t \in Callers, Answers(t), stop(t)
  PROVE  After(t)
<1>1. /\ t \in Threads /\ TypeOK /\ Common /\ Viewed /\ Locals /\ Single /\ Alone(t) /\ Clean(t)
      /\ \A r \in Runners : r # t
  BY DEF Before, Single, Answers, Common, ThreadPlaces
<1>2. /\ pc[t] = "stopping" /\ Free /\ Leave(t, call[t].was) /\ ClientKept
      /\ UNCHANGED <<running, tostop, run_id, mutex, left, wants, got, call>>
      /\ ~running \/ \E r \in Runners : pc[r] = "callback"
  BY ClientIsKept DEF stop, At, flags, bounds
<1>3. /\ ~Conn /\ State = 0 /\ In = <<>> /\ Len(In) = 0 /\ (\A type \in Types : Sem(type) = 0) /\ call[t].stop
      /\ ~InSem(t) /\ ~Fits(t) /\ ~Received(t) /\ ~Pending
  <2>1. ~Conn /\ State = 0 /\ call[t].stop
    BY <1>1, <1>2 DEF Answers, Phase, Clean
  <2> QED BY <1>1, <1>2, <2>1 DEF Common, Linked, Ended, InSem, Fits, Received, Waits, Pending
\* The background thread is in the callback, or has gone.
<1>4. (running => tostop) /\ (tostop => running) /\ (\A r \in Runners : pc[r] # "none" => running)
      /\ (tostop => \E r \in Runners : pc[r] \in {"recheck", "callback"})
      /\ \A r \in Runners : pc[r] # "disconnect"
  <2>1. (running => tostop) /\ (tostop => running)
    BY <1>1, <1>2, <1>3 DEF Answers, Stops, Common, ThreadPlaces
  <2>2. \A r \in Runners : pc[r] # "none" => running
    BY <1>2 DEF Before, RunnersInv, Free, At
  <2>3. \A r \in Runners : pc[r] # "none" => \E s \in Runners : pc[s] = "callback" /\ r = s
    BY <1>2, <2>2 DEF Before, RunnersInv, OneRunner, At
  <2> QED BY <1>2, <2>1, <2>2, <2>3
<1>5. /\ pc'[t] = CASE call[t].back = "idle" -> End(t)
                    [] call[t].back = "version" -> "version"
                    [] call[t].back = "run" -> "recheck"
      /\ \A u \in Threads : u # t =>
            pc'[u] = pc[u] \/ (u \in LostThreads /\ pc[u] = "none" /\ pc'[u] = "begin")
  BY <1>1, <1>2, LeaveIs
<1>6. /\ call[t].back \in {"idle", "version"} /\ pc'[t] \in {"idle", "none", "version"}
      /\ call[t].back = "idle" => pc'[t] # "version"
      /\ call[t].back = "version" => pc'[t] = "version" /\ call[t].version = 3
  BY <1>1, <1>2, <1>3, <1>5 DEF Locals, Clean, End
<1>7. RunnersKept /\ Quiet(t) /\ Clean(t)'
  <2>1. RunnersKept
    BY <1>1, <1>2, <1>5 DEF Single, RunnersKept
  <2>2. Quiet(t)
    BY <1>1, <1>2, <1>5 DEF Single, Common, ThreadPlaces, Quiet, Alone, Busy, Clean
  <2>3. Clean(t)'
    BY <1>1, <1>2, <1>6 DEF Clean
  <2> QED BY <2>1, <2>2, <2>3
<1>8. /\ Common' /\ (Serving' <=> Serving) /\ (Gone' <=> Gone) /\ (Pending' <=> Pending)
      /\ \A r \in Runners : \A types : Holds(r, types)' <=> Holds(r, types)
  <2>1. \A r \in Runners : \A types : Holds(r, types)' <=> Holds(r, types)
    BY <1>7 DEF RunnersKept, Holds
  <2> QED BY <1>2, <1>6, <1>7, <2>1, CallerMoves, CallerPlaces DEF Common
<1>a. Alone(t)' /\ Phase(t)'
  BY <1>1, <1>2, <1>3, <1>6, <1>7
     DEF Answers, Alone, Phase, Busy, Quiet, Connecting, Waits, GivesUp, Closes, ClientKept
<1>b. Stops(t)'
  <2>1. \A r \in Runners : pc[r] = "callback" \/ Holds(r, {"PUBLISH"}) => tostop
    BY <1>4 DEF Holds
  <2> QED BY <1>2, <1>4, <1>7, <1>8, <2>1 DEF Stops, RunnersKept
<1>c. GotOwn(t)' /\ SlotServed(t)' /\ ConnackMeets(t)'
  BY <1>3, <1>6, <1>8 DEF GotOwn, Received, SlotServed, Fits, ConnackMeets
<1>d. ErrorMeets(t)' /\ RequestMeets(t)' /\ RequestInHand(t)' /\ RequestPosted(t)'
  <2>1. \A r \in Runners : \A types : Holds(r, types)' => tostop'
    BY <1>2, <1>4, <1>8 DEF Holds
  <2>2. ErrorMeets(t)' /\ RequestInHand(t)'
    BY <2>1 DEF ErrorMeets, RequestInHand
  <2>3. RequestMeets(t)' /\ RequestPosted(t)'
    BY <1>2, <1>3, Kinds3 DEF RequestMeets, RequestPosted, ClientKept
  <2> QED BY <2>2, <2>3
<1>e. LeftOver(t)'
  <2> SUFFICES ASSUME Slot # Nothing
               PROVE  /\ Replaced(t)' /\ ~Fresh(t)'
                      /\ \A r \in Runners : pc'[r] # "callback" /\ ~Holds(r, {"PUBLISH"})'
    BY <1>2, <1>3 DEF LeftOver, ClientKept
  <2>1. /\ Replaced(t)
        /\ \A r \in Runners : pc[r] # "callback" /\ ~Holds(r, {"PUBLISH"})
    BY <1>3 DEF Answers, LeftOver
  <2>2. Gone
    BY <1>2, <1>4, <2>1 DEF Replaced
  <2>3. Replaced(t)' /\ ~Fresh(t)'
    BY <1>2, <1>6, <1>8, <2>2 DEF Replaced, Fresh, Busy, Waits, GivesUp, Closes
  <2> QED BY <1>7, <1>8, <2>1, <2>3 DEF RunnersKept
<1> QED BY <1>8, <1>a, <1>b, <1>c, <1>d, <1>e DEF After, Answers

-----------------------------------------------------------------------------
(* The background thread serves the client *)

\* A step of the background thread leaves the other threads, of which no other is
\* a background thread, and their places stay in order.
LEMMA OnlyRunner ==
  ASSUME Before, NEW r \in Runners, pc[r] # "none", OthersKept(r)
  PROVE  /\ r \in Threads
         /\ \A s \in Runners : s # r => pc[s] = "none" /\ pc'[s] = "none"
         /\ \A u \in Callers : u \in Threads /\ u # r /\ pc'[u] = pc[u] /\ wants'[u] = wants[u]
                               /\ got'[u] = got[u] /\ call'[u] = call[u] /\ Clean(u)' /\ Clean(u)
<1>1. Single /\ Common
  BY DEF Before
<1>2. \A s \in Runners : s # r => pc[s] = "none" /\ pc'[s] = "none"
  BY <1>1 DEF Before, RunnersInv, OneRunner, At, Single, OthersKept
<1>3. \A u \in Callers : u \in Threads /\ u # r /\ pc'[u] = pc[u] /\ wants'[u] = wants[u]
                         /\ got'[u] = got[u] /\ call'[u] = call[u]
  BY <1>1 DEF Single, OthersKept
<1>4. \A u \in Callers : Clean(u)' /\ Clean(u)
  BY <1>1, <1>3 DEF Common, ThreadPlaces, Clean
<1> QED BY <1>1, <1>2, <1>3, <1>4 DEF Single

LEMMA RunnerPlaces ==
  ASSUME Before, NEW r \in Runners, pc[r] # "none", OthersKept(r), CleanRunner(r)',
         pc'[r] = "hung" => mutex' = r, mutex' # mutex => mutex = None,
         left'["late"] = 0, running' => pc'[r] \notin {"none", "start"}, tostop' => running'
  PROVE  ThreadPlaces'
<1>1. Single /\ Common
  BY DEF Before
<1>2. /\ r \in Threads
      /\ \A s \in Runners : s # r => pc[s] = "none" /\ pc'[s] = "none"
      /\ \A u \in Callers : pc'[u] = pc[u] /\ Clean(u)'
  BY OnlyRunner
<1>3. \A s \in Runners : CleanRunner(s)'
  BY <1>2 DEF CleanRunner
<1>4. ASSUME NEW u \in Threads, pc'[u] = "hung" PROVE mutex' = u
  <2>1. CASE u = r
    BY <1>4, <2>1
  <2>2. CASE u # r
    <3>1. pc[u] = "hung"
      BY <1>2, <1>4, <2>2 DEF Threads
    <3>2. mutex = u /\ u # None
      BY <1>1, <3>1 DEF Common, ThreadPlaces, Single
    <3> QED BY <3>2
  <2> QED BY <2>1, <2>2
<1> QED BY <1>2, <1>3, <1>4 DEF ThreadPlaces

\* The background thread goes on and drops what it has in hand, but for the end of
\* the stream, for which it may wake a caller, and a completed TCP connection.
LEMMA RunnerGoes ==
  ASSUME Before, NEW t \in Callers, Answers(t), NEW r \in Runners, pc[r] \notin {"none", "start", "hung"},
         NEW p \in {"recheck", "cycle", "disconnect", "callback"}, pc'[r] = p, OthersKept(r),
         UNCHANGED <<running, tostop, run_id, mutex, left>>,
         UNCHANGED <<Conn, State, Slot, In, Sock, Number, Answered>>,
         Sem("SUBACK")' = Sem("SUBACK"), Sem("UNSUBACK")' = Sem("UNSUBACK"),
         Ended => \A type \in Types : Sem(type)' = Sem(type),
         \/ Sem("CONNACK")' = Sem("CONNACK")
         \/ /\ State = 3 /\ Sem("CONNACK") = 0 /\ Sem("CONNACK")' = 1
            /\ Holds(r, {"error"}) /\ ~tostop /\ ~Conn,
         tostop => p = "recheck",
         p = "disconnect" => Conn /\ call'[r].internal /\ call'[r].stop /\ call'[r].back = "run",
         p = "callback" => Holds(r, {"PUBLISH"}),
         Pending /\ Sem("CONNACK") = 0 => Pending'
  PROVE  After(t)
<1>1. /\ t \in Threads /\ TypeOK /\ Common /\ Viewed /\ Locals /\ Single /\ Alone(t)
  BY DEF Before, Single, Answers
<1>2. /\ r \in Threads
      /\ \A s \in Runners : s # r => pc[s] = "none" /\ pc'[s] = "none"
      /\ \A u \in Callers : u \in Threads /\ u # r /\ pc'[u] = pc[u] /\ wants'[u] = wants[u]
                            /\ got'[u] = got[u] /\ call'[u] = call[u] /\ Clean(u)' /\ Clean(u)
  BY OnlyRunner
<1>3. /\ pc'[t] = pc[t] /\ wants'[t] = wants[t] /\ got'[t] = got[t] /\ call'[t] = call[t]
      /\ running /\ run_id = r
  BY <1>1, <1>2 DEF Before, RunnersInv, Common, ThreadPlaces, CleanRunner
<1>4. /\ (Serving' <=> Serving) /\ ~Gone /\ ~Silent /\ (\A s \in Runners : \A types : ~Holds(s, types)')
      /\ (Pending' => Pending)
  BY <1>2, <1>3 DEF Serving, Gone, Silent, Holds, Pending
<1>5. ThreadPlaces'
  <2>1. CleanRunner(r)'
    BY <1>3 DEF CleanRunner
  <2> QED BY <1>1, <1>3, <2>1, RunnerPlaces DEF Common, ThreadPlaces
<1>6. Linked'
  <2>1. \A u \in Threads : pc'[u] = "hung" => pc[u] = "hung"
    BY <1>2 DEF Threads
  <2> QED BY <1>1, <2>1 DEF Common, Linked, Ended
<1>7. ConnackComes' /\ RequestOnce'
  BY <1>1, <1>4 DEF Common, ConnackComes, RequestOnce
<1>a. Alone(t)'
  BY <1>1, <1>2 DEF Alone, Busy, Connecting, Waits
<1>b. Phase(t)'
  BY <1>3, <1>4 DEF Answers, Phase, Busy, Connecting, Waits, GivesUp, Closes
<1>c. Stops(t)'
  BY <1>2, <1>3, <1>4 DEF Answers, Stops, Stopping
<1>d. GotOwn(t)' /\ SlotServed(t)'
  BY <1>3, <1>4 DEF Answers, GotOwn, SlotServed, Fits, Received, Own
<1>e. ConnackMeets(t)'
  <2>1. CASE Sem("CONNACK")' = Sem("CONNACK")
    BY <1>3, <1>4, <2>1 DEF Answers, ConnackMeets, Waits, GivesUp, Received, Own
  <2>2. CASE Holds(r, {"error"}) /\ ~tostop /\ ~Conn /\ State = 3
    <3>1. Pending => call[t].version = 3
      BY <2>2, <1>1 DEF Answers, ErrorMeets, Phase
    <3> QED BY <1>3, <1>4, <3>1 DEF Answers, ConnackMeets, Waits, GivesUp, Received, Own
  <2> QED BY <2>1, <2>2
<1>f. ErrorMeets(t)' /\ RequestInHand(t)'
  BY <1>4 DEF ErrorMeets, RequestInHand
<1>g. RequestMeets(t)'
  BY <1>3, <1>4 DEF Answers, RequestMeets, InSem, Waits, Own
<1>h. RequestPosted(t)'
  BY <1>3, Kinds3 DEF Answers, RequestPosted, InSem, Waits, Own
<1>i. LeftOver(t)'
  <2> SUFFICES ASSUME Slot # Nothing, ~Fits(t) PROVE ~Conn /\ Replaced(t)' /\ pc'[r] # "callback"
    BY <1>2, <1>3, <1>4 DEF LeftOver, Fits, Own
  <2>1. /\ ~Conn /\ Replaced(t)
        /\ \A s \in Runners : /\ pc[s] # "callback" /\ ~Holds(s, {"PUBLISH"})
                              /\ Fresh(t) => ~Holds(s, {"error"})
    BY DEF Answers, LeftOver
  <2>2. Waits(t, {"CONNACK"}) /\ pc[t] # "returned" => Pending' /\ Sem("CONNACK")' = 0
    BY <2>1 DEF Replaced, Fresh
  <2>3. Replaced(t)'
    BY <1>3, <1>4, <2>1, <2>2 DEF Replaced, Busy, Waits, GivesUp, Closes, Received
  <2> QED BY <2>1, <2>3
<1> QED BY <1>5, <1>6, <1>7, <1>a, <1>b, <1>c, <1>d, <1>e, <1>f, <1>g, <1>h, <1>i
           DEF After, Common, Answers

\* The background thread starts while the caller that started it sleeps.
LEMMA RunStartStep ==
  ASSUME Before, NEW t \in Callers, Answers(t), NEW r \in Runners, runStart(r)
  PROVE  After(t)
<1>1. /\ t \in Threads /\ TypeOK /\ Common /\ Viewed /\ Locals /\ Single /\ Alone(t)
  BY DEF Before, Single, Answers
<1>2. /\ pc[r] = "start" /\ running' = TRUE /\ run_id' = r /\ UNCHANGED <<tostop, mutex, left>> /\ ClientKept
      /\ Go(r, "recheck") /\ UNCHANGED <<wants, got, call>>
  BY ClientIsKept DEF runStart, At, local, bounds
<1>3. /\ r \in Threads /\ pc'[r] = "recheck" /\ OthersKept(r)
  BY <1>1, <1>2, MovesIs DEF Single, Moves, OthersKept
<1>4. /\ \A s \in Runners : s # r => pc[s] = "none" /\ pc'[s] = "none"
      /\ \A u \in Callers : u \in Threads /\ u # r /\ pc'[u] = pc[u] /\ wants'[u] = wants[u]
                            /\ got'[u] = got[u] /\ call'[u] = call[u] /\ Clean(u)' /\ Clean(u)
  BY <1>2, <1>3, OnlyRunner
<1>5. pc[t] = "started" /\ mutex = t /\ ~tostop /\ ~running
  <2>1. ~running /\ mutex # None /\ pc[mutex] = "started"
    BY <1>2 DEF Before, RunnersInv, At
  <2>2. mutex \in Threads /\ mutex \notin Runners
    BY <1>1, <2>1 DEF TypeOK, Common, ThreadPlaces, CleanRunner
  <2>3. mutex = t
    BY <1>1, <2>1, <2>2 DEF Threads, Alone, Busy
  <2> QED BY <1>1, <2>1, <2>3 DEF Common, ThreadPlaces
<1>6. /\ ~Conn /\ State = 0 /\ In = <<>> /\ Len(In) = 0 /\ (\A type \in Types : Sem(type) = 0)
      /\ ~InSem(t) /\ ~Waits(t, {"CONNACK"}) /\ ~GivesUp(t)
  <2>1. ~Conn /\ State = 0
    BY <1>5 DEF Answers, Phase
  <2> QED BY <1>1, <1>5, <2>1 DEF Common, Linked, Ended, InSem, Waits, GivesUp
<1>7. Serving' /\ Serving /\ (\A s \in Runners : \A types : ~Holds(s, types)') /\ ~Pending'
  BY <1>2, <1>3, <1>4, <1>5, <1>6 DEF Serving, Holds, Pending, ClientKept
<1>8. ThreadPlaces'
  <2>1. CleanRunner(r)'
    BY <1>2, <1>3 DEF CleanRunner
  <2> QED BY <1>1, <1>2, <1>3, <1>5, <2>1, RunnerPlaces DEF Common, ThreadPlaces
<1>9. Linked' /\ ConnackComes' /\ RequestOnce'
  <2>1. \A u \in Threads : pc'[u] # "hung"
    BY <1>1, <1>3, <1>5 DEF Common, ThreadPlaces, OthersKept
  <2> QED BY <1>1, <1>2, <1>6, <1>7, <2>1, Kinds3
             DEF Common, Linked, Ended, ConnackComes, RequestOnce, ClientKept
<1>a. Alone(t)' /\ Phase(t)'
  BY <1>1, <1>2, <1>4, <1>5, <1>6 DEF Alone, Phase, Busy, Connecting, Waits, GivesUp, Closes, ClientKept
<1>b. Stops(t)' /\ ErrorMeets(t)' /\ RequestInHand(t)' /\ ConnackMeets(t)'
  BY <1>2, <1>3, <1>4, <1>5, <1>7 DEF Stops, ErrorMeets, RequestInHand, ConnackMeets
<1>c. GotOwn(t)' /\ SlotServed(t)'
  BY <1>4, <1>5, <1>7 DEF GotOwn, Received, SlotServed
<1>d. RequestMeets(t)' /\ RequestPosted(t)'
  BY <1>2, <1>6, Kinds3 DEF RequestMeets, RequestPosted, ClientKept
<1>e. LeftOver(t)'
  <2>1. Replaced(t)'
    BY <1>4, <1>5, <1>7 DEF Replaced, Busy, Waits, GivesUp, Closes
  <2>2. \A s \in Runners : pc'[s] # "callback"
    BY <1>3, <1>4
  <2> QED BY <1>2, <1>6, <1>7, <2>1, <2>2 DEF LeftOver, ClientKept
<1> QED BY <1>8, <1>9, <1>a, <1>b, <1>c, <1>d, <1>e DEF After, Common, Answers

\* The background thread ends, as it was asked to.
LEMMA RunEndsStep ==
  ASSUME Before, NEW t \in Callers, Answers(t), NEW r \in Runners, pc[r] \in {"recheck", "cycle", "handle"},
         runEnds(r), ClientKept, UNCHANGED <<mutex, wants, call, left>>,
         \A u \in Threads : u # r => got'[u] = got[u]
  PROVE  After(t)
<1>1. /\ t \in Threads /\ TypeOK /\ Common /\ Viewed /\ Locals /\ Single /\ Alone(t)
  BY DEF Before, Single, Answers
<1>2. tostop /\ running' = FALSE /\ tostop' = FALSE /\ Go(r, "none")
  BY DEF runEnds
<1>3. /\ r \in Threads /\ pc'[r] = "none" /\ OthersKept(r)
  BY <1>1, <1>2, MovesIs DEF Single, Moves, OthersKept
<1>4. /\ \A s \in Runners : pc'[s] = "none"
      /\ \A u \in Callers : u \in Threads /\ u # r /\ pc'[u] = pc[u] /\ wants'[u] = wants[u]
                            /\ got'[u] = got[u] /\ call'[u] = call[u] /\ Clean(u)' /\ Clean(u)
  BY <1>3, OnlyRunner
<1>5. Gone' /\ Silent' /\ ~Serving /\ ~Gone /\ ~Conn /\ ~Conn' /\ (Pending' => Pending)
      /\ (\A s \in Runners : \A types : ~Holds(s, types)')
  <2>1. \A s \in Runners : \A types : ~Holds(s, types)'
    BY <1>4 DEF Holds
  <2> QED BY <1>1, <1>2, <1>4, <2>1 DEF Gone, Silent, Serving, Pending, Common, Linked, ClientKept
<1>6. ThreadPlaces'
  <2>1. CleanRunner(r)'
    BY <1>3 DEF CleanRunner
  <2> QED BY <1>1, <1>2, <1>3, <2>1, RunnerPlaces DEF Common, ThreadPlaces
<1>7. Linked' /\ ConnackComes' /\ RequestOnce'
  <2>1. \A u \in Threads : pc'[u] = "hung" => pc[u] = "hung"
    BY <1>4 DEF Threads
  <2> QED BY <1>1, <1>5, <2>1, Kinds3 DEF Common, Linked, Ended, ConnackComes, RequestOnce, ClientKept
<1>a. Alone(t)' /\ Phase(t)'
  BY <1>1, <1>4, <1>5 DEF Answers, Alone, Phase, Busy, Connecting, Waits, GivesUp, Closes, ClientKept
<1>b. Stops(t)' /\ ErrorMeets(t)' /\ RequestInHand(t)'
  BY <1>2, <1>4, <1>5 DEF Stops, ErrorMeets, RequestInHand
<1>c. ConnackMeets(t)'
  BY <1>4, <1>5 DEF Answers, ConnackMeets, Waits, GivesUp, Received, Own, ClientKept
<1>d. GotOwn(t)' /\ SlotServed(t)'
  BY <1>2, <1>4, <1>5 DEF Answers, GotOwn, Received, SlotServed, Fits, Own, ClientKept
<1>e. RequestMeets(t)' /\ RequestPosted(t)'
  BY <1>4, <1>5, Kinds3
     DEF Answers, RequestMeets, RequestPosted, InSem, Waits, Closes, Received, Own, ClientKept
<1>f. LeftOver(t)'
  <2>1. Replaced(t) => Replaced(t)'
    BY <1>2, <1>4, <1>5 DEF Replaced, Busy, Waits, GivesUp, Closes, Received, ClientKept
  <2> QED BY <1>4, <1>5, <2>1 DEF Answers, LeftOver, Fits, Own, ClientKept
<1> QED BY <1>6, <1>7, <1>a, <1>b, <1>c, <1>d, <1>e, <1>f DEF After, Common, Answers

LEMMA RunLoopStep ==
  ASSUME Before, NEW t \in Callers, Answers(t), NEW r \in Runners, runLoop(r)
  PROVE  After(t)
<1>1. /\ TypeOK /\ r \in Threads /\ ClientKept /\ UNCHANGED <<mutex, wants, got, call, left>>
  BY ClientIsKept DEF Before, Single, runLoop, local, bounds
<1>2. CASE pc[r] \in {"recheck", "cycle"} /\ runEnds(r)
  BY <1>1, <1>2, RunEndsStep
<1>3. CASE At(r, "recheck") /\ ~tostop /\ Go(r, "cycle") /\ UNCHANGED flags
  <2>1. pc[r] = "recheck" /\ pc'[r] = "cycle" /\ OthersKept(r) /\ UNCHANGED <<running, tostop, run_id>>
    BY <1>1, <1>3, MovesIs DEF At, Moves, OthersKept, flags
  <2>2. Pending => Pending'
    <3>1. \A s \in Runners : Holds(s, {"CONNACK"}) => Holds(s, {"CONNACK"})'
      BY <1>1, <2>1 DEF Before, Single, Holds, OthersKept
    <3> QED BY <1>1, <3>1 DEF Pending, ClientKept
  <2> QED BY <1>1, <1>3, <2>1, <2>2, RunnerGoes, Kinds3 DEF ClientKept
<1> QED BY <1>2, <1>3 DEF runLoop

LEMMA CallbackReturnsStep ==
  ASSUME Before, NEW t \in Callers, Answers(t), NEW r \in Runners, callbackReturns(r)
  PROVE  After(t)
<1>1. /\ TypeOK /\ r \in Threads /\ ClientKept
      /\ UNCHANGED <<running, tostop, run_id, mutex, wants, got, call, left>>
  BY ClientIsKept DEF Before, Single, callbackReturns, local, bounds, flags
<1>2. pc[r] = "callback" /\ pc'[r] = "recheck" /\ OthersKept(r)
  BY <1>1, MovesIs DEF callbackReturns, At, Moves, OthersKept
<1>3. Pending => Pending'
  <2>1. \A s \in Runners : Holds(s, {"CONNACK"}) => Holds(s, {"CONNACK"})'
    BY <1>1, <1>2 DEF Before, Single, Holds, OthersKept
  <2> QED BY <1>1, <2>1 DEF Pending, ClientKept
<1> QED BY <1>1, <1>2, <1>3, RunnerGoes, Kinds3 DEF ClientKept

\* The background thread takes what a cycle finds.
LEMMA RunCycleStep ==
  ASSUME Before, NEW t \in Callers, Answers(t), NEW r \in Runners, runCycle(r)
  PROVE  After(t)
<1>1. /\ t \in Threads /\ TypeOK /\ Common /\ Viewed /\ Locals /\ Single /\ Alone(t)
  BY DEF Before, Single, Answers
<1>2. /\ pc[r] = "cycle" /\ Go(r, "handle") /\ UNCHANGED <<running, tostop, run_id, mutex, left, wants, call>>
      /\ UNCHANGED <<Conn, State, Slot, Sock, Number, Answered>>
      /\ \A type \in Types : Sem(type)' = Sem(type)
  BY DEF runCycle, At, flags, client, bounds, Conn, State, Slot, Sock, Number, Answered, Sem
<1>0. PICK c \in Clients : \E e \in Found(c) : Take(c) /\ got' = [got EXCEPT ![r] = e]
  BY DEF runCycle
<1>3. PICK e \in Found(c) : Take(c) /\ got' = [got EXCEPT ![r] = e]
  BY <1>0
<1>4. /\ e \in Results
      /\ \/ State = 1 /\ e = Made /\ UNCHANGED In
         \/ State # 1 /\ In # <<>> /\ e = Head(In) /\ In' = Tail(In) /\ e \in Packet
         \/ State # 1 /\ In = <<>> /\ Sock = "broken" /\ e = Failure /\ UNCHANGED In
      /\ In # <<>> => Len(In) > 0 /\ Head(In) = In[1] /\ Len(Tail(In)) = Len(In) - 1
                      /\ \A i \in 1..Len(Tail(In)) : Tail(In)[i] = In[i + 1]
  BY <1>3, FoundIs
<1>5. /\ r \in Threads /\ pc'[r] = "handle" /\ OthersKept(r) /\ got'[r] = e
  BY <1>1, <1>2, <1>3, MovesIs DEF Single, Moves, OthersKept, TypeOK
<1>6. /\ \A s \in Runners : s # r => pc[s] = "none" /\ pc'[s] = "none"
      /\ \A u \in Callers : u \in Threads /\ u # r /\ pc'[u] = pc[u] /\ wants'[u] = wants[u]
                            /\ got'[u] = got[u] /\ call'[u] = call[u] /\ Clean(u)' /\ Clean(u)
  BY <1>2, <1>5, OnlyRunner
<1>7. ~Ended /\ ~tostop /\ (Conn \/ State \in {1, 3}) /\ Len(In) \in Nat
  <2>1. ~Ended
    BY <1>1, <1>4 DEF Common, Linked, Ended
  <2>2. ~tostop
    BY <1>2, <1>6, <2>1 DEF Answers, Stops, Stopping, Phase, Ended
  <2>3. Conn \/ State \in {1, 3}
    BY <1>1, <2>1, StateShows DEF Viewed
  <2> QED BY <1>1, <2>1, <2>2, <2>3 DEF Viewed
<1>8. /\ Serving' /\ Serving /\ ~Gone /\ ~Silent
      /\ \A s \in Runners : \A types : ~Holds(s, types) /\ (Holds(s, types)' <=> s = r /\ e.type \in types)
  BY <1>2, <1>5, <1>6, <1>7 DEF Serving, Gone, Silent, Holds, Before, RunnersInv
\* What is left to be read was there before, in the same order.
<1>9. \/ UNCHANGED In /\ (e.type = "error" \/ e.type = "made") /\ In = <<>>
         /\ (e.type = "error" => State # 1 /\ Sock = "broken")
      \/ /\ Len(In') = Len(In) - 1 /\ Len(In) > 0 /\ e = In[1] /\ e \in Packet /\ State # 1 /\ 1 \in 1..Len(In)
         /\ \A i \in 1..Len(In') : i + 1 \in 1..Len(In) /\ In'[i] = In[i + 1]
  <2>1. State = 1 => In = <<>>
    BY <1>1 DEF Common, ConnackComes
  <2> QED BY <1>4, <1>7, <2>1, Kinds3
<1>10. \A i \in 1..Len(In') : \E j \in 1..Len(In) : In'[i] = In[j]
  BY <1>9
\* A CONNACK is the only packet there is.
<1>11. e.type = "CONNACK" => State = 3 /\ Len(In') = 0 /\ In' = <<>> /\ e.conn = Number
  <2>1. Viewed'
    BY DEF Before
  <2>2. e.type = "CONNACK" => e = In[1] /\ 1 \in 1..Len(In) /\ Len(In') = Len(In) - 1 /\ State # 1
    BY <1>9
  <2>3. e.type = "CONNACK" => State = 3 /\ Len(In) <= 1 /\ e.conn = Number
    BY <1>1, <2>2 DEF Common, ConnackComes
  <2>4. e.type = "CONNACK" => Len(In') = 0
    BY <1>7, <2>2, <2>3
  <2> QED BY <2>1, <2>3, <2>4 DEF Viewed
<1>12. (State = 3 /\ In # <<>> => e.type = "CONNACK") /\ (State = 3 => In' = <<>>)
  <2>1. In # <<>> => e = In[1] /\ 1 \in 1..Len(In)
    BY <1>9
  <2>2. State = 3 /\ In # <<>> => e.type = "CONNACK"
    BY <1>1, <2>1 DEF Common, ConnackComes
  <2> QED BY <1>9, <1>11, <2>2
<1>13. (Pending <=> Pending') /\ (Pending => e.type = "CONNACK")
  <2>1. e.type = "CONNACK" => In # <<>>
    BY <1>9
  <2>2. \E s \in Runners : s = r
    OBVIOUS
  <2> QED BY <1>2, <1>8, <1>11, <1>12, <2>1, <2>2 DEF Pending
<1>a. ThreadPlaces' /\ Linked'
  <2>1. CleanRunner(r)'
    BY <1>1, <1>2, <1>5 DEF Common, ThreadPlaces, CleanRunner
  <2>2. ThreadPlaces'
    BY <1>1, <1>2, <1>5, <2>1, RunnerPlaces DEF Common, ThreadPlaces
  <2>3. \A u \in Threads : pc'[u] = "hung" => pc[u] = "hung"
    BY <1>5, <1>6 DEF Threads
  <2> QED BY <1>1, <1>2, <1>7, <2>2, <2>3 DEF Common, Linked, Ended
<1>b. ConnackComes' /\ RequestOnce'
  <2>1. RequestOnce'
    <3> SUFFICES ASSUME NEW i \in 1..Len(In'), NEW j \in 1..Len(In'),
                        In'[i].type \in Requests, In'[j].type \in Requests
                 PROVE  i = j
      BY DEF RequestOnce
    <3>1. CASE UNCHANGED In
      BY <1>1, <3>1 DEF Common, RequestOnce
    <3>2. CASE \A k \in 1..Len(In') : k + 1 \in 1..Len(In) /\ In'[k] = In[k + 1]
      <4>1. i + 1 = j + 1
        BY <1>1, <3>2 DEF Common, RequestOnce
      <4> QED BY <4>1
    <3> QED BY <1>9, <3>1, <3>2
  <2>2. \A s \in Runners : Holds(s, {"CONNACK"})' => State = 3 /\ In' = <<>> /\ got'[s].conn = Number
    BY <1>5, <1>8, <1>11
  <2>3. (State = 1 => In' = <<>>) /\ (State = 3 => Len(In') = 0)
    BY <1>1, <1>9, <1>12 DEF Common, ConnackComes
  <2>4. State \notin {1, 3} => \A i \in 1..Len(In') : In'[i].type # "CONNACK"
    BY <1>1, <1>10 DEF Common, ConnackComes
  <2>5. Sem("CONNACK")' = Sem("CONNACK")
    BY <1>2, Kinds3
  <2>6. ConnackComes'
    <3> HIDE <1>4, <1>9, <1>10
    <3> QED BY <1>1, <1>2, <2>2, <2>3, <2>4, <2>5 DEF Common, ConnackComes
  <2> QED BY <2>1, <2>6
<1>c. Alone(t)' /\ Phase(t)'
  BY <1>1, <1>2, <1>6, <1>8 DEF Answers, Alone, Phase, Busy, Connecting, Waits, GivesUp, Closes
<1>d. Stops(t)'
  <2>1. e.type = "PUBLISH" => Conn
    <3>1. e.type = "PUBLISH" => e = In[1] /\ 1 \in 1..Len(In) /\ State # 1
      BY <1>9
    <3> QED BY <1>1, <1>7, <3>1 DEF Common, ConnackComes
  <2> QED BY <1>2, <1>5, <1>6, <1>7, <1>8, <2>1 DEF Stops
<1>e. GotOwn(t)' /\ SlotServed(t)' /\ ConnackMeets(t)'
  <2>1. Sem("CONNACK")' = Sem("CONNACK")
    BY <1>2, Kinds3
  <2>2. ConnackMeets(t)'
    BY <1>2, <1>6, <1>8, <1>13, <2>1 DEF Answers, ConnackMeets, Waits, GivesUp, Received, Own
  <2> QED BY <1>2, <1>6, <1>7, <1>8, <2>2 DEF Answers, GotOwn, SlotServed, Received, Own
<1>f. ASSUME e.type = "error", ~Conn
      PROVE  State = 3 /\ (Waits(t, {"CONNACK"}) \/ GivesUp(t)) /\ ~Pending
  BY <1>7, <1>9, <1>13, <1>f, StateShows
<1>g. ErrorMeets(t)'
  <2>1. Waits(t, {"CONNACK"}) \/ GivesUp(t) => Connecting(t) /\ pc[t] # "version"
    BY DEF Connecting, Waits, GivesUp
  <2> QED BY <1>2, <1>6, <1>8, <1>13, <1>f, <2>1 DEF ErrorMeets, Connecting, Waits, GivesUp
<1>h. RequestMeets(t)' /\ RequestInHand(t)'
  <2>1. e.type \in Requests => /\ Conn /\ Slot = Nothing /\ InSem(t) /\ Own(t, e)
                               /\ \A i \in 1..Len(In') : In'[i].type \notin Requests
    <3> SUFFICES ASSUME e.type \in Requests
                 PROVE  /\ Conn /\ Slot = Nothing /\ InSem(t) /\ Own(t, e)
                        /\ \A i \in 1..Len(In') : In'[i].type \notin Requests
      OBVIOUS
    <3>1. /\ e = In[1] /\ 1 \in 1..Len(In) /\ State # 1
          /\ \A i \in 1..Len(In') : i + 1 \in 1..Len(In) /\ In'[i] = In[i + 1] /\ i + 1 # 1
      BY <1>7, <1>9, Kinds3
    <3>2. Slot = Nothing /\ InSem(t) /\ Own(t, e)
      BY <1>8, <3>1 DEF Answers, RequestMeets
    <3>3. Conn
      BY <1>1, <1>7, <3>1, Kinds3 DEF Common, ConnackComes
    <3>4. \A i \in 1..Len(In') : In'[i].type \notin Requests
      BY <1>1, <3>1 DEF Common, RequestOnce
    <3> QED BY <3>2, <3>3, <3>4
  <2>2. RequestMeets(t)'
    <3> SUFFICES ASSUME NEW i \in 1..Len(In'), In'[i].type \in Requests
                 PROVE  /\ \A s \in Runners : ~Holds(s, Requests)'
                        /\ Slot' = Nothing /\ wants'[t] \in Requests /\ Own(t, In[i])'
                        /\ InSem(t)'
      BY DEF RequestMeets
    <3>1. PICK j \in 1..Len(In) : In'[i] = In[j]
      BY <1>10
    <3>2. Slot = Nothing /\ wants[t] \in Requests /\ Own(t, In[j]) /\ InSem(t)
      BY <1>8, <3>1 DEF Answers, RequestMeets
    <3> QED BY <1>2, <1>6, <1>8, <2>1, <3>1, <3>2 DEF Own, InSem, Waits
  <2>3. RequestInHand(t)'
    BY <1>2, <1>5, <1>6, <1>8, <2>1 DEF RequestInHand, InSem, Waits, Own
  <2> QED BY <2>2, <2>3
<1>i. RequestPosted(t)'
  BY <1>2, <1>6, Kinds3 DEF Answers, RequestPosted, InSem, Waits, Own
<1>j. LeftOver(t)'
  <2> SUFFICES ASSUME Slot # Nothing, ~Fits(t)
               PROVE  /\ ~Conn /\ Replaced(t)' /\ e.type # "PUBLISH"
                      /\ Fresh(t) => e.type # "error"
    BY <1>2, <1>5, <1>6, <1>8 DEF LeftOver, Fits, Own, Fresh, Waits, GivesUp
  <2>1. ~Conn /\ Replaced(t)
    BY DEF Answers, LeftOver
  <2>2. Sem("CONNACK")' = Sem("CONNACK")
    BY <1>2, Kinds3
  <2>3. Replaced(t)'
    BY <1>2, <1>6, <1>8, <1>13, <2>1, <2>2 DEF Replaced, Busy, Waits, GivesUp, Closes, Received
  <2>4. e.type # "PUBLISH"
    BY <1>2, <1>7, <1>8, <1>d, <2>1 DEF Stops
  <2>5. Fresh(t) => e.type # "error"
    <3> SUFFICES ASSUME e.type = "error", Fresh(t) PROVE FALSE
      OBVIOUS
    <3>1. State = 3 /\ ~Pending
      BY <1>f, <2>1
    <3>2. pc[t] # "started" /\ ~Waits(t, {"CONNECT"}) /\ pc[t] # "version"
      BY <3>1 DEF Answers, Phase
    <3> QED BY <2>1, <3>1, <3>2 DEF Fresh, Replaced
  <2> QED BY <2>1, <2>3, <2>4, <2>5
<1> QED BY <1>a, <1>b, <1>c, <1>d, <1>e, <1>g, <1>h, <1>i, <1>j DEF After, Common, Answers

LEMMA PostIs ==
  ASSUME Before, NEW type \in Types, Post(TheClient, type)
  PROVE  \A ty \in Types : Sem(ty)' = IF ty = type THEN Sem(ty) + 1 ELSE Sem(ty)
BY DEF Before, Single, TypeOK, Post, Sem

\* The background thread hands an answer over.
LEMMA HandOver ==
  ASSUME Before, NEW t \in Callers, Answers(t), NEW r \in Runners, pc[r] = "handle", ~tostop,
         pc'[r] = "recheck", OthersKept(r), UNCHANGED <<running, tostop, run_id, mutex, left>>,
         UNCHANGED <<Conn, State, In, Sock, Number, Answered>>,
         Slot' = got[r], Post(TheClient, got[r].type),
         Holds(r, Requests) \/ (Holds(r, {"CONNACK"}) /\ Sem("CONNACK") = 0)
  PROVE  After(t)
<1>1. /\ t \in Threads /\ TypeOK /\ Common /\ Viewed /\ Locals /\ Single /\ Alone(t) /\ Slot' \in Packet \cup {Nothing}
  BY DEF Before, Single, Answers, Viewed
<1>2. /\ r \in Threads
      /\ \A s \in Runners : s # r => pc[s] = "none" /\ pc'[s] = "none"
      /\ \A u \in Callers : u \in Threads /\ u # r /\ pc'[u] = pc[u] /\ wants'[u] = wants[u]
                            /\ got'[u] = got[u] /\ call'[u] = call[u] /\ Clean(u)' /\ Clean(u)
  BY OnlyRunner
<1>3. /\ running /\ run_id = r /\ Serving /\ Serving' /\ ~Gone /\ ~Silent /\ ~Silent'
      /\ (\A s \in Runners : \A types : ~Holds(s, types)') /\ ~Stopping(t)
      /\ \A s \in Runners : pc'[s] \notin {"callback", "disconnect"}
  <2>1. running /\ run_id = r
    BY <1>1 DEF Before, RunnersInv, Common, ThreadPlaces, CleanRunner
  <2> QED BY <1>2, <2>1 DEF Serving, Gone, Silent, Holds, Stopping
<1>4. /\ got[r].type \in Types /\ Slot' # Nothing /\ got[r].type = Slot'.type
      /\ (got[r].type \in Requests <=> Holds(r, Requests)) /\ (got[r].type = "CONNACK" <=> Holds(r, {"CONNACK"}))
  BY <1>1, Kinds3 DEF Holds
<1>5. \A ty \in Types : Sem(ty)' = IF ty = got[r].type THEN Sem(ty) + 1 ELSE Sem(ty)
  BY <1>4, PostIs
\* It is the CONNACK of this connection, or the answer to the caller's request.
<1>6. Holds(r, {"CONNACK"}) =>
        /\ State = 3 /\ ~Conn /\ In = <<>> /\ Len(In) = 0 /\ Slot'.conn = Number /\ Pending
        /\ Waits(t, {"CONNACK"}) \/ GivesUp(t)
  <2>1. Holds(r, {"CONNACK"}) => State = 3 /\ In = <<>> /\ Len(In) = 0 /\ Slot'.conn = Number
    BY <1>1 DEF Common, ConnackComes
  <2> QED BY <1>1, <2>1, StateShows DEF Common, Linked, Pending
<1>7. Holds(r, {"CONNACK"}) =>
        ~Received(t) /\ (call[t].version = 3 \/ (pc[t] \in {"waitfor", "sem"} /\ Sem("CONNACK") = 0))
  BY <1>3, <1>6 DEF Answers, ConnackMeets
<1>8. Holds(r, Requests) => /\ Conn /\ Slot = Nothing /\ InSem(t) /\ Own(t, Slot') /\ wants[t] \in Requests
                            /\ wants[t] = Slot'.type /\ State = 0
                            /\ \A i \in 1..Len(In) : In[i].type \notin Requests
  <2> SUFFICES ASSUME Holds(r, Requests)
               PROVE  /\ Conn /\ Slot = Nothing /\ InSem(t) /\ Own(t, Slot') /\ wants[t] \in Requests
                      /\ wants[t] = Slot'.type /\ State = 0
                      /\ \A i \in 1..Len(In) : In[i].type \notin Requests
    OBVIOUS
  <2>1. Conn /\ Slot = Nothing /\ InSem(t) /\ Own(t, Slot')
    BY DEF Answers, RequestInHand
  <2>2. wants[t] \in Requests /\ State = 0
    BY <2>1 DEF InSem, Waits, Answers, Phase
  <2>3. wants[t] # "CONNACK" /\ Slot' = [type |-> wants[t], req |-> call[t].req]
    BY <2>1, <2>2, Kinds3 DEF Own
  <2>4. wants[t] = Slot'.type
    BY <2>3
  <2>5. \A i \in 1..Len(In) : In[i].type \notin Requests
    BY DEF Answers, RequestMeets
  <2> QED BY <2>1, <2>2, <2>4, <2>5
<1>9. \A type \in Requests : Sem(type) = 0
  <2>1. ASSUME NEW type \in Requests, Sem(type) > 0 PROVE FALSE
    <3>1. InSem(t) /\ wants[t] = type /\ Own(t, Slot)
      BY <2>1 DEF Answers, RequestPosted
    <3>2. State = 0 /\ type # "CONNACK" /\ type # "none"
      BY <2>1, <3>1, Kinds3 DEF InSem, Answers, Phase
    <3>3. Slot = Nothing
      BY <1>6, <1>8, <3>2
    <3> QED BY <3>1, <3>2, <3>3, Kinds3 DEF Own
  <2> QED BY <1>1, <2>1, Kinds3 DEF Viewed
<1>a. ThreadPlaces' /\ Linked'
  <2>1. CleanRunner(r)'
    BY <1>3 DEF CleanRunner
  <2>2. ThreadPlaces'
    BY <1>1, <1>3, <2>1, RunnerPlaces DEF Common, ThreadPlaces
  <2>3. \A u \in Threads : pc'[u] = "hung" => pc[u] = "hung"
    BY <1>2 DEF Threads
  <2> QED BY <1>1, <1>6, <1>8, <2>2, <2>3 DEF Common, Linked, Ended
<1>b. ConnackComes' /\ RequestOnce'
  <2>1. RequestOnce'
    BY <1>1 DEF Common, RequestOnce
  <2>2. Sem("CONNACK")' <= 1 /\ (State = 1 => Sem("CONNACK")' = 0)
    BY <1>1, <1>4, <1>5, <1>6, Kinds3 DEF Common, ConnackComes
  <2>3. Slot'.type = "CONNACK" => Slot'.conn <= Number /\ State # 1
    BY <1>1, <1>4, <1>6 DEF Viewed
  <2> QED BY <1>1, <1>3, <2>1, <2>2, <2>3 DEF Common, ConnackComes
<1>c. Alone(t)' /\ Phase(t)'
  BY <1>1, <1>2, <1>3 DEF Answers, Alone, Phase, Busy, Connecting, Waits, GivesUp, Closes
<1>d. Stops(t)' /\ ErrorMeets(t)' /\ RequestInHand(t)' /\ GotOwn(t)'
  <2>1. GotOwn(t)'
    BY <1>2 DEF Answers, GotOwn, Received, Own
  <2> QED BY <1>3, <2>1 DEF Stops, ErrorMeets, RequestInHand
<1>e. ConnackMeets(t)' /\ SlotServed(t)'
  <2>1. ~Pending'
    BY <1>3, <1>6, <1>8 DEF Pending
  <2> QED BY <1>3, <2>1 DEF ConnackMeets, SlotServed
<1>f. RequestMeets(t)' /\ RequestPosted(t)'
  <2>1. RequestMeets(t)'
    BY <1>6, <1>8 DEF RequestMeets
  <2>2. RequestPosted(t)'
    <3> SUFFICES ASSUME NEW type \in Requests, Sem(type)' > 0
                 PROVE  Sem(type)' = 1 /\ wants[t] = type /\ InSem(t) /\ Own(t, Slot')
      BY <1>2 DEF RequestPosted, InSem, Waits, Own
    <3>1. type \in Types /\ Sem(type) = 0
      BY <1>9, Kinds3
    <3>2. type = got[r].type /\ Sem(type)' = 1
      BY <1>5, <3>1
    <3> QED BY <1>4, <1>8, <3>2
  <2> QED BY <2>1, <2>2
<1>g. LeftOver(t)'
  <2>1. CASE Holds(r, Requests)
    <3>1. Fits(t)'
      BY <1>2, <1>8, <2>1, Kinds3 DEF Fits, InSem, Own
    <3> QED BY <3>1 DEF LeftOver
  <2>2. CASE Holds(r, {"CONNACK"})
    <3>1. wants[t] = "CONNACK" => Own(t, Slot')
      BY <1>4, <1>6, <2>2 DEF Own
    <3>2. Waits(t, {"CONNACK"}) => pc[t] # "poll"
      BY <1>3 DEF Answers, Phase
    <3>3. Waits(t, {"CONNACK"}) /\ pc[t] # "returned" => Fits(t)'
      BY <1>2, <3>1, <3>2 DEF Fits, Waits, Own
    <3>4. ~Fits(t)' => ((Waits(t, {"CONNACK"}) /\ pc[t] = "returned") \/ GivesUp(t)) /\ call[t].version = 3 /\ ~Received(t)
      BY <1>6, <1>7, <2>2, <3>3 DEF Waits, GivesUp
    <3>5. ~Fits(t)' => Replaced(t)'
      BY <1>2, <1>3, <3>4, Kinds3 DEF Replaced, Busy, Waits, GivesUp, Closes, Received
    <3> QED BY <1>3, <1>6, <2>2, <3>5 DEF LeftOver
  <2> QED BY <2>1, <2>2
<1> QED BY <1>a, <1>b, <1>c, <1>d, <1>e, <1>f, <1>g DEF After, Common, Answers

LEMMA RunHandleStep ==
  ASSUME Before, NEW t \in Callers, Answers(t), NEW r \in Runners, runHandle(r)
  PROVE  After(t)
<1>1. /\ TypeOK /\ Common /\ Viewed /\ Locals /\ Single /\ r \in Threads /\ on[r] = TheClient
      /\ call \in [Threads -> Call]
  BY DEF Before, Single, TypeOK
<1>2. /\ pc[r] = "handle" /\ UNCHANGED <<mutex, wants, left>>
      /\ UNCHANGED <<In, Sock, Number, Answered>> /\ \A u \in Threads : u # r => got'[u] = got[u]
  BY <1>1 DEF runHandle, At, network, bounds, In, Sock, Number, Answered, TypeOK
<1>3. CASE tostop
  <2>1. runEnds(r) /\ UNCHANGED <<client, call, network, answered>>
    BY <1>3 DEF runHandle
  <2> QED BY <1>2, <2>1, ClientIsKept, RunEndsStep
<1>4. CASE ~tostop
  <2>1. UNCHANGED <<running, tostop, run_id, Conn, State>>
    BY <1>4 DEF runHandle, flags, Conn, State
  <2>2. ASSUME NEW p, Go(r, p) PROVE /\ pc'[r] = p /\ \A u \in Threads : u # r => pc'[u] = pc[u]
    BY <1>1, <2>2, MovesIs DEF Moves
  <2>3. ASSUME NEW p, Go(r, p), UNCHANGED call PROVE OthersKept(r) /\ pc'[r] = p
    BY <1>2, <2>2, <2>3 DEF OthersKept
  <2>4. ~Holds(r, {"CONNACK"}) => (Pending => Pending')
    <3>1. \A s \in Runners : s # r => pc[s] = "none"
      BY <1>2 DEF Before, RunnersInv, OneRunner, At
    <3> QED BY <1>2, <2>1, <3>1 DEF Pending, Holds
  <2>5. UNCHANGED slot => Slot' = Slot
    BY DEF Slot
  <2>6. UNCHANGED sems => \A type \in Types : Sem(type)' = Sem(type)
    BY DEF Sem
  \* What it has in hand is dropped.
  <2>7. ASSUME Go(r, "recheck"), UNCHANGED <<sems, slot, call>>, Pending /\ Sem("CONNACK") = 0 => Pending'
        PROVE  After(t)
    <3>1. OthersKept(r) /\ pc'[r] = "recheck" /\ Slot' = Slot /\ \A type \in Types : Sem(type)' = Sem(type)
      BY <2>3, <2>5, <2>6, <2>7
    <3> QED BY <1>2, <2>1, <2>7, <3>1, RunnerGoes, Kinds3
  <2>8. CASE sock[TheClient] = "closed" /\ Go(r, "recheck") /\ UNCHANGED <<sems, slot, call>>
    <3>1. ~Pending
      BY <1>1, <2>8 DEF Common, Linked, Ended, Pending, Sock
    <3> QED BY <2>7, <2>8, <3>1
  <2>9. CASE got[r] = Failure /\ HandleError(r, TheClient)
    <3>1. Holds(r, {"error"}) /\ ~Holds(r, {"CONNACK"}) /\ Slot' = Slot
      BY <1>2, <2>5, <2>9, Kinds3 DEF Holds, HandleError
    <3>2. CASE /\ call' = [call EXCEPT ![r] = [NoCall EXCEPT !.internal = TRUE, !.stop = TRUE, !.back = "run"]]
               /\ Go(r, "disconnect") /\ UNCHANGED sems /\ Conn
      <4>1. call'[r] = [NoCall EXCEPT !.internal = TRUE, !.stop = TRUE, !.back = "run"]
            /\ \A u \in Threads : u # r => call'[u] = call[u]
        BY <1>1, <3>2
      <4>2. call'[r].internal /\ call'[r].stop /\ call'[r].back = "run"
        BY <4>1 DEF NoCall
      <4>3. OthersKept(r) /\ pc'[r] = "disconnect"
        BY <1>2, <2>2, <3>2, <4>1 DEF OthersKept
      <4>4. \A type \in Types : Sem(type)' = Sem(type)
        BY <2>6, <3>2
      <4> QED BY <1>2, <1>4, <2>1, <2>4, <3>1, <3>2, <4>2, <4>3, <4>4, RunnerGoes, Kinds3
    <3>3. CASE ~Conn /\ State = 3 /\ ~Posted(TheClient, "CONNACK") /\ Post(TheClient, "CONNACK")
               /\ Go(r, "recheck") /\ UNCHANGED call
      <4>1. Sem("CONNACK") = 0
        BY <1>1, <3>3, Kinds3 DEF Posted, Sem, Viewed
      <4>2. \A ty \in Types : Sem(ty)' = IF ty = "CONNACK" THEN Sem(ty) + 1 ELSE Sem(ty)
        BY <3>3, PostIs, Kinds3
      <4>3. Sem("CONNACK")' = 1 /\ Sem("SUBACK")' = Sem("SUBACK") /\ Sem("UNSUBACK")' = Sem("UNSUBACK")
        BY <4>1, <4>2, Kinds3
      <4>4. OthersKept(r) /\ pc'[r] = "recheck" /\ ~Ended
        BY <2>3, <3>3 DEF Ended
      <4> QED BY <1>2, <1>4, <2>1, <2>4, <3>1, <3>3, <4>1, <4>3, <4>4, RunnerGoes
    <3>4. CASE UNCHANGED <<sems, call>> /\ Go(r, "recheck")
      BY <2>4, <2>7, <2>9, <3>1, <3>4 DEF HandleError
    <3> QED BY <2>9, <3>2, <3>3, <3>4 DEF HandleError, Conn, State
  <2>10. CASE got[r] = Made /\ HandleMade(r, TheClient)
    <3>1. ~Holds(r, {"CONNACK"}) /\ Slot' = Slot /\ UNCHANGED slot /\ Go(r, "recheck") /\ UNCHANGED call
      BY <2>5, <2>10, Kinds3 DEF Holds, HandleMade
    <3>2. CASE State = 1 /\ Post(TheClient, "CONNECT")
      <4>1. \A ty \in Types : Sem(ty)' = IF ty = "CONNECT" THEN Sem(ty) + 1 ELSE Sem(ty)
        BY <3>2, PostIs, Kinds3
      <4>2. Sem("CONNACK")' = Sem("CONNACK") /\ Sem("SUBACK")' = Sem("SUBACK") /\ Sem("UNSUBACK")' = Sem("UNSUBACK")
        BY <4>1, Kinds3
      <4>3. OthersKept(r) /\ pc'[r] = "recheck" /\ ~Ended
        BY <2>3, <3>1, <3>2 DEF Ended
      <4> QED BY <1>2, <1>4, <2>1, <2>4, <3>1, <4>2, <4>3, RunnerGoes
    <3>3. CASE UNCHANGED sems
      BY <2>4, <2>7, <3>1, <3>3
    <3> QED BY <2>10, <3>2, <3>3 DEF HandleMade, State
  <2>11. CASE got[r] \in Packet /\ HandlePacket(r, TheClient, got[r])
    <3>1. UNCHANGED call /\ got[r].type \in {"CONNACK", "PUBLISH"} \cup Requests
      BY <2>11, Kinds3 DEF HandlePacket
    <3>2. CASE got[r].type = "PUBLISH"
      <4>1. Go(r, "callback") /\ UNCHANGED <<slot, sems>> /\ Holds(r, {"PUBLISH"}) /\ ~Holds(r, {"CONNACK"})
        BY <1>2, <2>11, <3>2, Kinds3 DEF HandlePacket, Holds
      <4>2. OthersKept(r) /\ pc'[r] = "callback" /\ Slot' = Slot /\ \A type \in Types : Sem(type)' = Sem(type)
        BY <2>3, <2>5, <2>6, <3>1, <4>1
      <4> QED BY <1>2, <1>4, <2>1, <2>4, <4>1, <4>2, RunnerGoes, Kinds3
    <3>3. CASE got[r].type \in Requests \/ (got[r].type = "CONNACK" /\ ~Posted(TheClient, "CONNACK"))
      <4>1. Go(r, "recheck") /\ slot' = [slot EXCEPT ![TheClient] = got[r]] /\ Post(TheClient, got[r].type)
        BY <2>11, <3>3, Kinds3 DEF HandlePacket
      <4>2. OthersKept(r) /\ pc'[r] = "recheck" /\ Slot' = got[r]
        BY <1>1, <2>3, <3>1, <4>1 DEF Slot, TypeOK, Single
      <4>3. Holds(r, Requests) \/ (Holds(r, {"CONNACK"}) /\ Sem("CONNACK") = 0)
        BY <1>1, <1>2, <3>3, Kinds3 DEF Holds, Posted, Sem, Viewed
      <4> QED BY <1>2, <1>4, <2>1, <4>1, <4>2, <4>3, HandOver
    <3>4. CASE got[r].type = "CONNACK" /\ Posted(TheClient, "CONNACK")
      <4>1. Go(r, "recheck") /\ UNCHANGED <<slot, sems>> /\ Sem("CONNACK") # 0
        BY <1>1, <2>11, <3>4, Kinds3 DEF HandlePacket, Posted, Sem, Viewed
      <4> QED BY <2>7, <3>1, <4>1
    <3> QED BY <3>1, <3>2, <3>3, <3>4
  <2> QED BY <1>1, <1>4, <2>8, <2>9, <2>10, <2>11 DEF runHandle
<1> QED BY <1>3, <1>4

\* The background thread ends the session itself, and has then to end.
LEMMA RunnerDisconnects ==
  ASSUME Before, NEW t \in Callers, Answers(t), NEW r \in Runners, disconnect1(r)
  PROVE  After(t)
<1>1. /\ t \in Threads /\ r \in Threads /\ TypeOK /\ Common /\ Viewed /\ Locals /\ Single /\ Alone(t)
      /\ on[r] = TheClient /\ call \in [Threads -> Call]
  BY DEF Before, Single, Answers, TypeOK
<1>2. /\ pc[r] = "disconnect" /\ Free /\ UNCHANGED <<running, run_id, wants, got, mutex, left>>
      /\ UNCHANGED <<slot, conns>>
  BY DEF disconnect1, At, bounds
<1>3. /\ call[r].stop /\ call[r].back = "run" /\ run_id = r /\ running
      /\ (\A s \in Runners : s # r => pc[s] = "none") /\ \A u \in Threads : pc[u] # "hung"
  BY <1>1, <1>2 DEF Common, ThreadPlaces, CleanRunner, Before, RunnersInv, OneRunner, At, Free, Single
<1>4. Conn \/ Stopping(t)
  BY <1>2 DEF Answers, Stops
<1>5. PICK was : Exit(r, was) /\ Closed
  <2>1. CASE Ended /\ UNCHANGED <<connected, connect_state, sems, sock, inbox>> /\ Exit(r, FALSE)
    BY <1>2, <2>1, EndedIsClosed
  <2>2. CASE Close(TheClient) /\ Exit(r, connected[TheClient])
    BY <1>2, <2>2, CloseIs
  <2> QED BY <1>1, <2>1, <2>2 DEF disconnect1, Ended, Conn, State
<1>6. tostop' /\ Leave(r, was) /\ UNCHANGED call
  <2>1. \A c \in Clients : connect_state'[c] <= 0 /\ ~connected'[c]
    BY <1>1, <1>5 DEF Closed, Conn, State, Single
  <2> QED BY <1>1, <1>3, <1>5, <2>1 DEF Exit, Viewed
<1>7. /\ pc'[r] = "recheck"
      /\ \A u \in Threads : u # r => pc'[u] = pc[u] \/ (u \in LostThreads /\ pc[u] = "none" /\ pc'[u] = "begin")
  BY <1>1, <1>2, <1>3, <1>6, LeaveIs
<1>8. /\ \A s \in Runners : s # r => pc'[s] = "none"
      /\ \A s \in Runners : \A types : ~Holds(s, types)'
      /\ \A u \in Callers : (Busy(u)' <=> Busy(u)) /\ (Busy(u) => pc'[u] = pc[u])
  <2>1. \A s \in Runners : s # r => pc'[s] = "none"
    BY <1>1, <1>3, <1>7 DEF Single
  <2>2. \A u \in Callers : (Busy(u)' <=> Busy(u)) /\ (Busy(u) => pc'[u] = pc[u])
    BY <1>1, <1>7 DEF Single, Busy
  <2> QED BY <1>7, <2>1, <2>2 DEF Holds
<1>9. pc'[t] = pc[t] \/ (pc[t] = "none" /\ pc'[t] = "begin")
  BY <1>1, <1>7 DEF Single
\* The caller is not about to connect, unless it waits for this thread to end.
<1>10. /\ Connecting(t) => pc[t] = "stopping"
       /\ ~Waits(t, {"CONNECT", "CONNACK"}) /\ pc[t] \notin {"started", "version", "poll"} /\ ~GivesUp(t)
  <2>1. ~Gone
    BY <1>3 DEF Gone
  <2>2. pc[t] = "stopping" => ~Waits(t, {"CONNECT", "CONNACK"}) /\ ~GivesUp(t)
    BY DEF Waits, GivesUp
  <2>3. Waits(t, {"CONNECT", "CONNACK"}) \/ pc[t] \in {"started", "version"} \/ GivesUp(t) => Connecting(t)
    BY DEF Connecting, Waits, GivesUp
  <2>4. Connecting(t) => pc[t] = "stopping"
    BY <1>4 DEF Answers, Phase, Stopping
  <2> QED BY <2>1, <2>2, <2>3, <2>4 DEF Answers, Phase
<1>a. Common'
  <2>1. CleanRunner(r)' /\ \A s \in Runners : CleanRunner(s)'
    BY <1>2, <1>3, <1>7, <1>8 DEF CleanRunner
  <2>2. \A u \in Callers : Clean(u)'
    BY <1>1, <1>6, <1>7 DEF Single, Common, ThreadPlaces, Clean
  <2>3. \A u \in Threads : pc'[u] # "hung"
    BY <1>3, <1>7
  <2>4. ThreadPlaces'
    BY <1>1, <1>2, <1>3, <1>7, <2>1, <2>2, <2>3 DEF Common, ThreadPlaces
  <2>5. Len(In') = 0
    BY <1>5 DEF Closed
  <2>6. Linked' /\ RequestOnce'
    BY <1>5, <2>3, <2>5 DEF Linked, Ended, RequestOnce, Closed
  <2>7. ConnackComes'
    BY <1>1, <1>5, <1>8, <2>5, Kinds3 DEF Common, ConnackComes, Closed
  <2> QED BY <2>4, <2>6, <2>7 DEF Common
<1>b. Alone(t)'
  BY <1>1, <1>6, <1>8, <1>9, <1>2 DEF Alone, Connecting, Waits, Busy
<1>c. Phase(t)'
  BY <1>2, <1>5, <1>6, <1>9, <1>10 DEF Phase, Busy, Connecting, Waits, GivesUp, Closes, Closed
<1>d. Stops(t)' /\ ErrorMeets(t)' /\ RequestInHand(t)'
  BY <1>6, <1>7, <1>8 DEF Stops, ErrorMeets, RequestInHand
<1>e. GotOwn(t)' /\ SlotServed(t)'
  BY <1>1, <1>2, <1>5, <1>6, <1>9, <1>10, Kinds3
     DEF Answers, GotOwn, SlotServed, Fits, Received, Own, Closed, Waits
<1>f. ConnackMeets(t)' /\ RequestMeets(t)' /\ RequestPosted(t)'
  <2>1. Len(In') = 0
    BY <1>5 DEF Closed
  <2> QED BY <1>5, <2>1, Kinds3 DEF ConnackMeets, Pending, RequestMeets, RequestPosted, Closed
<1>g. LeftOver(t)'
  <2> SUFFICES ASSUME Slot # Nothing, ~Fits(t)'
               PROVE  Replaced(t)' /\ ~Fresh(t)'
    BY <1>5, <1>7, <1>8 DEF LeftOver, Closed
  <2>1. ~Fits(t)
    BY <1>2, <1>5, <1>6, <1>9 DEF Fits, Own, Closed
  <2>2. ~Conn
    BY <2>1 DEF Answers, LeftOver
  <2>3. pc[t] = "stopping" /\ pc'[t] = "stopping"
    BY <1>4, <1>9, <2>2 DEF Stopping
  <2> QED BY <1>6, <2>3 DEF Replaced, Fresh, Busy, Waits, GivesUp, Closes
<1> QED BY <1>a, <1>b, <1>c, <1>d, <1>e, <1>f, <1>g DEF After, Answers

-----------------------------------------------------------------------------
(* The socket *)

\* A thread finds that pings are no longer answered, and waits for the mutex it holds.
LEMMA KeepaliveIs ==
  ASSUME Before, NEW u \in Threads, keepalive(u)
  PROVE  /\ pc[u] \in {"cycle", "poll"} /\ pc'[u] = "hung" /\ mutex = None /\ mutex' = u /\ Conn
         /\ OthersKept(u) /\ ClientKept /\ UNCHANGED <<running, tostop, run_id, left, wants, got, call>>
         /\ \A v \in Threads : pc[v] # "hung"
<1>1. Single /\ TypeOK /\ Common
  BY DEF Before
<1>2. ClientKept /\ UNCHANGED <<running, tostop, run_id, left, wants, got, call>>
  BY ClientIsKept DEF keepalive, flags, local, bounds
<1>3. pc[u] \in {"cycle", "poll"} /\ mutex = None /\ mutex' = u /\ Conn
  BY <1>1 DEF keepalive, Free, Single, Conn
<1>4. pc'[u] = "hung" /\ OthersKept(u)
  BY <1>1, <1>2, MovesIs DEF keepalive, Moves, OthersKept
<1>5. \A v \in Threads : pc[v] # "hung"
  BY <1>1, <1>3 DEF Common, ThreadPlaces, Single
<1> QED BY <1>2, <1>3, <1>4, <1>5

LEMMA CallerHangs ==
  ASSUME Before, NEW t \in Callers, Answers(t), NEW u \in Callers, keepalive(u)
  PROVE  After(t)
<1>1. /\ t \in Threads /\ u \in Threads /\ TypeOK /\ Common /\ Viewed /\ Locals /\ Single /\ Alone(t)
  BY DEF Before, Single, Answers
<1>2. /\ pc[u] \in {"cycle", "poll"} /\ pc'[u] = "hung" /\ mutex = None /\ mutex' = u /\ Conn
      /\ OthersKept(u) /\ ClientKept /\ UNCHANGED <<running, tostop, run_id, left, wants, got, call>>
      /\ \A v \in Threads : pc[v] # "hung"
  BY <1>1, KeepaliveIs
<1>3. u = t /\ pc[t] = "poll"
  BY <1>1, <1>2 DEF Alone, Busy, Common, ThreadPlaces, Clean
<1>4. /\ Waits(t, Requests) /\ State = 0 /\ Gone /\ ~InSem(t) /\ ~Fits(t) /\ ~Received(t) /\ ~tostop
      /\ t \notin LostThreads
  <2>1. ~Connecting(t)
    BY <1>2 DEF Answers, Phase
  <2>2. Waits(t, Requests)
    BY <1>1, <1>3, <2>1, Kinds3 DEF Connecting, Waits, Locals
  <2> QED BY <1>1, <1>3, <2>1, <2>2 DEF Answers, Phase, InSem, Fits, Received, Alone, Busy, Gone
<1>5. Slot = Nothing
  BY <1>2, <1>4 DEF Answers, LeftOver
<1>6. Quiet(t) /\ RunnersKept /\ \A r \in Runners : pc'[r] = "none" /\ pc[r] = "none"
  BY <1>1, <1>2, <1>3, <1>4, OnlyCaller DEF RunnersKept, Gone
<1>7. Clean(t)' /\ (\A r \in Runners : \A types : ~Holds(r, types)') /\ Silent'
  BY <1>1, <1>2, <1>3, <1>6 DEF Common, ThreadPlaces, Clean, Holds, Silent
<1>8. ThreadPlaces'
  <2>1. \A v \in Threads : pc'[v] = "hung" => v = t
    BY <1>2, <1>3 DEF OthersKept
  <2> QED BY <1>1, <1>2, <1>3, <1>6, <1>7, <2>1 DEF Common, ThreadPlaces, CleanRunner, Quiet
<1>9. Linked' /\ ConnackComes' /\ RequestOnce'
  BY <1>1, <1>2, <1>7, Kinds3 DEF Common, Linked, Ended, ConnackComes, RequestOnce, ClientKept
<1>a. Alone(t)' /\ Phase(t)'
  BY <1>2, <1>3, <1>4, <1>6 DEF Alone, Phase, Quiet, Busy, Connecting, Waits, GivesUp, Closes, ClientKept
<1>b. Stops(t)' /\ ErrorMeets(t)' /\ RequestInHand(t)'
  BY <1>2, <1>4, <1>6, <1>7 DEF Stops, ErrorMeets, RequestInHand
<1>c. GotOwn(t)' /\ SlotServed(t)' /\ LeftOver(t)'
  BY <1>2, <1>3, <1>5 DEF GotOwn, Received, SlotServed, LeftOver, ClientKept
<1>d. ConnackMeets(t)'
  BY <1>2, <1>4 DEF ConnackMeets, Pending, ClientKept
<1>e. RequestMeets(t)' /\ RequestPosted(t)'
  <2>1. RequestMeets(t)'
    BY <1>2, <1>3, <1>4, <1>7 DEF Answers, RequestMeets, Own, Received, ClientKept
  <2>2. RequestPosted(t)'
    BY <1>2, <1>4, Kinds3 DEF Answers, RequestPosted, ClientKept
  <2> QED BY <2>1, <2>2
<1> QED BY <1>8, <1>9, <1>a, <1>b, <1>c, <1>d, <1>e DEF After, Common, Answers

LEMMA RunnerHangs ==
  ASSUME Before, NEW t \in Callers, Answers(t), NEW r \in Runners, keepalive(r)
  PROVE  After(t)
<1>1. /\ t \in Threads /\ r \in Threads /\ TypeOK /\ Common /\ Viewed /\ Locals /\ Single /\ Alone(t)
  BY DEF Before, Single, Answers
<1>2. /\ pc[r] \in {"cycle", "poll"} /\ pc'[r] = "hung" /\ mutex = None /\ mutex' = r /\ Conn
      /\ OthersKept(r) /\ ClientKept /\ UNCHANGED <<running, tostop, run_id, left, wants, got, call>>
      /\ \A v \in Threads : pc[v] # "hung"
  BY <1>1, KeepaliveIs
<1>3. /\ \A s \in Runners : s # r => pc[s] = "none" /\ pc'[s] = "none"
      /\ \A u \in Callers : u \in Threads /\ u # r /\ pc'[u] = pc[u] /\ wants'[u] = wants[u]
                            /\ got'[u] = got[u] /\ call'[u] = call[u] /\ Clean(u)' /\ Clean(u)
  BY <1>2, OnlyRunner
<1>4. /\ running /\ run_id = r /\ ~tostop /\ Serving /\ Serving' /\ ~Gone /\ ~Silent /\ Silent'
      /\ \A s \in Runners : \A types : ~Holds(s, types)' /\ ~Holds(s, types)
  <2>1. running /\ run_id = r /\ ~tostop
    BY <1>1, <1>2 DEF Before, RunnersInv, Common, ThreadPlaces, CleanRunner, Linked
  <2> QED BY <1>2, <1>3, <2>1 DEF Serving, Gone, Silent, Holds
<1>5. State \in {0, -2} /\ ~Pending'
  BY <1>1, <1>2 DEF Common, Linked, Pending, ClientKept
<1>a. ThreadPlaces'
  <2>1. CleanRunner(r)'
    BY <1>2, <1>4 DEF CleanRunner
  <2> QED BY <1>1, <1>2, <1>4, <2>1, RunnerPlaces DEF Common, ThreadPlaces
<1>b. Linked' /\ ConnackComes' /\ RequestOnce'
  BY <1>1, <1>2, <1>4, Kinds3 DEF Common, Linked, Ended, ConnackComes, RequestOnce, ClientKept
<1>c. Alone(t)' /\ Phase(t)'
  BY <1>1, <1>2, <1>3, <1>4
     DEF Answers, Alone, Phase, Busy, Connecting, Waits, GivesUp, Closes, ClientKept
<1>d. Stops(t)' /\ ErrorMeets(t)' /\ RequestInHand(t)' /\ ConnackMeets(t)' /\ SlotServed(t)'
  BY <1>2, <1>3, <1>4, <1>5 DEF Stops, ErrorMeets, RequestInHand, ConnackMeets, SlotServed
<1>e. GotOwn(t)' /\ LeftOver(t)'
  BY <1>2, <1>3 DEF Answers, GotOwn, LeftOver, Fits, Received, Own, ClientKept
<1>f. RequestMeets(t)' /\ RequestPosted(t)'
  BY <1>2, <1>3, <1>4, Kinds3 DEF Answers, RequestMeets, RequestPosted, InSem, Waits, Own, ClientKept
<1> QED BY <1>a, <1>b, <1>c, <1>d, <1>e, <1>f DEF After, Common, Answers

\* The connection changes, or a message arrives, or nothing happens.
LEMMA OutsideStep ==
  ASSUME Before, NEW t \in Callers, Answers(t), UNCHANGED <<mutex, flags, client, pc, local, conns, answered>>,
         left'["late"] = 0, Sock' = "closed" <=> Sock = "closed",
         UNCHANGED In \/ (Conn /\ In' = Append(In, [type |-> "PUBLISH"]))
  PROVE  After(t)
<1>1. /\ t \in Threads /\ TypeOK /\ Common /\ Viewed /\ Locals /\ Single /\ Alone(t) /\ Len(In) \in Nat
  BY DEF Before, Single, Answers, Viewed
<1>2. /\ UNCHANGED <<running, tostop, run_id, mutex, pc, wants, got, call>>
      /\ UNCHANGED <<Conn, State, Slot, Number, Answered>>
      /\ \A type \in Types : Sem(type)' = Sem(type)
  BY DEF flags, client, local, Conn, State, Slot, Number, Answered, Sem
<1>3. \A i \in 1..Len(In') : \/ i \in 1..Len(In) /\ In'[i] = In[i]
                             \/ In'[i].type = "PUBLISH"
  <2>1. CASE UNCHANGED In
    BY <2>1
  <2>2. CASE In' = Append(In, [type |-> "PUBLISH"])
    BY <1>1, <2>2 DEF Viewed
  <2> QED BY <2>1, <2>2
<1>4. (UNCHANGED In \/ Conn) /\ (Conn => State \in {0, -2})
  BY <1>1 DEF Common, Linked
<1>5. (Pending' <=> Pending) /\ (Serving' <=> Serving) /\ (Gone' <=> Gone) /\ (Silent' <=> Silent)
      /\ \A r \in Runners : \A types : Holds(r, types)' <=> Holds(r, types)
  BY <1>2, <1>4 DEF Pending, Serving, Gone, Silent, Holds
<1>6. (Waits(t, {"CONNACK"})' <=> Waits(t, {"CONNACK"})) /\ (Waits(t, {"CONNECT"})' <=> Waits(t, {"CONNECT"}))
      /\ (Waits(t, {"CONNECT", "CONNACK"})' <=> Waits(t, {"CONNECT", "CONNACK"}))
      /\ (Waits(t, Requests)' <=> Waits(t, Requests)) /\ (GivesUp(t)' <=> GivesUp(t)) /\ (Closes(t)' <=> Closes(t))
      /\ (Received(t)' <=> Received(t)) /\ (Connecting(t)' <=> Connecting(t)) /\ (InSem(t)' <=> InSem(t))
      /\ (Fits(t)' <=> Fits(t)) /\ (Busy(t)' <=> Busy(t)) /\ (Own(t, Slot)' <=> Own(t, Slot))
      /\ (Stopping(t)' <=> Stopping(t))
  BY <1>2 DEF Waits, GivesUp, Closes, Received, Connecting, InSem, Fits, Own, Busy, Stopping
<1>a. ThreadPlaces'
  BY <1>1, <1>2 DEF Common, ThreadPlaces, Clean, CleanRunner
<1>b. Linked'
  BY <1>1, <1>2, <1>4 DEF Common, Linked, Ended
<1>c. ConnackComes' /\ RequestOnce'
  <2>1. RequestOnce'
    BY <1>1, <1>3, Kinds3 DEF Common, RequestOnce
  <2>2. State \in {1, 3} => UNCHANGED In
    BY <1>4
  <2>3. State \notin {1, 3} => \A i \in 1..Len(In') : In'[i].type # "CONNACK"
    BY <1>1, <1>3 DEF Common, ConnackComes
  <2>4. \A r \in Runners : Holds(r, {"CONNACK"}) /\ ~tostop => UNCHANGED In
    BY <1>1, <2>2 DEF Common, ConnackComes
  <2> QED BY <1>1, <1>2, <1>5, <2>1, <2>2, <2>3, <2>4, Kinds3 DEF Common, ConnackComes
<1>d. Alone(t)'
  BY <1>1, <1>2, <1>6 DEF Alone, Busy
<1>e. Phase(t)' /\ Stops(t)' /\ GotOwn(t)' /\ SlotServed(t)'
  BY <1>2, <1>5, <1>6 DEF Answers, Phase, Stops, GotOwn, SlotServed, Own
<1>f. ConnackMeets(t)' /\ ErrorMeets(t)'
  BY <1>2, <1>5, <1>6, Kinds3 DEF Answers, ConnackMeets, ErrorMeets
<1>g. RequestMeets(t)'
  BY <1>2, <1>3, <1>5, <1>6, Kinds3 DEF Answers, RequestMeets, Own
<1>h. RequestInHand(t)' /\ RequestPosted(t)'
  BY <1>2, <1>5, <1>6, Kinds3 DEF Answers, RequestInHand, RequestPosted, Own
<1>i. LeftOver(t)'
  <2>1. (Fresh(t)' <=> Fresh(t)) /\ (Replaced(t) => Replaced(t)')
    BY <1>2, <1>5, <1>6, Kinds3 DEF Replaced, Fresh
  <2> QED BY <1>2, <1>5, <1>6, <2>1 DEF Answers, LeftOver
<1> QED BY <1>a, <1>b, <1>c, <1>d, <1>e, <1>f, <1>g, <1>h, <1>i DEF After, Common, Answers

-----------------------------------------------------------------------------
(* The invariant holds *)

LEMMA AnswersInit == ASSUME OneOfEach, InTime PROVE Init => AnswerInv
<1> SUFFICES ASSUME Init PROVE AnswerInv
  OBVIOUS
<1>1. TypeOK /\ Single /\ Viewed
  BY TypeInit, SingleIs, ViewedIs
<1>2. PICK a : Apps = {a}
  BY DEF OneOfEach
<1>3. a \in Callers
  BY <1>1, <1>2 DEF Single
<1>4. /\ ~Conn /\ State = 0 /\ In = <<>> /\ Len(In) = 0 /\ Sock = "closed" /\ Slot = Nothing
      /\ \A type \in Types : Sem(type) = 0
  BY <1>1 DEF Init, Single, Conn, State, Sem, Slot, In, Sock
<1>5. /\ \A t \in Callers : pc[t] \in {"idle", "none"} /\ call[t].back = "idle"
      /\ \A r \in Runners : pc[r] = "none"
      /\ \A t \in Threads : pc[t] # "hung"
  BY <1>1 DEF Init, Single, NoCall
<1>6. ~running /\ ~tostop /\ left["late"] = 0
  BY DEF Init, InTime
<1>7. ThreadPlaces /\ Linked
  BY <1>1, <1>4, <1>5, <1>6 DEF ThreadPlaces, Clean, CleanRunner, Linked, Ended
<1>8. ConnackComes /\ RequestOnce
  BY <1>4, <1>5, Kinds3 DEF ConnackComes, RequestOnce, Holds
<1>9. \A r \in Runners : \A types : ~Holds(r, types)
  BY <1>5 DEF Holds
<1>10. Alone(a) /\ Phase(a) /\ Stops(a)
  BY <1>3, <1>4, <1>5, <1>6, <1>9 DEF Alone, Phase, Stops, Busy, Connecting, Waits, GivesUp, Closes
<1>11. GotOwn(a) /\ ConnackMeets(a) /\ ErrorMeets(a) /\ RequestMeets(a) /\ RequestInHand(a) /\ RequestPosted(a)
  BY <1>3, <1>4, <1>5, <1>9, Kinds3
     DEF GotOwn, Received, ConnackMeets, Pending, ErrorMeets, RequestMeets, RequestInHand, RequestPosted
<1>12. SlotServed(a) /\ LeftOver(a)
  BY <1>4 DEF SlotServed, LeftOver
<1> QED BY <1>3, <1>7, <1>8, <1>10, <1>11, <1>12 DEF AnswerInv, Common, Answers

LEMMA ProceedAnswers ==
  ASSUME Before, Prompt, NEW t \in Callers, Answers(t), NEW u \in Callers, Proceed(u)
  PROVE  \E v \in Callers : After(v)
<1>1. Single /\ Common /\ Alone(t)
  BY DEF Before, Answers
<1>2. CASE lostReturns(u)
  BY <1>2, LostReturnsStep
<1>3. CASE \E c \in Clients : connect(u, c)
  BY <1>3, ConnectStep
<1>4. ASSUME Busy(u) PROVE u = t
  BY <1>1, <1>4 DEF Alone
<1>5. CASE protocolConnect(u) \/ waitfor(u) \/ wait_sem(u) \/ takeSlot(u) \/ poll(u)
  <2>1. u = t
    BY <1>4, <1>5 DEF Busy, At, protocolConnect, waitfor, wait_sem, takeSlot, poll
  <2> QED BY <1>5, <2>1, ProtocolConnectStep, WaitforStep, WaitSemStep, TakeSlotStep, PollStep
<1>6. CASE tcpConnected(u) \/ connack(u) \/ nextVersion(u) \/ suback(u) \/ unsuback(u)
  <2>1. u = t
    BY <1>4, <1>6 DEF Busy, At, tcpConnected, connack, nextVersion, suback, unsuback, Answer
  <2>2. CASE tcpConnected(t) \/ connack(t) \/ nextVersion(t)
    BY <2>2, TcpConnectedStep, ConnackStep, NextVersionStep
  <2>3. CASE \E type \in Requests : Answer(t, type)
    BY <2>3, AnswerStep
  <2> QED BY <1>6, <2>1, <2>2, <2>3, Kinds3 DEF suback, unsuback
<1>7. CASE disconnect1(u) \/ drain(u) \/ stop(u)
  <2>1. u = t
    BY <1>4, <1>7 DEF Busy, At, disconnect1, drain, stop
  <2> QED BY <1>7, <2>1, Disconnect1Step, DrainStep, StopStep
<1> QED BY <1>2, <1>3, <1>5, <1>6, <1>7 DEF Proceed

LEMMA OutsideAnswers ==
  ASSUME Before, NEW t \in Callers, Answers(t), NEW c \in Clients, linkBreaks(c) \/ goesSilent(c) \/ brokerPublish(c)
  PROVE  After(t)
<1>1. Single /\ TypeOK /\ c = TheClient /\ TheClient \in Clients /\ left["late"] = 0 /\ Common
  BY DEF Before, Single, Common, ThreadPlaces
<1>2. /\ UNCHANGED <<mutex, flags, client, pc, local, conns, answered>>
      /\ Sock = "open"
      /\ \E kind \in {"break", "silence", "message"} : left' = [left EXCEPT ![kind] = @ - 1]
  BY <1>1 DEF linkBreaks, goesSilent, brokerPublish, Disturb, Sock
<1>3. left'["late"] = 0
  BY <1>1, <1>2 DEF TypeOK, Kinds
<1>4. Sock' # "closed"
  BY <1>1, <1>2 DEF linkBreaks, goesSilent, brokerPublish, Sock, TypeOK
<1>5. UNCHANGED In \/ (Conn /\ In' = Append(In, [type |-> "PUBLISH"]))
  <2>1. CASE brokerPublish(c)
    BY <1>1, <2>1 DEF brokerPublish, In, Conn, TypeOK
  <2>2. CASE linkBreaks(c) \/ goesSilent(c)
    BY <2>2 DEF linkBreaks, goesSilent, In
  <2> QED BY <2>1, <2>2
<1> QED BY <1>2, <1>3, <1>4, <1>5, OutsideStep

LEMMA AnswersStep ==
  ASSUME OneOfEach, InTime
  PROVE  TypeOK /\ RunnersInv /\ AnswerInv /\ [Next]_vars => AnswerInv'
<1> SUFFICES ASSUME TypeOK, RunnersInv, AnswerInv, [Next]_vars PROVE AnswerInv'
  OBVIOUS
<1>1. PICK t \in Callers : Answers(t)
  BY DEF AnswerInv
<1>2. Prompt
  BY DEF InTime
<1>3. Before
  <2>1. TypeOK' /\ RunnersInv'
    BY <1>2, TypeStep, RunnersStep
  <2>2. Single /\ Viewed /\ Locals
    BY SingleIs, ViewedIs
  <2>3. Viewed'
    <3>1. TheClient \in Clients
      BY <2>2 DEF Single
    <3>2. Conn' \in BOOLEAN /\ State' \in {-2, 0, 1, 3} /\ Slot' \in Packet \cup {Nothing} /\ In' \in Seq(Packet)
      BY <2>1, <3>1 DEF TypeOK, Conn, State, Slot, In
    <3>3. Number' \in Nat /\ Sock' \in {"closed", "open", "broken", "silent"}
      BY <2>1, <3>1 DEF TypeOK, Number, Sock
    <3>4. \A type \in Types : Sem(type)' \in Nat
      BY <2>1, <3>1 DEF TypeOK, Sem
    <3> QED BY <2>1, <3>2, <3>3, <3>4 DEF TypeOK, Viewed
  <2>4. Locals'
    BY <2>1 DEF TypeOK, Locals, Call
  <2>5. on' \in [Threads -> Clients]
    BY <2>1 DEF TypeOK
  <2> QED BY <2>1, <2>2, <2>3, <2>4, <2>5 DEF Before, AnswerInv
<1>4. Single
  BY <1>3 DEF Before
<1> SUFFICES \E v \in Callers : After(v)
  BY DEF After, AnswerInv
<1>5. ASSUME NEW u \in Callers, Proceed(u) PROVE \E v \in Callers : After(v)
  BY <1>1, <1>2, <1>3, <1>5, ProceedAnswers
<1>6. ASSUME NEW r \in Runners, run(r) PROVE After(t)
  BY <1>1, <1>3, <1>6, RunStartStep, RunLoopStep, RunCycleStep, RunHandleStep, CallbackReturnsStep, RunnerDisconnects
     DEF run
<1>7. ASSUME NEW u \in Threads, keepalive(u) PROVE After(t)
  BY <1>1, <1>3, <1>7, CallerHangs, RunnerHangs DEF Threads
<1>8. ASSUME NEW u \in Apps, NEW c \in Clients,
             connect(u, c) \/ subscribe(u, c) \/ unsubscribe(u, c) \/ disconnect(u, c)
      PROVE  \E v \in Callers : After(v)
  <2>1. u \in Callers
    BY <1>4 DEF Single
  <2>2. CASE connect(u, c)
    BY <1>1, <1>3, <2>1, <2>2, ConnectStep
  <2>3. CASE disconnect(u, c)
    BY <1>1, <1>3, <2>1, <2>3, DisconnectStep
  <2>4. CASE \E type \in Requests : Request(u, c, type)
    BY <1>1, <1>3, <2>1, <2>4, RequestStep
  <2> QED BY <1>8, <2>2, <2>3, <2>4, Kinds3 DEF subscribe, unsubscribe
<1>9. ASSUME NEW c \in Clients, linkBreaks(c) \/ goesSilent(c) \/ brokerPublish(c) PROVE After(t)
  BY <1>1, <1>3, <1>9, OutsideAnswers
<1>10. CASE UNCHANGED vars
  <2>1. /\ UNCHANGED <<mutex, flags, client, pc, local, conns, answered>> /\ UNCHANGED In /\ UNCHANGED Sock
        /\ left'["late"] = left["late"]
    BY <1>10 DEF vars, flags, client, local, network, bounds, In, Sock
  <2>2. left'["late"] = 0
    BY <1>3, <2>1 DEF Before, Common, ThreadPlaces
  <2> QED BY <1>1, <1>3, <2>1, <2>2, OutsideStep
<1> QED BY <1>1, <1>5, <1>6, <1>7, <1>8, <1>9, <1>10 DEF Next

LEMMA AnswersHold == ASSUME OneOfEach, InTime PROVE Spec => [](TypeOK /\ RunnersInv /\ AnswerInv)
<1>1. Prompt
  BY DEF InTime
<1>2. Init => TypeOK /\ RunnersInv /\ AnswerInv
  BY TypeInit, RunnersInit, AnswersInit
<1>3. TypeOK /\ RunnersInv /\ AnswerInv /\ [Next]_vars => (TypeOK /\ RunnersInv /\ AnswerInv)'
  BY <1>1, TypeStep, RunnersStep, AnswersStep
<1> QED BY <1>2, <1>3, PTL DEF Spec

\* With one client and one application thread, and no wait that runs out while its
\* answer is on the way, MQTTClient_connect counts the client as connected only by
\* the CONNACK of the connection it has made, whatever was left in the slot.
THEOREM AcceptedConnections == ASSUME OneOfEach, InTime PROVE Spec => []ConnectedWasAccepted
<1>1. ASSUME TypeOK, AnswerInv PROVE ConnectedWasAccepted
  <2>1. Single /\ Linked
    BY <1>1, SingleIs DEF AnswerInv, Common
  <2> QED BY <2>1 DEF Single, Linked, Conn, Answered, ConnectedWasAccepted
<1> QED BY <1>1, AnswersHold, PTL

\* Likewise MQTTClient_subscribe and MQTTClient_unsubscribe take only the answer to
\* the request they have sent, whatever the background thread hands over meanwhile.
THEOREM OwnAnswers == ASSUME OneOfEach, InTime PROVE Spec => []RequestGotItsAnswer
<1>1. ASSUME TypeOK, AnswerInv PROVE RequestGotItsAnswer
  <2>1. PICK t \in Callers : Answers(t)
    BY <1>1 DEF AnswerInv
  <2>2. ASSUME NEW u \in Callers, pc[u] = "returned" PROVE u = t
    BY <2>1, <2>2 DEF Answers, Alone, Busy
  <2>3. pc[t] = "returned" /\ wants[t] \in Requests /\ got[t] \in Packet
          => got[t] = [type |-> wants[t], req |-> call[t].req]
    BY <2>1, Kinds3 DEF Answers, GotOwn, Received, Own
  <2> QED BY <2>2, <2>3 DEF RequestGotItsAnswer, At
<1> QED BY <1>1, AnswersHold, PTL
=============================================================================
