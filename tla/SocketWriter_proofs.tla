-------------------------- MODULE SocketWriter_proofs --------------------------
(***************************************************************************)
(* Proofs about SocketWriter, for any number of application threads, of    *)
(* connections and of units of a packet and of a send buffer.              *)
(***************************************************************************)
EXTENDS SocketWriter, SequenceTheorems, TLAPS

-----------------------------------------------------------------------------
(* Numbers and sequences *)

Quot(x, u) == x \div u
Rem(x, u) == x % u

\* Counting one on, the remainder grows or starts anew with the next quotient.
LEMMA DivStep ==
  ASSUME NEW x \in Nat, NEW u \in Nat \ {0}
  PROVE  \/ Rem(x, u) < u - 1 /\ Rem(x + 1, u) = Rem(x, u) + 1 /\ Quot(x + 1, u) = Quot(x, u)
         \/ Rem(x, u) = u - 1 /\ Rem(x + 1, u) = 0 /\ Quot(x + 1, u) = Quot(x, u) + 1
BY DEF Quot, Rem

LEMMA DivOf ==
  ASSUME NEW x \in Nat, NEW u \in Nat \ {0}
  PROVE  x = u * Quot(x, u) + Rem(x, u) /\ Rem(x, u) \in 0..(u - 1) /\ Quot(x, u) \in Nat
BY DEF Quot, Rem

LEMMA DivWhole ==
  ASSUME NEW u \in Nat \ {0}, NEW n \in Nat
  PROVE  Rem(n * u, u) = 0 /\ Rem(0, u) = 0
BY DEF Rem

\* Fewer units than all of n packets leave one of them unfinished.
LEMMA DivBelow ==
  ASSUME NEW x \in Nat, NEW u \in Nat \ {0}, NEW n \in Nat, x < n * u
  PROVE  Quot(x, u) < n
<1>1. x = u * Quot(x, u) + Rem(x, u) /\ Rem(x, u) \in 0..(u - 1) /\ Quot(x, u) \in Nat
  BY DivOf
<1>2. ASSUME Quot(x, u) >= n PROVE FALSE
  <2>1. u * Quot(x, u) >= u * n
    BY <1>1, <1>2
  <2> QED BY <1>1, <2>1
<1> QED BY <1>1, <1>2

\* The order of numbers is that of quotients, then of remainders.
LEMMA DivOrder ==
  ASSUME NEW x \in Nat, NEW y \in Nat, NEW u \in Nat \ {0}, x < y
  PROVE  Quot(x, u) <= Quot(y, u) /\ (Quot(x, u) = Quot(y, u) => Rem(x, u) < Rem(y, u))
<1>1. /\ x = u * Quot(x, u) + Rem(x, u) /\ Rem(x, u) \in 0..(u - 1) /\ Quot(x, u) \in Nat
      /\ y = u * Quot(y, u) + Rem(y, u) /\ Rem(y, u) \in 0..(u - 1) /\ Quot(y, u) \in Nat
  BY DivOf
<1>2. ASSUME Quot(x, u) >= Quot(y, u) + 1 PROVE FALSE
  <2>1. u * Quot(x, u) >= u * (Quot(y, u) + 1)
    BY <1>1, <1>2
  <2>2. u * (Quot(y, u) + 1) = u * Quot(y, u) + u
    BY <1>1
  <2> QED BY <1>1, <2>1, <2>2
<1> QED BY <1>1, <1>2

\* A function on the first numbers is a sequence.
LEMMA FunctionIsSeq ==
  ASSUME NEW S, NEW n \in Nat, NEW f \in [1..n -> S]
  PROVE  f \in Seq(S) /\ Len(f) = n
<1>1. DOMAIN f = 1..n /\ \A i \in 1..n : f[i] \in S
  OBVIOUS
<1>2. f = [i \in 1..n |-> f[i]]
  OBVIOUS
<1>3. [i \in 1..n |-> f[i]] \in Seq(S)
  BY <1>1, IsASeq
<1>4. DOMAIN f = 1..Len(f) /\ Len(f) \in Nat
  BY <1>2, <1>3, LenProperties
<1>5. Len(f) = n
  <2>1. n \in 1..n => n \in 1..Len(f)
    BY <1>1, <1>4
  <2>2. Len(f) \in 1..Len(f) => Len(f) \in 1..n
    BY <1>1, <1>4
  <2> QED BY <1>4, <2>1, <2>2
<1> QED BY <1>2, <1>3, <1>5

-----------------------------------------------------------------------------
(* What holds of the state *)

USE WriterAssumption

Fds == ToSet(Number)
Packets == [kind : {"publish"}, id : 1..MaxSends, qos : {0, 1}]
             \cup [kind : {"reply", "disconnect", "none"}, id : {0}, qos : {0}]
Record == [fd : Fds, packet : Packets, done : Nat, mem : {"app", "copy", "message", "own"}]
Sent == [packet : Packets, unit : Nat \ {0}]
Work == [kind : {"ack", "work"}, id : 0..MaxSends]
RunPlaces == {"select", "continue", "clear", "complete", "handle", "retry", "lost"}
AppPlaces == {"idle", "check", "store", "wait", "fail"}

PcOK ==
  /\ pc \in [Threads -> RunPlaces \cup AppPlaces]
  /\ pc[Run] \in RunPlaces /\ \A a \in Apps : pc[a] \in AppPlaces

\* The types, also of what TypeOK leaves out.
WriterTypes ==
  /\ TypeOK
  /\ writes \in Seq(Record)
  /\ stream \in Seq(Sent) /\ \A x \in DOMAIN stream : stream[x].unit <= Units(stream[x].packet)
  /\ inbox \in Seq(Work) /\ acked \subseteq 1..MaxSends
  /\ broken \in BOOLEAN /\ conns \in 0..Len(Number)
  /\ sends \in 0..MaxSends /\ others \in 0..MaxOther
  /\ PcOK /\ job \in [Apps -> Packets]

\* Who holds the client's mutex beyond a step, and that the session lives meanwhile.
Holds(a) == At(a, "store")
MutexInv ==
  /\ \A a, b \in Apps : Holds(a) /\ Holds(b) => a = b
  /\ At(Run, "retry") => \A a \in Apps : ~Holds(a)
  /\ \A a \in Apps : Holds(a) => connected
  /\ pc[Run] \in {"clear", "complete"} => connected

-----------------------------------------------------------------------------
(* Units of packets *)

Whole(u) == u.unit = Units(u.packet)

\* One unit follows another one on a connection.
Follows(v, u) == IF u.unit > 1 THEN v = [u EXCEPT !.unit = u.unit - 1] ELSE Whole(v)
Runs(s) == \A i \in DOMAIN s : IF i = 1 THEN s[i].unit = 1 ELSE Follows(s[i - 1], s[i])
Ended(s) == s # <<>> => Whole(s[Len(s)])

LEMMA StreamRuns ==
  ASSUME WriterTypes
  PROVE  StreamIsPackets <=> Runs(stream)
<1>1. stream \in Seq(Sent)
  BY DEF WriterTypes
<1>2. \A i \in DOMAIN stream : stream[i] \in Sent /\ i \in Nat \ {0}
  BY <1>1, ElementOfSeq, LenProperties
<1>3. \A i \in DOMAIN stream : stream[i].unit \in Nat \ {0} /\ (stream[i].unit > 1 <=> stream[i].unit # 1)
  BY <1>2 DEF Sent
<1> DEFINE A(i) == LET unit == stream[i].unit
                   IN IF unit > 1
                        THEN i > 1 /\ stream[i - 1] = [stream[i] EXCEPT !.unit = unit - 1]
                        ELSE i = 1 \/ stream[i - 1].unit = Units(stream[i - 1].packet)
           B(i) == IF i = 1 THEN stream[i].unit = 1 ELSE Follows(stream[i - 1], stream[i])
<1>4. ASSUME NEW i \in DOMAIN stream PROVE A(i) <=> B(i)
  <2>1. CASE i = 1
    BY <1>2, <1>3, <2>1
  <2>2. CASE i # 1
    <3>1. i > 1
      BY <1>2, <2>2
    <3> QED BY <2>2, <3>1 DEF Follows, Whole
  <2> QED BY <2>1, <2>2
<1>5. StreamIsPackets <=> \A i \in DOMAIN stream : A(i)
  BY DEF StreamIsPackets
<1>6. Runs(stream) <=> \A i \in DOMAIN stream : B(i)
  BY DEF Runs
<1> HIDE DEF A, B
<1> QED BY <1>4, <1>5, <1>6

\* The units of packets one after the other, and where one is cut off after n of them.
InTurn(all, packets, size) ==
  /\ all \in Seq(Sent) /\ Len(all) = Len(packets) * size
  /\ \A j \in DOMAIN all : \E k \in DOMAIN packets :
       all[j].packet = packets[k] /\ all[j].unit \in 1..size
  /\ \A j \in DOMAIN all : IF j = 1 THEN all[j].unit = 1 ELSE Follows(all[j - 1], all[j])
  /\ \A n \in 0..(Len(all) - 1) :
       /\ n \div size + 1 \in DOMAIN packets /\ n % size \in 0..(size - 1)
       /\ n % size = 0 /\ n > 0 => Whole(all[n])
       /\ n % size > 0 => n > 0 /\ all[n] = [packet |-> packets[n \div size + 1], unit |-> n % size]
       /\ \A j \in 1..n : \E k \in 1..(n \div size + 1) :
            /\ all[j].packet = packets[k]
            /\ k = n \div size + 1 => all[j].unit <= n % size
  /\ all # <<>> => Whole(all[Len(all)])

LEMMA AllUnitsFacts ==
  ASSUME NEW packets \in Seq(Packets), NEW size \in Nat \ {0},
         \A k \in DOMAIN packets : Units(packets[k]) = size,
         NEW all, all = AllUnits(packets, size)
  PROVE  InTurn(all, packets, size)
<1> DEFINE total == Len(packets) * size
<1>1. Len(packets) \in Nat /\ total \in Nat /\ DOMAIN packets = 1..Len(packets)
  BY LenProperties
<1>2. \A j \in 1..total :
        /\ Quot(j - 1, size) + 1 \in DOMAIN packets /\ Rem(j - 1, size) + 1 \in 1..size
        /\ packets[Quot(j - 1, size) + 1] \in Packets /\ Units(packets[Quot(j - 1, size) + 1]) = size
  <2> TAKE j \in 1..total
  <2>1. j - 1 \in Nat /\ j - 1 < total
    BY <1>1
  <2>2. Quot(j - 1, size) < Len(packets) /\ Quot(j - 1, size) \in Nat /\ Rem(j - 1, size) \in 0..(size - 1)
    BY <1>1, <2>1, DivBelow, DivOf
  <2> QED BY <1>1, <2>2, ElementOfSeq
<1>3. /\ DOMAIN all = 1..total
      /\ \A j \in DOMAIN all : all[j] = [packet |-> packets[Quot(j - 1, size) + 1], unit |-> Rem(j - 1, size) + 1]
  BY DEF AllUnits, Quot, Rem
<1>a. /\ Rem(total, size) = 0 /\ Rem(0, size) = 0 /\ Quot(0, size) = 0
      /\ \A n \in Nat : /\ n < total => Quot(n, size) < Len(packets)
                       /\ Quot(n, size) \in Nat /\ Rem(n, size) \in 0..(size - 1)
  <2>1. Rem(total, size) = 0 /\ Rem(0, size) = 0
    BY <1>1, DivWhole
  <2>2. 0 = size * Quot(0, size) + Rem(0, size) /\ Quot(0, size) \in Nat
    BY DivOf
  <2>3. Quot(0, size) = 0
    <3>1. size * Quot(0, size) = 0
      BY <2>1, <2>2
    <3> QED BY <2>2, <3>1
  <2> QED BY <1>1, <2>1, <2>3, DivBelow, DivOf
<1> HIDE DEF total
<1>4. all \in Seq(Sent) /\ Len(all) = total
  <2>1. \A j \in DOMAIN all : all[j] \in Sent
    BY <1>2, <1>3 DEF Sent
  <2>2. all \in [1..total -> Sent]
    BY <1>3, <2>1 DEF AllUnits
  <2> QED BY <1>1, <2>2, FunctionIsSeq
<1>5. \A j \in DOMAIN all : IF j = 1 THEN all[j].unit = 1 ELSE Follows(all[j - 1], all[j])
  <2> TAKE j \in DOMAIN all
  <2>1. CASE j = 1
    <3>1. all[j] = [packet |-> packets[Quot(0, size) + 1], unit |-> Rem(0, size) + 1]
      BY <1>3, <2>1
    <3> QED BY <1>a, <2>1, <3>1
  <2>2. CASE j # 1
    <3>1. j - 2 \in Nat /\ j - 1 = (j - 2) + 1 /\ j \in Nat /\ j - 1 \in DOMAIN all
      BY <1>1, <1>3, <2>2
    <3>2. \/ Rem(j - 2, size) < size - 1 /\ Rem(j - 1, size) = Rem(j - 2, size) + 1 /\ Quot(j - 1, size) + 1 = Quot(j - 2, size) + 1
          \/ Rem(j - 2, size) = size - 1 /\ Rem(j - 1, size) = 0
      BY <3>1, DivStep
    <3>3. /\ all[j] = [packet |-> packets[Quot(j - 1, size) + 1], unit |-> Rem(j - 1, size) + 1]
          /\ all[j - 1] = [packet |-> packets[Quot(j - 2, size) + 1], unit |-> Rem(j - 2, size) + 1]
          /\ (j - 1) - 1 = j - 2
      BY <1>3, <3>1
    <3>4. Rem(j - 2, size) \in Nat /\ Units(packets[Quot(j - 2, size) + 1]) = size
      <4>1. j - 1 \in 1..total /\ (j - 1) - 1 = j - 2
        BY <1>3, <3>1
      <4>2. Units(packets[Quot((j - 1) - 1, size) + 1]) = size
        BY <1>2, <4>1
      <4> QED BY <1>a, <3>1, <4>1, <4>2, SMTT(20)
    <3> QED BY <2>2, <3>2, <3>3, <3>4 DEF Follows, Whole
  <2> QED BY <2>1, <2>2
<1>6. ASSUME NEW n \in 0..(Len(all) - 1)
      PROVE  /\ Quot(n, size) + 1 \in DOMAIN packets /\ Rem(n, size) \in 0..(size - 1)
             /\ Rem(n, size) = 0 /\ n > 0 => Whole(all[n])
             /\ Rem(n, size) > 0 => n > 0 /\ all[n] = [packet |-> packets[Quot(n, size) + 1], unit |-> Rem(n, size)]
             /\ \A j \in 1..n : \E k \in 1..(Quot(n, size) + 1) :
                  /\ all[j].packet = packets[k]
                  /\ k = Quot(n, size) + 1 => all[j].unit <= Rem(n, size)
  <2>1. n \in Nat /\ n < total
    BY <1>1, <1>4
  <2>2. Quot(n, size) + 1 \in DOMAIN packets /\ Rem(n, size) \in 0..(size - 1) /\ Quot(n, size) \in Nat
    <3>1. Quot(n, size) < Len(packets) /\ Quot(n, size) \in Nat /\ Rem(n, size) \in 0..(size - 1)
      BY <1>a, <2>1
    <3> QED BY <1>1, <3>1
  <2>3. Rem(n, size) > 0 => n > 0
    BY <1>a, <2>1
  <2>4. ASSUME n > 0
        PROVE  /\ n \in DOMAIN all
               /\ \/ Rem(n - 1, size) < size - 1 /\ Rem(n, size) = Rem(n - 1, size) + 1 /\ Quot(n, size) = Quot(n - 1, size)
                  \/ Rem(n - 1, size) = size - 1 /\ Rem(n, size) = 0
    <3>1. n - 1 \in Nat /\ n = (n - 1) + 1 /\ n \in DOMAIN all
      BY <1>1, <1>3, <2>1, <2>4
    <3> QED BY <3>1, DivStep
  <2>5. ASSUME n > 0
        PROVE  /\ all[n] = [packet |-> packets[Quot(n - 1, size) + 1], unit |-> Rem(n - 1, size) + 1]
               /\ Units(packets[Quot(n - 1, size) + 1]) = size /\ Rem(n - 1, size) \in Nat
    <3>1. n \in 1..total /\ n \in DOMAIN all /\ n - 1 \in Nat
      BY <1>1, <1>3, <2>1, <2>4, <2>5
    <3>2. Rem(n - 1, size) \in 0..(size - 1)
      BY <1>a, <3>1
    <3>3. all[n] = [packet |-> packets[Quot(n - 1, size) + 1], unit |-> Rem(n - 1, size) + 1]
      BY <1>3, <3>1
    <3>4. Units(packets[Quot(n - 1, size) + 1]) = size
      BY <1>2, <3>1
    <3> QED BY <3>2, <3>3, <3>4
  <2>6. /\ Rem(n, size) = 0 /\ n > 0 => Whole(all[n])
        /\ Rem(n, size) > 0 => n > 0 /\ all[n] = [packet |-> packets[Quot(n, size) + 1], unit |-> Rem(n, size)]
    <3>1. CASE n = 0
      BY <2>3, <3>1
    <3>2. CASE n > 0
      <4>1. CASE Rem(n - 1, size) = size - 1 /\ Rem(n, size) = 0
        BY <2>5, <3>2, <4>1 DEF Whole
      <4>2. CASE Rem(n - 1, size) < size - 1 /\ Rem(n, size) = Rem(n - 1, size) + 1 /\ Quot(n, size) = Quot(n - 1, size)
        BY <2>5, <3>2, <4>2
      <4> QED BY <2>4, <3>2, <4>1, <4>2
    <3> QED BY <2>1, <3>1, <3>2
  <2>7. \A j \in 1..n : \E k \in 1..(Quot(n, size) + 1) :
          /\ all[j].packet = packets[k]
          /\ k = Quot(n, size) + 1 => all[j].unit <= Rem(n, size)
    <3> TAKE j \in 1..n
    <3>1. j - 1 \in Nat /\ j - 1 < n /\ j \in DOMAIN all
      BY <1>1, <1>3, <2>1
    <3>2. Quot(j - 1, size) \in Nat /\ Rem(j - 1, size) \in 0..(size - 1)
      BY <1>a, <3>1
    <3>3. Quot(j - 1, size) <= Quot(n, size) /\ (Quot(j - 1, size) = Quot(n, size) => Rem(j - 1, size) < Rem(n, size))
      BY <2>1, <3>1, DivOrder
    <3>4. Quot(j - 1, size) + 1 \in 1..(Quot(n, size) + 1) /\ all[j].packet = packets[Quot(j - 1, size) + 1] /\ all[j].unit = Rem(j - 1, size) + 1
      BY <1>3, <2>2, <3>1, <3>2, <3>3, SMTT(20)
    <3>5. Quot(j - 1, size) + 1 = Quot(n, size) + 1 => all[j].unit <= Rem(n, size)
      BY <2>2, <3>2, <3>3, <3>4, SMTT(20)
    <3> QED BY <3>4, <3>5
  <2> QED BY <2>2, <2>6, <2>7, Zenon
<1>7. all # <<>> => Whole(all[Len(all)])
  <2> SUFFICES ASSUME all # <<>> PROVE Whole(all[Len(all)])
    OBVIOUS
  <2> DEFINE n == Len(all)
  <2>1. n \in Nat \ {0} /\ n \in DOMAIN all
    BY <1>1, <1>3, <1>4, EmptySeq
  <2>2. Rem(n, size) = 0
    BY <1>4, <1>a
  <2>3. Rem(n - 1, size) = size - 1
    <3>1. n - 1 \in Nat /\ (n - 1) + 1 = n
      BY <2>1
    <3>2. Rem(n - 1, size) \in Nat
      <4> HIDE DEF n
      <4>1. Rem(n - 1, size) \in 0..(size - 1)
        BY <1>a, <3>1
      <4> QED BY <4>1
    <3> HIDE DEF n
    <3> QED BY <2>2, <3>1, <3>2, DivStep
  <2> HIDE DEF n
  <2>4. all[n].unit = size /\ Units(all[n].packet) = size
    <3>1. n \in 1..total /\ all[n] = [packet |-> packets[Quot(n - 1, size) + 1], unit |-> Rem(n - 1, size) + 1]
      BY <1>3, <2>1
    <3>2. Units(packets[Quot(n - 1, size) + 1]) = size
      BY <1>2, <3>1
    <3> QED BY <2>3, <3>1, <3>2
  <2> QED BY <2>4 DEF Whole, n
<1>8. \A j \in DOMAIN all : \E k \in DOMAIN packets : all[j].packet = packets[k] /\ all[j].unit \in 1..size
  <2> TAKE j \in DOMAIN all
  <2>1. /\ Quot(j - 1, size) + 1 \in DOMAIN packets /\ Rem(j - 1, size) + 1 \in 1..size
        /\ all[j] = [packet |-> packets[Quot(j - 1, size) + 1], unit |-> Rem(j - 1, size) + 1]
    BY <1>2, <1>3
  <2> QED BY <2>1
<1>9. Len(all) = Len(packets) * size
  BY <1>4 DEF total
<1>10. \A n \in 0..(Len(all) - 1) :
             /\ n \div size + 1 \in DOMAIN packets /\ n % size \in 0..(size - 1)
             /\ n % size = 0 /\ n > 0 => Whole(all[n])
             /\ n % size > 0 => n > 0 /\ all[n] = [packet |-> packets[n \div size + 1], unit |-> n % size]
             /\ \A j \in 1..n : \E k \in 1..(n \div size + 1) :
                  /\ all[j].packet = packets[k]
                  /\ k = n \div size + 1 => all[j].unit <= n % size
  BY <1>6, Zenon DEF Quot, Rem
<1>11. all \in Seq(Sent) /\ Len(all) = Len(packets) * size
  BY <1>4, <1>9
<1> HIDE DEF Follows, Whole
<1> QED BY <1>5, <1>7, <1>8, <1>10, <1>11, Zenon DEF InTurn

\* Units that follow each other continue a run that ends with a whole packet.
LEMMA RunsJoin ==
  ASSUME NEW s \in Seq(Sent), NEW t \in Seq(Sent), Runs(s), Ended(s),
         \A j \in DOMAIN t : IF j = 1 THEN t[j].unit = 1 ELSE Follows(t[j - 1], t[j])
  PROVE  Runs(s \o t)
<1> DEFINE u == s \o t
<1>1. /\ Len(s) \in Nat /\ Len(t) \in Nat /\ DOMAIN s = 1..Len(s) /\ DOMAIN t = 1..Len(t)
      /\ u \in Seq(Sent) /\ DOMAIN u = 1..(Len(s) + Len(t))
      /\ \A i \in DOMAIN u : u[i] = IF i <= Len(s) THEN s[i] ELSE t[i - Len(s)]
  BY ConcatProperties, LenProperties
<1> HIDE DEF u
<1>2. ASSUME NEW i \in DOMAIN u PROVE IF i = 1 THEN u[i].unit = 1 ELSE Follows(u[i - 1], u[i])
  <2>1. CASE i <= Len(s)
    <3>1. i \in DOMAIN s /\ u[i] = s[i] /\ (i # 1 => i - 1 \in DOMAIN u /\ u[i - 1] = s[i - 1])
      BY <1>1, <2>1
    <3> QED BY <3>1 DEF Runs
  <2>2. CASE i = Len(s) + 1
    <3>1. 1 \in DOMAIN t /\ u[i] = t[1]
      BY <1>1, <2>2, SMTT(20)
    <3>2. u[i].unit = 1
      BY <3>1
    <3>3. ASSUME i # 1 PROVE u[i - 1] = s[Len(s)] /\ s # <<>>
      <4>1. i - 1 = Len(s) /\ Len(s) \in DOMAIN u /\ Len(s) <= Len(s) /\ Len(s) # 0
        BY <1>1, <2>2, <3>3
      <4> QED BY <1>1, <4>1, EmptySeq
    <3>4. ~(u[i].unit > 1)
      BY <3>2
    <3> QED BY <3>2, <3>3, <3>4 DEF Ended, Follows
  <2>3. CASE i > Len(s) + 1
    <3>1. /\ i - Len(s) \in DOMAIN t /\ i - Len(s) # 1 /\ i # 1 /\ u[i] = t[i - Len(s)]
          /\ i - 1 \in DOMAIN u /\ u[i - 1] = t[(i - Len(s)) - 1]
      <4>1. /\ i - Len(s) \in DOMAIN t /\ i - Len(s) # 1 /\ i # 1 /\ i - 1 \in DOMAIN u
            /\ ~(i <= Len(s)) /\ ~(i - 1 <= Len(s)) /\ (i - 1) - Len(s) = (i - Len(s)) - 1
        BY <1>1, <2>3
      <4> QED BY <1>1, <4>1
    <3> QED BY <3>1
  <2> QED BY <1>1, <2>1, <2>2, <2>3
<1> QED BY <1>2 DEF Runs, u

\* What Written does: all packets are written, or all up to one that is kept with
\* what it has left.
Wrote(fd, before, packets, size, mem) ==
  /\ stream' \in Seq(Sent) /\ room' \in 0..Buffer
  /\ \A x \in DOMAIN before : x \in DOMAIN stream' /\ stream'[x] = before[x]
  /\ \A x \in DOMAIN stream' : x \in DOMAIN before \/
       \E k \in DOMAIN packets : stream'[x].packet = packets[k] /\ stream'[x].unit \in 1..size
  /\ Runs(before) /\ Ended(before) => Runs(stream')
  /\ \/ /\ UNCHANGED <<writes, write_pending, pending_wset>>
        /\ Ended(before) => Ended(stream')
     \/ \E k \in DOMAIN packets, done \in 0..(size - 1) :
          /\ Keep(fd, packets[k], done, mem)
          /\ done = 0 /\ Ended(before) => Ended(stream')
          /\ done > 0 => /\ stream' # <<>>
                         /\ stream'[Len(stream')] = [packet |-> packets[k], unit |-> done]
          /\ \A x \in DOMAIN stream' : x \in DOMAIN before \/
               \E m \in 1..k : /\ stream'[x].packet = packets[m]
                               /\ m = k => stream'[x].unit <= done

LEMMA WrittenFacts ==
  ASSUME NEW fd, NEW before \in Seq(Sent), NEW packets \in Seq(Packets), NEW size \in Nat \ {0},
         NEW mem, NEW free \in 0..Buffer, \A k \in DOMAIN packets : Units(packets[k]) = size,
         Written(fd, before, packets, size, mem, free)
  PROVE  Wrote(fd, before, packets, size, mem)
<1>1. PICK all : all = AllUnits(packets, size)
  OBVIOUS
<1>a. InTurn(all, packets, size)
  BY <1>1, AllUnitsFacts
<1> DEFINE n == Fewer(free, Len(all))
<1>2. /\ all \in Seq(Sent)
      /\ \A j \in DOMAIN all : \E k \in DOMAIN packets :
           all[j].packet = packets[k] /\ all[j].unit \in 1..size
      /\ \A j \in DOMAIN all : IF j = 1 THEN all[j].unit = 1 ELSE Follows(all[j - 1], all[j])
      /\ all # <<>> => Whole(all[Len(all)])
  BY <1>a, Zenon DEF InTurn
<1>3. \A i \in 0..(Len(all) - 1) :
        /\ i \div size + 1 \in DOMAIN packets /\ i % size \in 0..(size - 1)
        /\ i % size = 0 /\ i > 0 => Whole(all[i])
        /\ i % size > 0 => i > 0 /\ all[i] = [packet |-> packets[i \div size + 1], unit |-> i % size]
        /\ \A j \in 1..i : \E k \in 1..(i \div size + 1) :
             /\ all[j].packet = packets[k]
             /\ k = i \div size + 1 => all[j].unit <= i % size
  BY <1>a, Zenon DEF InTurn
<1>4. /\ n \in Nat /\ n <= Len(all) /\ Len(all) \in Nat /\ DOMAIN all = 1..Len(all) /\ free - n \in 0..Buffer
  BY <1>2, LenProperties DEF Fewer
<1>5. /\ stream' = before \o SubSeq(all, 1, n) /\ room' = free - n
      /\ IF n = Len(all) THEN UNCHANGED <<writes, write_pending, pending_wset>>
         ELSE Keep(fd, packets[n \div size + 1], n % size, mem)
  BY <1>1 DEF Written
<1> HIDE DEF n
<1>6. PICK part : part = SubSeq(all, 1, n)
  OBVIOUS
<1>7. /\ part \in Seq(Sent) /\ Len(part) = n /\ DOMAIN part = 1..n
      /\ \A j \in 1..n : j \in DOMAIN all /\ part[j] = all[j] /\ all[j] \in Sent
  <2>1. \A j \in 1..n : j \in DOMAIN all /\ all[j] \in Sent
    BY <1>2, <1>4, ElementOfSeq
  <2>2. /\ part \in Seq(Sent) /\ Len(part) = IF 1 <= n THEN n - 1 + 1 ELSE 0
        /\ \A i \in 1..(n - 1 + 1) : part[i] = all[1 + i - 1]
    BY <1>4, <1>6, <2>1, SubSeqProperties
  <2>3. \A j \in 1..n : j \in 1..(n - 1 + 1) /\ 1 + j - 1 = j
    BY <1>4
  <2>4. Len(part) = n
    BY <1>4, <2>2
  <2> QED BY <2>1, <2>2, <2>3, <2>4, LenProperties
<1>8. /\ stream' \in Seq(Sent) /\ Len(before) \in Nat /\ DOMAIN before = 1..Len(before)
      /\ Len(stream') = Len(before) + n /\ DOMAIN stream' = 1..(Len(before) + n)
      /\ \A x \in DOMAIN stream' : stream'[x] = IF x <= Len(before) THEN before[x] ELSE part[x - Len(before)]
  <2>1. stream' = before \o part
    BY <1>5, <1>6
  <2>2. Len(before) \in Nat /\ DOMAIN before = 1..Len(before)
    BY LenProperties
  <2>3. /\ stream' \in Seq(Sent) /\ Len(stream') = Len(before) + n
        /\ \A i \in 1..(Len(before) + n) :
             stream'[i] = IF i <= Len(before) THEN before[i] ELSE part[i - Len(before)]
    <3>1. /\ before \o part \in Seq(Sent) /\ Len(before \o part) = Len(before) + Len(part)
          /\ \A i \in 1..(Len(before) + Len(part)) :
               (before \o part)[i] = IF i <= Len(before) THEN before[i] ELSE part[i - Len(before)]
      BY <1>7, ConcatProperties
    <3> QED BY <1>7, <2>1, <3>1
  <2>4. DOMAIN stream' = 1..(Len(before) + n)
    BY <2>3, LenProperties
  <2> QED BY <2>2, <2>3, <2>4
<1>9. \A x \in DOMAIN before : x \in DOMAIN stream' /\ stream'[x] = before[x]
  BY <1>4, <1>8
<1>10. \A x \in DOMAIN stream' : x \in DOMAIN before \/ (x - Len(before) \in 1..n /\ stream'[x] = all[x - Len(before)])
  BY <1>4, <1>7, <1>8
<1>11. \A x \in DOMAIN stream' : x \in DOMAIN before \/
              \E k \in DOMAIN packets : stream'[x].packet = packets[k] /\ stream'[x].unit \in 1..size
  <2>1. \A j \in 1..n : \E k \in DOMAIN packets : all[j].packet = packets[k] /\ all[j].unit \in 1..size
    BY <1>2, <1>7
  <2> QED BY <1>10, <2>1, Zenon
<1>12. Runs(before) /\ Ended(before) => Runs(stream')
  <2>1. \A j \in DOMAIN part : IF j = 1 THEN part[j].unit = 1 ELSE Follows(part[j - 1], part[j])
    <3> TAKE j \in DOMAIN part
    <3>1. j \in DOMAIN all /\ part[j] = all[j] /\ (j # 1 => part[j - 1] = all[j - 1])
      BY <1>4, <1>7
    <3> QED BY <1>2, <3>1
  <2> QED BY <1>5, <1>6, <1>7, <2>1, RunsJoin
<1>13. /\ n = 0 => stream' = before
       /\ n > 0 => stream' # <<>> /\ stream'[Len(stream')] = all[n]
  <2>1. n = 0 => part = <<>>
    BY <1>7, EmptySeq
  <2>2. n = 0 => stream' = before
    BY <1>5, <1>6, <2>1, ConcatEmptySeq
  <2>3. n > 0 => Len(stream') # 0 /\ Len(stream') \in DOMAIN stream' /\ n \in 1..n
                 /\ ~(Len(stream') <= Len(before)) /\ Len(stream') - Len(before) = n
    BY <1>4, <1>8
  <2>4. n > 0 => stream' # <<>>
    BY <2>3, EmptySeq
  <2> QED BY <1>7, <1>8, <2>2, <2>3, <2>4
<1>14. CASE n = Len(all)
  <2>1. Ended(before) => Ended(stream')
    <3>1. CASE n = 0
      BY <1>13, <3>1
    <3>2. CASE n > 0
      <4>1. all # <<>>
        BY <1>14, <3>2, EmptySeq
      <4> QED BY <1>2, <1>13, <1>14, <3>2, <4>1 DEF Ended
    <3> QED BY <1>4, <3>1, <3>2
  <2>2. UNCHANGED <<writes, write_pending, pending_wset>> /\ room' \in 0..Buffer
    BY <1>4, <1>5, <1>14
  <2> QED BY <1>8, <1>9, <1>11, <1>12, <2>1, <2>2 DEF Wrote
<1>15. CASE n # Len(all)
  <2>1. PICK k, done : k = n \div size + 1 /\ done = n % size
    OBVIOUS
  <2>2. n \in 0..(Len(all) - 1)
    <3>1. n \in Nat /\ n <= Len(all) /\ Len(all) \in Nat /\ n # Len(all)
      BY <1>4, <1>15
    <3> QED BY <3>1
  <2>3. /\ k \in DOMAIN packets /\ done \in 0..(size - 1)
        /\ done = 0 /\ n > 0 => Whole(all[n])
        /\ done > 0 => n > 0 /\ all[n] = [packet |-> packets[k], unit |-> done]
        /\ \A j \in 1..n : \E m \in 1..k : all[j].packet = packets[m] /\ (m = k => all[j].unit <= done)
    BY <1>3, <2>1, <2>2
  <2>4. Keep(fd, packets[k], done, mem)
    BY <1>5, <1>15, <2>1
  <2>5. done = 0 /\ Ended(before) => Ended(stream')
    <3>1. CASE n = 0
      BY <1>13, <3>1
    <3>2. CASE n > 0
      BY <1>13, <2>3, <3>2 DEF Ended
    <3> QED BY <1>4, <3>1, <3>2
  <2>6. done > 0 => stream' # <<>> /\ stream'[Len(stream')] = [packet |-> packets[k], unit |-> done]
    BY <1>13, <2>3
  <2>7. \A x \in DOMAIN stream' : x \in DOMAIN before \/
          \E m \in 1..k : stream'[x].packet = packets[m] /\ (m = k => stream'[x].unit <= done)
    <3>1. \A j \in 1..n : \E m \in 1..k : all[j].packet = packets[m] /\ (m = k => all[j].unit <= done)
      BY <2>3
    <3> QED BY <1>10, <3>1
  <2>8. \E k2 \in DOMAIN packets, done2 \in 0..(size - 1) :
                 /\ Keep(fd, packets[k2], done2, mem)
                 /\ done2 = 0 /\ Ended(before) => Ended(stream')
                 /\ done2 > 0 => /\ stream' # <<>>
                                 /\ stream'[Len(stream')] = [packet |-> packets[k2], unit |-> done2]
                 /\ \A x \in DOMAIN stream' : x \in DOMAIN before \/
                      \E m \in 1..k2 : /\ stream'[x].packet = packets[m]
                                       /\ m = k2 => stream'[x].unit <= done2
    BY <2>3, <2>4, <2>5, <2>6, <2>7
  <2>9. room' \in 0..Buffer
    BY <1>4, <1>5
  <2> QED BY <1>8, <1>9, <1>11, <1>12, <2>8, <2>9 DEF Wrote
<1> QED BY <1>14, <1>15

-----------------------------------------------------------------------------
(* Types *)

LEMMA Constants ==
  /\ Run \notin Apps /\ Run \in Threads /\ Apps \subseteq Threads /\ Threads = Apps \cup {Run}
  /\ Fds \subseteq Nat /\ NoSocket \notin Fds
  /\ \A n \in DOMAIN Number : Number[n] \in Fds
  /\ \A id \in 1..MaxSends, q \in {0, 1} : Publication(id, q) \in Packets
  /\ \A kind \in {"reply", "disconnect", "none"} : Other(kind) \in Packets
  /\ \A p \in Packets : Units(p) \in Nat \ {0}
  /\ \A id, q : Units(Publication(id, q)) = Length
  /\ \A kind \in {"reply", "disconnect", "none"} : Units(Other(kind)) = 1
<1>1. \A n \in DOMAIN Number : Number[n] \in Nat
  BY ElementOfSeq, LenProperties
<1> QED BY <1>1 DEF Run, Threads, Fds, ToSet, Publication, Other, Packets, Units

\* A record is added to writes.
LEMMA KeepFacts ==
  ASSUME WriterTypes, NEW fd \in Fds, NEW p \in Packets, NEW done \in 0..(Units(p) - 1),
         NEW mem \in {"app", "copy", "message", "own"},
         writes' = Append(writes, [fd |-> fd, packet |-> p, done |-> done, mem |-> mem])
  PROVE  /\ writes' \in Seq(Record)
         /\ Len(writes) \in Nat /\ DOMAIN writes = 1..Len(writes) /\ DOMAIN writes' = 1..(Len(writes) + 1)
         /\ \A i \in DOMAIN writes : writes'[i] = writes[i]
         /\ writes'[Len(writes) + 1] = [fd |-> fd, packet |-> p, done |-> done, mem |-> mem]
         /\ \A i \in DOMAIN writes' : /\ writes'[i].fd \in Fds
                                      /\ writes'[i].done \in 0..(Units(writes'[i].packet) - 1)
                                      /\ writes'[i].mem \in {"app", "copy", "message", "own"}
<1> DEFINE r == [fd |-> fd, packet |-> p, done |-> done, mem |-> mem]
<1>1. r \in Record
  BY Constants DEF Record
<1>2. writes \in Seq(Record)
  BY DEF WriterTypes
<1>3. /\ writes' \in Seq(Record) /\ Len(writes') = Len(writes) + 1
      /\ \A i \in 1..Len(writes) : writes'[i] = writes[i]
      /\ writes'[Len(writes) + 1] = r
  BY <1>1, <1>2, AppendProperties
<1>4. /\ Len(writes) \in Nat /\ DOMAIN writes = 1..Len(writes) /\ DOMAIN writes' = 1..(Len(writes) + 1)
  BY <1>2, <1>3, LenProperties
<1>5. \A i \in DOMAIN writes : /\ writes[i].fd \in Fds
                               /\ writes[i].done \in 0..(Units(writes[i].packet) - 1)
                               /\ writes[i].mem \in {"app", "copy", "message", "own"}
  BY DEF WriterTypes, TypeOK, Fds
<1>6. ASSUME NEW i \in DOMAIN writes'
      PROVE  /\ writes'[i].fd \in Fds
             /\ writes'[i].done \in 0..(Units(writes'[i].packet) - 1)
             /\ writes'[i].mem \in {"app", "copy", "message", "own"}
  <2>1. CASE i \in DOMAIN writes
    BY <1>3, <1>4, <1>5, <2>1
  <2>2. CASE i \notin DOMAIN writes
    <3>1. i = Len(writes) + 1
      BY <1>4, <2>2
    <3> QED BY <1>3, <3>1
  <2> QED BY <2>1, <2>2
<1> QED BY <1>3, <1>4, <1>6

\* What is said of writes and stream as types.
RecordsOK(w) == /\ w \in Seq(Record)
                /\ \A i \in DOMAIN w : /\ w[i].fd \in Fds
                                       /\ w[i].done \in 0..(Units(w[i].packet) - 1)
                                       /\ w[i].mem \in {"app", "copy", "message", "own"}
SentOK(s) == s \in Seq(Sent) /\ \A x \in DOMAIN s : s[x].unit <= Units(s[x].packet)

LEMMA WrittenTypes ==
  ASSUME WriterTypes, NEW fd \in Fds, NEW before, SentOK(before), NEW packets \in Seq(Packets),
         NEW size \in Nat \ {0}, NEW mem \in {"app", "copy", "message", "own"}, NEW free \in 0..Buffer,
         \A k \in DOMAIN packets : Units(packets[k]) = size,
         Written(fd, before, packets, size, mem, free)
  PROVE  /\ RecordsOK(writes') /\ SentOK(stream') /\ room' \in 0..Buffer
         /\ \/ UNCHANGED <<write_pending, pending_wset>>
            \/ write_pending' = write_pending \cup {fd} /\ pending_wset' = pending_wset \cup {fd}
<1> USE DEF SentOK
<1>1. /\ stream' \in Seq(Sent) /\ room' \in 0..Buffer
      /\ \A x \in DOMAIN before : x \in DOMAIN stream' /\ stream'[x] = before[x]
      /\ \A x \in DOMAIN stream' : x \in DOMAIN before \/
              \E k \in DOMAIN packets : stream'[x].packet = packets[k] /\ stream'[x].unit \in 1..size
      /\ \/ UNCHANGED <<writes, write_pending, pending_wset>>
         \/ \E k \in DOMAIN packets, done \in 0..(size - 1) : Keep(fd, packets[k], done, mem)
  <2>1. Wrote(fd, before, packets, size, mem)
    BY WrittenFacts
  <2> QED BY <2>1, Zenon DEF Wrote
<1>2. \A x \in DOMAIN stream' : stream'[x].unit <= Units(stream'[x].packet)
  <2> TAKE x \in DOMAIN stream'
  <2>1. CASE x \in DOMAIN before
    BY <1>1, <2>1
  <2>2. ASSUME NEW k \in DOMAIN packets, stream'[x].packet = packets[k], stream'[x].unit \in 1..size
        PROVE  stream'[x].unit <= Units(stream'[x].packet)
    BY <2>2
  <2> QED BY <1>1, <2>1, <2>2
<1>3. CASE UNCHANGED <<writes, write_pending, pending_wset>>
  BY <1>1, <1>2, <1>3 DEF WriterTypes, TypeOK, RecordsOK, Fds
<1>4. ASSUME NEW k \in DOMAIN packets, NEW done \in 0..(size - 1), Keep(fd, packets[k], done, mem)
      PROVE  /\ RecordsOK(writes')
             /\ write_pending' = write_pending \cup {fd} /\ pending_wset' = pending_wset \cup {fd}
  <2>1. packets[k] \in Packets /\ Units(packets[k]) = size
    BY ElementOfSeq, LenProperties
  <2> QED BY <1>4, <2>1, KeepFacts DEF Keep, RecordsOK
<1> QED BY <1>1, <1>2, <1>3, <1>4

LEMMA TypeInit == Init => WriterTypes /\ MutexInv
<1> SUFFICES ASSUME Init PROVE WriterTypes /\ MutexInv
  OBVIOUS
<1> USE Constants DEF Init
<1>1. TypeOK
  <2>1. DOMAIN writes = {} /\ outboundMsgs \in Seq(1..MaxSends)
    BY EmptySeq
  <2>2. connected = (socket # NoSocket)
    OBVIOUS
  <2>3. room \in 0..Buffer /\ socket \in ToSet(Number) \cup {NoSocket} /\ taken \in ToSet(Number) \cup {NoSocket}
    OBVIOUS
  <2>4. /\ copies \subseteq [fd : ToSet(Number), id : 1..MaxSends] /\ pwset \subseteq ToSet(Number)
        /\ write_pending \subseteq {socket} \ {NoSocket} /\ pending_wset \subseteq write_pending
    OBVIOUS
  <2>5. \A i \in DOMAIN writes : /\ writes[i].fd \in ToSet(Number)
                                 /\ writes[i].done \in 0..(Units(writes[i].packet) - 1)
                                 /\ writes[i].mem \in {"app", "copy", "message", "own"}
    BY <2>1
  <2> QED BY <2>1, <2>2, <2>3, <2>4, <2>5 DEF TypeOK
<1>2. pc[Run] = "select" /\ \A a \in Apps : pc[a] = "idle"
  OBVIOUS
<1>3. pc \in [Threads -> RunPlaces \cup AppPlaces] /\ job \in [Apps -> Packets]
  BY DEF RunPlaces, AppPlaces
<1>4. WriterTypes
  <2>1. writes \in Seq(Record) /\ stream \in Seq(Sent) /\ inbox \in Seq(Work) /\ DOMAIN stream = {}
    BY EmptySeq
  <2>2. Len(Number) \in Nat
    BY LenProperties
  <2>3. /\ acked \subseteq 1..MaxSends /\ broken \in BOOLEAN /\ conns \in 0..Len(Number)
        /\ sends \in 0..MaxSends /\ others \in 0..MaxOther
    <3>1. acked \subseteq 1..MaxSends /\ broken \in BOOLEAN
      OBVIOUS
    <3>2. conns \in 0..Len(Number)
      BY <2>2
    <3>3. sends \in 0..MaxSends
      OBVIOUS
    <3>4. others \in 0..MaxOther
      OBVIOUS
    <3> QED BY <3>1, <3>2, <3>3, <3>4
  <2>4. pc[Run] \in RunPlaces /\ \A a \in Apps : pc[a] \in AppPlaces
    BY <1>2 DEF RunPlaces, AppPlaces
  <2>5. \A x \in DOMAIN stream : stream[x].unit <= Units(stream[x].packet)
    BY <2>1
  <2> QED BY <1>1, <1>3, <2>1, <2>3, <2>4, <2>5, Zenon DEF WriterTypes, PcOK
<1> QED BY <1>2, <1>4 DEF MutexInv, Holds, At

LEMMA AppGoes ==
  ASSUME WriterTypes, NEW a \in Apps, NEW p \in AppPlaces, Go(a, p)
  PROVE  /\ PcOK' /\ pc'[Run] = pc[Run] /\ pc'[a] = p
         /\ \A b \in Apps : pc'[b] = IF b = a THEN p ELSE pc[b]
<1>1. pc' = [pc EXCEPT ![a] = p] /\ PcOK
  BY DEF Go, WriterTypes
<1>2. pc'[Run] = pc[Run] /\ pc'[a] = p /\ \A b \in Apps : pc'[b] = IF b = a THEN p ELSE pc[b]
  BY <1>1, Constants DEF PcOK
<1>3. pc' \in [Threads -> RunPlaces \cup AppPlaces]
  BY <1>1, Constants DEF PcOK
<1> QED BY <1>1, <1>2, <1>3 DEF PcOK

LEMMA RunGoes ==
  ASSUME WriterTypes, NEW p \in RunPlaces, Go(Run, p)
  PROVE  PcOK' /\ pc'[Run] = p /\ \A b \in Apps : pc'[b] = pc[b]
<1>1. pc' = [pc EXCEPT ![Run] = p] /\ PcOK
  BY DEF Go, WriterTypes
<1>2. pc'[Run] = p /\ \A b \in Apps : pc'[b] = pc[b]
  BY <1>1, Constants DEF PcOK
<1>3. pc' \in [Threads -> RunPlaces \cup AppPlaces]
  BY <1>1, Constants DEF PcOK
<1> QED BY <1>1, <1>2, <1>3 DEF PcOK

LEMMA SameGoes ==
  ASSUME WriterTypes, UNCHANGED pc
  PROVE  PcOK' /\ pc'[Run] = pc[Run] /\ \A b \in Apps : pc'[b] = pc[b]
BY DEF WriterTypes, PcOK

\* A thread that has done with a publication.
LEMMA ReturnTypes ==
  ASSUME WriterTypes, NEW a \in Apps, Return(a)
  PROVE  /\ PcOK' /\ job' \in [Apps -> Packets] /\ pc'[Run] = pc[Run] /\ pc'[a] = "idle"
         /\ \A b \in Apps : pc'[b] = IF b = a THEN "idle" ELSE pc[b]
<1>1. Go(a, "idle") /\ job' = [job EXCEPT ![a] = Other("none")] /\ "idle" \in AppPlaces
  BY DEF Return, AppPlaces
<1>2. job' \in [Apps -> Packets]
  BY <1>1, Constants DEF WriterTypes
<1> QED BY <1>1, <1>2, AppGoes

\* Steps that leave the lists and the network alone.
LEMMA QuietTypes ==
  ASSUME WriterTypes, UNCHANGED <<client, writes, write_pending, pending_wset, network>>,
         PcOK', job' \in [Apps -> Packets], sends' \in 0..MaxSends, others' \in 0..MaxOther,
         pwset' \subseteq Fds, taken' \in Fds \cup {NoSocket},
         copies' \subseteq [fd : Fds, id : 1..MaxSends]
  PROVE  WriterTypes'
<1>1. TypeOK'
  BY DEF WriterTypes, TypeOK, client, network, Fds
<1> QED BY <1>1 DEF WriterTypes, client, network

\* What the broker and the connection do.
LEMMA NetTypes ==
  ASSUME WriterTypes, UNCHANGED <<client, buffers, pwset, taken, pc, job, stream, conns, sends>>,
         room' \in 0..Buffer, broken' \in BOOLEAN, inbox' \in Seq(Work), acked' \subseteq 1..MaxSends,
         others' \in 0..MaxOther
  PROVE  WriterTypes'
<1>1. TypeOK'
  BY DEF WriterTypes, TypeOK, client, buffers
<1>2. PcOK'
  BY SameGoes
<1> QED BY <1>1, <1>2 DEF WriterTypes, client, buffers

\* The session is closed.
LEMMA CloseTypes ==
  ASSUME WriterTypes, connected, closeSession, PcOK', job' \in [Apps -> Packets], UNCHANGED <<pwset, bounds>>,
         taken' \in Fds \cup {NoSocket}
  PROVE  /\ WriterTypes' /\ ~connected' /\ socket' = NoSocket /\ stream' = <<>> /\ acked' = {} /\ inbox' = <<>>
         /\ write_pending' = {} /\ (outboundMsgs' = <<>> \/ outboundMsgs' = outboundMsgs)
         /\ \A i \in DOMAIN writes' : writes'[i].fd \in Fds
         /\ UNCHANGED <<copies, conns>>
<1> USE DEF closeSession, close
<1>1. socket \in Fds /\ write_pending \subseteq {socket} /\ pending_wset \subseteq write_pending
  BY DEF WriterTypes, TypeOK, Fds
<1>2. RecordsOK(writes')
  <2>1. Other("disconnect") \in Packets /\ 0 \in 0..(Units(Other("disconnect")) - 1)
    BY Constants
  <2>2. CASE UNCHANGED writes
    BY <2>2 DEF RecordsOK, WriterTypes, TypeOK, Fds
  <2>3. CASE writes' = Append(writes, [fd |-> socket, packet |-> Other("disconnect"), done |-> 0, mem |-> "own"])
    BY <1>1, <2>1, <2>3, KeepFacts DEF RecordsOK
  <2> QED BY <2>2, <2>3
<1>3. /\ write_pending' = {} /\ pending_wset' = {} /\ ~connected' /\ socket' = NoSocket
      /\ connected' = FALSE /\ stream' = <<>> /\ room' = 0 /\ broken' = FALSE /\ inbox' = <<>> /\ acked' = {}
      /\ UNCHANGED <<copies, conns>>
  BY <1>1
<1>4. outboundMsgs' \in Seq(1..MaxSends) /\ (outboundMsgs' = <<>> \/ outboundMsgs' = outboundMsgs)
  BY EmptySeq DEF WriterTypes, TypeOK
<1>5. TypeOK'
  <2>1. connected' = (socket' # NoSocket)
    BY <1>3
  <2>2. room' \in 0..Buffer /\ socket' \in Fds \cup {NoSocket} /\ pwset' \subseteq Fds
        /\ copies' \subseteq [fd : Fds, id : 1..MaxSends]
    BY <1>3 DEF WriterTypes, TypeOK, Fds
  <2> QED BY <1>2, <1>3, <1>4, <2>1, <2>2 DEF TypeOK, RecordsOK, Fds
<1>6. stream' \in Seq(Sent) /\ inbox' \in Seq(Work) /\ DOMAIN stream' = {}
  BY <1>3, EmptySeq
<1>7. WriterTypes'
  BY <1>2, <1>3, <1>5, <1>6 DEF WriterTypes, RecordsOK, bounds
<1> QED BY <1>2, <1>3, <1>4, <1>7 DEF RecordsOK

\* Packets are written.
LEMMA WriteTypes ==
  ASSUME WriterTypes, socket' \in Fds, connected' = TRUE, write_pending \subseteq {socket'},
         RecordsOK(writes'), SentOK(stream'), room' \in 0..Buffer,
         \/ UNCHANGED <<write_pending, pending_wset>>
         \/ write_pending' = write_pending \cup {socket'} /\ pending_wset' = pending_wset \cup {socket'},
         outboundMsgs' \in Seq(1..MaxSends), UNCHANGED <<copies, pwset, sends>>,
         taken' \in Fds \cup {NoSocket}, PcOK', job' \in [Apps -> Packets],
         broken' \in BOOLEAN, inbox' \in Seq(Work), acked' \subseteq 1..MaxSends, conns' \in 0..Len(Number),
         others' \in 0..MaxOther
  PROVE  WriterTypes'
<1>1. TypeOK'
  <2>1. socket' # NoSocket /\ connected' = (socket' # NoSocket)
    BY Constants
  <2>2. write_pending' \subseteq {socket'} \ {NoSocket} /\ pending_wset' \subseteq write_pending'
    BY <2>1 DEF WriterTypes, TypeOK
  <2>3. pwset' \subseteq Fds /\ copies' \subseteq [fd : Fds, id : 1..MaxSends]
    BY DEF WriterTypes, TypeOK, Fds
  <2> QED BY <2>1, <2>2, <2>3 DEF TypeOK, RecordsOK, Fds
<1> QED BY <1>1 DEF WriterTypes, RecordsOK, SentOK

\* The packets that are written are of one size.
LEMMA OnePacket ==
  ASSUME NEW p \in Packets
  PROVE  /\ <<p>> \in Seq(Packets) /\ DOMAIN <<p>> = {1} /\ <<p>>[1] = p /\ Units(p) \in Nat \ {0}
         /\ \A k \in DOMAIN <<p>> : Units(<<p>>[k]) = Units(p)
<1>1. <<p>> \in Seq(Packets) /\ Len(<<p>>) = 1 /\ <<p>>[1] = p
  OBVIOUS
<1>2. DOMAIN <<p>> = {1}
  BY <1>1, LenProperties
<1> QED BY <1>1, <1>2, Constants

LEMMA AllPublications ==
  ASSUME WriterTypes
  PROVE  /\ Unacknowledged \in Seq(Packets) /\ DOMAIN Unacknowledged = DOMAIN outboundMsgs
         /\ \A k \in DOMAIN Unacknowledged : /\ Unacknowledged[k] = Publication(outboundMsgs[k], 1)
                                             /\ Units(Unacknowledged[k]) = Length
<1>1. outboundMsgs \in Seq(1..MaxSends)
  BY DEF WriterTypes, TypeOK
<1>2. DOMAIN outboundMsgs = 1..Len(outboundMsgs) /\ Len(outboundMsgs) \in Nat
      /\ \A k \in DOMAIN outboundMsgs : outboundMsgs[k] \in 1..MaxSends
  BY <1>1, ElementOfSeq, LenProperties
<1>3. \A k \in DOMAIN outboundMsgs : Publication(outboundMsgs[k], 1) \in Packets
  <2> TAKE k \in DOMAIN outboundMsgs
  <2>1. outboundMsgs[k] \in 1..MaxSends
    BY <1>2
  <2> QED BY <2>1, Constants
<1>4. Unacknowledged \in [1..Len(outboundMsgs) -> Packets]
  BY <1>2, <1>3 DEF Unacknowledged
<1> QED BY <1>2, <1>4, FunctionIsSeq, Constants DEF Unacknowledged

\* A packet is written, or all unacknowledged ones, on the socket of the session.
LEMMA WriteOneTypes ==
  ASSUME WriterTypes, connected, NEW p \in Packets, NEW mem \in {"app", "copy", "message", "own"},
         Write(<<p>>, Units(p), mem)
  PROVE  /\ socket \in Fds /\ RecordsOK(writes') /\ SentOK(stream') /\ room' \in 0..Buffer
         /\ \/ UNCHANGED <<write_pending, pending_wset>>
            \/ write_pending' = write_pending \cup {socket} /\ pending_wset' = pending_wset \cup {socket}
<1>1. socket \in Fds /\ SentOK(stream) /\ room \in 0..Buffer
  BY DEF WriterTypes, TypeOK, SentOK, Fds
<1>2. PICK packets : packets = <<p>>
  OBVIOUS
<1>3. Written(socket, stream, packets, Units(p), mem, room)
  BY <1>2 DEF Write
<1>4. PICK size : size = Units(p)
  OBVIOUS
<1>5. packets \in Seq(Packets) /\ size \in Nat \ {0} /\ \A k \in DOMAIN packets : Units(packets[k]) = size
  BY <1>2, <1>4, OnePacket
<1>6. Written(socket, stream, packets, size, mem, room)
  BY <1>3, <1>4
<1> QED BY <1>1, <1>5, <1>6, WrittenTypes

LEMMA WriteAllTypes ==
  ASSUME WriterTypes, connected, Write(Unacknowledged, Length, "message")
  PROVE  /\ socket \in Fds /\ RecordsOK(writes') /\ SentOK(stream') /\ room' \in 0..Buffer
         /\ \/ UNCHANGED <<write_pending, pending_wset>>
            \/ write_pending' = write_pending \cup {socket} /\ pending_wset' = pending_wset \cup {socket}
<1>1. socket \in Fds /\ SentOK(stream) /\ room \in 0..Buffer
  BY DEF WriterTypes, TypeOK, SentOK, Fds
<1>2. Written(socket, stream, Unacknowledged, Length, "message", room)
  BY DEF Write
<1> QED BY <1>1, <1>2, AllPublications, WrittenTypes

-----------------------------------------------------------------------------
(* Every step keeps the types *)

LEMMA RemoveAtFacts ==
  ASSUME NEW S, NEW s \in Seq(S), NEW i \in DOMAIN s, NEW r, r = RemoveAt(s, i)
  PROVE  /\ r \in Seq(S) /\ Len(s) \in Nat \ {0} /\ Len(r) = Len(s) - 1 /\ i \in 1..Len(s)
         /\ DOMAIN s = 1..Len(s) /\ DOMAIN r = 1..(Len(s) - 1)
         /\ \A j \in DOMAIN r : r[j] = IF j < i THEN s[j] ELSE s[j + 1]
<1>1. Len(s) \in Nat \ {0} /\ DOMAIN s = 1..Len(s) /\ i \in 1..Len(s)
  <2>1. Len(s) \in Nat /\ DOMAIN s = 1..Len(s)
    BY LenProperties
  <2> QED BY <2>1
<1>2. \A j \in DOMAIN s : s[j] \in S
  BY ElementOfSeq, <1>1
<1>3. PICK x, y : x = SubSeq(s, 1, i - 1) /\ y = SubSeq(s, i + 1, Len(s))
  OBVIOUS
<1>4. x \in Seq(S) /\ Len(x) = i - 1 /\ \A j \in 1..(i - 1) : x[j] = s[j]
  <2>1. /\ x \in Seq(S) /\ Len(x) = IF 1 <= i - 1 THEN (i - 1) - 1 + 1 ELSE 0
        /\ \A j \in 1..((i - 1) - 1 + 1) : x[j] = s[1 + j - 1]
    <3>1. \A j \in 1..(i - 1) : s[j] \in S
      BY <1>1, <1>2
    <3>2. 1 \in Int /\ i - 1 \in Int
      BY <1>1
    <3> QED BY <1>3, <3>1, <3>2, SubSeqProperties
  <2>2. Len(x) = i - 1
    BY <1>1, <2>1
  <2>3. \A j \in 1..(i - 1) : j \in 1..((i - 1) - 1 + 1) /\ 1 + j - 1 = j
    BY <1>1
  <2> QED BY <2>1, <2>2, <2>3
<1>5. y \in Seq(S) /\ Len(y) = Len(s) - i /\ \A j \in 1..(Len(s) - i) : y[j] = s[i + j]
  <2>1. /\ y \in Seq(S) /\ Len(y) = IF i + 1 <= Len(s) THEN Len(s) - (i + 1) + 1 ELSE 0
        /\ \A j \in 1..(Len(s) - (i + 1) + 1) : y[j] = s[(i + 1) + j - 1]
    <3>1. \A j \in (i + 1)..Len(s) : s[j] \in S
      BY <1>1, <1>2
    <3>2. i + 1 \in Int /\ Len(s) \in Int
      BY <1>1
    <3> QED BY <1>3, <3>1, <3>2, SubSeqProperties
  <2>2. Len(y) = Len(s) - i
    BY <1>1, <2>1
  <2>3. \A j \in 1..(Len(s) - i) : j \in 1..(Len(s) - (i + 1) + 1) /\ (i + 1) + j - 1 = i + j
    BY <1>1
  <2> QED BY <2>1, <2>2, <2>3
<1>6. /\ r \in Seq(S) /\ Len(r) = (i - 1) + (Len(s) - i)
      /\ \A j \in 1..((i - 1) + (Len(s) - i)) : r[j] = IF j <= i - 1 THEN x[j] ELSE y[j - (i - 1)]
  <2>1. r = x \o y
    BY <1>3 DEF RemoveAt
  <2> QED BY <1>4, <1>5, <2>1, ConcatProperties, SMTT(20)
<1>7. Len(r) = Len(s) - 1
  BY <1>1, <1>6
<1>8. DOMAIN r = 1..(Len(s) - 1)
  BY <1>6, <1>7, LenProperties
<1>9. ASSUME NEW j \in DOMAIN r PROVE r[j] = IF j < i THEN s[j] ELSE s[j + 1]
  <2>1. j \in Nat /\ 1 <= j /\ j <= Len(s) - 1 /\ j \in 1..((i - 1) + (Len(s) - i))
    BY <1>1, <1>8
  <2>2. CASE j < i
    <3>1. j <= i - 1 /\ j \in 1..(i - 1)
      BY <1>1, <2>1, <2>2
    <3> QED BY <1>4, <1>6, <2>1, <2>2, <3>1
  <2>3. CASE ~(j < i)
    <3>1. ~(j <= i - 1) /\ j - (i - 1) \in 1..(Len(s) - i) /\ i + (j - (i - 1)) = j + 1
      BY <1>1, <2>1, <2>3
    <3>2. r[j] = y[j - (i - 1)]
      BY <1>6, <2>1, <3>1
    <3> QED BY <1>5, <2>3, <3>1, <3>2
  <2> QED BY <2>2, <2>3
<1> QED BY <1>1, <1>6, <1>7, <1>8, <1>9

\* What a thread holds that is about to write a publication, or has stored it.
JobInv ==
  /\ \A a \in Apps : At(a, "check") \/ Holds(a) =>
       job[a].kind = "publish" /\ job[a].id \in 1..sends /\ job[a].qos = QoS[a]
  /\ \A a \in Apps : Holds(a) => QoS[a] = 0
  /\ \A a, b \in Apps : At(a, "check") /\ At(b, "check") /\ job[a].id = job[b].id => a = b

BaseInv == WriterTypes /\ MutexInv /\ JobInv

LEMMA CalmStep ==
  ASSUME BaseInv, sends' = sends,
         \A b \in Apps : pc'[b] \in {"check", "store"} => pc[b] = pc'[b] /\ job'[b] = job[b],
         \A b \in Apps : pc'[b] = "store" => connected' /\ pc'[Run] # "retry",
         pc'[Run] \in {"clear", "complete"} => connected'
  PROVE  MutexInv' /\ JobInv'
<1>1. MutexInv'
  BY DEF BaseInv, MutexInv, Holds, At
<1>2. JobInv'
  BY DEF BaseInv, JobInv, Holds, At
<1> QED BY <1>1, <1>2

\* The application threads.
LEMMA PublishBase == ASSUME BaseInv, NEW a \in Apps, publish(a) PROVE BaseInv'
<1>1. /\ pc[a] = "idle" /\ sends < MaxSends /\ sends' = sends + 1 /\ Go(a, "check")
      /\ job' = [job EXCEPT ![a] = Publication(sends + 1, QoS[a])]
      /\ UNCHANGED <<client, buffers, pwset, taken, network, others>>
  BY DEF publish, At
<1>2. sends \in 0..MaxSends /\ others \in 0..MaxOther /\ job \in [Apps -> Packets] /\ WriterTypes
  BY DEF BaseInv, WriterTypes
<1>3. sends' \in 0..MaxSends /\ sends' \in 1..sends' /\ sends' \in 1..MaxSends /\ QoS[a] \in {0, 1}
  BY <1>1, <1>2
<1>4. Publication(sends + 1, QoS[a]) \in Packets
  BY <1>1, <1>3, Constants
<1>5. job' \in [Apps -> Packets] /\ \A b \in Apps : job'[b] = IF b = a THEN Publication(sends + 1, QoS[a]) ELSE job[b]
  BY <1>1, <1>2, <1>4
<1>6. /\ PcOK' /\ pc'[Run] = pc[Run] /\ pc'[a] = "check"
      /\ \A b \in Apps : pc'[b] = IF b = a THEN "check" ELSE pc[b]
  <2>1. "check" \in AppPlaces
    BY DEF AppPlaces
  <2> QED BY <1>1, <1>2, <2>1, AppGoes
<1>7. WriterTypes'
  <2>1. pwset' \subseteq Fds /\ taken' \in Fds \cup {NoSocket} /\ copies' \subseteq [fd : Fds, id : 1..MaxSends]
    BY <1>1, <1>2 DEF WriterTypes, TypeOK, Fds, buffers
  <2>2. UNCHANGED <<client, writes, write_pending, pending_wset, network>> /\ others' \in 0..MaxOther
    BY <1>1, <1>2 DEF buffers
  <2> QED BY <1>2, <1>3, <1>5, <1>6, <2>1, <2>2, QuietTypes
<1>8. MutexInv'
  <2>1. connected' = connected
    BY <1>1 DEF client
  <2>2. MutexInv
    BY DEF BaseInv
  <2> QED BY <1>1, <1>6, <2>1, <2>2 DEF MutexInv, Holds, At
<1>9. JobInv'
  <2>1. JobInv
    BY DEF BaseInv
  <2>2. /\ Publication(sends + 1, QoS[a]).kind = "publish" /\ Publication(sends + 1, QoS[a]).id = sends'
        /\ Publication(sends + 1, QoS[a]).qos = QoS[a]
    BY <1>1 DEF Publication
  <2>3. \A b \in Apps : b # a /\ (At(b, "check")' \/ Holds(b)') => (At(b, "check") \/ Holds(b)) /\ job'[b] = job[b]
    BY <1>5, <1>6 DEF At, Holds
  <2>4. \A id \in 1..sends : id \in 1..sends' /\ id # sends'
    BY <1>1, <1>2
  <2>5. ASSUME NEW b \in Apps, At(b, "check")' \/ Holds(b)'
        PROVE  job'[b].kind = "publish" /\ job'[b].id \in 1..sends' /\ job'[b].qos = QoS[b]
    <3>1. CASE b = a
      BY <1>3, <1>5, <2>2, <3>1
    <3>2. CASE b # a
      BY <2>1, <2>3, <2>4, <2>5, <3>2 DEF JobInv
    <3> QED BY <3>1, <3>2
  <2>6. \A b \in Apps : Holds(b)' => QoS[b] = 0
    BY <1>6, <2>1 DEF JobInv, Holds, At
  <2>7. ASSUME NEW b \in Apps, NEW c \in Apps, At(b, "check")', At(c, "check")', job'[b].id = job'[c].id
        PROVE  b = c
    <3>1. CASE b # a /\ c # a
      <4>1. At(b, "check") /\ At(c, "check")
        BY <1>6, <2>7, <3>1 DEF At
      <4>2. job[b].id = job[c].id
        BY <1>5, <2>7, <3>1
      <4> QED BY <2>1, <4>1, <4>2 DEF JobInv
    <3>2. \A d \in Apps : d # a /\ At(d, "check")' => job'[d].id # sends'
      BY <2>1, <2>3, <2>4 DEF JobInv
    <3>3. job'[a].id = sends'
      BY <1>5, <2>2
    <3> QED BY <2>7, <3>1, <3>2, <3>3
  <2> QED BY <2>5, <2>6, <2>7 DEF JobInv
<1> QED BY <1>7, <1>8, <1>9 DEF BaseInv

LEMMA StartBase == ASSUME BaseInv, NEW a \in Apps, startPublish(a) PROVE BaseInv'
<1>1. /\ At(a, "check") /\ ClientFree /\ WriterTypes
      /\ UNCHANGED <<socket, connected, pwset, taken, broken, inbox, acked, conns, bounds>>
  BY DEF startPublish, BaseInv
<1>2. /\ sends \in 0..MaxSends /\ others \in 0..MaxOther /\ job \in [Apps -> Packets] /\ outboundMsgs \in Seq(1..MaxSends)
      /\ copies \subseteq [fd : Fds, id : 1..MaxSends] /\ pwset \subseteq Fds /\ taken \in Fds \cup {NoSocket}
      /\ socket \in Fds \cup {NoSocket} /\ connected = (socket # NoSocket) /\ write_pending \subseteq {socket}
      /\ broken \in BOOLEAN /\ inbox \in Seq(Work) /\ acked \subseteq 1..MaxSends /\ conns \in 0..Len(Number)
      /\ room \in 0..Buffer /\ RecordsOK(writes) /\ SentOK(stream)
  BY <1>1 DEF WriterTypes, TypeOK, Fds, RecordsOK, SentOK
<1>3. /\ sends' \in 0..MaxSends /\ others' \in 0..MaxOther /\ pwset' \subseteq Fds /\ taken' \in Fds \cup {NoSocket}
      /\ broken' \in BOOLEAN /\ inbox' \in Seq(Work) /\ acked' \subseteq 1..MaxSends /\ conns' \in 0..Len(Number)
      /\ sends' = sends
  BY <1>1, <1>2 DEF bounds
<1>4. job[a] \in Packets /\ job[a].id \in 1..sends /\ job[a].id \in 1..MaxSends /\ job[a].qos = QoS[a] /\ QoS[a] \in {0, 1}
  BY <1>1, <1>2 DEF BaseInv, JobInv
<1>5. {"idle", "store", "wait", "fail"} \subseteq AppPlaces
  BY DEF AppPlaces
<1>6. CASE ~connected /\ Return(a) /\ UNCHANGED <<outboundMsgs, buffers, stream, room>>
  <2>1. /\ PcOK' /\ job' \in [Apps -> Packets] /\ pc'[Run] = pc[Run] /\ pc'[a] = "idle"
        /\ \A b \in Apps : pc'[b] = IF b = a THEN "idle" ELSE pc[b]
    BY <1>1, <1>6, ReturnTypes
  <2>2. \A b \in Apps : b # a => job'[b] = job[b]
    BY <1>2, <1>6 DEF Return
  <2>3. WriterTypes'
    <3>1. UNCHANGED <<client, writes, write_pending, pending_wset, network>> /\ copies' \subseteq [fd : Fds, id : 1..MaxSends]
      BY <1>1, <1>2, <1>6 DEF client, buffers, network
    <3> QED BY <1>1, <1>3, <2>1, <3>1, QuietTypes
  <2>4. MutexInv' /\ JobInv'
    <3>1. connected' = connected
      BY <1>1
    <3> QED BY <1>3, <2>1, <2>2, <3>1, CalmStep DEF BaseInv, MutexInv, Holds, At
  <2> QED BY <2>3, <2>4 DEF BaseInv
<1>7. CASE ~(~connected /\ Return(a) /\ UNCHANGED <<outboundMsgs, buffers, stream, room>>)
  <2>1. /\ connected /\ noPendingWrites(socket)
        /\ outboundMsgs' = IF job[a].qos = 1 THEN Append(outboundMsgs, job[a].id) ELSE outboundMsgs
        /\ UNCHANGED copies
        /\ \/ Refuses /\ Go(a, "fail") /\ UNCHANGED <<job, buffers, stream, room>>
           \/ /\ Write(<<job[a]>>, Units(job[a]), IF job[a].qos = 1 THEN "message" ELSE "app")
              /\ \/ Go(a, IF job[a].qos = 0 THEN "store" ELSE "wait") /\ UNCHANGED job
                 \/ Return(a)
    BY <1>7 DEF startPublish, buffers
  <2>2. outboundMsgs' \in Seq(1..MaxSends)
    BY <1>2, <1>4, <2>1, AppendProperties
  <2>3. /\ PcOK' /\ job' \in [Apps -> Packets] /\ pc'[Run] = pc[Run]
        /\ \A b \in Apps : b # a => pc'[b] = pc[b] /\ job'[b] = job[b]
        /\ pc'[a] \in {"idle", "store", "wait", "fail"}
        /\ pc'[a] = "store" => job' = job /\ job[a].qos = 0
    <3>1. ASSUME NEW p \in {"store", "wait", "fail"}, Go(a, p), UNCHANGED job
          PROVE  /\ PcOK' /\ job' \in [Apps -> Packets] /\ pc'[Run] = pc[Run] /\ pc'[a] = p
                 /\ \A b \in Apps : b # a => pc'[b] = pc[b] /\ job'[b] = job[b]
      BY <1>1, <1>2, <1>5, <3>1, AppGoes
    <3>2. CASE Return(a)
      <4>1. \A b \in Apps : b # a => job'[b] = job[b]
        BY <1>2, <3>2 DEF Return
      <4> QED BY <1>1, <3>2, <4>1, ReturnTypes
    <3>3. CASE Go(a, IF job[a].qos = 0 THEN "store" ELSE "wait") /\ UNCHANGED job
      <4>1. CASE job[a].qos = 0
        BY <3>1, <3>3, <4>1
      <4>2. CASE job[a].qos # 0
        BY <3>1, <3>3, <4>2
      <4> QED BY <4>1, <4>2
    <3>4. CASE Go(a, "fail") /\ UNCHANGED job
      BY <3>1, <3>4
    <3> QED BY <2>1, <3>2, <3>3, <3>4
  <2>4. /\ RecordsOK(writes') /\ SentOK(stream') /\ room' \in 0..Buffer
        /\ \/ UNCHANGED <<write_pending, pending_wset>>
           \/ write_pending' = write_pending \cup {socket} /\ pending_wset' = pending_wset \cup {socket}
    <3>1. CASE UNCHANGED <<job, buffers, stream, room>>
      BY <1>2, <3>1 DEF buffers
    <3>2. ASSUME NEW mem \in {"app", "message"}, Write(<<job[a]>>, Units(job[a]), mem)
          PROVE  /\ RecordsOK(writes') /\ SentOK(stream') /\ room' \in 0..Buffer
                 /\ \/ UNCHANGED <<write_pending, pending_wset>>
                    \/ write_pending' = write_pending \cup {socket} /\ pending_wset' = pending_wset \cup {socket}
      BY <1>1, <1>4, <2>1, <3>2, WriteOneTypes
    <3>3. CASE Write(<<job[a]>>, Units(job[a]), IF job[a].qos = 1 THEN "message" ELSE "app")
      <4>1. PICK mem : mem = IF job[a].qos = 1 THEN "message" ELSE "app"
        OBVIOUS
      <4> QED BY <3>2, <3>3, <4>1
    <3> QED BY <2>1, <3>1, <3>3
  <2>5. socket' = socket /\ connected' = TRUE /\ socket' \in Fds /\ UNCHANGED <<copies, pwset, sends>>
    BY <1>1, <1>2, <2>1 DEF bounds
  <2>6. WriterTypes'
    <3>1. /\ write_pending \subseteq {socket'}
          /\ \/ UNCHANGED <<write_pending, pending_wset>>
             \/ write_pending' = write_pending \cup {socket'} /\ pending_wset' = pending_wset \cup {socket'}
      BY <1>2, <2>4, <2>5
    <3> QED BY <1>1, <1>3, <2>2, <2>3, <2>4, <2>5, <3>1, WriteTypes
  <2>7. MutexInv'
    <3>1. pc[Run] # "retry" /\ \A b \in Apps : pc[b] # "store"
      BY <1>1 DEF ClientFree, At
    <3> QED BY <2>3, <2>5, <3>1 DEF MutexInv, Holds, At
  <2>8. JobInv'
    <3>1. JobInv
      BY DEF BaseInv
    <3>2. \A b \in Apps : At(b, "check")' => At(b, "check") /\ job'[b] = job[b]
      BY <2>3 DEF At
    <3>3. \A b \in Apps : Holds(b)' => b = a /\ job'[b] = job[b] /\ QoS[b] = 0
      BY <1>1, <1>4, <2>3 DEF Holds, At, ClientFree
    <3> QED BY <1>1, <1>3, <3>1, <3>2, <3>3 DEF JobInv
  <2> QED BY <2>6, <2>7, <2>8 DEF BaseInv
<1> QED BY <1>6, <1>7

LEMMA StoreBase == ASSUME BaseInv, NEW a \in Apps, storeQoS0(a) PROVE BaseInv'
<1>1. /\ pc[a] = "store" /\ Go(a, "wait") /\ WriterTypes /\ MutexInv /\ JobInv
      /\ copies' = copies \cup {[fd |-> socket, id |-> job[a].id]} /\ writes' = updateWrite
      /\ UNCHANGED <<client, write_pending, pending_wset, pwset, taken, job, network, bounds>>
  BY DEF storeQoS0, At, BaseInv
<1>2. connected /\ job[a].id \in 1..sends
  BY <1>1 DEF MutexInv, JobInv, Holds, At
<1>3. /\ sends \in 0..MaxSends /\ others \in 0..MaxOther /\ copies \subseteq [fd : Fds, id : 1..MaxSends]
      /\ socket \in Fds /\ writes \in Seq(Record) /\ write_pending \subseteq {socket}
      /\ \A i \in DOMAIN writes : /\ writes[i].fd \in Fds
                                  /\ writes[i].done \in 0..(Units(writes[i].packet) - 1)
                                  /\ writes[i].mem \in {"app", "copy", "message", "own"}
  BY <1>1, <1>2 DEF WriterTypes, TypeOK, Fds
<1>4. copies' \subseteq [fd : Fds, id : 1..MaxSends]
  <2>1. job[a].id \in 1..MaxSends
    BY <1>2, <1>3
  <2> QED BY <1>1, <1>3, <2>1
<1>5. RecordsOK(writes')
  <2>1. Len(writes) \in Nat /\ DOMAIN writes = 1..Len(writes) /\ \A i \in DOMAIN writes : writes[i] \in Record
    BY <1>3, ElementOfSeq, LenProperties
  <2>2. ASSUME NEW i \in DOMAIN writes
        PROVE  /\ writes'[i] \in Record
               /\ writes'[i].fd \in Fds /\ writes'[i].done \in 0..(Units(writes'[i].packet) - 1)
               /\ writes'[i].mem \in {"app", "copy", "message", "own"}
    <3>1. writes'[i] = writes[i] \/ writes'[i] = [writes[i] EXCEPT !.mem = "copy"]
      BY <1>1 DEF updateWrite
    <3>2. writes[i] \in Record
      BY <2>1
    <3> QED BY <1>3, <3>1, <3>2 DEF Record
  <2>3. DOMAIN writes' = 1..Len(writes) /\ writes' \in [1..Len(writes) -> Record]
    BY <1>1, <2>1, <2>2 DEF updateWrite
  <2>4. writes' \in Seq(Record)
    BY <2>1, <2>3, FunctionIsSeq
  <2> QED BY <2>1, <2>2, <2>3, <2>4 DEF RecordsOK
<1>6. /\ PcOK' /\ pc'[Run] = pc[Run] /\ pc'[a] = "wait"
      /\ \A b \in Apps : pc'[b] = IF b = a THEN "wait" ELSE pc[b]
  <2>1. "wait" \in AppPlaces
    BY DEF AppPlaces
  <2> QED BY <1>1, <2>1, AppGoes
<1>7. WriterTypes'
  <2>1. TypeOK'
    BY <1>1, <1>4, <1>5 DEF WriterTypes, TypeOK, client, network, RecordsOK, Fds
  <2> QED BY <1>1, <1>5, <1>6, <2>1 DEF WriterTypes, RecordsOK, client, network, bounds
<1>8. MutexInv' /\ JobInv'
  <2>1. connected' = connected /\ sends' = sends /\ job' = job
    BY <1>1 DEF client, bounds
  <2> QED BY <1>1, <1>2, <1>6, <2>1, CalmStep DEF MutexInv, Holds, At
<1> QED BY <1>7, <1>8 DEF BaseInv

\* Steps of a thread that only change where it is.
LEMMA AppMoves ==
  ASSUME BaseInv, NEW a \in Apps, NEW p \in {"idle", "fail"}, UNCHANGED <<client, buffers, pwset, taken, network>>,
         Go(a, p), job' = job \/ Return(a), sends' = sends, others' \in 0..MaxOther
  PROVE  BaseInv'
<1>1. /\ PcOK' /\ pc'[Run] = pc[Run] /\ pc'[a] = p /\ job' \in [Apps -> Packets]
      /\ \A b \in Apps : pc'[b] = IF b = a THEN p ELSE pc[b]
      /\ \A b \in Apps : b # a => job'[b] = job[b]
  <2>1. p \in AppPlaces /\ WriterTypes
    BY DEF AppPlaces, BaseInv
  <2>2. job \in [Apps -> Packets]
    BY <2>1 DEF WriterTypes
  <2>3. CASE job' = job
    BY <2>1, <2>2, <2>3, AppGoes
  <2>4. CASE Return(a)
    <3>1. \A b \in Apps : b # a => job'[b] = job[b]
      BY <2>2, <2>4 DEF Return
    <3> QED BY <2>1, <2>4, <3>1, ReturnTypes, AppGoes
  <2> QED BY <2>3, <2>4
<1>2. WriterTypes'
  <2>1. /\ sends' \in 0..MaxSends /\ pwset' \subseteq Fds /\ taken' \in Fds \cup {NoSocket}
        /\ copies' \subseteq [fd : Fds, id : 1..MaxSends] /\ WriterTypes
        /\ UNCHANGED <<client, writes, write_pending, pending_wset, network>>
    BY DEF BaseInv, WriterTypes, TypeOK, Fds, buffers
  <2> QED BY <1>1, <2>1, QuietTypes
<1>3. MutexInv' /\ JobInv'
  <2>1. connected' = connected
    BY DEF client
  <2> QED BY <1>1, <2>1, CalmStep DEF BaseInv, MutexInv, Holds, At
<1> QED BY <1>2, <1>3 DEF BaseInv

LEMMA ReturnsBase == ASSUME BaseInv, NEW a \in Apps, publishReturns(a) PROVE BaseInv'
<1>1. others' \in 0..MaxOther /\ sends' = sends
  BY DEF publishReturns, bounds, BaseInv, WriterTypes
<1>2. UNCHANGED <<client, buffers, pwset, taken, network>> /\ Return(a) /\ Go(a, "idle")
  BY DEF publishReturns, Return
<1> QED BY <1>1, <1>2, AppMoves

LEMMA DisconnectBase == ASSUME BaseInv, NEW a \in Apps, disconnect(a) PROVE BaseInv'
<1>1. others \in 0..MaxOther /\ others < MaxOther /\ others' = others + 1 /\ sends' = sends
  BY DEF disconnect, Bounded, BaseInv, WriterTypes
<1>2. others' \in 0..MaxOther
  BY <1>1
<1>3. UNCHANGED <<client, buffers, pwset, taken, network>> /\ job' = job /\ Go(a, "fail")
  BY DEF disconnect
<1> QED BY <1>1, <1>2, <1>3, AppMoves

LEMMA CloseBase ==
  ASSUME BaseInv, connected, closeSession, PcOK', job' \in [Apps -> Packets], UNCHANGED <<pwset, bounds>>,
         taken' \in Fds \cup {NoSocket},
         \A b \in Apps : pc'[b] \in {"check", "store"} => pc[b] = pc'[b] /\ job'[b] = job[b],
         \A b \in Apps : pc'[b] # "store",
         pc'[Run] \notin {"clear", "complete"}
  PROVE  BaseInv'
<1>1. WriterTypes'
  BY CloseTypes DEF BaseInv
<1>2. MutexInv' /\ JobInv'
  BY CalmStep DEF bounds
<1> QED BY <1>1, <1>2 DEF BaseInv

LEMMA Disconnect1Base == ASSUME BaseInv, NEW a \in Apps, disconnect1(a) PROVE BaseInv'
<1>1. /\ At(a, "fail") /\ ClientFree /\ SocketFree /\ Return(a) /\ UNCHANGED <<pwset, taken, bounds>> /\ WriterTypes
      /\ IF connected THEN closeSession ELSE UNCHANGED <<client, buffers, network>>
  BY DEF disconnect1, BaseInv
<1>2. CASE connected
  <2>1. /\ PcOK' /\ job' \in [Apps -> Packets] /\ pc'[Run] = pc[Run] /\ pc'[a] = "idle"
        /\ \A b \in Apps : pc'[b] = IF b = a THEN "idle" ELSE pc[b]
    BY <1>1, ReturnTypes
  <2>2. \A b \in Apps : b # a => job'[b] = job[b]
    BY <1>1 DEF Return, WriterTypes
  <2>3. taken' \in Fds \cup {NoSocket}
    BY <1>1 DEF WriterTypes, TypeOK, Fds
  <2>4. \A b \in Apps : pc[b] # "store"
    BY <1>1 DEF ClientFree, At
  <2>5. pc'[Run] \notin {"clear", "complete"}
    BY <1>1, <2>1 DEF SocketFree
  <2>6. \A b \in Apps : pc'[b] \in {"check", "store"} => pc[b] = pc'[b] /\ job'[b] = job[b]
    BY <2>1, <2>2
  <2>7. \A b \in Apps : pc'[b] # "store"
    BY <2>1, <2>4
  <2>8. UNCHANGED <<pwset, bounds>> /\ closeSession
    BY <1>1, <1>2
  <2> QED BY <1>2, <2>1, <2>3, <2>5, <2>6, <2>7, <2>8, CloseBase
<1>3. CASE ~connected
  <2>1. others' \in 0..MaxOther /\ sends' = sends
    BY <1>1 DEF bounds, WriterTypes
  <2>2. UNCHANGED <<client, buffers, pwset, taken, network>> /\ Go(a, "idle")
    BY <1>1, <1>3 DEF Return
  <2> QED BY <1>1, <2>1, <2>2, AppMoves
<1> QED BY <1>2, <1>3

LEMMA ConnectBase == ASSUME BaseInv, NEW a \in Apps, connect(a) PROVE BaseInv'
<1>1. /\ At(a, "idle") /\ ClientFree /\ ~connected /\ conns < Len(Number) /\ conns' = conns + 1
      /\ socket' = Number[conns + 1] /\ connected' = TRUE /\ broken' = FALSE /\ inbox' = <<>> /\ acked' = {}
      /\ Written(socket', <<>>, Unacknowledged, Length, "message", Buffer)
      /\ UNCHANGED <<outboundMsgs, copies, pwset, taken, pc, job, bounds>>
      /\ WriterTypes
  BY DEF connect, BaseInv
<1>2. /\ conns \in 0..Len(Number) /\ write_pending \subseteq {} /\ outboundMsgs \in Seq(1..MaxSends)
      /\ taken \in Fds \cup {NoSocket} /\ job \in [Apps -> Packets] /\ others \in 0..MaxOther
  BY <1>1 DEF WriterTypes, TypeOK, Fds
<1>3. conns' \in 0..Len(Number) /\ socket' \in Fds
  <2>1. Len(Number) \in Nat /\ DOMAIN Number = 1..Len(Number)
    BY LenProperties
  <2>2. conns + 1 \in DOMAIN Number
    BY <1>1, <1>2, <2>1
  <2>3. socket' \in Fds
    BY <1>1, <2>2, Constants
  <2>4. conns' \in 0..Len(Number)
    BY <1>1, <1>2, <2>1
  <2> QED BY <2>3, <2>4
<1>4. /\ RecordsOK(writes') /\ SentOK(stream') /\ room' \in 0..Buffer
      /\ \/ UNCHANGED <<write_pending, pending_wset>>
         \/ write_pending' = write_pending \cup {socket'} /\ pending_wset' = pending_wset \cup {socket'}
  <2>1. SentOK(<<>>) /\ Buffer \in 0..Buffer
    BY EmptySeq DEF SentOK
  <2>2. PICK fd, mem, packets : fd = socket' /\ mem = "message" /\ packets = Unacknowledged
    OBVIOUS
  <2>3. /\ packets \in Seq(Packets) /\ \A k \in DOMAIN packets : Units(packets[k]) = Length
        /\ fd \in Fds /\ mem \in {"app", "copy", "message", "own"}
    BY <1>1, <1>3, <2>2, AllPublications
  <2>4. Written(fd, <<>>, packets, Length, mem, Buffer)
    BY <1>1, <2>2
  <2> QED BY <1>1, <2>1, <2>2, <2>3, <2>4, WrittenTypes
<1>5. PcOK' /\ pc'[Run] = pc[Run] /\ \A b \in Apps : pc'[b] = pc[b]
  BY <1>1, SameGoes
<1>6. WriterTypes'
  <2>1. /\ outboundMsgs' \in Seq(1..MaxSends) /\ UNCHANGED <<copies, pwset, sends>> /\ taken' \in Fds \cup {NoSocket}
        /\ job' \in [Apps -> Packets] /\ broken' \in BOOLEAN /\ inbox' \in Seq(Work) /\ acked' \subseteq 1..MaxSends
        /\ others' \in 0..MaxOther /\ write_pending \subseteq {socket'}
    BY <1>1, <1>2, EmptySeq DEF bounds
  <2> QED BY <1>1, <1>3, <1>4, <1>5, <2>1, WriteTypes
<1>7. MutexInv' /\ JobInv'
  <2>1. sends' = sends /\ connected' /\ job' = job
    BY <1>1 DEF bounds
  <2> QED BY <1>5, <2>1, CalmStep DEF BaseInv, MutexInv, Holds, At
<1> QED BY <1>6, <1>7 DEF BaseInv

\* The background thread.
LEMMA RunMoves ==
  ASSUME BaseInv, NEW p \in RunPlaces, Go(Run, p), p \in {"clear", "complete"} => connected,
         p = "retry" => \A a \in Apps : ~Holds(a), UNCHANGED <<client, job, sends>>
  PROVE  PcOK' /\ MutexInv' /\ JobInv' /\ job' \in [Apps -> Packets] /\ pc'[Run] = p /\ \A b \in Apps : pc'[b] = pc[b]
<1>1. PcOK' /\ pc'[Run] = p /\ \A b \in Apps : pc'[b] = pc[b]
  BY RunGoes DEF BaseInv
<1>2. connected' = connected /\ job' = job /\ job \in [Apps -> Packets]
  BY DEF client, BaseInv, WriterTypes
<1> QED BY <1>1, <1>2, CalmStep DEF BaseInv, MutexInv, Holds, At

LEMMA SelectBase == ASSUME BaseInv, select PROVE BaseInv'
<1>1. /\ Go(Run, "continue") /\ "continue" \in RunPlaces /\ pwset' \subseteq pending_wset
      /\ UNCHANGED <<client, buffers, taken, job, network, bounds>> /\ WriterTypes
  BY DEF select, RunPlaces, BaseInv
<1>2. UNCHANGED <<client, job, sends>>
  BY <1>1 DEF bounds
<1>3. PcOK' /\ MutexInv' /\ JobInv' /\ job' \in [Apps -> Packets]
  BY <1>1, <1>2, RunMoves
<1>4. /\ pwset' \subseteq Fds /\ taken' \in Fds \cup {NoSocket} /\ copies' \subseteq [fd : Fds, id : 1..MaxSends]
      /\ sends' \in 0..MaxSends /\ others' \in 0..MaxOther
  <2>1. pending_wset \subseteq Fds
    BY <1>1 DEF WriterTypes, TypeOK, Fds
  <2> QED BY <1>1, <2>1 DEF WriterTypes, TypeOK, Fds, buffers, bounds
<1>5. UNCHANGED <<client, writes, write_pending, pending_wset, network>>
  BY <1>1 DEF buffers
<1> QED BY <1>1, <1>3, <1>4, <1>5, QuietTypes DEF BaseInv

\* What continueWrite does: the rest of the packet goes, or a part of it.
LEMMA ContinueFacts ==
  ASSUME WriterTypes, continueWrite
  PROVE  \E i \in getWrite(socket), n \in Nat :
           /\ socket \in pwset /\ pwset' = pwset \ {socket} /\ connected /\ socket \in write_pending /\ At(Run, "continue")
           /\ i \in DOMAIN writes /\ writes[i].fd = socket /\ writes[i] \in Record
           /\ n <= Units(writes[i].packet) - writes[i].done
           /\ IF broken THEN UNCHANGED <<stream, room>>
              ELSE /\ stream' \in Seq(Sent) /\ Len(stream') = Len(stream) + n /\ room' \in 0..Buffer
                   /\ \A x \in DOMAIN stream' : stream'[x] = IF x <= Len(stream) THEN stream[x]
                        ELSE [packet |-> writes[i].packet, unit |-> writes[i].done + (x - Len(stream))]
           /\ \/ /\ broken \/ n = Units(writes[i].packet) - writes[i].done
                 /\ writes' = RemoveAt(writes, i) /\ Go(Run, "clear")
              \/ /\ ~broken /\ n < Units(writes[i].packet) - writes[i].done
                 /\ writes' = [writes EXCEPT ![i].done = @ + n] /\ UNCHANGED pc
           /\ UNCHANGED <<client, write_pending, pending_wset, copies, taken, job,
                          broken, inbox, acked, conns, bounds>>
<1>1. PICK i \in getWrite(socket) :
        LET left == Left(writes[i])
            n == Fewer(room, Len(left))
            ended == broken \/ n = Len(left)
        IN /\ At(Run, "continue") /\ socket \in write_pending \cap pwset
           /\ pwset' = pwset \ {socket}
           /\ IF broken THEN UNCHANGED <<stream, room>>
              ELSE stream' = stream \o SubSeq(left, 1, n) /\ room' = room - n
           /\ writes' = IF ended THEN RemoveAt(writes, i) ELSE [writes EXCEPT ![i].done = @ + n]
           /\ IF ended THEN Go(Run, "clear") ELSE UNCHANGED pc
           /\ UNCHANGED <<client, write_pending, pending_wset, copies, taken, job,
                          broken, inbox, acked, conns, bounds>>
  BY DEF continueWrite
<1>2. PICK left : left = Left(writes[i])
  OBVIOUS
<1>3. PICK n : n = Fewer(room, Len(left))
  OBVIOUS
<1>4. /\ i \in DOMAIN writes /\ writes[i].fd = socket /\ writes[i] \in Record /\ room \in 0..Buffer
      /\ writes[i].done \in 0..(Units(writes[i].packet) - 1) /\ stream \in Seq(Sent) /\ broken \in BOOLEAN
      /\ connected
  <2>1. i \in DOMAIN writes /\ writes[i].fd = socket
    BY DEF getWrite
  <2>2. writes[i] \in Record
    BY <2>1, ElementOfSeq, LenProperties DEF WriterTypes
  <2> QED BY <1>1, <2>1, <2>2 DEF WriterTypes, TypeOK
<1>5. PICK p, d : p = writes[i].packet /\ d = writes[i].done
  OBVIOUS
<1>6. p \in Packets /\ Units(p) \in Nat \ {0} /\ d \in 0..(Units(p) - 1)
  BY <1>4, <1>5, Constants DEF Record
<1>7. PICK size : size = Units(p) - d
  OBVIOUS
<1>8. size \in Nat \ {0} /\ d \in Nat
  BY <1>6, <1>7
<1>9. left \in Seq(Sent) /\ Len(left) = size /\ \A j \in 1..size : left[j] = [packet |-> p, unit |-> d + j]
  <2>1. left = [j \in 1..size |-> [packet |-> p, unit |-> d + j]]
    BY <1>2, <1>5, <1>7 DEF Left, Slice
  <2>2. \A j \in 1..size : [packet |-> p, unit |-> d + j] \in Sent
    BY <1>6, <1>8 DEF Sent
  <2>3. left \in [1..size -> Sent]
    BY <2>1, <2>2
  <2> QED BY <1>8, <2>1, <2>3, FunctionIsSeq
<1>10. n \in Nat /\ n <= size /\ room - n \in 0..Buffer
  BY <1>3, <1>4, <1>8, <1>9 DEF Fewer
<1>11. PICK part : part = SubSeq(left, 1, n)
  OBVIOUS
<1>12. part \in Seq(Sent) /\ Len(part) = n /\ \A j \in 1..n : part[j] = [packet |-> p, unit |-> d + j]
  <2>1. \A j \in 1..n : j \in 1..size
    BY <1>8, <1>10
  <2>2. \A j \in 1..n : left[j] \in Sent
    <3>1. DOMAIN left = 1..size
      BY <1>9, LenProperties
    <3> QED BY <1>9, <2>1, <3>1, ElementOfSeq
  <2>3. /\ part \in Seq(Sent) /\ Len(part) = IF 1 <= n THEN n - 1 + 1 ELSE 0
        /\ \A j \in 1..(n - 1 + 1) : part[j] = left[1 + j - 1]
    BY <1>10, <1>11, <2>2, SubSeqProperties
  <2>4. \A j \in 1..n : j \in 1..(n - 1 + 1) /\ 1 + j - 1 = j
    BY <1>10
  <2>5. Len(part) = n
    BY <1>10, <2>3
  <2> QED BY <1>9, <2>1, <2>3, <2>4, <2>5
<1>13. ASSUME ~broken
       PROVE  /\ stream' \in Seq(Sent) /\ Len(stream') = Len(stream) + n /\ room' \in 0..Buffer
              /\ \A x \in DOMAIN stream' : stream'[x] = IF x <= Len(stream) THEN stream[x]
                   ELSE [packet |-> p, unit |-> d + (x - Len(stream))]
  <2>1. stream' = stream \o part /\ room' = room - n
    BY <1>1, <1>2, <1>3, <1>11, <1>13
  <2>2. /\ stream' \in Seq(Sent) /\ Len(stream') = Len(stream) + n
        /\ \A x \in 1..(Len(stream) + n) : stream'[x] = IF x <= Len(stream) THEN stream[x] ELSE part[x - Len(stream)]
    BY <1>4, <1>12, <2>1, ConcatProperties
  <2>3. Len(stream) \in Nat /\ DOMAIN stream' = 1..(Len(stream) + n)
    BY <1>4, <2>2, LenProperties
  <2>4. \A x \in DOMAIN stream' : ~(x <= Len(stream)) => x - Len(stream) \in 1..n
    BY <1>10, <2>3
  <2> QED BY <1>10, <1>12, <2>1, <2>2, <2>3, <2>4
<1>14. \/ (broken \/ n = size) /\ writes' = RemoveAt(writes, i) /\ Go(Run, "clear")
       \/ ~broken /\ n < size /\ writes' = [writes EXCEPT ![i].done = @ + n] /\ UNCHANGED pc
  <2>1. /\ writes' = IF broken \/ n = size THEN RemoveAt(writes, i) ELSE [writes EXCEPT ![i].done = @ + n]
        /\ IF broken \/ n = size THEN Go(Run, "clear") ELSE UNCHANGED pc
    BY <1>1, <1>2, <1>3, <1>9
  <2>2. n # size => n < size
    BY <1>8, <1>10
  <2> QED BY <2>1, <2>2
<1>15. IF broken THEN UNCHANGED <<stream, room>>
       ELSE /\ stream' \in Seq(Sent) /\ Len(stream') = Len(stream) + n /\ room' \in 0..Buffer
            /\ \A x \in DOMAIN stream' : stream'[x] = IF x <= Len(stream) THEN stream[x]
                 ELSE [packet |-> p, unit |-> d + (x - Len(stream))]
  BY <1>1, <1>13
<1>16. socket \in pwset /\ socket \in write_pending
  BY <1>1
<1> QED BY <1>1, <1>4, <1>5, <1>7, <1>10, <1>14, <1>15, <1>16

LEMMA ContinueBase == ASSUME BaseInv, continueWrite PROVE BaseInv'
<1>1. WriterTypes /\ MutexInv
  BY DEF BaseInv
<1>2. PICK i \in getWrite(socket), n \in Nat :
           /\ socket \in pwset /\ pwset' = pwset \ {socket} /\ connected /\ socket \in write_pending /\ At(Run, "continue")
           /\ i \in DOMAIN writes /\ writes[i].fd = socket /\ writes[i] \in Record
           /\ n <= Units(writes[i].packet) - writes[i].done
           /\ IF broken THEN UNCHANGED <<stream, room>>
              ELSE /\ stream' \in Seq(Sent) /\ Len(stream') = Len(stream) + n /\ room' \in 0..Buffer
                   /\ \A x \in DOMAIN stream' : stream'[x] = IF x <= Len(stream) THEN stream[x]
                        ELSE [packet |-> writes[i].packet, unit |-> writes[i].done + (x - Len(stream))]
           /\ \/ /\ broken \/ n = Units(writes[i].packet) - writes[i].done
                 /\ writes' = RemoveAt(writes, i) /\ Go(Run, "clear")
              \/ /\ ~broken /\ n < Units(writes[i].packet) - writes[i].done
                 /\ writes' = [writes EXCEPT ![i].done = @ + n] /\ UNCHANGED pc
           /\ UNCHANGED <<client, write_pending, pending_wset, copies, taken, job,
                          broken, inbox, acked, conns, bounds>>
  BY <1>1, ContinueFacts
<1>3. RecordsOK(writes) /\ SentOK(stream) /\ room \in 0..Buffer /\ broken \in BOOLEAN
  BY <1>1 DEF WriterTypes, TypeOK, RecordsOK, SentOK, Fds
<1>4. SentOK(stream') /\ room' \in 0..Buffer
  <2>1. CASE broken
    BY <1>2, <1>3, <2>1
  <2>2. CASE ~broken
    <3>1. Len(stream) \in Nat /\ DOMAIN stream = 1..Len(stream) /\ DOMAIN stream' = 1..(Len(stream) + n)
      BY <1>2, <1>3, <2>2, LenProperties DEF SentOK
    <3>2. ASSUME NEW x \in DOMAIN stream' PROVE stream'[x].unit <= Units(stream'[x].packet)
      <4>1. CASE x <= Len(stream)
        <5>1. x \in DOMAIN stream
          BY <3>1, <4>1
        <5> QED BY <1>2, <1>3, <2>2, <4>1, <5>1 DEF SentOK
      <4>2. CASE ~(x <= Len(stream))
        <5>1. stream'[x].packet = writes[i].packet /\ stream'[x].unit = writes[i].done + (x - Len(stream))
          BY <1>2, <2>2, <4>2
        <5>2. PICK u, d : u = Units(writes[i].packet) /\ d = writes[i].done
          OBVIOUS
        <5>3. u \in Nat /\ d \in Nat /\ n <= u - d
          BY <1>2, <5>2, Constants DEF Record
        <5>4. x - Len(stream) <= n /\ x \in Nat
          BY <3>1
        <5>5. d + (x - Len(stream)) <= u
          BY <3>1, <5>3, <5>4
        <5> QED BY <5>1, <5>2, <5>5
      <4> QED BY <4>1, <4>2
    <3> QED BY <1>2, <2>2, <3>2 DEF SentOK
  <2> QED BY <1>3, <2>1, <2>2
<1>5. RecordsOK(writes')
  <2>1. CASE writes' = RemoveAt(writes, i)
    <3>1. /\ writes' \in Seq(Record) /\ DOMAIN writes' = 1..(Len(writes) - 1) /\ DOMAIN writes = 1..Len(writes)
          /\ Len(writes) \in Nat
          /\ \A j \in DOMAIN writes' : writes'[j] = IF j < i THEN writes[j] ELSE writes[j + 1]
      <4>1. PICK r : r = RemoveAt(writes, i)
        OBVIOUS
      <4>2. writes \in Seq(Record) /\ i \in DOMAIN writes /\ writes' = r
        BY <1>2, <1>3, <2>1, <4>1 DEF RecordsOK
      <4> QED BY <4>1, <4>2, RemoveAtFacts
    <3>2. \A j \in DOMAIN writes' : \E k \in DOMAIN writes : writes'[j] = writes[k]
      <4> TAKE j \in DOMAIN writes'
      <4>1. j \in DOMAIN writes /\ j + 1 \in DOMAIN writes
        BY <3>1
      <4> QED BY <3>1, <4>1
    <3> QED BY <1>3, <3>1, <3>2 DEF RecordsOK
  <2>2. CASE n < Units(writes[i].packet) - writes[i].done /\ writes' = [writes EXCEPT ![i].done = @ + n]
    <3>1. Len(writes) \in Nat /\ DOMAIN writes = 1..Len(writes)
      BY <1>3, LenProperties DEF RecordsOK
    <3>2. PICK r, d : r = [writes[i] EXCEPT !.done = d] /\ d = writes[i].done + n
      OBVIOUS
    <3>3. /\ r \in Record /\ r.fd = writes[i].fd /\ r.packet = writes[i].packet /\ r.mem = writes[i].mem
          /\ r.done = writes[i].done + n /\ writes[i].done \in Nat
      <4>1. writes[i].done \in Nat /\ d \in Nat /\ d = writes[i].done + n
        BY <1>2, <3>2 DEF Record
      <4> QED BY <1>2, <3>2, <4>1 DEF Record
    <3>4. r.done \in 0..(Units(r.packet) - 1)
      <4>1. Units(writes[i].packet) \in Nat
        BY <1>2, Constants DEF Record
      <4> QED BY <2>2, <3>3, <4>1
    <3>5. writes' = [writes EXCEPT ![i] = r]
      BY <2>2, <3>2
    <3>6. writes' \in Seq(Record) /\ DOMAIN writes' = DOMAIN writes
      BY <1>2, <1>3, <3>3, <3>5, ExceptSeq, SMTT(20) DEF RecordsOK
    <3>7. \A j \in DOMAIN writes : writes'[j] = IF j = i THEN r ELSE writes[j]
      BY <3>5
    <3>8. r.fd \in Fds /\ r.mem \in {"app", "copy", "message", "own"}
      BY <1>2, <1>3, <3>3 DEF RecordsOK
    <3> QED BY <1>3, <3>4, <3>6, <3>7, <3>8 DEF RecordsOK
  <2> QED BY <1>2, <2>1, <2>2
<1>6. PcOK' /\ MutexInv' /\ JobInv' /\ job' \in [Apps -> Packets]
  <2>1. UNCHANGED <<client, job, sends>> /\ "clear" \in RunPlaces
    BY <1>2 DEF bounds, RunPlaces
  <2>2. CASE Go(Run, "clear")
    BY <1>2, <2>1, <2>2, RunMoves
  <2>3. CASE UNCHANGED pc
    <3>1. connected' = connected /\ job' = job /\ job \in [Apps -> Packets]
      BY <1>1, <2>1 DEF client, WriterTypes
    <3>2. PcOK' /\ pc' = pc
      BY <1>1, <2>3, SameGoes
    <3> QED BY <1>1, <2>1, <3>1, <3>2, CalmStep DEF MutexInv, Holds, At
  <2> QED BY <1>2, <2>2, <2>3
<1>7. WriterTypes'
  <2>1. /\ socket' = socket /\ connected' = TRUE /\ socket \in Fds /\ outboundMsgs' = outboundMsgs
        /\ UNCHANGED <<write_pending, pending_wset, copies, taken, broken, inbox, acked, conns, sends, others>>
    BY <1>1, <1>2 DEF WriterTypes, TypeOK, Fds, client, bounds
  <2>2. TypeOK'
    <3>1. connected' = (socket' # NoSocket)
      BY <2>1, Constants
    <3> QED BY <1>1, <1>2, <1>4, <1>5, <2>1, <3>1 DEF WriterTypes, TypeOK, RecordsOK, Fds
  <2> QED BY <1>1, <1>4, <1>5, <1>6, <2>1, <2>2 DEF WriterTypes, RecordsOK, SentOK
<1> QED BY <1>6, <1>7 DEF BaseInv

LEMMA ClearBase == ASSUME BaseInv, clear PROVE BaseInv'
<1>1. /\ At(Run, "clear") /\ Go(Run, "complete") /\ "complete" \in RunPlaces /\ WriterTypes /\ MutexInv
      /\ write_pending' = write_pending \ {socket} /\ pending_wset' = pending_wset \ {socket}
      /\ UNCHANGED <<client, writes, copies, pwset, taken, job, network, bounds>>
  BY DEF clear, RunPlaces, BaseInv
<1>2. connected /\ UNCHANGED <<client, job, sends>>
  BY <1>1 DEF MutexInv, bounds, At
<1>3. PcOK' /\ MutexInv' /\ JobInv' /\ job' \in [Apps -> Packets]
  BY <1>1, <1>2, RunMoves
<1>4. TypeOK'
  BY <1>1 DEF WriterTypes, TypeOK, client, network
<1>5. WriterTypes'
  BY <1>1, <1>3, <1>4 DEF WriterTypes, client, network, bounds
<1> QED BY <1>3, <1>5 DEF BaseInv

LEMMA CompleteBase == ASSUME BaseInv, writeComplete PROVE BaseInv'
<1>1. /\ Go(Run, "continue") /\ "continue" \in RunPlaces /\ copies' \subseteq copies
      /\ UNCHANGED <<client, writes, write_pending, pending_wset, pwset, taken, job, network, bounds>> /\ WriterTypes
  BY DEF writeComplete, RunPlaces, BaseInv
<1>2. UNCHANGED <<client, job, sends>>
  BY <1>1 DEF bounds
<1>3. PcOK' /\ MutexInv' /\ JobInv' /\ job' \in [Apps -> Packets]
  BY <1>1, <1>2, RunMoves
<1>4. /\ pwset' \subseteq Fds /\ taken' \in Fds \cup {NoSocket} /\ copies' \subseteq [fd : Fds, id : 1..MaxSends]
      /\ sends' \in 0..MaxSends /\ others' \in 0..MaxOther
  <2>1. copies \subseteq [fd : Fds, id : 1..MaxSends]
    BY <1>1 DEF WriterTypes, TypeOK, Fds
  <2> QED BY <1>1, <2>1 DEF WriterTypes, TypeOK, Fds, bounds
<1>5. UNCHANGED <<client, writes, write_pending, pending_wset, network>>
  BY <1>1
<1> QED BY <1>1, <1>3, <1>4, <1>5, QuietTypes DEF BaseInv

LEMMA ReadyBase == ASSUME BaseInv, getReadySocket PROVE BaseInv'
<1>1. /\ Go(Run, "handle") /\ "handle" \in RunPlaces /\ taken' \in {socket, NoSocket} /\ pwset' = {}
      /\ UNCHANGED <<client, buffers, job, network, bounds>> /\ WriterTypes
  BY DEF getReadySocket, RunPlaces, BaseInv
<1>2. UNCHANGED <<client, job, sends>>
  BY <1>1 DEF bounds
<1>3. PcOK' /\ MutexInv' /\ JobInv' /\ job' \in [Apps -> Packets]
  BY <1>1, <1>2, RunMoves
<1>4. /\ pwset' \subseteq Fds /\ taken' \in Fds \cup {NoSocket} /\ copies' \subseteq [fd : Fds, id : 1..MaxSends]
      /\ sends' \in 0..MaxSends /\ others' \in 0..MaxOther
  BY <1>1 DEF WriterTypes, TypeOK, Fds, bounds, buffers
<1>5. UNCHANGED <<client, writes, write_pending, pending_wset, network>>
  BY <1>1 DEF buffers
<1> QED BY <1>1, <1>3, <1>4, <1>5, QuietTypes DEF BaseInv

\* What handle does.
Idles == UNCHANGED <<outboundMsgs, buffers, stream, room, inbox>>
Acked == /\ taken = socket /\ inbox # <<>> /\ inbox' = Tail(inbox)
         /\ Head(inbox).kind = "ack" /\ Go(Run, "retry")
         /\ \/ \E i \in DOMAIN outboundMsgs : /\ outboundMsgs[i] = Head(inbox).id
                                              /\ outboundMsgs' = RemoveAt(outboundMsgs, i)
            \/ Head(inbox).id \notin ToSet(outboundMsgs) /\ UNCHANGED outboundMsgs
         /\ UNCHANGED <<buffers, stream, room>>
Worked == /\ taken = socket /\ inbox # <<>> /\ inbox' = Tail(inbox)
          /\ Head(inbox).kind = "work" /\ UNCHANGED <<outboundMsgs, copies>>
          /\ \/ Go(Run, "lost") /\ UNCHANGED <<writes, write_pending, pending_wset, stream, room>>
             \/ ~Refuses /\ Go(Run, "retry") /\ Write(<<Other("reply")>>, 1, "own")

LEMMA HandleFacts ==
  ASSUME handle
  PROVE  /\ At(Run, "handle") /\ ClientFree /\ taken # NoSocket
         /\ UNCHANGED <<socket, connected, pwset, taken, job, broken, acked, conns, bounds>>
         /\ \/ Idles /\ (Go(Run, "retry") \/ Go(Run, "lost"))
            \/ Acked
            \/ Worked
<1>1. \/ Idles /\ (Go(Run, "retry") \/ Go(Run, "lost"))
      \/ /\ taken = socket /\ inbox # <<>> /\ inbox' = Tail(inbox)
         /\ \/ /\ Head(inbox).kind = "ack" /\ Go(Run, "retry")
               /\ IF Head(inbox).id \in ToSet(outboundMsgs)
                    THEN \E i \in DOMAIN outboundMsgs : /\ outboundMsgs[i] = Head(inbox).id
                                                        /\ outboundMsgs' = RemoveAt(outboundMsgs, i)
                    ELSE UNCHANGED outboundMsgs
               /\ UNCHANGED <<buffers, stream, room>>
            \/ /\ Head(inbox).kind = "work" /\ UNCHANGED <<outboundMsgs, copies>>
               /\ IF Refuses
                    THEN Go(Run, "lost") /\ UNCHANGED <<writes, write_pending, pending_wset, stream, room>>
                    ELSE Go(Run, "retry") /\ Write(<<Other("reply")>>, 1, "own")
  <2>1. CASE taken # socket
    BY <2>1 DEF handle, Idles
  <2>2. CASE taken = socket /\ inbox = <<>>
    BY <2>2 DEF handle, Idles
  <2>3. CASE taken = socket /\ inbox # <<>>
    BY <2>3 DEF handle
  <2> QED BY <2>1, <2>2, <2>3
<1>2. \/ Idles /\ (Go(Run, "retry") \/ Go(Run, "lost"))
      \/ Acked
      \/ Worked
  BY <1>1 DEF Acked, Worked
<1>3. /\ At(Run, "handle") /\ ClientFree /\ taken # NoSocket
      /\ UNCHANGED <<socket, connected, pwset, taken, job, broken, acked, conns, bounds>>
  BY DEF handle
<1> QED BY <1>2, <1>3

LEMMA HeadOfInbox ==
  ASSUME WriterTypes, inbox # <<>>
  PROVE  /\ Tail(inbox) \in Seq(Work) /\ Head(inbox) \in Work /\ 1 \in DOMAIN inbox /\ Head(inbox) = inbox[1]
         /\ \A x \in DOMAIN Tail(inbox) : x + 1 \in DOMAIN inbox /\ Tail(inbox)[x] = inbox[x + 1]
<1>1. inbox \in Seq(Work)
  BY DEF WriterTypes
<1>2. Len(inbox) \in Nat \ {0} /\ DOMAIN inbox = 1..Len(inbox) /\ 1 \in DOMAIN inbox
  BY <1>1, LenProperties, EmptySeq
<1>3. /\ Head(inbox) \in Work /\ Tail(inbox) \in Seq(Work) /\ Len(Tail(inbox)) = Len(inbox) - 1
      /\ \A x \in 1..Len(Tail(inbox)) : Tail(inbox)[x] = inbox[x + 1]
  BY <1>1, HeadTailProperties
<1>4. DOMAIN Tail(inbox) = 1..(Len(inbox) - 1)
  BY <1>3, LenProperties
<1>5. Head(inbox) = inbox[1]
  BY <1>1
<1>6. \A x \in DOMAIN Tail(inbox) : x + 1 \in DOMAIN inbox
  BY <1>2, <1>4
<1> QED BY <1>2, <1>3, <1>4, <1>5, <1>6

LEMMA HandleBase == ASSUME BaseInv, handle PROVE BaseInv'
<1>1. /\ At(Run, "handle") /\ ClientFree /\ taken # NoSocket
      /\ UNCHANGED <<socket, connected, pwset, taken, job, broken, acked, conns, bounds>>
      /\ (Idles /\ (Go(Run, "retry") \/ Go(Run, "lost"))) \/ Acked \/ Worked
  BY HandleFacts
<1>2. WriterTypes /\ MutexInv /\ JobInv /\ \A a \in Apps : ~Holds(a)
  BY <1>1 DEF BaseInv, ClientFree, Holds
<1>3. PICK p \in {"retry", "lost"} : Go(Run, p)
  BY <1>1 DEF Acked, Worked
<1>4. PcOK' /\ pc'[Run] = p /\ \A b \in Apps : pc'[b] = pc[b]
  BY <1>2, <1>3, RunGoes DEF RunPlaces
<1>5. MutexInv' /\ JobInv'
  BY <1>1, <1>2, <1>4, CalmStep DEF MutexInv, Holds, At, bounds
<1>6. /\ sends' \in 0..MaxSends /\ others' \in 0..MaxOther /\ pwset' \subseteq Fds /\ taken' \in Fds \cup {NoSocket}
      /\ broken' \in BOOLEAN /\ acked' \subseteq 1..MaxSends /\ conns' \in 0..Len(Number)
      /\ job' \in [Apps -> Packets] /\ sends' = sends
  BY <1>1, <1>2 DEF WriterTypes, TypeOK, Fds, bounds
<1>7. /\ inbox \in Seq(Work) /\ outboundMsgs \in Seq(1..MaxSends) /\ copies \subseteq [fd : Fds, id : 1..MaxSends]
      /\ RecordsOK(writes) /\ SentOK(stream) /\ room \in 0..Buffer /\ write_pending \subseteq {socket}
      /\ connected = (socket # NoSocket) /\ socket \in Fds \cup {NoSocket} /\ broken \in BOOLEAN
  BY <1>2 DEF WriterTypes, TypeOK, Fds, RecordsOK, SentOK
<1>8. CASE Idles
  <2>1. /\ UNCHANGED <<client, writes, write_pending, pending_wset, network>>
        /\ copies' \subseteq [fd : Fds, id : 1..MaxSends]
    BY <1>1, <1>7, <1>8 DEF Idles, client, buffers, network
  <2>2. WriterTypes'
    BY <1>2, <1>4, <1>6, <2>1, QuietTypes
  <2> QED BY <1>5, <2>2 DEF BaseInv
<1>9. CASE Acked \/ Worked
  <2>1. taken = socket /\ inbox # <<>> /\ inbox' = Tail(inbox) /\ UNCHANGED copies
    BY <1>9 DEF Acked, Worked, buffers
  <2>2. inbox' \in Seq(Work)
    BY <1>2, <2>1, HeadOfInbox
  <2>3. connected /\ connected' = TRUE /\ socket' = socket /\ socket \in Fds
    BY <1>1, <1>7, <2>1
  <2>4. outboundMsgs' \in Seq(1..MaxSends)
    <3>1. CASE UNCHANGED outboundMsgs
      BY <1>7, <3>1
    <3>2. CASE ~UNCHANGED outboundMsgs
      <4>1. PICK i \in DOMAIN outboundMsgs : outboundMsgs' = RemoveAt(outboundMsgs, i)
        BY <1>9, <3>2 DEF Acked, Worked
      <4>2. PICK r : r = RemoveAt(outboundMsgs, i)
        OBVIOUS
      <4>3. r \in Seq(1..MaxSends)
        BY <1>7, <4>2, RemoveAtFacts
      <4> QED BY <4>1, <4>2, <4>3
    <3> QED BY <3>1, <3>2
  <2>5. /\ RecordsOK(writes') /\ SentOK(stream') /\ room' \in 0..Buffer
        /\ \/ UNCHANGED <<write_pending, pending_wset>>
           \/ write_pending' = write_pending \cup {socket} /\ pending_wset' = pending_wset \cup {socket}
    <3>1. CASE UNCHANGED <<writes, write_pending, pending_wset, stream, room>>
      BY <1>7, <3>1
    <3>2. CASE Write(<<Other("reply")>>, 1, "own")
      <4>1. PICK q, mem : q = Other("reply") /\ mem = "own"
        OBVIOUS
      <4>2. q \in Packets /\ Units(q) = 1 /\ mem \in {"app", "copy", "message", "own"}
        BY <4>1, Constants
      <4>3. Write(<<q>>, Units(q), mem)
        BY <3>2, <4>1, <4>2
      <4> QED BY <1>2, <2>3, <4>2, <4>3, WriteOneTypes
    <3> QED BY <1>9, <3>1, <3>2 DEF Acked, Worked, buffers
  <2>6. WriterTypes'
    <3>1. /\ write_pending \subseteq {socket'} /\ socket' \in Fds /\ UNCHANGED <<copies, pwset, sends>>
          /\ \/ UNCHANGED <<write_pending, pending_wset>>
             \/ write_pending' = write_pending \cup {socket'} /\ pending_wset' = pending_wset \cup {socket'}
      BY <1>1, <1>7, <2>1, <2>3, <2>5 DEF bounds
    <3> QED BY <1>2, <1>4, <1>6, <2>2, <2>3, <2>4, <2>5, <3>1, WriteTypes
  <2> QED BY <1>5, <2>6 DEF BaseInv
<1> QED BY <1>1, <1>8, <1>9

\* What retry does.
RetryFacts(p) ==
  /\ Go(Run, "select") /\ taken' = NoSocket /\ \A a \in Apps : ~Holds(a)
  /\ \/ connected /\ ~Refuses /\ Bounded /\ Write(p, Length, "message")
     \/ UNCHANGED <<writes, write_pending, pending_wset, stream, room, bounds>>
  /\ UNCHANGED <<client, copies, pwset, job, broken, inbox, acked, conns>>

LEMMA RetryBase == ASSUME BaseInv, retry PROVE BaseInv' /\ RetryFacts(Unacknowledged)
<1>1. RetryFacts(Unacknowledged) /\ WriterTypes
  BY DEF retry, RetryFacts, BaseInv, MutexInv, Holds, ClientFree
<1>2. PcOK' /\ MutexInv' /\ JobInv' /\ job' \in [Apps -> Packets]
  <2>1. "select" \in RunPlaces /\ UNCHANGED <<client, job, sends>>
    BY <1>1 DEF RunPlaces, RetryFacts, Bounded, bounds
  <2> QED BY <1>1, <2>1, RunMoves DEF RetryFacts
<1>3. /\ taken' \in Fds \cup {NoSocket} /\ pwset' \subseteq Fds /\ copies' \subseteq [fd : Fds, id : 1..MaxSends]
      /\ sends' \in 0..MaxSends /\ sends' = sends
  BY <1>1 DEF WriterTypes, TypeOK, Fds, RetryFacts, Bounded, bounds
<1>4. others' \in 0..MaxOther
  <2>1. others \in 0..MaxOther
    BY <1>1 DEF WriterTypes
  <2> QED BY <1>1, <2>1 DEF RetryFacts, Bounded, bounds
<1>5. CASE connected /\ ~Refuses /\ Bounded /\ Write(Unacknowledged, Length, "message")
  <2>1. /\ socket \in Fds /\ RecordsOK(writes') /\ SentOK(stream') /\ room' \in 0..Buffer
        /\ \/ UNCHANGED <<write_pending, pending_wset>>
           \/ write_pending' = write_pending \cup {socket} /\ pending_wset' = pending_wset \cup {socket}
    BY <1>1, <1>5, WriteAllTypes
  <2>2. /\ socket' = socket /\ connected' = TRUE /\ outboundMsgs' \in Seq(1..MaxSends) /\ write_pending \subseteq {socket'}
        /\ broken' \in BOOLEAN /\ inbox' \in Seq(Work) /\ acked' \subseteq 1..MaxSends /\ conns' \in 0..Len(Number)
        /\ UNCHANGED <<copies, pwset, sends>>
    BY <1>1, <1>3, <1>5 DEF WriterTypes, TypeOK, client, RetryFacts
  <2>3. /\ socket' \in Fds
        /\ \/ UNCHANGED <<write_pending, pending_wset>>
           \/ write_pending' = write_pending \cup {socket'} /\ pending_wset' = pending_wset \cup {socket'}
    BY <2>1, <2>2
  <2>4. WriterTypes'
    BY <1>1, <1>2, <1>3, <1>4, <2>1, <2>2, <2>3, WriteTypes
  <2> QED BY <1>1, <1>2, <2>4 DEF BaseInv
<1>6. CASE UNCHANGED <<writes, write_pending, pending_wset, stream, room, bounds>>
  <2>1. UNCHANGED <<client, writes, write_pending, pending_wset, network>>
    BY <1>1, <1>6 DEF network, RetryFacts
  <2>2. WriterTypes'
    BY <1>1, <1>2, <1>3, <1>4, <2>1, QuietTypes
  <2> QED BY <1>1, <1>2, <2>2 DEF BaseInv
<1> QED BY <1>1, <1>5, <1>6 DEF RetryFacts

LEMMA LostBase == ASSUME BaseInv, lost PROVE BaseInv'
<1>1. /\ At(Run, "lost") /\ ClientFree /\ Go(Run, "select") /\ taken' = NoSocket
      /\ IF connected /\ taken = socket THEN closeSession ELSE UNCHANGED <<client, buffers, network>>
      /\ UNCHANGED <<pwset, job, bounds>> /\ WriterTypes /\ MutexInv /\ JobInv
  BY DEF lost, BaseInv
<1>2. PcOK' /\ pc'[Run] = "select" /\ (\A b \in Apps : pc'[b] = pc[b]) /\ job' \in [Apps -> Packets]
  BY <1>1, RunGoes DEF RunPlaces, WriterTypes
<1>3. CASE connected /\ taken = socket
  <2>1. \A b \in Apps : pc'[b] # "store"
    BY <1>1, <1>2 DEF ClientFree, At
  <2>2. closeSession /\ taken' \in Fds \cup {NoSocket} /\ UNCHANGED <<pwset, bounds>>
    BY <1>1, <1>3
  <2>3. \A b \in Apps : pc'[b] \in {"check", "store"} => pc[b] = pc'[b] /\ job'[b] = job[b]
    BY <1>1, <1>2
  <2>4. pc'[Run] \notin {"clear", "complete"}
    BY <1>2
  <2> QED BY <1>2, <1>3, <2>1, <2>2, <2>3, <2>4, CloseBase
<1>4. CASE ~(connected /\ taken = socket)
  <2>1. UNCHANGED <<client, writes, write_pending, pending_wset, network>> /\ copies' = copies /\ sends' = sends
    BY <1>1, <1>4 DEF buffers, bounds
  <2>2. /\ taken' \in Fds \cup {NoSocket} /\ pwset' \subseteq Fds /\ copies' \subseteq [fd : Fds, id : 1..MaxSends]
        /\ sends' \in 0..MaxSends /\ others' \in 0..MaxOther
    BY <1>1, <2>1 DEF WriterTypes, TypeOK, Fds, bounds
  <2>3. WriterTypes'
    BY <1>1, <1>2, <2>1, <2>2, QuietTypes
  <2>4. connected' = connected
    BY <2>1 DEF client
  <2>5. MutexInv' /\ JobInv'
    BY <1>1, <1>2, <2>1, <2>4, CalmStep DEF MutexInv, Holds, At
  <2> QED BY <2>3, <2>5 DEF BaseInv
<1> QED BY <1>3, <1>4

\* The connection and the broker.
LEMMA NetBase ==
  ASSUME BaseInv, UNCHANGED <<client, buffers, pwset, taken, pc, job, stream, conns, sends>>,
         room' \in 0..Buffer, broken' \in BOOLEAN, inbox' \in Seq(Work), acked' \subseteq 1..MaxSends,
         others' \in 0..MaxOther
  PROVE  BaseInv'
<1>1. WriterTypes'
  BY NetTypes DEF BaseInv
<1>2. connected' = connected
  BY DEF client
<1>3. MutexInv' /\ JobInv'
  BY <1>2, CalmStep DEF BaseInv, MutexInv, Holds, At
<1> QED BY <1>1, <1>3 DEF BaseInv

LEMMA DrainsBase == ASSUME BaseInv, drains PROVE BaseInv'
<1>1. room \in 0..Buffer /\ room' \in (room + 1)..Buffer
  BY DEF BaseInv, WriterTypes, TypeOK, drains
<1>2. room' \in 0..Buffer
  BY <1>1
<1>3. /\ broken' \in BOOLEAN /\ inbox' \in Seq(Work) /\ acked' \subseteq 1..MaxSends /\ others' \in 0..MaxOther
      /\ UNCHANGED <<client, buffers, pwset, taken, pc, job, stream, conns, sends>>
  BY DEF drains, BaseInv, WriterTypes, bounds
<1> QED BY <1>2, <1>3, NetBase

LEMMA BreaksBase == ASSUME BaseInv, linkBreaks PROVE BaseInv'
<1>1. others \in 0..MaxOther /\ others < MaxOther /\ others' = others + 1
  BY DEF BaseInv, WriterTypes, linkBreaks, Bounded
<1>2. others' \in 0..MaxOther
  BY <1>1
<1>3. /\ broken' \in BOOLEAN /\ inbox' \in Seq(Work) /\ acked' \subseteq 1..MaxSends /\ room' \in 0..Buffer
      /\ UNCHANGED <<client, buffers, pwset, taken, pc, job, stream, conns, sends>>
  BY DEF linkBreaks, Bounded, BaseInv, WriterTypes, TypeOK
<1> QED BY <1>2, <1>3, NetBase

\* What an acknowledgement is about: a publication the connection has taken wholly.
LEMMA AckFacts ==
  ASSUME WriterTypes, brokerAcks
  PROVE  \E id \in 1..MaxSends :
           /\ \E x \in DOMAIN stream : stream[x] = [packet |-> Publication(id, 1), unit |-> Length]
           /\ id \notin acked /\ acked' = acked \cup {id}
           /\ inbox' = Append(inbox, [kind |-> "ack", id |-> id])
           /\ UNCHANGED <<client, buffers, pwset, taken, pc, job, stream, room, broken, conns, bounds>>
<1>1. PICK i \in DOMAIN stream :
           /\ stream[i].packet.qos = 1 /\ stream[i].unit = Length /\ stream[i].packet.id \notin acked
           /\ acked' = acked \cup {stream[i].packet.id}
           /\ inbox' = Append(inbox, [kind |-> "ack", id |-> stream[i].packet.id])
           /\ UNCHANGED <<client, buffers, pwset, taken, pc, job, stream, room, broken, conns, bounds>>
  BY DEF brokerAcks
<1>2. stream[i] \in Sent
  BY ElementOfSeq, LenProperties DEF WriterTypes
<1>3. PICK p, id : p = stream[i].packet /\ id = p.id
  OBVIOUS
<1>4. p = Publication(id, 1) /\ id \in 1..MaxSends
  BY <1>1, <1>2, <1>3 DEF Sent, Packets, Publication
<1>5. stream[i] = [packet |-> Publication(id, 1), unit |-> Length]
  BY <1>1, <1>2, <1>3, <1>4 DEF Sent
<1> QED BY <1>1, <1>3, <1>4, <1>5

LEMMA AcksBase == ASSUME BaseInv, brokerAcks PROVE BaseInv'
<1>1. WriterTypes
  BY DEF BaseInv
<1>2. PICK id \in 1..MaxSends :
           /\ acked' = acked \cup {id} /\ inbox' = Append(inbox, [kind |-> "ack", id |-> id])
           /\ UNCHANGED <<client, buffers, pwset, taken, pc, job, stream, room, broken, conns, bounds>>
  BY <1>1, AckFacts
<1>3. [kind |-> "ack", id |-> id] \in Work
  BY DEF Work
<1>4. inbox' \in Seq(Work)
  BY <1>1, <1>2, <1>3, AppendProperties DEF WriterTypes
<1>5. /\ room' \in 0..Buffer /\ broken' \in BOOLEAN /\ acked' \subseteq 1..MaxSends /\ others' \in 0..MaxOther
      /\ UNCHANGED <<client, buffers, pwset, taken, pc, job, stream, conns, sends>>
  BY <1>1, <1>2 DEF WriterTypes, TypeOK, bounds
<1> QED BY <1>4, <1>5, NetBase

LEMMA SendsBase == ASSUME BaseInv, brokerSends PROVE BaseInv'
<1>1. WriterTypes /\ others' = others + 1 /\ others < MaxOther /\ inbox' = Append(inbox, [kind |-> "work", id |-> 0])
  BY DEF BaseInv, brokerSends, Bounded
<1>2. others' \in 0..MaxOther
  <2>1. others \in 0..MaxOther
    BY <1>1 DEF WriterTypes
  <2> QED BY <1>1, <2>1
<1>3. [kind |-> "work", id |-> 0] \in Work
  BY DEF Work
<1>4. inbox' \in Seq(Work)
  BY <1>1, <1>3, AppendProperties DEF WriterTypes
<1>5. /\ room' \in 0..Buffer /\ broken' \in BOOLEAN /\ acked' \subseteq 1..MaxSends
      /\ UNCHANGED <<client, buffers, pwset, taken, pc, job, stream, conns, sends>>
  BY <1>1 DEF brokerSends, Bounded, WriterTypes, TypeOK
<1> QED BY <1>2, <1>4, <1>5, NetBase

LEMMA BaseStep == ASSUME BaseInv, [Next]_vars PROVE BaseInv'
<1>1. CASE cycle
  BY <1>1, SelectBase, ContinueBase, ClearBase, CompleteBase, ReadyBase, HandleBase, RetryBase, LostBase DEF cycle
<1>2. ASSUME NEW a \in Apps, publish(a) \/ Proceed(a) \/ disconnect(a) \/ connect(a) PROVE BaseInv'
  BY <1>2, PublishBase, StartBase, StoreBase, ReturnsBase, Disconnect1Base, DisconnectBase, ConnectBase DEF Proceed
<1>3. CASE drains \/ linkBreaks \/ brokerAcks \/ brokerSends
  BY <1>3, DrainsBase, BreaksBase, AcksBase, SendsBase
<1>4. CASE UNCHANGED vars
  <2>1. UNCHANGED <<client, buffers, pwset, taken, pc, job, network, bounds>>
    BY <1>4 DEF vars
  <2>2. /\ UNCHANGED <<client, buffers, pwset, taken, pc, job, stream, conns, sends>>
        /\ room' \in 0..Buffer /\ broken' \in BOOLEAN /\ inbox' \in Seq(Work) /\ acked' \subseteq 1..MaxSends
        /\ others' \in 0..MaxOther
    BY <2>1 DEF BaseInv, WriterTypes, TypeOK, network, bounds
  <2> QED BY <2>2, NetBase
<1> QED BY <1>1, <1>2, <1>3, <1>4 DEF Next

LEMMA BaseInit == Init => BaseInv
<1>1. Init => JobInv
  <2> SUFFICES ASSUME Init PROVE JobInv
    OBVIOUS
  <2>1. \A a \in Apps : pc[a] = "idle"
    BY Constants DEF Init
  <2> QED BY <2>1 DEF JobInv, At, Holds
<1> QED BY <1>1, TypeInit DEF BaseInv

-----------------------------------------------------------------------------
(* What is unfinished and what the connection has taken *)

\* The unfinished packets of the socket of the session: there is at most one, and
\* it is known to be pending, until the background thread has cleared that.
Mine == {i \in DOMAIN writes : writes[i].fd = socket}
PendingInv ==
  /\ \A i, j \in Mine : i = j
  /\ Mine # {} => socket \in write_pending
  /\ socket \in write_pending => Mine # {} \/ At(Run, "clear")
  /\ At(Run, "clear") => Mine = {} /\ socket \in write_pending

\* What is unfinished continues what the connection has taken last.
Continues(s, w) == IF w.done = 0 THEN Ended(s)
                   ELSE s # <<>> /\ s[Len(s)] = [packet |-> w.packet, unit |-> w.done]
StreamInv ==
  /\ Runs(stream)
  /\ connected /\ ~broken => (Mine = {} => Ended(stream)) /\ \A i \in Mine : Continues(stream, writes[i])

\* Publications with QoS 1 that wait for an acknowledgement, or that the connection
\* has taken: none of them is about to be written for the first time.
Used(id) == id \in ToSet(outboundMsgs) \/ \E x \in DOMAIN stream : stream[x].packet.qos = 1 /\ stream[x].packet.id = id
UsedInv ==
  /\ \A i, j \in DOMAIN outboundMsgs : outboundMsgs[i] = outboundMsgs[j] => i = j
  /\ \A id \in 1..MaxSends : Used(id) => id <= sends
  /\ \A a \in Apps : At(a, "check") => ~Used(job[a].id)

\* What is acknowledged has been written wholly, so it is not what is unfinished while
\* an acknowledgement is handled.
Taken(id) == \E x \in DOMAIN stream : stream[x] = [packet |-> Publication(id, 1), unit |-> Length]
AckInv ==
  /\ \A id \in acked : Taken(id)
  /\ \A x \in DOMAIN inbox : inbox[x].kind = "ack" => inbox[x].id \in acked
  /\ At(Run, "handle") /\ taken = socket =>
       \A i \in Mine : writes[i].mem = "message" => ~Taken(writes[i].packet.id)

\* Where an unfinished packet lies, by the packet it is.
Lies(w) ==
  /\ w.packet.kind = "publish" /\ w.packet.qos = 0 => w.mem \in {"app", "copy"}
  /\ w.mem = "app" => \E a \in Apps : Holds(a) /\ job[a] = w.packet
  /\ w.mem = "copy" => [fd |-> socket, id |-> w.packet.id] \in copies
  /\ w.mem = "message" => w.packet.id \in ToSet(outboundMsgs) /\ w.packet = Publication(w.packet.id, 1)
  /\ w.packet.qos = 1 => w.mem = "message"
MemInv == \A i \in Mine : Lies(writes[i])

OneInv == BaseInv /\ PendingInv /\ StreamInv /\ UsedInv /\ AckInv /\ MemInv

\* What the connection takes and what is kept, when nothing was unfinished before.
TakenAndKept(fd, before, packets, size, mem) ==
  /\ \A x \in DOMAIN before : x \in DOMAIN stream' /\ stream'[x] = before[x]
  /\ \A x \in DOMAIN stream' : x \in DOMAIN before \/ \E k \in DOMAIN packets : stream'[x].packet = packets[k]
  /\ \A i \in Mine' : \E k \in DOMAIN packets, done \in 0..(size - 1) :
       /\ writes'[i] = [fd |-> fd, packet |-> packets[k], done |-> done, mem |-> mem]
       /\ \A x \in DOMAIN stream' : x \in DOMAIN before \/
            \E m \in 1..k : stream'[x].packet = packets[m] /\ (m = k => stream'[x].unit <= done)

LEMMA WroteOne ==
  ASSUME WriterTypes, NEW fd \in Fds, socket' = fd, NEW before, SentOK(before), Runs(before), Ended(before),
         NEW packets \in Seq(Packets), NEW size \in Nat \ {0}, NEW mem \in {"app", "copy", "message", "own"},
         NEW free \in 0..Buffer, \A k \in DOMAIN packets : Units(packets[k]) = size,
         Written(fd, before, packets, size, mem, free),
         \A i \in DOMAIN writes : writes[i].fd # fd, fd \notin write_pending, pc'[Run] # "clear"
  PROVE  PendingInv' /\ StreamInv' /\ TakenAndKept(fd, before, packets, size, mem)
<1> USE DEF TakenAndKept
<1>1. Wrote(fd, before, packets, size, mem)
  BY WrittenFacts DEF SentOK
<1>2. /\ Runs(stream')
      /\ \A x \in DOMAIN before : x \in DOMAIN stream' /\ stream'[x] = before[x]
      /\ \A x \in DOMAIN stream' : x \in DOMAIN before \/ \E k \in DOMAIN packets : stream'[x].packet = packets[k]
  <2>1. /\ Runs(before) /\ Ended(before) => Runs(stream')
        /\ \A x \in DOMAIN before : x \in DOMAIN stream' /\ stream'[x] = before[x]
        /\ \A x \in DOMAIN stream' : x \in DOMAIN before \/
             \E k \in DOMAIN packets : stream'[x].packet = packets[k] /\ stream'[x].unit \in 1..size
    BY <1>1, Zenon DEF Wrote
  <2> QED BY <2>1
<1> DEFINE Cut(k, done) ==
      /\ Keep(fd, packets[k], done, mem)
      /\ done = 0 /\ Ended(before) => Ended(stream')
      /\ done > 0 => /\ stream' # <<>>
                     /\ stream'[Len(stream')] = [packet |-> packets[k], unit |-> done]
      /\ \A x \in DOMAIN stream' : x \in DOMAIN before \/
           \E m \in 1..k : /\ stream'[x].packet = packets[m]
                           /\ m = k => stream'[x].unit <= done
<1>3. \/ UNCHANGED <<writes, write_pending, pending_wset>> /\ Ended(stream')
      \/ \E k \in DOMAIN packets, done \in 0..(size - 1) : Cut(k, done)
  <2>1. \/ UNCHANGED <<writes, write_pending, pending_wset>> /\ (Ended(before) => Ended(stream'))
        \/ \E k \in DOMAIN packets, done \in 0..(size - 1) : Cut(k, done)
    BY <1>1 DEF Wrote
  <2> HIDE DEF Cut
  <2> QED BY <2>1
<1>4. CASE UNCHANGED <<writes, write_pending, pending_wset>> /\ Ended(stream')
  <2>1. Mine' = {} /\ socket' \notin write_pending'
    BY <1>4 DEF Mine
  <2>2. PendingInv'
    BY <2>1 DEF PendingInv, At
  <2>3. StreamInv'
    BY <1>2, <1>4, <2>1 DEF StreamInv
  <2> QED BY <1>2, <2>1, <2>2, <2>3
<1>5. ASSUME NEW k \in DOMAIN packets, NEW done \in 0..(size - 1),
             Cut(k, done)
      PROVE  /\ PendingInv' /\ StreamInv'
             /\ \A i \in Mine' :
                  /\ writes'[i] = [fd |-> fd, packet |-> packets[k], done |-> done, mem |-> mem]
                  /\ \A x \in DOMAIN stream' : x \in DOMAIN before \/
                       \E m \in 1..k : stream'[x].packet = packets[m] /\ (m = k => stream'[x].unit <= done)
  <2>1. PICK p : p = packets[k]
    OBVIOUS
  <2>2. p \in Packets /\ Units(p) = size
    BY <2>1, ElementOfSeq, LenProperties
  <2>3. PICK r : r = [fd |-> fd, packet |-> p, done |-> done, mem |-> mem]
    OBVIOUS
  <2>4. writes' = Append(writes, [fd |-> fd, packet |-> p, done |-> done, mem |-> mem]) /\ write_pending' = write_pending \cup {fd}
    BY <1>5, <2>1 DEF Keep
  <2>5. /\ Len(writes) \in Nat /\ DOMAIN writes = 1..Len(writes) /\ DOMAIN writes' = 1..(Len(writes) + 1)
        /\ \A i \in DOMAIN writes : writes'[i] = writes[i]
        /\ writes'[Len(writes) + 1] = r
    BY <2>2, <2>3, <2>4, KeepFacts
  <2>6. Mine' = {Len(writes) + 1}
    <3>1. \A i \in DOMAIN writes' : i \in DOMAIN writes \/ i = Len(writes) + 1
      BY <2>5
    <3>2. Len(writes) + 1 \in DOMAIN writes' /\ r.fd = fd
      BY <2>3, <2>5
    <3> QED BY <2>5, <3>1, <3>2 DEF Mine
  <2>7. PendingInv'
    BY <2>4, <2>6 DEF PendingInv, At
  <2>8. Continues(stream', writes'[Len(writes) + 1])
    <3>1. r.done = done /\ r.packet = p /\ (done = 0 \/ done > 0)
      BY <2>3
    <3> QED BY <1>5, <2>1, <2>5, <3>1 DEF Continues
  <2>9. StreamInv'
    BY <1>2, <2>6, <2>8 DEF StreamInv
  <2>10. \A i \in Mine' : writes'[i] = [fd |-> fd, packet |-> packets[k], done |-> done, mem |-> mem]
    BY <2>1, <2>3, <2>5, <2>6
  <2> QED BY <1>5, <2>7, <2>9, <2>10
<1> HIDE DEF Cut
<1>6. CASE \E k \in DOMAIN packets, done \in 0..(size - 1) : Cut(k, done)
  <2>1. PICK k \in DOMAIN packets, done \in 0..(size - 1) : Cut(k, done)
    BY <1>6
  <2>2. /\ PendingInv' /\ StreamInv'
        /\ \A i \in Mine' :
             /\ writes'[i] = [fd |-> fd, packet |-> packets[k], done |-> done, mem |-> mem]
             /\ \A x \in DOMAIN stream' : x \in DOMAIN before \/
                  \E m \in 1..k : stream'[x].packet = packets[m] /\ (m = k => stream'[x].unit <= done)
    BY <1>5, <2>1
  <2>3. ASSUME NEW i \in Mine'
        PROVE  \E k2 \in DOMAIN packets, done2 \in 0..(size - 1) :
                 /\ writes'[i] = [fd |-> fd, packet |-> packets[k2], done |-> done2, mem |-> mem]
                 /\ \A x \in DOMAIN stream' : x \in DOMAIN before \/
                      \E m \in 1..k2 : stream'[x].packet = packets[m] /\ (m = k2 => stream'[x].unit <= done2)
    <3>1. /\ writes'[i] = [fd |-> fd, packet |-> packets[k], done |-> done, mem |-> mem]
          /\ \A x \in DOMAIN stream' : x \in DOMAIN before \/
               \E m \in 1..k : stream'[x].packet = packets[m] /\ (m = k => stream'[x].unit <= done)
      BY <2>2
    <3> QED BY <3>1, Zenon
  <2> QED BY <1>2, <2>2, <2>3, Zenon
<1> QED BY <1>3, <1>4, <1>6

\* Steps that leave what is unfinished alone.
LEMMA QuietKeeps ==
  ASSUME OneInv, UNCHANGED <<socket, connected, writes, write_pending, stream, outboundMsgs, copies>>,
         ~broken' => ~broken, At(Run, "clear")' <=> At(Run, "clear"),
         \A a \in Apps : Holds(a) => Holds(a)' /\ job'[a] = job[a]
  PROVE  PendingInv' /\ StreamInv' /\ MemInv'
<1>1. Mine' = Mine
  BY DEF Mine
<1>2. PendingInv'
  BY <1>1 DEF OneInv, PendingInv
<1>3. StreamInv'
  BY <1>1 DEF OneInv, StreamInv
<1>4. ASSUME NEW i \in Mine' PROVE Lies(writes[i])'
  <2>1. Lies(writes[i])
    BY <1>1, <1>4 DEF OneInv, MemInv
  <2> QED BY <2>1 DEF Lies
<1>5. MemInv'
  BY <1>4 DEF MemInv
<1> QED BY <1>2, <1>3, <1>5

LEMMA QuietUsed ==
  ASSUME OneInv, sends' = sends,
         \A i, j \in DOMAIN outboundMsgs' : outboundMsgs'[i] = outboundMsgs'[j] => i = j,
         \A id : Used(id)' => Used(id),
         \A a \in Apps : At(a, "check")' => At(a, "check") /\ job'[a] = job[a]
  PROVE  UsedInv'
BY DEF OneInv, UsedInv

LEMMA QuietAck ==
  ASSUME OneInv, UNCHANGED <<writes, socket, stream, acked, inbox>>,
         At(Run, "handle")' /\ taken' = socket' => At(Run, "handle") /\ taken = socket
  PROVE  AckInv'
<1>1. Mine' = Mine /\ AckInv
  BY DEF Mine, OneInv
<1>2. /\ \A id \in acked' : Taken(id)'
      /\ \A x \in DOMAIN inbox' : inbox'[x].kind = "ack" => inbox'[x].id \in acked'
  BY <1>1 DEF AckInv, Taken
<1>3. At(Run, "handle")' /\ taken' = socket' =>
        \A i \in Mine' : writes'[i].mem = "message" => ~Taken(writes[i].packet.id)'
  BY <1>1 DEF AckInv, Taken
<1> QED BY <1>2, <1>3 DEF AckInv

\* Where the threads go and what they hold is all that changes.
LEMMA QuietOne ==
  ASSUME OneInv, BaseInv', UNCHANGED <<client, writes, write_pending, stream, copies, acked, inbox>>, sends' = sends,
         ~broken' => ~broken, At(Run, "clear")' <=> At(Run, "clear"),
         At(Run, "handle")' /\ taken' = socket' => At(Run, "handle") /\ taken = socket,
         \A a \in Apps : Holds(a) => Holds(a)' /\ job'[a] = job[a],
         \A a \in Apps : At(a, "check")' => At(a, "check") /\ job'[a] = job[a]
  PROVE  OneInv'
<1>1. PendingInv' /\ StreamInv' /\ MemInv'
  BY QuietKeeps DEF client
<1>2. UsedInv'
  <2>1. \A id : Used(id)' => Used(id)
    BY DEF Used, client
  <2>2. \A i, j \in DOMAIN outboundMsgs' : outboundMsgs'[i] = outboundMsgs'[j] => i = j
    BY DEF OneInv, UsedInv, client
  <2> QED BY <2>1, <2>2, QuietUsed
<1>3. AckInv'
  BY QuietAck DEF client
<1> QED BY <1>1, <1>2, <1>3 DEF OneInv

LEMMA CloseOne ==
  ASSUME OneInv, BaseInv', connected, closeSession, PcOK', job' \in [Apps -> Packets], UNCHANGED <<pwset, bounds>>,
         taken' \in Fds \cup {NoSocket}, ~At(Run, "clear")',
         \A a \in Apps : At(a, "check")' => At(a, "check") /\ job'[a] = job[a]
  PROVE  OneInv'
<1>1. /\ WriterTypes' /\ ~connected' /\ socket' = NoSocket /\ stream' = <<>> /\ acked' = {} /\ inbox' = <<>>
      /\ write_pending' = {} /\ (outboundMsgs' = <<>> \/ outboundMsgs' = outboundMsgs)
      /\ \A i \in DOMAIN writes' : writes'[i].fd \in Fds
  BY CloseTypes DEF OneInv, BaseInv
<1>2. Mine' = {}
  BY <1>1, Constants DEF Mine
<1>3. PendingInv'
  BY <1>1, <1>2 DEF PendingInv
<1>4. DOMAIN stream' = {} /\ DOMAIN inbox' = {}
  BY <1>1
<1>5. StreamInv' /\ AckInv' /\ MemInv'
  <2>1. Runs(stream)'
    BY <1>4 DEF Runs
  <2>2. StreamInv'
    BY <1>1, <2>1 DEF StreamInv
  <2>3. AckInv'
    BY <1>1, <1>2, <1>4 DEF AckInv
  <2>4. MemInv'
    BY <1>2 DEF MemInv
  <2> QED BY <2>2, <2>3, <2>4
<1>6. UsedInv'
  <2>1. \A id : Used(id)' => Used(id)
    <3>1. \A id : Used(id)' => id \in ToSet(outboundMsgs')
      BY <1>4 DEF Used
    <3>2. ToSet(outboundMsgs') \subseteq ToSet(outboundMsgs)
      BY <1>1 DEF ToSet
    <3> QED BY <3>1, <3>2 DEF Used
  <2>2. \A i, j \in DOMAIN outboundMsgs' : outboundMsgs'[i] = outboundMsgs'[j] => i = j
    BY <1>1 DEF OneInv, UsedInv
  <2> QED BY <2>1, <2>2, QuietUsed DEF bounds
<1> QED BY <1>3, <1>5, <1>6 DEF OneInv

LEMMA NothingPending ==
  ASSUME OneInv, connected, ~Refuses
  PROVE  /\ socket \in Fds /\ socket \notin write_pending /\ Mine = {} /\ \A i \in DOMAIN writes : writes[i].fd # socket
         /\ SentOK(stream) /\ Runs(stream) /\ Ended(stream) /\ room \in 0..Buffer /\ ~broken
         /\ ~At(Run, "clear")
<1>1. socket \notin write_pending /\ ~broken
  BY DEF Refuses, noPendingWrites
<1>2. Mine = {} /\ ~At(Run, "clear")
  BY <1>1 DEF OneInv, PendingInv
<1>3. \A i \in DOMAIN writes : writes[i].fd # socket
  BY <1>2 DEF Mine
<1>4. Runs(stream) /\ Ended(stream)
  BY <1>1, <1>2 DEF OneInv, StreamInv
<1>5. socket \in Fds /\ SentOK(stream) /\ room \in 0..Buffer
  BY DEF OneInv, BaseInv, WriterTypes, TypeOK, SentOK, Fds
<1> QED BY <1>1, <1>2, <1>3, <1>4, <1>5

LEMMA PublishOne == ASSUME OneInv, NEW a \in Apps, publish(a) PROVE OneInv'
<1>1. /\ pc[a] = "idle" /\ sends < MaxSends /\ sends' = sends + 1 /\ Go(a, "check")
      /\ job' = [job EXCEPT ![a] = Publication(sends + 1, QoS[a])]
      /\ UNCHANGED <<client, buffers, pwset, taken, network, others>>
  BY DEF publish, At
<1>2. WriterTypes /\ JobInv /\ UsedInv /\ BaseInv
  BY DEF OneInv, BaseInv
<1>3. BaseInv'
  BY <1>2, PublishBase
<1>4. /\ pc'[Run] = pc[Run] /\ pc'[a] = "check"
      /\ \A b \in Apps : pc'[b] = IF b = a THEN "check" ELSE pc[b]
  <2>1. "check" \in AppPlaces
    BY DEF AppPlaces
  <2> QED BY <1>1, <1>2, <2>1, AppGoes
<1>5. \A b \in Apps : job'[b] = IF b = a THEN Publication(sends + 1, QoS[a]) ELSE job[b]
  BY <1>1, <1>2 DEF WriterTypes
<1>6. /\ UNCHANGED <<socket, connected, writes, write_pending, stream, outboundMsgs, copies, broken, taken, acked, inbox>>
  BY <1>1 DEF client, buffers, network
<1>7. PendingInv' /\ StreamInv' /\ MemInv'
  <2>1. \A b \in Apps : Holds(b) => Holds(b)' /\ job'[b] = job[b]
    BY <1>1, <1>4, <1>5 DEF Holds, At
  <2>2. At(Run, "clear")' <=> At(Run, "clear")
    BY <1>4 DEF At
  <2>3. ~broken' => ~broken
    BY <1>6
  <2> QED BY <1>6, <2>1, <2>2, <2>3, QuietKeeps
<1>8. AckInv'
  <2>1. At(Run, "handle")' /\ taken' = socket' => At(Run, "handle") /\ taken = socket
    BY <1>4, <1>6 DEF At
  <2> QED BY <1>6, <2>1, QuietAck
<1>9. UsedInv'
  <2>1. \A id : Used(id)' <=> Used(id)
    BY <1>6 DEF Used
  <2>2. \A id \in 1..MaxSends : Used(id)' => id <= sends'
    <3> TAKE id \in 1..MaxSends
    <3>1. Used(id) => id <= sends
      BY <1>2 DEF UsedInv
    <3>2. sends \in Nat /\ id \in Nat
      BY <1>2 DEF WriterTypes
    <3> QED BY <1>1, <2>1, <3>1, <3>2
  <2>3. ASSUME NEW b \in Apps, At(b, "check")' PROVE ~Used(job[b].id)'
    <3>1. CASE b = a
      <4>1. job'[b].id = sends + 1
        BY <1>5, <3>1 DEF Publication
      <4>2. sends + 1 \in 1..MaxSends /\ ~(sends + 1 <= sends)
        BY <1>1, <1>2 DEF WriterTypes
      <4>3. ~Used(sends + 1)
        BY <1>2, <4>2 DEF UsedInv
      <4>4. \A id : id = job'[b].id => ~Used(id)'
        BY <2>1, <4>1, <4>3
      <4> QED BY <1>6, <4>1, <4>3 DEF Used
    <3>2. CASE b # a
      <4>1. At(b, "check") /\ job'[b] = job[b]
        BY <1>4, <1>5, <2>3, <3>2 DEF At
      <4>2. ~Used(job[b].id)
        BY <1>2, <4>1 DEF UsedInv
      <4> QED BY <1>6, <4>1, <4>2 DEF Used
    <3> QED BY <3>1, <3>2
  <2>4. \A i, j \in DOMAIN outboundMsgs' : outboundMsgs'[i] = outboundMsgs'[j] => i = j
    BY <1>2, <1>6 DEF UsedInv
  <2> QED BY <2>2, <2>3, <2>4 DEF UsedInv
<1> QED BY <1>3, <1>7, <1>8, <1>9 DEF OneInv

LEMMA AppMovesOne ==
  ASSUME OneInv, BaseInv', NEW a \in Apps, NEW p \in {"idle", "fail"}, ~At(a, "store"), Go(a, p),
         UNCHANGED <<client, writes, write_pending, stream, copies, acked, inbox, broken, taken, sends>>,
         job' = job \/ Return(a)
  PROVE  OneInv'
<1>1. WriterTypes
  BY DEF OneInv, BaseInv
<1>2. pc'[Run] = pc[Run] /\ \A b \in Apps : pc'[b] = IF b = a THEN p ELSE pc[b]
  BY <1>1, AppGoes DEF AppPlaces
<1>3. \A b \in Apps : b # a => job'[b] = job[b]
  BY <1>1 DEF Return, WriterTypes
<1>4. /\ \A b \in Apps : Holds(b) => Holds(b)' /\ job'[b] = job[b]
      /\ \A b \in Apps : At(b, "check")' => At(b, "check") /\ job'[b] = job[b]
  BY <1>2, <1>3 DEF Holds, At
<1>5. /\ At(Run, "clear")' <=> At(Run, "clear")
      /\ At(Run, "handle")' /\ taken' = socket' => At(Run, "handle") /\ taken = socket
  BY <1>2 DEF At, client
<1> QED BY <1>4, <1>5, QuietOne

LEMMA ReturnsOne == ASSUME OneInv, NEW a \in Apps, publishReturns(a) PROVE OneInv'
<1>1. /\ ~At(a, "store") /\ Return(a) /\ Go(a, "idle")
      /\ UNCHANGED <<client, writes, write_pending, stream, copies, acked, inbox, broken, taken, sends>>
  BY DEF publishReturns, Return, At, buffers, network, bounds
<1>2. BaseInv'
  BY ReturnsBase DEF OneInv
<1> QED BY <1>1, <1>2, AppMovesOne

LEMMA DisconnectOne == ASSUME OneInv, NEW a \in Apps, disconnect(a) PROVE OneInv'
<1>1. /\ ~At(a, "store") /\ job' = job /\ Go(a, "fail")
      /\ UNCHANGED <<client, writes, write_pending, stream, copies, acked, inbox, broken, taken, sends>>
  BY DEF disconnect, At, buffers, network, Bounded
<1>2. BaseInv'
  BY DisconnectBase DEF OneInv
<1> QED BY <1>1, <1>2, AppMovesOne

LEMMA Disconnect1One == ASSUME OneInv, NEW a \in Apps, disconnect1(a) PROVE OneInv'
<1>1. /\ At(a, "fail") /\ ClientFree /\ SocketFree /\ Return(a) /\ UNCHANGED <<pwset, taken, bounds>>
      /\ IF connected THEN closeSession ELSE UNCHANGED <<client, buffers, network>>
  BY DEF disconnect1
<1>2. BaseInv' /\ WriterTypes
  BY Disconnect1Base DEF OneInv, BaseInv
<1>3. CASE connected
  <2>1. /\ PcOK' /\ job' \in [Apps -> Packets] /\ pc'[Run] = pc[Run] /\ pc'[a] = "idle"
        /\ \A b \in Apps : pc'[b] = IF b = a THEN "idle" ELSE pc[b]
    BY <1>1, <1>2, ReturnTypes
  <2>2. \A b \in Apps : b # a => job'[b] = job[b]
    BY <1>1, <1>2 DEF Return, WriterTypes
  <2>3. \A b \in Apps : At(b, "check")' => At(b, "check") /\ job'[b] = job[b]
    BY <2>1, <2>2 DEF At
  <2>4. ~At(Run, "clear")'
    BY <1>1, <2>1 DEF At, SocketFree
  <2>5. taken' \in Fds \cup {NoSocket} /\ closeSession /\ UNCHANGED <<pwset, bounds>>
    BY <1>1, <1>2, <1>3 DEF WriterTypes, TypeOK, Fds
  <2> QED BY <1>2, <1>3, <2>1, <2>3, <2>4, <2>5, CloseOne
<1>4. CASE ~connected
  <2>1. /\ ~At(a, "store") /\ Go(a, "idle")
        /\ UNCHANGED <<client, writes, write_pending, stream, copies, acked, inbox, broken, taken, sends>>
    BY <1>1, <1>4 DEF Return, At, buffers, network, bounds
  <2> QED BY <1>1, <1>2, <2>1, AppMovesOne
<1> QED BY <1>3, <1>4

\* A packet that fits is not kept.
LEMMA WholeWritten ==
  ASSUME NEW p \in Packets, NEW mem, room \in 0..Buffer, Units(p) <= room, Write(<<p>>, Units(p), mem)
  PROVE  writes' = writes
<1>1. PICK packets, size, all : packets = <<p>> /\ size = Units(p) /\ all = AllUnits(packets, size)
  OBVIOUS
<1>2. packets \in Seq(Packets) /\ Len(packets) = 1 /\ size \in Nat \ {0} /\ \A k \in DOMAIN packets : Units(packets[k]) = size
  BY <1>1, OnePacket
<1>3. Len(all) = Len(packets) * size
  <2>1. InTurn(all, packets, size)
    BY <1>1, <1>2, AllUnitsFacts
  <2> QED BY <2>1 DEF InTurn
<1>4. Fewer(room, Len(all)) = Len(all)
  BY <1>1, <1>2, <1>3 DEF Fewer
<1>5. Written(socket, stream, packets, size, mem, room)
  BY <1>1 DEF Write
<1> QED BY <1>1, <1>4, <1>5 DEF Written

LEMMA StartOne == ASSUME OneInv, NEW a \in Apps, startPublish(a) PROVE OneInv'
<1>1. /\ At(a, "check") /\ ClientFree /\ WriterTypes /\ BaseInv /\ JobInv /\ UsedInv /\ AckInv
      /\ UNCHANGED <<socket, connected, pwset, taken, broken, inbox, acked, conns, bounds>>
  BY DEF startPublish, OneInv, BaseInv
<1>2. BaseInv'
  BY <1>1, StartBase
<1>3. /\ job[a] \in Packets /\ job[a].kind = "publish" /\ job[a].id \in 1..sends /\ job[a].id \in 1..MaxSends
      /\ job[a].qos = QoS[a] /\ QoS[a] \in {0, 1} /\ job[a] = Publication(job[a].id, job[a].qos)
      /\ Units(job[a]) \in Nat \ {0} /\ sends \in Nat
  <2>1. /\ job[a] \in Packets /\ job[a].kind = "publish" /\ job[a].id \in 1..sends /\ job[a].qos = QoS[a] /\ QoS[a] \in {0, 1}
        /\ sends \in 0..MaxSends
    BY <1>1 DEF WriterTypes, JobInv
  <2>2. job[a].id \in 1..MaxSends
    BY <2>1
  <2>3. job[a] = Publication(job[a].id, job[a].qos)
    BY <2>1 DEF Packets, Publication
  <2> QED BY <2>1, <2>2, <2>3, Constants
<1>4. CASE ~connected /\ Return(a) /\ UNCHANGED <<outboundMsgs, buffers, stream, room>>
  <2>1. /\ ~At(a, "store") /\ Go(a, "idle")
        /\ UNCHANGED <<client, writes, write_pending, stream, copies, acked, inbox, broken, taken, sends>>
    BY <1>1, <1>4 DEF Return, At, buffers, client, bounds
  <2> QED BY <1>2, <1>4, <2>1, AppMovesOne
<1>5. CASE ~(~connected /\ Return(a) /\ UNCHANGED <<outboundMsgs, buffers, stream, room>>)
  <2>1. /\ connected /\ noPendingWrites(socket)
        /\ outboundMsgs' = IF job[a].qos = 1 THEN Append(outboundMsgs, job[a].id) ELSE outboundMsgs
        /\ UNCHANGED copies
        /\ \/ Go(a, "fail") /\ UNCHANGED <<job, buffers, stream, room>>
           \/ /\ ~Refuses
              /\ Write(<<job[a]>>, Units(job[a]), IF job[a].qos = 1 THEN "message" ELSE "app")
              /\ \/ room < Units(job[a]) /\ Go(a, IF job[a].qos = 0 THEN "store" ELSE "wait") /\ UNCHANGED job
                 \/ ~(room < Units(job[a])) /\ Return(a)
    BY <1>5 DEF startPublish, buffers
  <2>2. /\ pc'[Run] = pc[Run]
        /\ \A b \in Apps : b # a => pc'[b] = pc[b] /\ job'[b] = job[b]
        /\ pc'[a] # "check"
        /\ room < Units(job[a]) /\ job[a].qos = 0 /\ ~UNCHANGED writes => pc'[a] = "store" /\ job'[a] = job[a]
    <3>1. ASSUME NEW p \in {"store", "wait", "fail"}, Go(a, p), UNCHANGED job
          PROVE  pc'[Run] = pc[Run] /\ pc'[a] = p /\ \A b \in Apps : b # a => pc'[b] = pc[b] /\ job'[b] = job[b]
      BY <1>1, <3>1, AppGoes DEF AppPlaces
    <3>2. CASE Go(a, "fail") /\ UNCHANGED <<job, buffers, stream, room>>
      BY <3>1, <3>2 DEF buffers
    <3>3. CASE room < Units(job[a]) /\ Go(a, IF job[a].qos = 0 THEN "store" ELSE "wait") /\ UNCHANGED job
      <4>1. CASE job[a].qos = 0
        BY <3>1, <3>3, <4>1
      <4>2. CASE job[a].qos # 0
        BY <3>1, <3>3, <4>2
      <4> QED BY <4>1, <4>2
    <3>4. CASE ~(room < Units(job[a])) /\ Return(a)
      <4>1. \A b \in Apps : b # a => job'[b] = job[b]
        BY <1>1, <3>4 DEF Return, WriterTypes
      <4> QED BY <1>1, <3>4, <4>1, ReturnTypes
    <3> QED BY <2>1, <3>2, <3>3, <3>4
  <2>3. Mine = {} /\ ~At(Run, "clear")
    BY <2>1 DEF OneInv, PendingInv, noPendingWrites
  <2>4. /\ outboundMsgs \in Seq(1..MaxSends)
        /\ \A i, j \in DOMAIN outboundMsgs' : outboundMsgs'[i] = outboundMsgs'[j] => i = j
        /\ \A id : id \in ToSet(outboundMsgs') <=> id \in ToSet(outboundMsgs) \/ (job[a].qos = 1 /\ id = job[a].id)
    <3>1. outboundMsgs \in Seq(1..MaxSends) /\ \A i, j \in DOMAIN outboundMsgs : outboundMsgs[i] = outboundMsgs[j] => i = j
      BY <1>1 DEF WriterTypes, TypeOK, UsedInv
    <3>2. job[a].id \notin ToSet(outboundMsgs)
      BY <1>1 DEF UsedInv, Used
    <3>3. CASE job[a].qos = 1
      <4>1. /\ Len(outboundMsgs) \in Nat /\ DOMAIN outboundMsgs = 1..Len(outboundMsgs)
            /\ DOMAIN outboundMsgs' = 1..(Len(outboundMsgs) + 1)
            /\ \A i \in DOMAIN outboundMsgs : outboundMsgs'[i] = outboundMsgs[i]
            /\ outboundMsgs'[Len(outboundMsgs) + 1] = job[a].id
        BY <1>3, <2>1, <3>1, <3>3, AppendProperties, LenProperties
      <4>2. \A i \in DOMAIN outboundMsgs' : i \in DOMAIN outboundMsgs \/ i = Len(outboundMsgs) + 1
        BY <4>1
      <4>3. \A i \in DOMAIN outboundMsgs : outboundMsgs[i] # job[a].id
        BY <3>2 DEF ToSet
      <4>4. \A i, j \in DOMAIN outboundMsgs' : outboundMsgs'[i] = outboundMsgs'[j] => i = j
        BY <3>1, <4>1, <4>2, <4>3
      <4>5. Len(outboundMsgs) + 1 \in DOMAIN outboundMsgs' /\ DOMAIN outboundMsgs \subseteq DOMAIN outboundMsgs'
        BY <4>1
      <4>6. ToSet(outboundMsgs') = ToSet(outboundMsgs) \cup {job[a].id}
        BY <4>1, <4>2, <4>5 DEF ToSet
      <4> QED BY <3>1, <3>3, <4>4, <4>6
    <3>4. CASE job[a].qos # 1
      <4>1. outboundMsgs' = outboundMsgs
        BY <2>1, <3>4
      <4> QED BY <3>1, <3>4, <4>1
    <3> QED BY <3>3, <3>4
  <2>5. PICK mem \in {"app", "message"} : mem = IF job[a].qos = 1 THEN "message" ELSE "app"
    OBVIOUS
  <2>6. \/ UNCHANGED <<writes, write_pending, stream, room>>
        \/ ~Refuses /\ Write(<<job[a]>>, Units(job[a]), mem) /\ (~(room < Units(job[a])) => writes' = writes)
    <3>1. CASE Go(a, "fail") /\ UNCHANGED <<job, buffers, stream, room>>
      BY <3>1 DEF buffers
    <3>2. CASE ~Refuses /\ Write(<<job[a]>>, Units(job[a]), mem)
      <4>1. room \in 0..Buffer
        BY <1>1 DEF WriterTypes, TypeOK
      <4>2. ASSUME ~(room < Units(job[a])) PROVE writes' = writes
        <5>1. Units(job[a]) <= room
          BY <1>3, <4>1, <4>2
        <5> QED BY <1>3, <3>2, <4>1, <5>1, WholeWritten
      <4> QED BY <3>2, <4>2
    <3> QED BY <2>1, <2>5, <3>1, <3>2
  \* What is new on the connection and in the lists.
  <2>7. /\ PendingInv' /\ StreamInv'
        /\ \A x \in DOMAIN stream : x \in DOMAIN stream' /\ stream'[x] = stream[x]
        /\ \A x \in DOMAIN stream' : x \in DOMAIN stream \/ stream'[x].packet = job[a]
        /\ \A i \in Mine' : /\ writes'[i].packet = job[a] /\ writes'[i].mem = mem /\ writes' # writes
                            /\ \A x \in DOMAIN stream' : x \in DOMAIN stream \/ stream'[x].unit < Units(job[a])
    <3>1. CASE UNCHANGED <<writes, write_pending, stream, room>>
      <4>1. Mine' = {}
        BY <1>1, <2>3, <3>1 DEF Mine
      <4>2. PendingInv'
        BY <1>1, <2>2, <2>3, <3>1, <4>1 DEF OneInv, PendingInv, At
      <4>3. StreamInv'
        BY <1>1, <2>3, <3>1, <4>1 DEF OneInv, StreamInv
      <4> QED BY <3>1, <4>1, <4>2, <4>3
    <3>2. CASE ~Refuses /\ Write(<<job[a]>>, Units(job[a]), mem)
      <4>1. /\ socket \in Fds /\ socket \notin write_pending /\ \A i \in DOMAIN writes : writes[i].fd # socket
            /\ SentOK(stream) /\ Runs(stream) /\ Ended(stream) /\ room \in 0..Buffer
        BY <2>1, <3>2, NothingPending
      <4>2. PICK packets, size : packets = <<job[a]>> /\ size = Units(job[a])
        OBVIOUS
      <4>3. /\ packets \in Seq(Packets) /\ size \in Nat \ {0} /\ \A k \in DOMAIN packets : Units(packets[k]) = size
            /\ DOMAIN packets = {1} /\ packets[1] = job[a]
        BY <1>3, <4>2, OnePacket
      <4>4. Written(socket, stream, packets, size, mem, room)
        BY <3>2, <4>2 DEF Write
      <4>5. socket' = socket /\ pc'[Run] # "clear"
        BY <1>1, <2>2, <2>3 DEF At
      <4>6. /\ PendingInv' /\ StreamInv'
            /\ \A x \in DOMAIN stream : x \in DOMAIN stream' /\ stream'[x] = stream[x]
            /\ \A x \in DOMAIN stream' : x \in DOMAIN stream \/ \E k \in DOMAIN packets : stream'[x].packet = packets[k]
            /\ \A i \in Mine' : \E k \in DOMAIN packets, done \in 0..(size - 1) :
                 /\ writes'[i] = [fd |-> socket, packet |-> packets[k], done |-> done, mem |-> mem]
                 /\ \A x \in DOMAIN stream' : x \in DOMAIN stream \/
                      \E m \in 1..k : stream'[x].packet = packets[m] /\ (m = k => stream'[x].unit <= done)
        <5>1. mem \in {"app", "copy", "message", "own"} /\ WriterTypes /\ room \in 0..Buffer
          BY <1>1, <4>1
        <5>2. PendingInv' /\ StreamInv' /\ TakenAndKept(socket, stream, packets, size, mem)
          BY <4>1, <4>3, <4>4, <4>5, <5>1, WroteOne
        <5> QED BY <5>2, Zenon DEF TakenAndKept
      <4>7. ASSUME NEW i \in Mine'
            PROVE  /\ writes'[i].packet = job[a] /\ writes'[i].mem = mem /\ writes' # writes
                   /\ \A x \in DOMAIN stream' : x \in DOMAIN stream \/ stream'[x].unit < Units(job[a])
        <5>1. PICK k \in DOMAIN packets, done \in 0..(size - 1) :
                 /\ writes'[i] = [fd |-> socket, packet |-> packets[k], done |-> done, mem |-> mem]
                 /\ \A x \in DOMAIN stream' : x \in DOMAIN stream \/
                      \E m \in 1..k : stream'[x].packet = packets[m] /\ (m = k => stream'[x].unit <= done)
          BY <4>6
        <5>2. k = 1 /\ packets[k] = job[a] /\ \A m \in 1..k : m = k
          BY <4>3
        <5>3. writes' # writes
          <6>1. i \in DOMAIN writes' /\ writes'[i].fd = socket
            BY <1>1 DEF Mine
          <6> QED BY <4>1, <6>1
        <5>4. ASSUME NEW x \in DOMAIN stream', x \notin DOMAIN stream PROVE stream'[x].unit < Units(job[a])
          <6>1. stream'[x].unit <= done
            BY <5>1, <5>2, <5>4
          <6>2. stream' \in Seq(Sent)
            BY <1>2 DEF BaseInv, WriterTypes
          <6>3. stream'[x] \in Sent
            BY <6>2, ElementOfSeq, LenProperties
          <6>4. stream'[x].unit \in Nat
            BY <6>3 DEF Sent
          <6>5. done \in 0..(size - 1) /\ size \in Nat
            BY <4>3
          <6> QED BY <4>2, <6>1, <6>4, <6>5
        <5> QED BY <5>1, <5>2, <5>3, <5>4
      <4>8. \A x \in DOMAIN stream' : x \in DOMAIN stream \/ stream'[x].packet = job[a]
        BY <4>3, <4>6
      <4> QED BY <4>6, <4>7, <4>8
    <3> QED BY <2>6, <3>1, <3>2
  <2>8. UsedInv'
    <3>1. \A id : Used(id)' => Used(id) \/ id = job[a].id
      <4> TAKE id
      <4>1. id \in ToSet(outboundMsgs') => Used(id) \/ id = job[a].id
        BY <2>4 DEF Used
      <4>2. ASSUME NEW x \in DOMAIN stream', stream'[x].packet.qos = 1, stream'[x].packet.id = id
            PROVE  Used(id) \/ id = job[a].id
        BY <2>7, <4>2 DEF Used
      <4> QED BY <4>1, <4>2 DEF Used
    <3>2. \A id \in 1..MaxSends : Used(id)' => id <= sends'
      <4> TAKE id \in 1..MaxSends
      <4>1. sends' = sends
        BY <1>1 DEF bounds
      <4>2. job[a].id <= sends
        BY <1>3
      <4>3. Used(id) => id <= sends
        BY <1>1 DEF UsedInv
      <4> QED BY <3>1, <4>1, <4>2, <4>3
    <3>3. ASSUME NEW b \in Apps, At(b, "check")' PROVE ~Used(job[b].id)'
      <4>1. b # a /\ At(b, "check") /\ job'[b] = job[b]
        BY <2>2, <3>3 DEF At
      <4>2. ~Used(job[b].id) /\ job[b].id # job[a].id
        BY <1>1, <4>1 DEF UsedInv, JobInv
      <4>3. ASSUME Used(job[b].id)' PROVE FALSE
        <5>1. PICK id : id = job'[b].id
          OBVIOUS
        <5>2. Used(id)'
          BY <4>3, <5>1 DEF Used
        <5> QED BY <3>1, <4>1, <4>2, <5>1, <5>2
      <4> QED BY <4>3
    <3> QED BY <2>4, <3>2, <3>3 DEF UsedInv
  <2>9. MemInv'
    <3>1. ASSUME NEW i \in Mine' PROVE Lies(writes[i])'
      <4>1. writes'[i].packet = job[a] /\ writes'[i].mem = mem /\ writes' # writes
        BY <2>7
      <4>2. mem = "app" => pc'[a] = "store" /\ job'[a] = job[a]
        <5>1. mem = "app" => job[a].qos = 0
          BY <1>3, <2>5
        <5>2. room < Units(job[a])
          BY <2>6, <4>1
        <5> QED BY <2>2, <4>1, <5>1, <5>2
      <4>3. mem = "message" => job[a].id \in ToSet(outboundMsgs') /\ job[a].qos = 1
        <5>1. mem = "message" => job[a].qos = 1
          BY <2>5
        <5> QED BY <2>4, <5>1
      <4>4. /\ job[a].qos = 0 => mem = "app"
            /\ job[a].qos = 1 => mem = "message"
        BY <2>5
      <4> QED BY <1>3, <4>1, <4>2, <4>3, <4>4 DEF Lies, Holds, At
    <3> QED BY <3>1 DEF MemInv
  <2>10. AckInv'
    <3>1. \A id \in acked' : Taken(id)'
      <4> TAKE id \in acked'
      <4>1. PICK x \in DOMAIN stream : stream[x] = [packet |-> Publication(id, 1), unit |-> Length]
        BY <1>1 DEF AckInv, Taken
      <4> QED BY <2>7, <4>1 DEF Taken
    <3>2. \A x \in DOMAIN inbox' : inbox'[x].kind = "ack" => inbox'[x].id \in acked'
      BY <1>1 DEF AckInv
    <3>3. ASSUME NEW i \in Mine', writes'[i].mem = "message", Taken(writes[i].packet.id)' PROVE FALSE
      <4>1. writes'[i].packet = job[a] /\ mem = "message" /\ job[a].qos = 1
        BY <2>5, <2>7, <3>3
      <4>2. PICK x \in DOMAIN stream' : stream'[x] = [packet |-> Publication(job[a].id, 1), unit |-> Length]
        BY <3>3, <4>1 DEF Taken
      <4>3. CASE x \in DOMAIN stream
        <5>1. stream[x].packet = Publication(job[a].id, 1)
          BY <2>7, <4>2, <4>3
        <5>2. Used(job[a].id)
          BY <4>3, <5>1 DEF Used, Publication
        <5> QED BY <1>1, <5>2 DEF UsedInv
      <4>4. CASE x \notin DOMAIN stream
        <5>1. stream'[x].unit < Units(job[a]) /\ stream'[x].unit = Length
          BY <2>7, <4>2, <4>4
        <5>2. Units(job[a]) = Length
          BY <1>3 DEF Units
        <5> QED BY <5>1, <5>2
      <4> QED BY <4>3, <4>4
    <3> QED BY <3>1, <3>2, <3>3 DEF AckInv
  <2> QED BY <1>2, <2>7, <2>8, <2>9, <2>10 DEF OneInv
<1> QED BY <1>4, <1>5

\* The first unfinished packet of the socket is the only one.
LEMMA MineIsFirst ==
  ASSUME WriterTypes, PendingInv
  PROVE  getWrite(socket) = Mine
<1>1. DOMAIN writes = 1..Len(writes) /\ Len(writes) \in Nat
  BY LenProperties DEF WriterTypes
<1>2. ASSUME NEW i \in Mine PROVE i \in getWrite(socket)
  <2>1. \A j \in 1..(i - 1) : j \in DOMAIN writes /\ j # i
    BY <1>1 DEF Mine
  <2>2. \A j \in 1..(i - 1) : writes[j].fd # socket
    BY <1>2, <2>1 DEF PendingInv, Mine
  <2> QED BY <2>2 DEF getWrite, Mine
<1>3. getWrite(socket) \subseteq Mine
  BY DEF getWrite, Mine
<1> QED BY <1>2, <1>3

LEMMA StoreOne == ASSUME OneInv, NEW a \in Apps, storeQoS0(a) PROVE OneInv'
<1>1. /\ pc[a] = "store" /\ Go(a, "wait")
      /\ copies' = copies \cup {[fd |-> socket, id |-> job[a].id]} /\ writes' = updateWrite
      /\ UNCHANGED <<client, write_pending, pending_wset, pwset, taken, job, network, bounds>>
  BY DEF storeQoS0, At
<1>2. WriterTypes /\ MutexInv /\ JobInv /\ PendingInv /\ StreamInv /\ UsedInv /\ AckInv /\ MemInv
  BY DEF OneInv, BaseInv
<1>3. BaseInv'
  BY StoreBase DEF OneInv
<1>4. pc'[Run] = pc[Run] /\ \A b \in Apps : pc'[b] = IF b = a THEN "wait" ELSE pc[b]
  <2>1. "wait" \in AppPlaces
    BY DEF AppPlaces
  <2> QED BY <1>1, <1>2, <2>1, AppGoes
<1>5. UNCHANGED <<socket, connected, outboundMsgs, write_pending, stream, broken, taken, acked, inbox, job, sends>>
  BY <1>1 DEF client, network, bounds
<1>6. /\ getWrite(socket) = Mine /\ DOMAIN writes' = DOMAIN writes
      /\ \A i \in DOMAIN writes : writes'[i] = IF i \in Mine /\ writes[i].packet.kind = "publish" /\ writes[i].packet.qos = 0
                                                 THEN [writes[i] EXCEPT !.mem = "copy"] ELSE writes[i]
  <2>1. getWrite(socket) = Mine
    BY <1>2, MineIsFirst
  <2> QED BY <1>1, <2>1 DEF updateWrite
<1>7. ASSUME NEW i \in DOMAIN writes
      PROVE  /\ writes'[i].fd = writes[i].fd /\ writes'[i].packet = writes[i].packet /\ writes'[i].done = writes[i].done
             /\ writes'[i].mem = IF i \in Mine /\ writes[i].packet.kind = "publish" /\ writes[i].packet.qos = 0
                                   THEN "copy" ELSE writes[i].mem
  <2>1. writes[i] \in Record
    BY <1>2, ElementOfSeq, LenProperties DEF WriterTypes
  <2> QED BY <1>6, <2>1 DEF Record
<1>8. Mine' = Mine
  BY <1>5, <1>6, <1>7 DEF Mine
<1>9. PendingInv'
  BY <1>2, <1>4, <1>5, <1>8 DEF PendingInv, At
<1>10. StreamInv'
  <2>1. \A i \in Mine : Continues(stream, writes[i]) => Continues(stream', writes'[i])
    BY <1>5, <1>7 DEF Continues, Mine
  <2> QED BY <1>2, <1>5, <1>8, <2>1 DEF StreamInv
<1>11. UsedInv'
  <2>1. \A id : Used(id)' => Used(id)
    BY <1>5 DEF Used
  <2>2. \A b \in Apps : At(b, "check")' => At(b, "check") /\ job'[b] = job[b]
    BY <1>4, <1>5 DEF At
  <2>3. \A i, j \in DOMAIN outboundMsgs' : outboundMsgs'[i] = outboundMsgs'[j] => i = j
    BY <1>2, <1>5 DEF UsedInv
  <2> QED BY <1>5, <2>1, <2>2, <2>3, QuietUsed
<1>12. AckInv'
  <2>1. \A id : Taken(id)' <=> Taken(id)
    BY <1>5 DEF Taken
  <2>2. /\ \A id \in acked' : Taken(id)'
        /\ \A x \in DOMAIN inbox' : inbox'[x].kind = "ack" => inbox'[x].id \in acked'
    BY <1>2, <1>5, <2>1 DEF AckInv
  <2>3. ASSUME At(Run, "handle")', taken' = socket', NEW i \in Mine', writes'[i].mem = "message", Taken(writes[i].packet.id)'
        PROVE  FALSE
    <3>1. At(Run, "handle") /\ taken = socket /\ i \in Mine /\ i \in DOMAIN writes
      BY <1>4, <1>5, <1>8, <2>3 DEF At, Mine
    <3>2. writes[i].mem = "message" /\ writes'[i].packet = writes[i].packet
      BY <1>7, <2>3, <3>1
    <3>3. Taken(writes[i].packet.id)
      BY <1>5, <2>3, <3>2 DEF Taken
    <3> QED BY <1>2, <3>1, <3>2, <3>3 DEF AckInv
  <2> QED BY <2>2, <2>3 DEF AckInv
<1>13. MemInv'
  <2>1. job[a].kind = "publish" /\ job[a].qos = 0
    BY <1>1, <1>2 DEF JobInv, Holds, At
  <2>2. ASSUME NEW i \in Mine' PROVE Lies(writes[i])'
    <3>1. i \in Mine /\ i \in DOMAIN writes /\ Lies(writes[i])
      BY <1>2, <1>8, <2>2 DEF MemInv, Mine
    <3>2. writes[i].mem = "app" => writes[i].packet = job[a]
      <4>1. \A b \in Apps : Holds(b) => b = a
        BY <1>1, <1>2 DEF MutexInv, Holds, At
      <4> QED BY <3>1, <4>1 DEF Lies
    <3>3. CASE writes[i].packet.kind = "publish" /\ writes[i].packet.qos = 0
      <4>1. writes'[i].mem = "copy" /\ writes'[i].packet = writes[i].packet
        BY <1>7, <3>1, <3>3
      <4>2. writes[i].mem \in {"app", "copy"}
        BY <3>1, <3>3 DEF Lies
      <4>3. [fd |-> socket', id |-> writes[i].packet.id] \in copies'
        <5>1. CASE writes[i].mem = "app"
          BY <1>1, <1>5, <3>2, <5>1
        <5>2. CASE writes[i].mem = "copy"
          BY <1>1, <1>5, <3>1, <5>2 DEF Lies
        <5> QED BY <4>2, <5>1, <5>2
      <4> QED BY <3>3, <4>1, <4>3 DEF Lies
    <3>4. CASE ~(writes[i].packet.kind = "publish" /\ writes[i].packet.qos = 0)
      <4>1. writes'[i].mem = writes[i].mem /\ writes'[i].packet = writes[i].packet
        BY <1>7, <3>1, <3>4
      <4>2. writes[i].mem # "app"
        BY <2>1, <3>2, <3>4
      <4> QED BY <1>1, <1>5, <3>1, <3>4, <4>1, <4>2 DEF Lies
    <3> QED BY <3>3, <3>4
  <2> QED BY <2>2 DEF MemInv
<1> QED BY <1>3, <1>9, <1>10, <1>11, <1>12, <1>13 DEF OneInv

\* A new connection gets the number of no socket that has a packet left over.
NoReuse == conns' # conns => \A i \in DOMAIN writes : writes[i].fd # socket'

LEMMA ConnectOne == ASSUME OneInv, NEW a \in Apps, connect(a), NoReuse PROVE OneInv'
<1>1. /\ At(a, "idle") /\ ClientFree /\ ~connected /\ conns < Len(Number) /\ conns' = conns + 1
      /\ socket' = Number[conns + 1] /\ connected' = TRUE /\ broken' = FALSE /\ inbox' = <<>> /\ acked' = {}
      /\ Written(socket', <<>>, Unacknowledged, Length, "message", Buffer)
      /\ UNCHANGED <<outboundMsgs, copies, pwset, taken, pc, job, bounds>>
      /\ WriterTypes /\ MutexInv /\ UsedInv
  BY DEF connect, OneInv, BaseInv
<1>2. BaseInv'
  BY ConnectBase DEF OneInv
<1>3. write_pending = {} /\ outboundMsgs \in Seq(1..MaxSends) /\ conns \in 0..Len(Number) /\ Buffer \in 0..Buffer
  <2>1. write_pending \subseteq {socket} \ {NoSocket} /\ connected = (socket # NoSocket)
    BY <1>1 DEF WriterTypes, TypeOK
  <2>2. write_pending = {}
    BY <1>1, <2>1
  <2>3. outboundMsgs \in Seq(1..MaxSends) /\ conns \in 0..Len(Number)
    BY <1>1 DEF WriterTypes, TypeOK
  <2> QED BY <2>2, <2>3
<1>4. PICK fd, packets, mem : fd = socket' /\ packets = Unacknowledged /\ mem = "message"
  OBVIOUS
<1>5. /\ fd \in Fds /\ fd \notin write_pending /\ \A i \in DOMAIN writes : writes[i].fd # fd
      /\ pc'[Run] # "clear" /\ mem \in {"app", "copy", "message", "own"}
  <2>1. fd \in Fds
    <3>1. Len(Number) \in Nat /\ DOMAIN Number = 1..Len(Number)
      BY LenProperties
    <3>2. conns + 1 \in DOMAIN Number
      BY <1>1, <1>3, <3>1
    <3> QED BY <1>1, <1>4, <3>2, Constants
  <2>2. conns' # conns
    BY <1>1, <1>3
  <2>3. pc'[Run] # "clear"
    BY <1>1 DEF MutexInv
  <2> QED BY <1>3, <1>4, <2>1, <2>2, <2>3 DEF NoReuse
<1>6. /\ packets \in Seq(Packets) /\ DOMAIN packets = DOMAIN outboundMsgs
      /\ \A k \in DOMAIN packets : packets[k] = Publication(outboundMsgs[k], 1) /\ Units(packets[k]) = Length
  BY <1>1, <1>4, AllPublications
<1>7. SentOK(<<>>) /\ Runs(<<>>) /\ Ended(<<>>) /\ DOMAIN <<>> = {}
  BY EmptySeq DEF SentOK, Runs, Ended
<1>8. PendingInv' /\ StreamInv' /\ TakenAndKept(fd, <<>>, packets, Length, mem)
  <2>1. Written(fd, <<>>, packets, Length, mem, Buffer) /\ socket' = fd
    BY <1>1, <1>4
  <2> QED BY <1>1, <1>3, <1>5, <1>6, <1>7, <2>1, WroteOne
<1>9. /\ \A x \in DOMAIN stream' : \E k \in DOMAIN packets : stream'[x].packet = packets[k]
      /\ \A i \in Mine' : \E k \in DOMAIN packets, done \in 0..(Length - 1) :
           /\ writes'[i] = [fd |-> fd, packet |-> packets[k], done |-> done, mem |-> mem]
           /\ \A x \in DOMAIN stream' :
                \E m \in 1..k : stream'[x].packet = packets[m] /\ (m = k => stream'[x].unit <= done)
  <2>1. PICK before : before = <<>>
    OBVIOUS
  <2>2. TakenAndKept(fd, before, packets, Length, mem) /\ \A x : x \notin DOMAIN before
    BY <1>7, <1>8, <2>1
  <2>3. /\ \A x \in DOMAIN stream' : x \in DOMAIN before \/ \E k \in DOMAIN packets : stream'[x].packet = packets[k]
        /\ \A i \in Mine' : \E k \in DOMAIN packets, done \in 0..(Length - 1) :
             /\ writes'[i] = [fd |-> fd, packet |-> packets[k], done |-> done, mem |-> mem]
             /\ \A x \in DOMAIN stream' : x \in DOMAIN before \/
                  \E m \in 1..k : stream'[x].packet = packets[m] /\ (m = k => stream'[x].unit <= done)
    BY <2>2, Zenon DEF TakenAndKept
  <2>4. \A x \in DOMAIN stream' : \E k \in DOMAIN packets : stream'[x].packet = packets[k]
    BY <2>2, <2>3
  <2>5. ASSUME NEW i \in Mine'
        PROVE  \E k \in DOMAIN packets, done \in 0..(Length - 1) :
                 /\ writes'[i] = [fd |-> fd, packet |-> packets[k], done |-> done, mem |-> mem]
                 /\ \A x \in DOMAIN stream' :
                      \E m \in 1..k : stream'[x].packet = packets[m] /\ (m = k => stream'[x].unit <= done)
    <3>1. PICK k \in DOMAIN packets, done \in 0..(Length - 1) :
             /\ writes'[i] = [fd |-> fd, packet |-> packets[k], done |-> done, mem |-> mem]
             /\ \A x \in DOMAIN stream' : x \in DOMAIN before \/
                  \E m \in 1..k : stream'[x].packet = packets[m] /\ (m = k => stream'[x].unit <= done)
      BY <2>3
    <3>2. \A x \in DOMAIN stream' :
             \E m \in 1..k : stream'[x].packet = packets[m] /\ (m = k => stream'[x].unit <= done)
      BY <2>2, <3>1
    <3> QED BY <3>1, <3>2, Zenon
  <2> QED BY <2>4, <2>5, Zenon
<1>10. UsedInv'
  <2>1. \A id : Used(id)' => Used(id)
    <3> TAKE id
    <3>1. ASSUME NEW x \in DOMAIN stream', stream'[x].packet.qos = 1, stream'[x].packet.id = id PROVE id \in ToSet(outboundMsgs)
      <4>1. PICK k \in DOMAIN packets : stream'[x].packet = packets[k]
        BY <1>9
      <4>2. id = outboundMsgs[k] /\ k \in DOMAIN outboundMsgs
        BY <1>6, <3>1, <4>1 DEF Publication
      <4> QED BY <4>2 DEF ToSet
    <3> QED BY <1>1, <3>1 DEF Used
  <2>2. \A b \in Apps : At(b, "check")' => At(b, "check") /\ job'[b] = job[b]
    BY <1>1 DEF At
  <2>3. \A i, j \in DOMAIN outboundMsgs' : outboundMsgs'[i] = outboundMsgs'[j] => i = j
    BY <1>1 DEF UsedInv
  <2> QED BY <1>1, <2>1, <2>2, <2>3, QuietUsed DEF bounds
<1>11. ASSUME NEW i \in Mine'
       PROVE  \E k \in DOMAIN outboundMsgs :
                /\ writes'[i].packet = Publication(outboundMsgs[k], 1) /\ writes'[i].mem = "message"
                /\ ~Taken(outboundMsgs[k])'
  <2>a. \A j \in Mine' : \E k \in DOMAIN packets, done \in 0..(Length - 1) :
           /\ writes'[j] = [fd |-> fd, packet |-> packets[k], done |-> done, mem |-> mem]
           /\ \A x \in DOMAIN stream' :
                \E m \in 1..k : stream'[x].packet = packets[m] /\ (m = k => stream'[x].unit <= done)
    BY <1>9, Zenon
  <2>1. PICK k \in DOMAIN packets, done \in 0..(Length - 1) :
           /\ writes'[i] = [fd |-> fd, packet |-> packets[k], done |-> done, mem |-> mem]
           /\ \A x \in DOMAIN stream' :
                \E m \in 1..k : stream'[x].packet = packets[m] /\ (m = k => stream'[x].unit <= done)
    BY <2>a, <1>11
  <2>2. k \in DOMAIN outboundMsgs /\ packets[k] = Publication(outboundMsgs[k], 1)
    BY <1>6
  <2>3. ASSUME Taken(outboundMsgs[k])' PROVE FALSE
    <3>1. PICK x \in DOMAIN stream' : stream'[x] = [packet |-> Publication(outboundMsgs[k], 1), unit |-> Length]
      BY <1>1, <2>3 DEF Taken
    <3>2. PICK m \in 1..k : stream'[x].packet = packets[m] /\ (m = k => stream'[x].unit <= done)
      BY <2>1
    <3>3. m \in DOMAIN outboundMsgs /\ packets[m] = Publication(outboundMsgs[m], 1)
      <4>1. DOMAIN outboundMsgs = 1..Len(outboundMsgs) /\ Len(outboundMsgs) \in Nat
        BY <1>3, LenProperties
      <4>2. m \in DOMAIN outboundMsgs
        BY <2>2, <4>1
      <4> QED BY <1>6, <4>2
    <3>4. outboundMsgs[m] = outboundMsgs[k]
      BY <3>1, <3>2, <3>3 DEF Publication
    <3>5. m = k
      BY <1>1, <2>2, <3>3, <3>4 DEF UsedInv
    <3>6. stream'[x].unit = Length /\ stream'[x].unit <= done
      BY <3>1, <3>2, <3>5
    <3>7. ~(Length <= done)
      OBVIOUS
    <3> QED BY <3>6, <3>7
  <2>4. writes'[i].packet = Publication(outboundMsgs[k], 1) /\ writes'[i].mem = "message"
    BY <1>4, <2>1, <2>2
  <2> QED BY <2>2, <2>3, <2>4
<1>12. AckInv'
  <2>1. DOMAIN inbox' = {}
    BY <1>1
  <2>2. ASSUME NEW i \in Mine' PROVE ~Taken(writes[i].packet.id)'
    <3>1. PICK k \in DOMAIN outboundMsgs : writes'[i].packet = Publication(outboundMsgs[k], 1) /\ ~Taken(outboundMsgs[k])'
      BY <1>11
    <3>2. writes'[i].packet.id = outboundMsgs[k]
      BY <3>1 DEF Publication
    <3> QED BY <1>1, <3>1, <3>2 DEF Taken
  <2> QED BY <1>1, <2>1, <2>2 DEF AckInv
<1>13. MemInv'
  <2>1. ASSUME NEW i \in Mine' PROVE Lies(writes[i])'
    <3>1. PICK k \in DOMAIN outboundMsgs : writes'[i].packet = Publication(outboundMsgs[k], 1) /\ writes'[i].mem = "message"
      BY <1>11
    <3>2. writes'[i].packet.id = outboundMsgs[k] /\ writes'[i].packet.qos = 1
      BY <3>1 DEF Publication
    <3>3. outboundMsgs[k] \in ToSet(outboundMsgs')
      BY <1>1 DEF ToSet
    <3> QED BY <3>1, <3>2, <3>3 DEF Lies
  <2> QED BY <2>1 DEF MemInv
<1> QED BY <1>2, <1>8, <1>10, <1>12, <1>13 DEF OneInv

\* The background thread and the network.
LEMMA SelectOne == ASSUME OneInv, select PROVE OneInv'
<1>1. /\ At(Run, "select") /\ Go(Run, "continue") /\ UNCHANGED <<client, buffers, taken, job, network, bounds>>
  BY DEF select
<1>2. pc'[Run] = "continue" /\ \A b \in Apps : pc'[b] = pc[b]
  BY <1>1, RunGoes DEF OneInv, BaseInv, RunPlaces
<1>3. BaseInv'
  BY SelectBase DEF OneInv
<1>4. /\ UNCHANGED <<client, writes, write_pending, stream, copies, acked, inbox>> /\ sends' = sends /\ broken' = broken
      /\ job' = job
  BY <1>1 DEF buffers, network, bounds
<1>5. /\ At(Run, "clear")' <=> At(Run, "clear")
      /\ At(Run, "handle")' /\ taken' = socket' => At(Run, "handle") /\ taken = socket
      /\ \A a \in Apps : Holds(a) => Holds(a)' /\ job'[a] = job[a]
      /\ \A a \in Apps : At(a, "check")' => At(a, "check") /\ job'[a] = job[a]
  BY <1>1, <1>2, <1>4 DEF At, Holds
<1> QED BY <1>3, <1>4, <1>5, QuietOne

\* Units that continue what the connection has taken last.
GoesOn(s, t, w, n) ==
  /\ Len(t) = Len(s) + n
  /\ \A x \in DOMAIN t : t[x] = IF x <= Len(s) THEN s[x] ELSE [packet |-> w.packet, unit |-> w.done + (x - Len(s))]
WentOn(s, t, w, n) ==
  /\ Runs(t) /\ \A x \in DOMAIN s : x \in DOMAIN t /\ t[x] = s[x]
  /\ n = 0 => t = s
  /\ n > 0 => t # <<>> /\ t[Len(t)] = [packet |-> w.packet, unit |-> w.done + n]

LEMMA RunsOn ==
  ASSUME NEW s \in Seq(Sent), NEW t \in Seq(Sent), NEW w \in Record, NEW n \in Nat, w.done \in Nat,
         Runs(s), Continues(s, w), GoesOn(s, t, w, n)
  PROVE  WentOn(s, t, w, n)
<1> USE DEF GoesOn, WentOn
<1>1. /\ Len(s) \in Nat /\ DOMAIN s = 1..Len(s) /\ DOMAIN t = 1..(Len(s) + n) /\ Len(t) \in Nat /\ DOMAIN t = 1..Len(t)
  BY LenProperties
<1>2. \A x \in DOMAIN s : x \in DOMAIN t /\ t[x] = s[x]
  BY <1>1
<1>3. n = 0 => t = s
  <2> SUFFICES ASSUME n = 0 PROVE t = s
    OBVIOUS
  <2>1. Len(t) = Len(s) /\ \A x \in 1..Len(s) : t[x] = s[x]
    BY <1>1, <1>2, SMTT(20)
  <2> QED BY <2>1, SeqEqual
<1>4. n > 0 => t # <<>> /\ t[Len(t)] = [packet |-> w.packet, unit |-> w.done + n]
  <2> SUFFICES ASSUME n > 0 PROVE t # <<>> /\ t[Len(t)] = [packet |-> w.packet, unit |-> w.done + n]
    OBVIOUS
  <2>1. Len(t) \in DOMAIN t /\ ~(Len(t) <= Len(s)) /\ Len(t) - Len(s) = n
    BY <1>1
  <2>2. t[Len(t)] = [packet |-> w.packet, unit |-> w.done + (Len(t) - Len(s))]
    BY <2>1
  <2>3. t # <<>>
    BY <2>1, EmptySeq
  <2> QED BY <2>1, <2>2, <2>3
<1>5. ASSUME NEW i \in DOMAIN t PROVE IF i = 1 THEN t[i].unit = 1 ELSE Follows(t[i - 1], t[i])
  <2>1. CASE i <= Len(s)
    <3>1. i \in DOMAIN s /\ t[i] = s[i] /\ (i # 1 => i - 1 \in DOMAIN s /\ t[i - 1] = s[i - 1])
      BY <1>1, <1>2, <2>1
    <3> QED BY <3>1 DEF Runs
  <2>2. CASE i = Len(s) + 1
    <3>1. t[i] = [packet |-> w.packet, unit |-> w.done + 1]
      <4>1. ~(i <= Len(s)) /\ i - Len(s) = 1
        BY <1>1, <2>2
      <4> QED BY <4>1
    <3>2. s # <<>> => i # 1 /\ i - 1 = Len(s) /\ Len(s) \in DOMAIN s /\ t[i - 1] = s[Len(s)]
      <4>1. s # <<>> => Len(s) # 0
        BY EmptySeq
      <4>2. s # <<>> => Len(s) \in DOMAIN s /\ i # 1 /\ i - 1 = Len(s)
        BY <1>1, <2>2, <4>1
      <4> QED BY <1>2, <4>2
    <3>3. s = <<>> => i = 1
      BY <2>2, EmptySeq
    <3>4. CASE w.done = 0
      <4>1. Ended(s) /\ t[i].unit = 1
        BY <3>1, <3>4 DEF Continues
      <4>2. ~(t[i].unit > 1)
        BY <4>1
      <4> QED BY <3>2, <3>3, <4>1, <4>2 DEF Ended, Follows
    <3>5. CASE w.done # 0
      <4>1. s # <<>> /\ s[Len(s)] = [packet |-> w.packet, unit |-> w.done]
        BY <3>5 DEF Continues
      <4>2. w.done + 1 > 1 /\ (w.done + 1) - 1 = w.done
        BY <3>5
      <4>3. Follows(s[Len(s)], t[i])
        BY <3>1, <4>1, <4>2 DEF Follows
      <4> QED BY <3>2, <4>1, <4>3
    <3> QED BY <3>4, <3>5
  <2>3. CASE i > Len(s) + 1
    <3>1. /\ i # 1 /\ i - 1 \in DOMAIN t /\ ~(i <= Len(s)) /\ ~(i - 1 <= Len(s))
          /\ w.done + (i - Len(s)) > 1 /\ (w.done + (i - Len(s))) - 1 = w.done + ((i - 1) - Len(s))
      BY <1>1, <2>3, SMTT(20)
    <3>2. t[i] = [packet |-> w.packet, unit |-> w.done + (i - Len(s))]
      BY <3>1
    <3>3. t[i - 1] = [packet |-> w.packet, unit |-> w.done + ((i - 1) - Len(s))]
      BY <3>1
    <3> QED BY <3>1, <3>2, <3>3 DEF Follows
  <2> QED BY <1>1, <2>1, <2>2, <2>3
<1>6. Runs(t)
  BY <1>5 DEF Runs
<1> QED BY <1>2, <1>3, <1>4, <1>6

LEMMA ContinueOne == ASSUME OneInv, continueWrite PROVE OneInv'
<1>1. WriterTypes /\ PendingInv /\ StreamInv /\ UsedInv /\ AckInv /\ MemInv /\ BaseInv
  BY DEF OneInv, BaseInv
<1>2. BaseInv'
  BY <1>1, ContinueBase
<1>3. PICK i \in getWrite(socket), n \in Nat :
           /\ socket \in pwset /\ pwset' = pwset \ {socket} /\ connected /\ socket \in write_pending /\ At(Run, "continue")
           /\ i \in DOMAIN writes /\ writes[i].fd = socket /\ writes[i] \in Record
           /\ n <= Units(writes[i].packet) - writes[i].done
           /\ IF broken THEN UNCHANGED <<stream, room>>
              ELSE /\ stream' \in Seq(Sent) /\ Len(stream') = Len(stream) + n /\ room' \in 0..Buffer
                   /\ \A x \in DOMAIN stream' : stream'[x] = IF x <= Len(stream) THEN stream[x]
                        ELSE [packet |-> writes[i].packet, unit |-> writes[i].done + (x - Len(stream))]
           /\ \/ /\ broken \/ n = Units(writes[i].packet) - writes[i].done
                 /\ writes' = RemoveAt(writes, i) /\ Go(Run, "clear")
              \/ /\ ~broken /\ n < Units(writes[i].packet) - writes[i].done
                 /\ writes' = [writes EXCEPT ![i].done = @ + n] /\ UNCHANGED pc
           /\ UNCHANGED <<client, write_pending, pending_wset, copies, taken, job,
                          broken, inbox, acked, conns, bounds>>
  BY <1>1, ContinueFacts
<1>4. /\ UNCHANGED <<socket, connected, outboundMsgs, write_pending, copies, taken, job, broken, inbox, acked, sends>>
      /\ broken \in BOOLEAN /\ stream \in Seq(Sent) /\ writes \in Seq(Record)
  BY <1>1, <1>3 DEF client, bounds, WriterTypes
<1>5. Mine = {i}
  BY <1>1, <1>3 DEF PendingInv, Mine
<1>6. /\ writes[i].done \in Nat /\ Units(writes[i].packet) \in Nat /\ writes[i].done < Units(writes[i].packet)
      /\ Lies(writes[i])
  <2>1. writes[i].done \in 0..(Units(writes[i].packet) - 1) /\ writes[i].done \in Nat /\ writes[i].packet \in Packets
    BY <1>1, <1>3 DEF WriterTypes, TypeOK, Record
  <2>2. Units(writes[i].packet) \in Nat
    BY <2>1, Constants
  <2> QED BY <1>1, <1>5, <2>1, <2>2 DEF MemInv
\* The threads.
<1>7. /\ \A b \in Apps : pc'[b] = pc[b]
      /\ pc'[Run] \in {"clear", "continue"} /\ (pc'[Run] = "clear" <=> writes' = RemoveAt(writes, i) /\ Go(Run, "clear"))
  <2>1. CASE Go(Run, "clear")
    <3>1. pc'[Run] = "clear" /\ \A b \in Apps : pc'[b] = pc[b]
      BY <1>1, <2>1, RunGoes DEF RunPlaces
    <3>2. pc # pc'
      BY <1>3, <3>1 DEF At
    <3> QED BY <1>3, <2>1, <3>1, <3>2
  <2>2. CASE UNCHANGED pc
    <3>1. pc'[Run] = "continue"
      BY <1>3, <2>2 DEF At
    <3>2. ~Go(Run, "clear")
      <4>1. Go(Run, "clear") => pc'[Run] = "clear"
        BY <1>1, RunGoes DEF RunPlaces
      <4> QED BY <3>1, <4>1
    <3> QED BY <2>2, <3>1, <3>2
  <2> QED BY <1>3, <2>1, <2>2
\* The connection.
<1>8. ASSUME ~broken
      PROVE  /\ Runs(stream') /\ \A x \in DOMAIN stream : x \in DOMAIN stream' /\ stream'[x] = stream[x]
             /\ n = 0 => stream' = stream
             /\ n > 0 => stream' # <<>> /\ stream'[Len(stream')] = [packet |-> writes[i].packet, unit |-> writes[i].done + n]
             /\ Continues(stream, writes[i])
  <2>1. Runs(stream) /\ Continues(stream, writes[i])
    BY <1>1, <1>3, <1>5, <1>8 DEF StreamInv
  <2>2. PICK w, t : w = writes[i] /\ t = stream'
    OBVIOUS
  <2>3. w \in Record /\ w.done \in Nat /\ t \in Seq(Sent) /\ Continues(stream, w) /\ GoesOn(stream, t, w, n)
    BY <1>3, <1>6, <1>8, <2>1, <2>2 DEF GoesOn
  <2>4. WentOn(stream, t, w, n)
    BY <1>4, <2>1, <2>3, RunsOn
  <2> QED BY <2>1, <2>2, <2>4 DEF WentOn
<1>9. \A x \in DOMAIN stream : x \in DOMAIN stream' /\ stream'[x] = stream[x]
  BY <1>3, <1>8
<1>10. \A x \in DOMAIN stream' : x \in DOMAIN stream \/ stream'[x].packet = writes[i].packet
  <2>1. CASE broken
    BY <1>3, <2>1
  <2>2. CASE ~broken
    <3> TAKE x \in DOMAIN stream'
    <3>1. Len(stream) \in Nat /\ DOMAIN stream = 1..Len(stream) /\ DOMAIN stream' = 1..Len(stream') /\ Len(stream') \in Nat
      BY <1>3, <1>4, <2>2, LenProperties
    <3>2. x <= Len(stream) => x \in DOMAIN stream
      BY <3>1
    <3>3. ~(x <= Len(stream)) => stream'[x].packet = writes[i].packet
      BY <1>3, <2>2
    <3> QED BY <3>2, <3>3
  <2> QED BY <2>1, <2>2
<1>11. UsedInv'
  <2>1. \A id : Used(id)' => Used(id)
    <3> TAKE id
    <3>1. ASSUME NEW x \in DOMAIN stream', stream'[x].packet.qos = 1, stream'[x].packet.id = id PROVE Used(id)
      <4>1. CASE x \in DOMAIN stream
        BY <1>9, <3>1, <4>1 DEF Used
      <4>2. CASE stream'[x].packet = writes[i].packet
        BY <1>6, <3>1, <4>2 DEF Used, Lies
      <4> QED BY <1>10, <4>1, <4>2
    <3> QED BY <1>4, <3>1 DEF Used
  <2>2. \A b \in Apps : At(b, "check")' => At(b, "check") /\ job'[b] = job[b]
    BY <1>4, <1>7 DEF At
  <2>3. \A x, y \in DOMAIN outboundMsgs' : outboundMsgs'[x] = outboundMsgs'[y] => x = y
    BY <1>1, <1>4 DEF UsedInv
  <2> QED BY <1>4, <2>1, <2>2, <2>3, QuietUsed
<1>12. AckInv'
  <2>1. \A id \in acked' : Taken(id)'
    BY <1>1, <1>4, <1>9 DEF AckInv, Taken
  <2>2. \A x \in DOMAIN inbox' : inbox'[x].kind = "ack" => inbox'[x].id \in acked'
    BY <1>1, <1>4 DEF AckInv
  <2>3. ~At(Run, "handle")'
    BY <1>7 DEF At
  <2> QED BY <2>1, <2>2, <2>3 DEF AckInv
\* The packet is finished, or the connection is broken.
<1>13. CASE (broken \/ n = Units(writes[i].packet) - writes[i].done) /\ writes' = RemoveAt(writes, i) /\ Go(Run, "clear")
  <2>1. Mine' = {}
    <3>1. PICK r : r = RemoveAt(writes, i)
      OBVIOUS
    <3>2. /\ DOMAIN r = 1..(Len(writes) - 1) /\ DOMAIN writes = 1..Len(writes) /\ Len(writes) \in Nat /\ i \in 1..Len(writes)
          /\ \A j \in DOMAIN r : r[j] = IF j < i THEN writes[j] ELSE writes[j + 1]
      BY <1>3, <1>4, <3>1, RemoveAtFacts, SMTT(20)
    <3>3. ASSUME NEW j \in DOMAIN r PROVE r[j].fd # socket
      <4>1. CASE j < i
        <5>1. j \in DOMAIN writes /\ j # i
          BY <3>2, <4>1
        <5> QED BY <1>5, <3>2, <4>1, <5>1 DEF Mine
      <4>2. CASE ~(j < i)
        <5>1. j + 1 \in DOMAIN writes /\ j + 1 # i
          BY <3>2, <4>2
        <5> QED BY <1>5, <3>2, <4>2, <5>1 DEF Mine
      <4> QED BY <4>1, <4>2
    <3>4. writes' = r
      BY <1>13, <3>1
    <3> QED BY <1>4, <3>3, <3>4 DEF Mine
  <2>2. PendingInv'
    BY <1>3, <1>4, <1>7, <1>13, <2>1 DEF PendingInv, At
  <2>3. StreamInv'
    <3>1. CASE broken
      BY <1>1, <1>3, <1>4, <3>1 DEF StreamInv
    <3>2. CASE ~broken
      <4>1. n = Units(writes[i].packet) - writes[i].done /\ n > 0 /\ writes[i].done + n = Units(writes[i].packet)
        BY <1>6, <1>13, <3>2
      <4>2. Whole(stream'[Len(stream')])
        BY <1>8, <3>2, <4>1 DEF Whole
      <4> QED BY <1>8, <2>1, <3>2, <4>2 DEF StreamInv, Ended
    <3> QED BY <3>1, <3>2
  <2>4. MemInv'
    BY <2>1 DEF MemInv
  <2> QED BY <1>2, <1>11, <1>12, <2>2, <2>3, <2>4 DEF OneInv
\* A part of it is written.
<1>14. CASE ~broken /\ n < Units(writes[i].packet) - writes[i].done /\ writes' = [writes EXCEPT ![i].done = @ + n] /\ UNCHANGED pc
  <2>1. PICK r, d : r = [writes[i] EXCEPT !.done = d] /\ d = writes[i].done + n
    OBVIOUS
  <2>2. r.fd = writes[i].fd /\ r.packet = writes[i].packet /\ r.mem = writes[i].mem /\ r.done = writes[i].done + n
    BY <1>3, <2>1 DEF Record
  <2>3. DOMAIN writes' = DOMAIN writes /\ \A j \in DOMAIN writes : writes'[j] = IF j = i THEN r ELSE writes[j]
    BY <1>14, <2>1
  <2>4. Mine' = {i}
    BY <1>3, <1>4, <1>5, <2>2, <2>3 DEF Mine
  <2>5. PendingInv'
    BY <1>3, <1>4, <1>14, <2>4 DEF PendingInv, At
  <2>6. Continues(stream', r)
    <3>1. CASE n = 0
      <4>1. r.done = writes[i].done
        BY <1>6, <2>2, <3>1
      <4> QED BY <1>8, <1>14, <2>2, <3>1, <4>1 DEF Continues
    <3>2. CASE n > 0
      <4>1. r.done # 0
        BY <1>6, <2>2, <3>2
      <4> QED BY <1>8, <1>14, <2>2, <3>2, <4>1 DEF Continues
    <3> QED BY <3>1, <3>2
  <2>7. StreamInv'
    BY <1>3, <1>8, <1>14, <2>3, <2>4, <2>6 DEF StreamInv
  <2>8. MemInv'
    <3>1. Lies(r)'
      BY <1>4, <1>6, <1>14, <2>2 DEF Lies, Holds, At
    <3>2. writes'[i] = r
      BY <1>3, <2>3
    <3>3. Lies(writes[i])'
      BY <1>4, <1>6, <1>14, <2>2, <3>2 DEF Lies, Holds, At
    <3> QED BY <2>4, <3>3 DEF MemInv
  <2> QED BY <1>2, <1>11, <1>12, <2>5, <2>7, <2>8 DEF OneInv
<1> QED BY <1>3, <1>13, <1>14

LEMMA ClearOne == ASSUME OneInv, clear PROVE OneInv'
<1>1. /\ At(Run, "clear") /\ Go(Run, "complete") /\ write_pending' = write_pending \ {socket}
      /\ UNCHANGED <<client, writes, copies, pwset, taken, job, network, bounds>>
      /\ PendingInv /\ StreamInv /\ UsedInv /\ AckInv /\ MemInv
  BY DEF clear, OneInv
<1>2. pc'[Run] = "complete" /\ \A b \in Apps : pc'[b] = pc[b]
  BY <1>1, RunGoes DEF OneInv, BaseInv, RunPlaces
<1>3. BaseInv'
  BY ClearBase DEF OneInv
<1>4. UNCHANGED <<socket, connected, outboundMsgs, writes, stream, copies, acked, inbox, broken, taken, sends, job>>
  BY <1>1 DEF client, network, bounds
<1>5. Mine' = Mine /\ Mine = {}
  BY <1>1, <1>4 DEF PendingInv, Mine
<1>6. PendingInv'
  BY <1>1, <1>2, <1>4, <1>5 DEF PendingInv, At
<1>7. StreamInv'
  BY <1>1, <1>4, <1>5 DEF StreamInv
<1>8. UsedInv'
  <2>1. \A id : Used(id)' => Used(id)
    BY <1>4 DEF Used
  <2>2. \A b \in Apps : At(b, "check")' => At(b, "check") /\ job'[b] = job[b]
    BY <1>2, <1>4 DEF At
  <2>3. \A x, y \in DOMAIN outboundMsgs' : outboundMsgs'[x] = outboundMsgs'[y] => x = y
    BY <1>1, <1>4 DEF UsedInv
  <2> QED BY <1>4, <2>1, <2>2, <2>3, QuietUsed
<1>9. AckInv'
  <2>1. At(Run, "handle")' /\ taken' = socket' => At(Run, "handle") /\ taken = socket
    BY <1>2 DEF At
  <2> QED BY <1>4, <2>1, QuietAck
<1>10. MemInv'
  BY <1>5 DEF MemInv
<1> QED BY <1>3, <1>6, <1>7, <1>8, <1>9, <1>10 DEF OneInv

LEMMA CompleteOne == ASSUME OneInv, writeComplete PROVE OneInv'
<1>1. /\ At(Run, "complete") /\ Go(Run, "continue") /\ copies' = {c \in copies : c.fd \in write_pending}
      /\ UNCHANGED <<client, writes, write_pending, pending_wset, pwset, taken, job, network, bounds>>
      /\ PendingInv /\ StreamInv /\ UsedInv /\ AckInv /\ MemInv
  BY DEF writeComplete, OneInv, noPendingWrites
<1>2. pc'[Run] = "continue" /\ \A b \in Apps : pc'[b] = pc[b]
  BY <1>1, RunGoes DEF OneInv, BaseInv, RunPlaces
<1>3. BaseInv'
  BY CompleteBase DEF OneInv
<1>4. UNCHANGED <<socket, connected, outboundMsgs, writes, write_pending, stream, acked, inbox, broken, taken, sends, job>>
  BY <1>1 DEF client, network, bounds
<1>5. Mine' = Mine
  BY <1>4 DEF Mine
<1>6. PendingInv'
  BY <1>1, <1>2, <1>4, <1>5 DEF PendingInv, At
<1>7. StreamInv'
  BY <1>1, <1>4, <1>5 DEF StreamInv
<1>8. UsedInv'
  <2>1. \A id : Used(id)' => Used(id)
    BY <1>4 DEF Used
  <2>2. \A b \in Apps : At(b, "check")' => At(b, "check") /\ job'[b] = job[b]
    BY <1>2, <1>4 DEF At
  <2>3. \A x, y \in DOMAIN outboundMsgs' : outboundMsgs'[x] = outboundMsgs'[y] => x = y
    BY <1>1, <1>4 DEF UsedInv
  <2> QED BY <1>4, <2>1, <2>2, <2>3, QuietUsed
<1>9. AckInv'
  <2>1. At(Run, "handle")' /\ taken' = socket' => At(Run, "handle") /\ taken = socket
    BY <1>2 DEF At
  <2> QED BY <1>4, <2>1, QuietAck
<1>10. MemInv'
  <2>1. ASSUME NEW i \in Mine' PROVE Lies(writes[i])'
    <3>1. Lies(writes[i]) /\ socket \in write_pending
      BY <1>1, <1>5, <2>1 DEF MemInv, PendingInv
    <3>2. writes[i].mem = "copy" => [fd |-> socket, id |-> writes[i].packet.id] \in copies'
      BY <1>1, <3>1 DEF Lies
    <3> QED BY <1>2, <1>4, <3>1, <3>2 DEF Lies, Holds, At
  <2> QED BY <2>1 DEF MemInv
<1> QED BY <1>3, <1>6, <1>7, <1>8, <1>9, <1>10 DEF OneInv

LEMMA ReadyOne == ASSUME OneInv, getReadySocket PROVE OneInv'
<1>1. /\ At(Run, "continue") /\ Go(Run, "handle") /\ taken' = IF isReady THEN socket ELSE NoSocket
      /\ UNCHANGED <<client, buffers, job, network, bounds>>
      /\ PendingInv /\ UsedInv /\ AckInv /\ WriterTypes
  BY DEF getReadySocket, OneInv, BaseInv
<1>2. pc'[Run] = "handle" /\ \A b \in Apps : pc'[b] = pc[b]
  BY <1>1, RunGoes DEF OneInv, BaseInv, RunPlaces
<1>3. BaseInv'
  BY ReadyBase DEF OneInv
<1>4. UNCHANGED <<socket, connected, outboundMsgs, writes, write_pending, stream, copies, acked, inbox, broken, sends, job>>
  BY <1>1 DEF client, buffers, network, bounds
<1>5. PendingInv' /\ StreamInv' /\ MemInv'
  <2>1. /\ At(Run, "clear")' <=> At(Run, "clear")
        /\ \A a \in Apps : Holds(a) => Holds(a)' /\ job'[a] = job[a]
    BY <1>1, <1>2, <1>4 DEF At, Holds
  <2>2. ~broken' => ~broken
    BY <1>4
  <2> QED BY <1>4, <2>1, <2>2, QuietKeeps
<1>6. UsedInv'
  <2>1. \A id : Used(id)' => Used(id)
    BY <1>4 DEF Used
  <2>2. \A b \in Apps : At(b, "check")' => At(b, "check") /\ job'[b] = job[b]
    BY <1>2, <1>4 DEF At
  <2>3. \A x, y \in DOMAIN outboundMsgs' : outboundMsgs'[x] = outboundMsgs'[y] => x = y
    BY <1>1, <1>4 DEF UsedInv
  <2> QED BY <1>4, <2>1, <2>2, <2>3, QuietUsed
<1>7. AckInv'
  <2>1. taken' = socket' => Mine' = {}
    <3>1. CASE isReady
      <4>1. socket \notin write_pending
        BY <3>1 DEF isReady, noPendingWrites
      <4>2. Mine = {}
        BY <1>1, <4>1 DEF PendingInv
      <4> QED BY <1>4, <4>2 DEF Mine
    <3>2. CASE ~isReady /\ taken' = socket'
      <4>1. socket = NoSocket
        BY <1>1, <1>4, <3>2
      <4>2. \A i \in DOMAIN writes : writes[i].fd \in Fds
        BY <1>1 DEF WriterTypes, TypeOK, Fds
      <4> QED BY <1>4, <4>1, <4>2, Constants DEF Mine
    <3> QED BY <3>1, <3>2
  <2>2. \A id \in acked' : Taken(id)'
    BY <1>1, <1>4 DEF AckInv, Taken
  <2>3. \A x \in DOMAIN inbox' : inbox'[x].kind = "ack" => inbox'[x].id \in acked'
    BY <1>1, <1>4 DEF AckInv
  <2> QED BY <2>1, <2>2, <2>3 DEF AckInv
<1> QED BY <1>3, <1>5, <1>6, <1>7 DEF OneInv

LEMMA LostOne == ASSUME OneInv, lost PROVE OneInv'
<1>1. /\ At(Run, "lost") /\ ClientFree /\ Go(Run, "select") /\ taken' = NoSocket
      /\ IF connected /\ taken = socket THEN closeSession ELSE UNCHANGED <<client, buffers, network>>
      /\ UNCHANGED <<pwset, job, bounds>> /\ WriterTypes
  BY DEF lost, OneInv, BaseInv
<1>2. BaseInv'
  BY LostBase DEF OneInv
<1>3. PcOK' /\ pc'[Run] = "select" /\ (\A b \in Apps : pc'[b] = pc[b]) /\ job' = job /\ job' \in [Apps -> Packets]
  BY <1>1, RunGoes DEF RunPlaces, WriterTypes
<1>4. /\ ~At(Run, "clear")' /\ ~At(Run, "clear") /\ ~At(Run, "handle")'
      /\ \A b \in Apps : At(b, "check")' => At(b, "check") /\ job'[b] = job[b]
      /\ \A a \in Apps : Holds(a) => Holds(a)' /\ job'[a] = job[a]
  BY <1>1, <1>3 DEF At, Holds
<1>5. CASE connected /\ taken = socket
  <2>1. taken' \in Fds \cup {NoSocket} /\ closeSession /\ UNCHANGED <<pwset, bounds>>
    BY <1>1, <1>5
  <2> QED BY <1>2, <1>3, <1>4, <1>5, <2>1, CloseOne
<1>6. CASE ~(connected /\ taken = socket)
  <2>1. UNCHANGED <<client, writes, write_pending, stream, copies, acked, inbox>> /\ sends' = sends /\ broken' = broken
    BY <1>1, <1>6 DEF buffers, network, bounds
  <2> QED BY <1>2, <1>4, <2>1, QuietOne
<1> QED BY <1>5, <1>6

\* One of some different values is removed.
LEMMA RemovedSet ==
  ASSUME NEW S, NEW s \in Seq(S), \A i, j \in DOMAIN s : s[i] = s[j] => i = j, NEW n \in DOMAIN s,
         NEW r, r = RemoveAt(s, n)
  PROVE  /\ \A i, j \in DOMAIN r : r[i] = r[j] => i = j
         /\ ToSet(r) \subseteq ToSet(s) /\ \A v \in ToSet(s) : v # s[n] => v \in ToSet(r)
<1>1. /\ Len(s) \in Nat /\ n \in 1..Len(s) /\ DOMAIN s = 1..Len(s) /\ DOMAIN r = 1..(Len(s) - 1)
      /\ \A j \in DOMAIN r : r[j] = IF j < n THEN s[j] ELSE s[j + 1]
  BY RemoveAtFacts
<1>2. ASSUME NEW i \in DOMAIN r, NEW j \in DOMAIN r, r[i] = r[j] PROVE i = j
  <2>1. /\ i \in DOMAIN s /\ i + 1 \in DOMAIN s /\ j \in DOMAIN s /\ j + 1 \in DOMAIN s
        /\ i \in Nat /\ j \in Nat
    BY <1>1
  <2>2. (IF i < n THEN i ELSE i + 1) = (IF j < n THEN j ELSE j + 1)
    BY <1>1, <1>2, <2>1
  <2> QED BY <1>1, <2>1, <2>2
<1>3. ToSet(r) \subseteq ToSet(s)
  <2>1. ASSUME NEW i \in DOMAIN r PROVE r[i] \in ToSet(s)
    <3>1. i \in DOMAIN s /\ i + 1 \in DOMAIN s
      BY <1>1
    <3> QED BY <1>1, <3>1 DEF ToSet
  <2> QED BY <2>1 DEF ToSet
<1>4. ASSUME NEW v \in ToSet(s), v # s[n] PROVE v \in ToSet(r)
  <2>1. PICK i \in DOMAIN s : v = s[i]
    BY DEF ToSet
  <2>2. CASE i < n
    <3>1. i \in DOMAIN r
      BY <1>1, <2>2
    <3>2. r[i] = v
      BY <1>1, <2>1, <2>2, <3>1
    <3> QED BY <3>1, <3>2 DEF ToSet
  <2>3. CASE ~(i < n)
    <3>1. i # n
      BY <1>4, <2>1
    <3>2. i - 1 \in DOMAIN r /\ ~(i - 1 < n) /\ (i - 1) + 1 = i
      BY <1>1, <2>3, <3>1
    <3>3. r[i - 1] = v
      BY <1>1, <2>1, <3>2
    <3> QED BY <3>2, <3>3 DEF ToSet
  <2> QED BY <2>2, <2>3
<1> QED BY <1>2, <1>3, <1>4

LEMMA HandleOne == ASSUME OneInv, handle PROVE OneInv'
<1>1. /\ At(Run, "handle") /\ ClientFree /\ taken # NoSocket
      /\ UNCHANGED <<socket, connected, pwset, taken, job, broken, acked, conns, bounds>>
      /\ (Idles /\ (Go(Run, "retry") \/ Go(Run, "lost"))) \/ Acked \/ Worked
  BY HandleFacts
<1>2. BaseInv /\ WriterTypes /\ PendingInv /\ StreamInv /\ UsedInv /\ AckInv /\ MemInv
  BY DEF OneInv, BaseInv
<1>3. BaseInv'
  BY <1>2, HandleBase
<1>4. PICK p \in {"retry", "lost"} : Go(Run, p)
  BY <1>1 DEF Acked, Worked
<1>5. pc'[Run] = p /\ \A b \in Apps : pc'[b] = pc[b]
  BY <1>2, <1>4, RunGoes DEF RunPlaces
<1>6. /\ ~At(Run, "clear")' /\ ~At(Run, "clear") /\ ~At(Run, "handle")'
      /\ \A b \in Apps : At(b, "check")' => At(b, "check") /\ job'[b] = job[b]
      /\ \A a \in Apps : ~Holds(a) /\ ~Holds(a)'
  BY <1>1, <1>5 DEF At, Holds, ClientFree
<1>7. UNCHANGED <<socket, connected, taken, job, broken, acked, sends>>
  BY <1>1 DEF bounds
<1>8. CASE Idles
  <2>1. UNCHANGED <<client, writes, write_pending, stream, copies, acked, inbox>> /\ sends' = sends /\ broken' = broken
    BY <1>1, <1>8 DEF Idles, buffers, network, client, bounds
  <2> QED BY <1>3, <1>6, <2>1, QuietOne
\* What is said of the packets to read.
<1>9. ASSUME inbox # <<>>, inbox' = Tail(inbox), \A x \in DOMAIN stream : x \in DOMAIN stream' /\ stream'[x] = stream[x]
      PROVE  AckInv'
  <2>1. \A id \in acked' : Taken(id)'
    BY <1>2, <1>7, <1>9 DEF AckInv, Taken
  <2>2. \A x \in DOMAIN inbox' : inbox'[x].kind = "ack" => inbox'[x].id \in acked'
    BY <1>2, <1>7, <1>9, HeadOfInbox DEF AckInv
  <2> QED BY <1>6, <2>1, <2>2 DEF AckInv
<1>10. CASE Acked
  <2>1. /\ taken = socket /\ inbox # <<>> /\ inbox' = Tail(inbox) /\ Head(inbox).kind = "ack"
        /\ \/ \E i \in DOMAIN outboundMsgs : /\ outboundMsgs[i] = Head(inbox).id
                                             /\ outboundMsgs' = RemoveAt(outboundMsgs, i)
           \/ Head(inbox).id \notin ToSet(outboundMsgs) /\ UNCHANGED outboundMsgs
        /\ UNCHANGED <<writes, write_pending, copies, stream>>
    BY <1>10 DEF Acked, buffers
  <2>2. Mine' = Mine
    BY <1>7, <2>1 DEF Mine
  <2>3. Taken(Head(inbox).id)
    <3>1. Head(inbox) = inbox[1] /\ 1 \in DOMAIN inbox
      BY <1>2, <2>1, HeadOfInbox
    <3> QED BY <1>2, <2>1, <3>1 DEF AckInv
  <2>4. /\ \A i, j \in DOMAIN outboundMsgs' : outboundMsgs'[i] = outboundMsgs'[j] => i = j
        /\ ToSet(outboundMsgs') \subseteq ToSet(outboundMsgs)
        /\ \A v \in ToSet(outboundMsgs) : v # Head(inbox).id => v \in ToSet(outboundMsgs')
    <3>1. outboundMsgs \in Seq(1..MaxSends) /\ \A i, j \in DOMAIN outboundMsgs : outboundMsgs[i] = outboundMsgs[j] => i = j
      BY <1>2 DEF WriterTypes, TypeOK, UsedInv
    <3>2. CASE UNCHANGED outboundMsgs
      BY <3>1, <3>2
    <3>3. ASSUME NEW i \in DOMAIN outboundMsgs, outboundMsgs[i] = Head(inbox).id, outboundMsgs' = RemoveAt(outboundMsgs, i)
          PROVE  /\ \A k, j \in DOMAIN outboundMsgs' : outboundMsgs'[k] = outboundMsgs'[j] => k = j
                 /\ ToSet(outboundMsgs') \subseteq ToSet(outboundMsgs)
                 /\ \A v \in ToSet(outboundMsgs) : v # Head(inbox).id => v \in ToSet(outboundMsgs')
      <4>1. PICK r : r = RemoveAt(outboundMsgs, i)
        OBVIOUS
      <4>2. /\ \A k, j \in DOMAIN r : r[k] = r[j] => k = j
            /\ ToSet(r) \subseteq ToSet(outboundMsgs)
            /\ \A v \in ToSet(outboundMsgs) : v # outboundMsgs[i] => v \in ToSet(r)
        BY <3>1, <4>1, RemovedSet
      <4>3. outboundMsgs' = r
        BY <3>3, <4>1
      <4> QED BY <3>3, <4>2, <4>3
    <3> QED BY <2>1, <3>2, <3>3
  <2>5. PendingInv'
    BY <1>2, <1>6, <1>7, <2>1, <2>2 DEF PendingInv
  <2>6. StreamInv'
    BY <1>2, <1>7, <2>1, <2>2 DEF StreamInv
  <2>7. UsedInv'
    <3>1. \A id : Used(id)' => Used(id)
      BY <2>1, <2>4 DEF Used
    <3> QED BY <1>6, <1>7, <2>4, <3>1, QuietUsed
  <2>8. MemInv'
    <3>1. ASSUME NEW i \in Mine' PROVE Lies(writes[i])'
      <4>1. Lies(writes[i]) /\ (writes[i].mem = "message" => ~Taken(writes[i].packet.id))
        BY <1>1, <1>2, <2>1, <2>2, <3>1 DEF MemInv, AckInv
      <4>2. writes[i].mem # "app"
        BY <1>6, <4>1 DEF Lies
      <4>3. writes[i].mem = "message" => writes[i].packet.id \in ToSet(outboundMsgs')
        <5>1. writes[i].mem = "message" => writes[i].packet.id # Head(inbox).id
          BY <2>3, <4>1
        <5> QED BY <2>4, <4>1, <5>1 DEF Lies
      <4> QED BY <1>7, <2>1, <4>1, <4>2, <4>3 DEF Lies
    <3> QED BY <3>1 DEF MemInv
  <2>9. AckInv'
    BY <1>9, <2>1
  <2> QED BY <1>3, <2>5, <2>6, <2>7, <2>8, <2>9 DEF OneInv
<1>11. CASE Worked
  <2>1. /\ taken = socket /\ inbox # <<>> /\ inbox' = Tail(inbox) /\ UNCHANGED <<outboundMsgs, copies>>
        /\ \/ UNCHANGED <<writes, write_pending, stream>>
           \/ ~Refuses /\ Write(<<Other("reply")>>, 1, "own")
    BY <1>11 DEF Worked
  <2>2. CASE UNCHANGED <<writes, write_pending, stream>>
    <3>1. PendingInv' /\ StreamInv' /\ MemInv'
      BY <1>6, <1>7, <2>1, <2>2, QuietKeeps
    <3>2. UsedInv'
      <4>1. \A id : Used(id)' => Used(id)
        BY <2>1, <2>2 DEF Used
      <4>2. \A i, j \in DOMAIN outboundMsgs' : outboundMsgs'[i] = outboundMsgs'[j] => i = j
        BY <1>2, <2>1 DEF UsedInv
      <4> QED BY <1>6, <1>7, <4>1, <4>2, QuietUsed
    <3>3. AckInv'
      BY <1>9, <2>1, <2>2
    <3> QED BY <1>3, <3>1, <3>2, <3>3 DEF OneInv
  <2>3. CASE ~Refuses /\ Write(<<Other("reply")>>, 1, "own")
    <3>1. PICK q, packets, size, mem : q = Other("reply") /\ packets = <<q>> /\ size = 1 /\ mem = "own"
      OBVIOUS
    <3>2. q \in Packets /\ Units(q) = size /\ q.kind = "reply" /\ q.qos = 0 /\ mem \in {"app", "copy", "message", "own"}
      BY <3>1, Constants DEF Other
    <3>3. /\ packets \in Seq(Packets) /\ size \in Nat \ {0} /\ \A k \in DOMAIN packets : Units(packets[k]) = size
          /\ \A k \in DOMAIN packets : packets[k] = q
      <4>1. packets \in Seq(Packets) /\ DOMAIN packets = {1} /\ packets[1] = q
        BY <3>1, <3>2, OnePacket
      <4> QED BY <3>1, <3>2, <4>1
    <3>4. connected
      <4>1. connected = (socket # NoSocket)
        BY <1>2 DEF WriterTypes, TypeOK
      <4> QED BY <1>1, <2>1, <4>1
    <3>5. /\ socket \in Fds /\ socket \notin write_pending /\ \A i \in DOMAIN writes : writes[i].fd # socket
          /\ SentOK(stream) /\ Runs(stream) /\ Ended(stream) /\ room \in 0..Buffer
      BY <2>3, <3>4, NothingPending
    <3>6. Written(socket, stream, packets, size, mem, room)
      BY <2>3, <3>1 DEF Write
    <3>7. PendingInv' /\ StreamInv' /\ TakenAndKept(socket, stream, packets, size, mem)
      <4>1. socket' = socket /\ pc'[Run] # "clear"
        BY <1>5, <1>7
      <4> QED BY <1>2, <3>2, <3>3, <3>5, <3>6, <4>1, WroteOne
    <3>8. /\ \A x \in DOMAIN stream : x \in DOMAIN stream' /\ stream'[x] = stream[x]
          /\ \A x \in DOMAIN stream' : x \in DOMAIN stream \/ stream'[x].packet = q
          /\ \A i \in Mine' : writes'[i].packet = q /\ writes'[i].mem = "own"
      <4>1. /\ \A x \in DOMAIN stream : x \in DOMAIN stream' /\ stream'[x] = stream[x]
            /\ \A x \in DOMAIN stream' : x \in DOMAIN stream \/ \E k \in DOMAIN packets : stream'[x].packet = packets[k]
        BY <3>7 DEF TakenAndKept
      <4>2. \A i \in Mine' : \E k \in DOMAIN packets, done \in 0..(size - 1) :
              /\ writes'[i] = [fd |-> socket, packet |-> packets[k], done |-> done, mem |-> mem]
              /\ \A x \in DOMAIN stream' : x \in DOMAIN stream \/
                   \E m \in 1..k : stream'[x].packet = packets[m] /\ (m = k => stream'[x].unit <= done)
        BY <3>7, Zenon DEF TakenAndKept
      <4>3. ASSUME NEW i \in Mine' PROVE writes'[i].packet = q /\ writes'[i].mem = "own"
        <5>1. PICK k \in DOMAIN packets, done \in 0..(size - 1) :
                /\ writes'[i] = [fd |-> socket, packet |-> packets[k], done |-> done, mem |-> mem]
                /\ \A x \in DOMAIN stream' : x \in DOMAIN stream \/
                     \E m \in 1..k : stream'[x].packet = packets[m] /\ (m = k => stream'[x].unit <= done)
          BY <4>2
        <5>2. writes'[i].packet = packets[k] /\ writes'[i].mem = mem
          BY <5>1
        <5> QED BY <3>1, <3>3, <5>2
      <4> QED BY <3>3, <4>1, <4>3
    <3>9. UsedInv'
      <4>1. \A id : Used(id)' => Used(id)
        BY <2>1, <3>2, <3>8 DEF Used
      <4>2. \A i, j \in DOMAIN outboundMsgs' : outboundMsgs'[i] = outboundMsgs'[j] => i = j
        BY <1>2, <2>1 DEF UsedInv
      <4> QED BY <1>6, <1>7, <4>1, <4>2, QuietUsed
    <3>10. MemInv'
      <4>1. ASSUME NEW i \in Mine' PROVE Lies(writes[i])'
        BY <3>2, <3>8, <4>1 DEF Lies
      <4> QED BY <4>1 DEF MemInv
    <3>11. AckInv'
      BY <1>9, <2>1, <3>8
    <3> QED BY <1>3, <3>7, <3>9, <3>10, <3>11 DEF OneInv
  <2> QED BY <2>1, <2>2, <2>3
<1> QED BY <1>1, <1>8, <1>10, <1>11

LEMMA RetryOne == ASSUME OneInv, retry PROVE OneInv'
<1>1. BaseInv /\ WriterTypes /\ PendingInv /\ StreamInv /\ UsedInv /\ AckInv /\ MemInv
  BY DEF OneInv, BaseInv
<1>2. BaseInv' /\ RetryFacts(Unacknowledged)
  BY <1>1, RetryBase
<1>3. /\ Go(Run, "select") /\ taken' = NoSocket /\ \A a \in Apps : ~Holds(a)
      /\ UNCHANGED <<client, copies, pwset, job, broken, inbox, acked, conns>>
      /\ \/ connected /\ ~Refuses /\ Write(Unacknowledged, Length, "message")
         \/ UNCHANGED <<writes, write_pending, stream>>
      /\ sends' = sends
  BY <1>2 DEF RetryFacts, Bounded, bounds
<1>4. pc'[Run] = "select" /\ \A b \in Apps : pc'[b] = pc[b]
  BY <1>1, <1>3, RunGoes DEF RunPlaces
<1>5. /\ ~At(Run, "clear")' /\ ~At(Run, "clear") /\ ~At(Run, "handle")'
      /\ \A b \in Apps : At(b, "check")' => At(b, "check") /\ job'[b] = job[b]
      /\ \A a \in Apps : Holds(a) => Holds(a)' /\ job'[a] = job[a]
  <2>1. ~At(Run, "clear")
    BY DEF retry, At
  <2> QED BY <1>3, <1>4, <2>1 DEF At, Holds
<1>6. UNCHANGED <<socket, connected, outboundMsgs, copies, broken, inbox, acked, sends>>
  BY <1>3 DEF client
<1>7. CASE UNCHANGED <<writes, write_pending, stream>>
  <2>1. UNCHANGED <<client, writes, write_pending, stream, copies, acked, inbox>>
    BY <1>3, <1>7
  <2>2. (At(Run, "clear")' <=> At(Run, "clear")) /\ (~broken' => ~broken)
    BY <1>5, <1>6
  <2> QED BY <1>2, <1>3, <1>5, <2>1, <2>2, QuietOne
<1>8. CASE connected /\ ~Refuses /\ Write(Unacknowledged, Length, "message")
  <2>1. PICK packets, mem : packets = Unacknowledged /\ mem = "message"
    OBVIOUS
  <2>2. /\ packets \in Seq(Packets) /\ DOMAIN packets = DOMAIN outboundMsgs
        /\ \A k \in DOMAIN packets : packets[k] = Publication(outboundMsgs[k], 1) /\ Units(packets[k]) = Length
        /\ mem \in {"app", "copy", "message", "own"}
    BY <1>1, <2>1, AllPublications
  <2>3. /\ socket \in Fds /\ socket \notin write_pending /\ \A i \in DOMAIN writes : writes[i].fd # socket
        /\ SentOK(stream) /\ Runs(stream) /\ Ended(stream) /\ room \in 0..Buffer
    BY <1>8, NothingPending
  <2>4. PendingInv' /\ StreamInv' /\ TakenAndKept(socket, stream, packets, Length, mem)
    <3>1. Written(socket, stream, packets, Length, mem, room)
      BY <1>8, <2>1 DEF Write
    <3>2. socket' = socket /\ pc'[Run] # "clear"
      BY <1>4, <1>6
    <3> QED BY <1>1, <2>2, <2>3, <3>1, <3>2, WroteOne
  <2>5. /\ \A x \in DOMAIN stream : x \in DOMAIN stream' /\ stream'[x] = stream[x]
        /\ \A x \in DOMAIN stream' : x \in DOMAIN stream \/ \E k \in DOMAIN packets : stream'[x].packet = packets[k]
    BY <2>4 DEF TakenAndKept
  <2>6. UsedInv'
    <3>1. \A id : Used(id)' => Used(id)
      <4> TAKE id
      <4>1. ASSUME NEW x \in DOMAIN stream', stream'[x].packet.qos = 1, stream'[x].packet.id = id PROVE Used(id)
        <5>1. CASE x \in DOMAIN stream
          BY <2>5, <4>1, <5>1 DEF Used
        <5>2. ASSUME NEW k \in DOMAIN packets, stream'[x].packet = packets[k] PROVE Used(id)
          <6>1. id = outboundMsgs[k] /\ k \in DOMAIN outboundMsgs
            BY <2>2, <4>1, <5>2 DEF Publication
          <6> QED BY <6>1 DEF Used, ToSet
        <5> QED BY <2>5, <5>1, <5>2
      <4> QED BY <1>6, <4>1 DEF Used
    <3>2. \A i, j \in DOMAIN outboundMsgs' : outboundMsgs'[i] = outboundMsgs'[j] => i = j
      BY <1>1, <1>6 DEF UsedInv
    <3> QED BY <1>3, <1>5, <3>1, <3>2, QuietUsed
  <2>7. AckInv'
    <3>1. \A id \in acked' : Taken(id)'
      BY <1>1, <1>6, <2>5 DEF AckInv, Taken
    <3>2. \A x \in DOMAIN inbox' : inbox'[x].kind = "ack" => inbox'[x].id \in acked'
      BY <1>1, <1>6 DEF AckInv
    <3> QED BY <1>5, <3>1, <3>2 DEF AckInv
  <2>8. MemInv'
    <3>1. \A i \in Mine' : \E k \in DOMAIN packets, done \in 0..(Length - 1) :
            /\ writes'[i] = [fd |-> socket, packet |-> packets[k], done |-> done, mem |-> mem]
            /\ \A x \in DOMAIN stream' : x \in DOMAIN stream \/
                 \E m \in 1..k : stream'[x].packet = packets[m] /\ (m = k => stream'[x].unit <= done)
      BY <2>4, Zenon DEF TakenAndKept
    <3>2. ASSUME NEW i \in Mine' PROVE Lies(writes[i])'
      <4>1. PICK k \in DOMAIN packets, done \in 0..(Length - 1) :
              /\ writes'[i] = [fd |-> socket, packet |-> packets[k], done |-> done, mem |-> mem]
              /\ \A x \in DOMAIN stream' : x \in DOMAIN stream \/
                   \E m \in 1..k : stream'[x].packet = packets[m] /\ (m = k => stream'[x].unit <= done)
        BY <3>1
      <4>2. writes'[i].packet = Publication(outboundMsgs[k], 1) /\ writes'[i].mem = "message"
        BY <2>1, <2>2, <4>1
      <4>3. writes'[i].packet.id = outboundMsgs[k] /\ writes'[i].packet.qos = 1
        BY <4>2 DEF Publication
      <4>4. outboundMsgs[k] \in ToSet(outboundMsgs')
        BY <1>6, <2>2 DEF ToSet
      <4> QED BY <4>2, <4>3, <4>4 DEF Lies
    <3> QED BY <3>2 DEF MemInv
  <2> QED BY <1>2, <2>4, <2>6, <2>7, <2>8 DEF OneInv
<1> QED BY <1>3, <1>7, <1>8

\* The network changes no list of the client.
LEMMA NetOne ==
  ASSUME OneInv, BaseInv', UNCHANGED <<client, buffers, pwset, taken, pc, job, stream, conns, sends>>,
         ~broken' => ~broken, AckInv'
  PROVE  OneInv'
<1>1. UNCHANGED <<socket, connected, outboundMsgs, writes, write_pending, stream, copies, taken, pc, job, sends>>
  BY DEF client, buffers
<1>2. /\ At(Run, "clear")' <=> At(Run, "clear")
      /\ \A b \in Apps : At(b, "check")' => At(b, "check") /\ job'[b] = job[b]
      /\ \A a \in Apps : Holds(a) => Holds(a)' /\ job'[a] = job[a]
  BY <1>1 DEF At, Holds
<1>3. PendingInv' /\ StreamInv' /\ MemInv'
  BY <1>1, <1>2, QuietKeeps
<1>4. UsedInv'
  <2>1. \A id : Used(id)' => Used(id)
    BY <1>1 DEF Used
  <2>2. \A i, j \in DOMAIN outboundMsgs' : outboundMsgs'[i] = outboundMsgs'[j] => i = j
    BY <1>1 DEF OneInv, UsedInv
  <2> QED BY <1>1, <1>2, <2>1, <2>2, QuietUsed
<1> QED BY <1>3, <1>4 DEF OneInv

LEMMA NetAck ==
  ASSUME OneInv, UNCHANGED <<client, buffers, pwset, taken, pc, job, stream, conns, sends>>, UNCHANGED <<acked, inbox>>
  PROVE  AckInv'
<1>1. UNCHANGED <<writes, socket, stream, acked, inbox, taken, pc>>
  BY DEF client, buffers
<1> QED BY <1>1, QuietAck DEF At

LEMMA DrainsOne == ASSUME OneInv, drains PROVE OneInv'
<1>1. /\ UNCHANGED <<client, buffers, pwset, taken, pc, job, stream, conns, sends>> /\ UNCHANGED <<acked, inbox>>
      /\ (~broken' => ~broken)
  BY DEF drains, bounds
<1>2. BaseInv'
  BY DrainsBase DEF OneInv
<1> QED BY <1>1, <1>2, NetAck, NetOne

LEMMA BreaksOne == ASSUME OneInv, linkBreaks PROVE OneInv'
<1>1. /\ UNCHANGED <<client, buffers, pwset, taken, pc, job, stream, conns, sends>> /\ UNCHANGED <<acked, inbox>>
      /\ (~broken' => ~broken)
  BY DEF linkBreaks, Bounded
<1>2. BaseInv'
  BY BreaksBase DEF OneInv
<1> QED BY <1>1, <1>2, NetAck, NetOne

\* A packet to read is added.
LEMMA InboxGrows ==
  ASSUME OneInv, UNCHANGED <<client, buffers, pwset, taken, pc, job, stream, conns, sends>>,
         NEW w \in Work, inbox' = Append(inbox, w), w.kind = "ack" => w.id \in acked', acked \subseteq acked',
         \A id \in acked' : id \in acked \/ Taken(id)
  PROVE  AckInv'
<1>1. UNCHANGED <<writes, socket, stream, taken, pc>> /\ AckInv /\ WriterTypes
  BY DEF client, buffers, OneInv, BaseInv
<1>2. inbox \in Seq(Work)
  BY <1>1 DEF WriterTypes
<1>3. /\ Len(inbox) \in Nat /\ DOMAIN inbox = 1..Len(inbox) /\ DOMAIN inbox' = 1..(Len(inbox) + 1)
      /\ (\A x \in DOMAIN inbox : inbox'[x] = inbox[x]) /\ inbox'[Len(inbox) + 1] = w
  BY <1>2, AppendProperties, LenProperties
<1>4. \A x \in DOMAIN inbox' : x \in DOMAIN inbox \/ x = Len(inbox) + 1
  BY <1>3
<1>5. \A x \in DOMAIN inbox' : inbox'[x].kind = "ack" => inbox'[x].id \in acked'
  BY <1>1, <1>3, <1>4 DEF AckInv
<1>6. \A id \in acked' : Taken(id)'
  BY <1>1 DEF AckInv, Taken
<1>7. Mine' = Mine
  BY <1>1 DEF Mine
<1>8. At(Run, "handle")' /\ taken' = socket' =>
        \A i \in Mine' : writes'[i].mem = "message" => ~Taken(writes[i].packet.id)'
  BY <1>1, <1>7 DEF AckInv, Taken, At
<1> QED BY <1>5, <1>6, <1>8 DEF AckInv

LEMMA AcksOne == ASSUME OneInv, brokerAcks PROVE OneInv'
<1>1. BaseInv' /\ WriterTypes
  BY AcksBase DEF OneInv, BaseInv
<1>2. PICK id \in 1..MaxSends :
           /\ \E x \in DOMAIN stream : stream[x] = [packet |-> Publication(id, 1), unit |-> Length]
           /\ id \notin acked /\ acked' = acked \cup {id}
           /\ inbox' = Append(inbox, [kind |-> "ack", id |-> id])
           /\ UNCHANGED <<client, buffers, pwset, taken, pc, job, stream, room, broken, conns, bounds>>
  BY <1>1, AckFacts
<1>3. PICK w : w = [kind |-> "ack", id |-> id]
  OBVIOUS
<1>4. w \in Work /\ w.id = id /\ inbox' = Append(inbox, w) /\ Taken(id)
  BY <1>2, <1>3 DEF Work, Taken
<1>5. /\ UNCHANGED <<client, buffers, pwset, taken, pc, job, stream, conns, sends>> /\ (~broken' => ~broken)
      /\ acked \subseteq acked' /\ id \in acked' /\ \A v \in acked' : v \in acked \/ v = id
  BY <1>2 DEF bounds
<1>6. \A v \in acked' : v \in acked \/ Taken(v)
  BY <1>4, <1>5
<1>7. AckInv'
  BY <1>4, <1>5, <1>6, InboxGrows
<1> QED BY <1>1, <1>5, <1>7, NetOne

LEMMA SendsOne == ASSUME OneInv, brokerSends PROVE OneInv'
<1>1. BaseInv'
  BY SendsBase DEF OneInv
<1>2. PICK w : w = [kind |-> "work", id |-> 0]
  OBVIOUS
<1>3. w \in Work /\ w.kind = "work" /\ inbox' = Append(inbox, w)
  BY <1>2 DEF Work, brokerSends
<1>4. /\ UNCHANGED <<client, buffers, pwset, taken, pc, job, stream, conns, sends>> /\ (~broken' => ~broken) /\ acked' = acked
  BY DEF brokerSends, Bounded
<1>5. AckInv'
  BY <1>3, <1>4, InboxGrows
<1> QED BY <1>1, <1>4, <1>5, NetOne

LEMMA OneStep == ASSUME OneInv, [Next]_vars, [NoReuse]_vars PROVE OneInv'
<1>1. CASE cycle
  BY <1>1, SelectOne, ContinueOne, ClearOne, CompleteOne, ReadyOne, HandleOne, RetryOne, LostOne DEF cycle
<1>2. ASSUME NEW a \in Apps, publish(a) \/ Proceed(a) \/ disconnect(a) PROVE OneInv'
  BY <1>2, PublishOne, StartOne, StoreOne, ReturnsOne, Disconnect1One, DisconnectOne DEF Proceed
<1>3. ASSUME NEW a \in Apps, connect(a) PROVE OneInv'
  <2>1. conns' # conns
    BY <1>3 DEF connect, OneInv, BaseInv, WriterTypes
  <2>2. vars' # vars
    BY <2>1 DEF vars, network
  <2> QED BY <1>3, <2>2, ConnectOne
<1>4. CASE drains \/ linkBreaks \/ brokerAcks \/ brokerSends
  BY <1>4, DrainsOne, BreaksOne, AcksOne, SendsOne
<1>5. CASE UNCHANGED vars
  <2>1. /\ UNCHANGED <<client, buffers, pwset, taken, pc, job, stream, conns, sends>> /\ UNCHANGED <<acked, inbox>>
        /\ (~broken' => ~broken)
    BY <1>5 DEF vars, network, bounds
  <2>2. BaseInv'
    BY <1>5, BaseStep DEF OneInv
  <2> QED BY <2>1, <2>2, NetAck, NetOne
<1> QED BY <1>1, <1>2, <1>3, <1>4, <1>5 DEF Next

LEMMA OneInit == Init => OneInv
<1> SUFFICES ASSUME Init PROVE OneInv
  OBVIOUS
<1>1. BaseInv
  BY BaseInit
<1>2. /\ DOMAIN writes = {} /\ DOMAIN stream = {} /\ DOMAIN outboundMsgs = {} /\ DOMAIN inbox = {}
      /\ acked = {} /\ stream = <<>> /\ connected = FALSE /\ write_pending = {}
  BY DEF Init
<1>3. pc[Run] = "select" /\ \A a \in Apps : pc[a] = "idle"
  BY Constants DEF Init
<1>4. Mine = {}
  BY <1>2 DEF Mine
<1>5. PendingInv /\ MemInv
  BY <1>2, <1>3, <1>4 DEF PendingInv, MemInv, At
<1>6. StreamInv
  BY <1>2 DEF StreamInv, Runs
<1>7. UsedInv
  <2>1. \A id : ~Used(id)
    BY <1>2 DEF Used, ToSet
  <2> QED BY <1>2, <2>1 DEF UsedInv
<1>8. AckInv
  BY <1>2, <1>3 DEF AckInv, At
<1> QED BY <1>1, <1>5, <1>6, <1>7, <1>8 DEF OneInv

-----------------------------------------------------------------------------
(* The theorems *)

\* The sockets, the lists and the bookkeeping of what is unfinished keep their types:
\* in particular there is work to write only on the socket of the session, and a
\* packet is never recorded as unfinished with nothing left.
THEOREM TypesKept == Spec => []TypeOK
<1>1. BaseInv => TypeOK
  BY DEF BaseInv, WriterTypes
<1> QED BY <1>1, BaseInit, BaseStep, PTL DEF Spec

\* While no connection gets the number of a socket that a packet left in the list
\* is recorded for, the whole invariant holds.
LEMMA OneHolds == Spec /\ [][NoReuse]_vars => []OneInv
<1> QED BY OneInit, OneStep, PTL DEF Spec

\* Socket_putdatas, Socket_continueWrites and every handler that writes put whole
\* packets on a connection, one after the other, whichever of the threads runs
\* between two parts of one and however little the send buffer takes.
THEOREM WholePackets == Spec /\ [][NoReuse]_vars => []StreamIsPackets
<1>1. OneInv => StreamIsPackets
  BY StreamRuns DEF OneInv, BaseInv, StreamInv
<1> QED BY <1>1, OneHolds, PTL

\* Outside of Socket_continueWrites the list of unfinished packets and the list of
\* sockets that have one agree with each other and with what the connection took.
THEOREM UnfinishedKept == Spec /\ [][NoReuse]_vars => []UnfinishedIsKept
<1>1. ASSUME OneInv PROVE UnfinishedIsKept
  <2> SUFFICES ASSUME connected, ~broken, pc[Run] \notin {"clear", "complete"}
               PROVE  IF noPendingWrites(socket)
                        THEN /\ getWrite(socket) = {}
                             /\ stream # <<>> => stream[Len(stream)].unit = Units(stream[Len(stream)].packet)
                        ELSE \E i \in getWrite(socket) : writes[i].done > 0 =>
                               stream[Len(stream)] = [packet |-> writes[i].packet, unit |-> writes[i].done]
    BY DEF UnfinishedIsKept
  <2>1. WriterTypes /\ PendingInv /\ StreamInv /\ getWrite(socket) = Mine
    BY <1>1, MineIsFirst DEF OneInv, BaseInv
  <2>2. CASE noPendingWrites(socket)
    <3>1. Mine = {}
      BY <2>1, <2>2 DEF PendingInv, noPendingWrites
    <3> QED BY <2>1, <2>2, <3>1 DEF StreamInv, Ended, Whole
  <2>3. CASE ~noPendingWrites(socket)
    <3>1. PICK i \in Mine : TRUE
      BY <2>1, <2>3 DEF PendingInv, noPendingWrites, At
    <3>2. Continues(stream, writes[i])
      BY <2>1, <3>1 DEF StreamInv
    <3>3. writes[i].done > 0 => stream[Len(stream)] = [packet |-> writes[i].packet, unit |-> writes[i].done]
      BY <3>2 DEF Continues
    <3> QED BY <2>1, <2>3, <3>1, <3>3
  <2> QED BY <2>2, <2>3
<1> QED BY <1>1, OneHolds, PTL

\* The memory Socket_continueWrite will read from: the caller's payload is only used
\* before publish has stored its own copy, that copy is not freed by
\* MQTTProtocol_checkPendingWrites, and the message not by its acknowledgement.
THEOREM MemoryKept == Spec /\ [][NoReuse]_vars => []MemoryLives
<1>1. ASSUME OneInv PROVE MemoryLives
  <2>1. WriterTypes /\ MemInv /\ getWrite(socket) = Mine
    BY <1>1, MineIsFirst DEF OneInv, BaseInv
  <2>2. ASSUME NEW i \in Mine
        PROVE  /\ writes[i].mem \in {"app", "copy", "message", "own"}
               /\ writes[i].mem = "app" => \E a \in Apps : job[a].id = writes[i].packet.id /\ pc[a] \in {"store", "wait"}
               /\ writes[i].mem = "copy" => [fd |-> socket, id |-> writes[i].packet.id] \in copies
               /\ writes[i].mem = "message" => writes[i].packet.id \in ToSet(outboundMsgs)
    BY <2>1 DEF MemInv, Lies, Holds, At, Mine, WriterTypes, TypeOK
  <2> QED BY <2>1, <2>2 DEF MemoryLives
<1> QED BY <1>1, OneHolds, PTL

-----------------------------------------------------------------------------
(* When no connection gets the number of an unfinished packet *)

\* Every connection has a number of its own.
Distinct == \A i, j \in DOMAIN Number : Number[i] = Number[j] => i = j

\* The socket of the session and those of unfinished packets are sockets of
\* connections that have been made.
Made(fd, n) == \E k \in 1..n : k \in DOMAIN Number /\ Number[k] = fd
MadeInv ==
  /\ socket # NoSocket => Made(socket, conns)
  /\ \A i \in DOMAIN writes : Made(writes[i].fd, conns)

\* A packet is added to the list of unfinished ones.
LEMMA Added ==
  ASSUME WriterTypes, NEW w, writes' = Append(writes, w)
  PROVE  \A i \in DOMAIN writes' : writes'[i] = w \/ (i \in DOMAIN writes /\ writes'[i] = writes[i])
<1>1. DOMAIN writes' = 1..(Len(writes) + 1) /\ DOMAIN writes = 1..Len(writes) /\ Len(writes) \in Nat
  BY LenProperties DEF WriterTypes
<1>2. ASSUME NEW i \in DOMAIN writes' PROVE writes'[i] = IF i \in DOMAIN writes THEN writes[i] ELSE w
  BY <1>1, <1>2
<1> QED BY <1>2

\* What Written does to the list of unfinished packets.
LEMMA OnlyKept ==
  ASSUME WriterTypes, NEW fd, NEW before, NEW packets, NEW size, NEW mem, NEW free,
         Written(fd, before, packets, size, mem, free)
  PROVE  \A i \in DOMAIN writes' : writes'[i].fd = fd \/ (i \in DOMAIN writes /\ writes'[i] = writes[i])
<1>1. writes' = writes \/ \E p, done : writes' = Append(writes, [fd |-> fd, packet |-> p, done |-> done, mem |-> mem])
  BY DEF Written, Keep
<1>2. CASE writes' = writes
  BY <1>2
<1>3. CASE \E p, done : writes' = Append(writes, [fd |-> fd, packet |-> p, done |-> done, mem |-> mem])
  <2>1. PICK w : writes' = Append(writes, w) /\ w.fd = fd
    BY <1>3
  <2> QED BY <2>1, Added
<1> QED BY <1>1, <1>2, <1>3

\* A step keeps that invariant that adds no socket but the one of the session.
LEMMA MadeStays ==
  ASSUME WriterTypes, WriterTypes', MadeInv, conns' >= conns,
         socket' # NoSocket => socket' = socket \/ Made(socket', conns'),
         \A i \in DOMAIN writes' : \/ writes'[i].fd # NoSocket /\ writes'[i].fd \in {socket, socket'}
                                   \/ \E j \in DOMAIN writes : writes'[i].fd = writes[j].fd
  PROVE  MadeInv'
<1>1. conns \in Nat /\ conns' \in Nat
  BY DEF WriterTypes
<1>2. \A fd : Made(fd, conns) => Made(fd, conns')
  BY <1>1 DEF Made
<1> QED BY <1>2 DEF MadeInv


LEMMA CloseMade == ASSUME WriterTypes, WriterTypes', MadeInv, connected, closeSession PROVE MadeInv'
<1>1. socket # NoSocket /\ socket' = NoSocket /\ conns' = conns /\ conns \in Nat
  BY DEF closeSession, WriterTypes, TypeOK
<1>2. \/ writes' = writes
      \/ writes' = Append(writes, [fd |-> socket, packet |-> Other("disconnect"), done |-> 0, mem |-> "own"])
  BY DEF closeSession
<1>3. ASSUME NEW i \in DOMAIN writes', writes' # writes PROVE writes'[i].fd = socket \/ (i \in DOMAIN writes /\ writes'[i] = writes[i])
  <2>1. PICK w : writes' = Append(writes, w) /\ w.fd = socket
    BY <1>2, <1>3
  <2> QED BY <1>3, <2>1, Added
<1> QED BY <1>1, <1>3, MadeStays

LEMMA WriteMade ==
  ASSUME WriterTypes, WriterTypes', MadeInv, socket # NoSocket, NEW packets, NEW size, NEW mem,
         Write(packets, size, mem), UNCHANGED <<socket, conns>>
  PROVE  MadeInv'
<1>1. conns \in Nat
  BY DEF WriterTypes
<1>2. \A i \in DOMAIN writes' : writes'[i].fd = socket \/ (i \in DOMAIN writes /\ writes'[i] = writes[i])
  BY OnlyKept DEF Write
<1> QED BY <1>1, <1>2, MadeStays

LEMMA ContinueMade == ASSUME WriterTypes, WriterTypes', MadeInv, continueWrite PROVE MadeInv'
<1>1. PICK i \in DOMAIN writes : writes' = RemoveAt(writes, i) \/ \E n : writes' = [writes EXCEPT ![i].done = @ + n]
  BY DEF continueWrite, getWrite
<1>2. UNCHANGED <<socket, conns>> /\ conns \in Nat /\ writes \in Seq(Record)
  BY DEF continueWrite, client, WriterTypes
<1>3. ASSUME NEW j \in DOMAIN writes' PROVE \E k \in DOMAIN writes : writes'[j].fd = writes[k].fd
  <2>1. CASE writes' = RemoveAt(writes, i)
    <3>1. PICK r : r = RemoveAt(writes, i)
      OBVIOUS
    <3>2. /\ DOMAIN writes = 1..Len(writes) /\ DOMAIN r = 1..(Len(writes) - 1) /\ Len(writes) \in Nat \ {0}
          /\ \A k \in DOMAIN r : r[k] = IF k < i THEN writes[k] ELSE writes[k + 1]
      BY <1>2, <3>1, RemoveAtFacts
    <3>3. j \in DOMAIN writes /\ j + 1 \in DOMAIN writes /\ (writes'[j] = writes[j] \/ writes'[j] = writes[j + 1])
      BY <1>3, <2>1, <3>1, <3>2
    <3> QED BY <3>3
  <2>2. ASSUME NEW n, writes' = [writes EXCEPT ![i].done = @ + n]
        PROVE  \E k \in DOMAIN writes : writes'[j].fd = writes[k].fd
    <3>1. j \in DOMAIN writes /\ (j # i => writes'[j] = writes[j])
      BY <1>3, <2>2
    <3>2. writes'[i] = [writes[i] EXCEPT !.done = @ + n]
      BY <2>2
    <3>3. writes[i] \in Record
      BY <1>2, ElementOfSeq, LenProperties
    <3>4. writes'[i].fd = writes[i].fd
      BY <3>2, <3>3 DEF Record
    <3> QED BY <3>1, <3>4
  <2> QED BY <1>1, <2>1, <2>2
<1> QED BY <1>2, <1>3, MadeStays

LEMMA ConnectMade == ASSUME WriterTypes, WriterTypes', MadeInv, NEW a \in Apps, connect(a) PROVE MadeInv'
<1>1. /\ socket' = Number[conns + 1] /\ conns' = conns + 1 /\ conns \in Nat /\ conns + 1 <= Len(Number)
      /\ Written(socket', <<>>, Unacknowledged, Length, "message", Buffer)
  BY DEF connect, WriterTypes
<1>2. conns + 1 \in DOMAIN Number
  <2>1. DOMAIN Number = 1..Len(Number) /\ Len(Number) \in Nat
    BY Constants, LenProperties
  <2> QED BY <1>1, <2>1
<1>3. Made(socket', conns') /\ socket' # NoSocket
  <2>1. socket' \in Nat
    BY <1>1, <1>2, Constants, ElementOfSeq, LenProperties
  <2> QED BY <1>1, <1>2, <2>1, Constants DEF Made
<1>4. \A i \in DOMAIN writes' : writes'[i].fd = socket' \/ (i \in DOMAIN writes /\ writes'[i] = writes[i])
  BY <1>1, OnlyKept
<1> QED BY <1>1, <1>3, <1>4, MadeStays

LEMMA MadeStep == ASSUME BaseInv, MadeInv, [Next]_vars PROVE MadeInv'
<1>1. WriterTypes /\ WriterTypes' /\ conns \in Nat
  BY BaseStep DEF BaseInv, WriterTypes
<1>2. CASE UNCHANGED <<socket, writes, conns>>
  BY <1>2 DEF MadeInv
<1>3. connected => socket # NoSocket
  BY <1>1 DEF WriterTypes, TypeOK
<1>4. ASSUME NEW a \in Apps, startPublish(a) PROVE MadeInv'
  <2>1. UNCHANGED <<socket, conns>>
    BY <1>4 DEF startPublish
  <2>2. writes' = writes \/ (connected /\ \E packets, size, mem : Write(packets, size, mem))
    BY <1>4 DEF startPublish, buffers
  <2> QED BY <1>1, <1>2, <1>3, <2>1, <2>2, WriteMade
<1>5. ASSUME NEW a \in Apps, storeQoS0(a) PROVE MadeInv'
  <2>1. UNCHANGED <<socket, conns>> /\ writes' = updateWrite
    BY <1>5 DEF storeQoS0, client, network
  <2>2. ASSUME NEW i \in DOMAIN writes' PROVE i \in DOMAIN writes /\ writes'[i].fd = writes[i].fd
    <3>1. i \in DOMAIN writes /\ (writes'[i] = writes[i] \/ writes'[i] = [writes[i] EXCEPT !.mem = "copy"])
      BY <2>1 DEF updateWrite
    <3>2. writes[i] \in Record
      BY <1>1, <3>1, ElementOfSeq, LenProperties DEF WriterTypes
    <3> QED BY <3>1, <3>2 DEF Record
  <2> QED BY <1>1, <2>1, <2>2, MadeStays
<1>6. ASSUME NEW a \in Apps, disconnect1(a) PROVE MadeInv'
  <2>1. UNCHANGED <<socket, writes, conns>> \/ (connected /\ closeSession)
    BY <1>6 DEF disconnect1, client, buffers, network
  <2> QED BY <1>1, <1>2, <2>1, CloseMade
<1>7. CASE handle
  <2>1. UNCHANGED <<socket, conns>>
    BY <1>7 DEF handle
  <2>2. writes' = writes \/ (socket # NoSocket /\ \E packets, size, mem : Write(packets, size, mem))
    BY <1>7 DEF handle, buffers
  <2> QED BY <1>1, <1>2, <2>1, <2>2, WriteMade
<1>8. CASE retry
  <2>1. UNCHANGED <<socket, conns>>
    BY <1>8 DEF retry, client
  <2>2. writes' = writes \/ (connected /\ \E packets, size, mem : Write(packets, size, mem))
    BY <1>8 DEF retry
  <2> QED BY <1>1, <1>2, <1>3, <2>1, <2>2, WriteMade
<1>9. CASE lost
  <2>1. UNCHANGED <<socket, writes, conns>> \/ (connected /\ closeSession)
    BY <1>9 DEF lost, client, buffers, network
  <2> QED BY <1>1, <1>2, <2>1, CloseMade
<1>10. CASE select \/ clear \/ writeComplete \/ getReadySocket
  BY <1>2, <1>10 DEF select, clear, writeComplete, getReadySocket, client, buffers, network
<1>11. ASSUME NEW a \in Apps, publish(a) \/ publishReturns(a) \/ disconnect(a) PROVE MadeInv'
  BY <1>2, <1>11 DEF publish, publishReturns, disconnect, client, buffers, network
<1>12. CASE drains \/ linkBreaks \/ brokerAcks \/ brokerSends
  BY <1>2, <1>12 DEF drains, linkBreaks, brokerAcks, brokerSends, client, buffers
<1>13. CASE UNCHANGED vars
  BY <1>2, <1>13 DEF vars, client, buffers, network
<1>14. CASE continueWrite
  BY <1>1, <1>14, ContinueMade
<1>15. ASSUME NEW a \in Apps, connect(a) PROVE MadeInv'
  BY <1>1, <1>15, ConnectMade
<1>16. CASE cycle
  BY <1>7, <1>8, <1>9, <1>10, <1>14, <1>16 DEF cycle
<1>17. ASSUME NEW a \in Apps, publish(a) \/ Proceed(a) \/ disconnect(a) \/ connect(a) PROVE MadeInv'
  BY <1>4, <1>5, <1>6, <1>11, <1>15, <1>17 DEF Proceed
<1> QED BY <1>12, <1>13, <1>16, <1>17 DEF Next

\* With a number of its own no connection gets the one of an unfinished packet: the
\* theorems above hold of every run in which the system uses no number twice.
THEOREM OwnNumbers == ASSUME Distinct PROVE Spec => [][NoReuse]_vars
<1>1. Init => MadeInv
  BY DEF Init, MadeInv
<1>2. BaseInv /\ MadeInv /\ [Next]_vars => MadeInv'
  BY MadeStep
<1>3. ASSUME BaseInv, MadeInv, [Next]_vars PROVE [NoReuse]_vars
  <2> SUFFICES ASSUME Next, conns' # conns, NEW i \in DOMAIN writes PROVE writes[i].fd # socket'
    BY <1>3 DEF NoReuse
  <2>1. PICK a \in Apps : connect(a)
    BY Zenon DEF Next, cycle, Proceed, publish, startPublish, storeQoS0, publishReturns, disconnect, disconnect1,
              closeSession, select, continueWrite, clear, writeComplete, getReadySocket, handle, retry, lost,
              drains, linkBreaks, brokerAcks, brokerSends, network
  <2>2. socket' = Number[conns + 1] /\ conns \in Nat /\ conns + 1 \in DOMAIN Number
    <3>1. socket' = Number[conns + 1] /\ conns \in Nat /\ conns + 1 <= Len(Number)
      BY <1>3, <2>1 DEF connect, BaseInv, WriterTypes
    <3>2. DOMAIN Number = 1..Len(Number) /\ Len(Number) \in Nat
      BY Constants, LenProperties
    <3> QED BY <3>1, <3>2
  <2>3. PICK k \in 1..conns : k \in DOMAIN Number /\ Number[k] = writes[i].fd
    BY <1>3 DEF MadeInv, Made
  <2> QED BY <2>2, <2>3 DEF Distinct
<1> QED BY <1>1, <1>2, <1>3, BaseInit, BaseStep, PTL DEF Spec
=============================================================================
