-------------------------- MODULE UartGateway_proofs --------------------------
(***************************************************************************)
(* Proofs about UartGateway, for any commands, any noise, any pieces that  *)
(* the bytes are read in, any number of commands and buffers of any size:  *)
(* nothing is answered that was not asked, and the buffers are overrun     *)
(* only by what waits for a read, or by noise and long commands.           *)
(***************************************************************************)
EXTENDS UartGateway, SequenceTheorems, WellFoundedInduction, TLAPS

-----------------------------------------------------------------------------
(* Bytes *)

LEMMA BytesDiffer ==
  /\ Dollar # Hash /\ Nul # Dollar /\ Nul # Hash
  /\ \A b \in Letters : b # Dollar /\ b # Hash /\ b # Nul
  /\ \A b \in Noise : b \in Letters \cup {Nul}
BY UartAssumption DEF UartAssumption

LEMMA BodyIs ==
  ASSUME NEW body \in Known \cup Unknown
  PROVE  body \in Seq(Letters) /\ Len(body) \in Nat /\ Len(body) <= Longest
<1>1. body \in Seq(Letters) /\ Len(body) <= Longest
  BY UartAssumption DEF UartAssumption
<1> QED BY <1>1, LenProperties

-----------------------------------------------------------------------------
(* Sequences of bytes *)

\* Every set of natural numbers that is not empty has a least element.
LEMMA LeastOf ==
  ASSUME NEW S, S \subseteq Nat, S # {}
  PROVE  \E x \in S : \A y \in S : x <= y
<1>1. PICK R : R = OpToRel(<, Nat)
  OBVIOUS
<1>2. IsWellFoundedOn(R, Nat)
  BY <1>1, NatLessThanWellFounded
<1>3. PICK x \in S : \A y \in S : ~(<<y, x>> \in R)
  BY <1>2, WFMin, Zenon
<1>4. \A y \in S : ~(y < x)
  BY <1>1, <1>3 DEF OpToRel
<1> QED BY <1>4

\* A set of numbers up to n that is not empty has a greatest and a least element.
LEMMA MaxOf ==
  ASSUME NEW n \in Nat, NEW S, S \subseteq 1..n, S # {}
  PROVE  Max(S) \in S /\ \A x \in S : x <= Max(S)
<1> DEFINE T == {m \in Nat : \A y \in S : y <= m}
<1>1. n \in T
  OBVIOUS
<1>2. PICK m \in T : \A k \in T : m <= k
  BY <1>1, LeastOf
<1>3. m \in S
  <2> SUFFICES ASSUME m \notin S PROVE FALSE
    OBVIOUS
  <2>1. PICK z \in S : TRUE
    OBVIOUS
  <2>2. m \in Nat /\ z \in Nat /\ z <= m /\ z > 0
    BY <1>2, <2>1
  <2>3. m - 1 \in Nat /\ \A y \in S : y <= m - 1
    BY <1>2, <2>2
  <2>4. m - 1 \in T
    BY <2>3
  <2> QED BY <1>2, <2>2, <2>4
<1>4. \E x \in S : \A y \in S : y <= x
  BY <1>2, <1>3
<1> QED BY <1>4, Zenon DEF Max

LEMMA MinOf ==
  ASSUME NEW S, S \subseteq Nat, S # {}
  PROVE  Min(S) \in S /\ \A x \in S : Min(S) <= x
<1>1. \E x \in S : \A y \in S : x <= y
  BY LeastOf
<1> QED BY <1>1, Zenon DEF Min

-----------------------------------------------------------------------------
(* What a piece of the line does to read_data *)

\* The first bytes of a sequence.
LEMMA FirstBytes ==
  ASSUME NEW s \in Seq(Byte), NEW n \in 0..Len(s)
  PROVE  /\ SubSeq(s, 1, n) \in Seq(Byte)
         /\ Len(SubSeq(s, 1, n)) = n
         /\ \A i \in 1..n : SubSeq(s, 1, n)[i] = s[i]
<1>1. \A i \in 1..n : s[i] \in Byte
  BY ElementOfSeq
<1>2. /\ SubSeq(s, 1, n) \in Seq(Byte)
      /\ Len(SubSeq(s, 1, n)) = IF 1 <= n THEN n - 1 + 1 ELSE 0
      /\ \A i \in 1..(n - 1 + 1) : SubSeq(s, 1, n)[i] = s[1 + i - 1]
  BY <1>1, SubSeqProperties, n \in Int
<1> QED BY <1>2

\* The bytes after the first n.
LEMMA LastBytes ==
  ASSUME NEW s \in Seq(Byte), NEW n \in 0..Len(s)
  PROVE  /\ SubSeq(s, n + 1, Len(s)) \in Seq(Byte)
         /\ Len(SubSeq(s, n + 1, Len(s))) = Len(s) - n
         /\ \A i \in 1..(Len(s) - n) : SubSeq(s, n + 1, Len(s))[i] = s[n + i]
<1> DEFINE a == n + 1
           z == Len(s)
<1>1. \A i \in a..z : s[i] \in Byte
  BY ElementOfSeq
<1>2. z \in Nat
  BY LenProperties
<1>3. a \in Int /\ z \in Int
  BY <1>2
<1>4. /\ SubSeq(s, a, z) \in Seq(Byte)
      /\ Len(SubSeq(s, a, z)) = IF a <= z THEN z - a + 1 ELSE 0
      /\ \A i \in 1..(z - a + 1) : SubSeq(s, a, z)[i] = s[a + i - 1]
  <2> HIDE DEF a, z
  <2> QED BY <1>1, <1>3, SubSeqProperties
<1> QED BY <1>2, <1>4

\* A C string is the bytes of a piece up to its first Nul.
LEMMA TextIs ==
  ASSUME NEW s \in Seq(Byte), NEW n \in 1..Len(s)
  PROVE  \E m \in 0..n : /\ Text(SubSeq(s, 1, n)) = SubSeq(s, 1, m)
                         /\ m < n => s[m + 1] = Nul
<1> DEFINE ends(p) == {i \in DOMAIN p : p[i] = Nul}
<1>1. PICK p : p = SubSeq(s, 1, n)
  OBVIOUS
<1>2. p \in Seq(Byte) /\ Len(p) = n /\ \A i \in 1..n : p[i] = s[i]
  BY <1>1, FirstBytes, n \in 0..Len(s)
<1>3. DOMAIN p = 1..n
  BY <1>2, LenProperties
<1>4. CASE ends(p) = {}
  <2>1. Text(p) = p
    BY <1>4, Zenon DEF Text
  <2> QED BY <1>1, <2>1, n \in 0..n
<1>5. CASE ends(p) # {}
  <2>1. ends(p) \subseteq Nat
    BY <1>3
  <2>2. Min(ends(p)) \in ends(p)
    BY <1>5, <2>1, MinOf
  <2>3. PICK m : m = Min(ends(p)) - 1
    OBVIOUS
  <2>4. m \in 0..(n - 1) /\ s[m + 1] = Nul
    BY <1>2, <1>3, <2>2, <2>3
  <2>5. Text(p) = SubSeq(p, 1, m)
    BY <1>5, <2>3, Zenon DEF Text
  <2>6. /\ SubSeq(p, 1, m) \in Seq(Byte) /\ Len(SubSeq(p, 1, m)) = m
        /\ \A i \in 1..m : SubSeq(p, 1, m)[i] = p[i]
    BY <1>2, <2>4, FirstBytes
  <2>7. /\ SubSeq(s, 1, m) \in Seq(Byte) /\ Len(SubSeq(s, 1, m)) = m
        /\ \A i \in 1..m : SubSeq(s, 1, m)[i] = s[i]
    BY <2>4, FirstBytes
  <2>8. SubSeq(p, 1, m) = SubSeq(s, 1, m)
    BY <1>2, <2>4, <2>6, <2>7, SeqEqual
  <2> QED BY <1>1, <2>4, <2>5, <2>8
<1> QED BY <1>4, <1>5

\* Each $ in the text starts read_data anew, and the other bytes are added to it.
LEMMA CollectedIs ==
  ASSUME NEW data \in Seq(Byte), NEW text \in Seq(Byte)
  PROVE  \/ /\ \A i \in DOMAIN text : text[i] # Dollar
            /\ Collected(data, text) = data \o text
         \/ \E p \in DOMAIN text :
              /\ text[p] = Dollar /\ \A i \in DOMAIN text : i > p => text[i] # Dollar
              /\ Collected(data, text) = SubSeq(text, p, Len(text))
<1> DEFINE heads == {i \in DOMAIN text : text[i] = Dollar}
<1>1. Len(text) \in Nat /\ DOMAIN text = 1..Len(text)
  BY LenProperties
<1>2. CASE heads = {}
  BY <1>2, Zenon DEF Collected
<1>3. CASE heads # {}
  <2>1. heads \subseteq 1..Len(text)
    BY <1>1
  <2>2. Max(heads) \in heads /\ \A x \in heads : x <= Max(heads)
    BY <1>1, <1>3, <2>1, MaxOf
  <2>3. Collected(data, text) = SubSeq(text, Max(heads), Len(text))
    BY <1>3, Zenon DEF Collected
  <2>4. PICK p : p = Max(heads)
    OBVIOUS
  <2>5. p \in DOMAIN text /\ text[p] = Dollar /\ \A x \in heads : x <= p
    BY <2>2, <2>4
  <2>6. \A i \in DOMAIN text : i > p => text[i] # Dollar
    BY <1>1, <2>5
  <2> QED BY <2>3, <2>4, <2>5, <2>6
<1> QED BY <1>2, <1>3

\* How long read_data is: by the whole text longer, or what follows the last $ of it.
HasLength(all, data, text) ==
  /\ all \in Seq(Byte)
  /\ \/ /\ \A i \in 1..Len(text) : text[i] # Dollar
        /\ Len(all) = Len(data) + Len(text)
     \/ \E p \in 1..Len(text) :
          /\ \A i \in (p + 1)..Len(text) : text[i] # Dollar
          /\ Len(all) = Len(text) - p + 1

LEMMA CollectedLength ==
  ASSUME NEW data \in Seq(Byte), NEW text \in Seq(Byte)
  PROVE  HasLength(Collected(data, text), data, text)
<1>0. PICK all : all = Collected(data, text)
  OBVIOUS
<1>1. Len(text) \in Nat /\ DOMAIN text = 1..Len(text) /\ Len(data) \in Nat
  BY LenProperties
<1>2. CASE all = data \o text /\ \A i \in DOMAIN text : text[i] # Dollar
  <2>1. data \o text \in Seq(Byte) /\ Len(data \o text) = Len(data) + Len(text)
    BY ConcatProperties
  <2>2. /\ \A i \in 1..Len(text) : text[i] # Dollar
        /\ Len(all) = Len(data) + Len(text)
    BY <1>1, <1>2, <2>1
  <2> QED BY <1>0, <1>2, <2>1, <2>2, Zenon DEF HasLength
<1>3. CASE \E p \in DOMAIN text :
              /\ text[p] = Dollar /\ \A i \in DOMAIN text : i > p => text[i] # Dollar
              /\ all = SubSeq(text, p, Len(text))
  <2>1. PICK p \in DOMAIN text :
              /\ text[p] = Dollar /\ \A i \in DOMAIN text : i > p => text[i] # Dollar
              /\ all = SubSeq(text, p, Len(text))
    BY <1>3
  <2>2. p \in 1..Len(text) /\ p - 1 \in 0..Len(text) /\ p - 1 + 1 = p
    BY <1>1, <2>1
  <2>3. /\ SubSeq(text, p, Len(text)) \in Seq(Byte)
        /\ Len(SubSeq(text, p, Len(text))) = Len(text) - (p - 1)
    BY <2>2, LastBytes
  <2>4. all \in Seq(Byte) /\ Len(all) = Len(text) - p + 1
    BY <1>1, <2>1, <2>2, <2>3
  <2>5. \A i \in (p + 1)..Len(text) : text[i] # Dollar
    <3> TAKE i \in (p + 1)..Len(text)
    <3>1. i \in DOMAIN text /\ i > p
      BY <1>1, <2>2
    <3> QED BY <2>1, <3>1, Zenon
  <2> QED BY <1>0, <2>2, <2>4, <2>5, Zenon DEF HasLength
<1> QED BY <1>0, <1>2, <1>3, CollectedIs

-----------------------------------------------------------------------------
(* A command *)

IsFrame(f, body) ==
  /\ f \in Seq(Byte) /\ Len(body) \in Nat /\ Len(body) <= Longest
  /\ Len(f) = Len(body) + 2
  /\ f[1] = Dollar /\ f[Len(body) + 2] = Hash
  /\ \A i \in 2..(Len(body) + 1) : f[i] \in Letters /\ f[i] = body[i - 1]

LEMMA FrameIs ==
  ASSUME NEW body \in Known \cup Unknown
  PROVE  IsFrame(Frame(body), body)
<1>1. body \in Seq(Letters) /\ Len(body) \in Nat /\ Len(body) <= Longest
  BY BodyIs
<1>2. \A i \in 1..Len(body) : body[i] \in Letters
  BY <1>1, ElementOfSeq
<1>3. body \in Seq(Byte)
  <2>1. Letters \subseteq Byte
    BY DEF Byte
  <2> QED BY <1>1, <2>1
<1>4. PICK one, end : one = <<Dollar>> /\ end = <<Hash>>
  OBVIOUS
<1>5. /\ one \in Seq(Byte) /\ Len(one) = 1 /\ one[1] = Dollar
      /\ end \in Seq(Byte) /\ Len(end) = 1 /\ end[1] = Hash
  BY <1>4 DEF Byte
<1>6. PICK all : all = one \o body
  OBVIOUS
<1>7. /\ all \in Seq(Byte) /\ Len(all) = Len(body) + 1
      /\ \A i \in 1..(Len(body) + 1) : all[i] = IF i <= 1 THEN one[i] ELSE body[i - 1]
  <2>1. /\ all \in Seq(Byte) /\ Len(all) = Len(one) + Len(body)
        /\ \A i \in 1..(Len(one) + Len(body)) :
             all[i] = IF i <= Len(one) THEN one[i] ELSE body[i - Len(one)]
    BY <1>3, <1>5, <1>6, ConcatProperties
  <2>2. Len(one) = 1 /\ Len(body) \in Nat /\ 1 + Len(body) = Len(body) + 1
    BY <1>1, <1>5
  <2> QED BY <2>1, <2>2
<1>8. PICK f : f = all \o end
  OBVIOUS
<1>9. /\ f \in Seq(Byte) /\ Len(f) = Len(body) + 2
      /\ \A i \in 1..(Len(body) + 2) :
           f[i] = IF i <= Len(body) + 1 THEN all[i] ELSE end[i - (Len(body) + 1)]
  <2>1. /\ f \in Seq(Byte) /\ Len(f) = Len(all) + Len(end)
        /\ \A i \in 1..(Len(all) + Len(end)) :
             f[i] = IF i <= Len(all) THEN all[i] ELSE end[i - Len(all)]
    BY <1>5, <1>7, <1>8, ConcatProperties
  <2>2. Len(all) = Len(body) + 1 /\ Len(end) = 1 /\ Len(all) + Len(end) = Len(body) + 2
    BY <1>1, <1>5, <1>7
  <2> QED BY <2>1, <2>2
<1>10. f[1] = Dollar
  BY <1>1, <1>5, <1>7, <1>9
<1>11. f[Len(body) + 2] = Hash
  BY <1>1, <1>5, <1>9
<1>12. \A i \in 2..(Len(body) + 1) : f[i] \in Letters /\ f[i] = body[i - 1]
  <2> TAKE i \in 2..(Len(body) + 1)
  <2>1. i - 1 \in 1..Len(body) /\ i \in 1..(Len(body) + 1) /\ i \in 1..(Len(body) + 2) /\ ~(i <= 1)
        /\ i <= Len(body) + 1
    BY <1>1
  <2> QED BY <1>2, <1>7, <1>9, <2>1
<1>13. Frame(body) = f
  BY <1>4, <1>6, <1>8 DEF Frame
<1> QED BY <1>1, <1>9, <1>10, <1>11, <1>12, <1>13 DEF IsFrame

\* What a byte of a command may be, by its place.
LEMMA FrameBytes ==
  ASSUME NEW body \in Known \cup Unknown, NEW f, IsFrame(f, body)
  PROVE  /\ \A i \in 1..(Len(body) + 2) : f[i] # Nul
         /\ \A i \in 2..(Len(body) + 2) : f[i] # Dollar
         /\ \A i \in 1..(Len(body) + 1) : f[i] # Hash
<1>1. /\ Len(body) \in Nat /\ f[1] = Dollar /\ f[Len(body) + 2] = Hash
      /\ \A i \in 2..(Len(body) + 1) : f[i] \in Letters
  BY DEF IsFrame
<1>2. /\ Dollar # Hash /\ Nul # Dollar /\ Nul # Hash
      /\ \A b \in Letters : b # Dollar /\ b # Hash /\ b # Nul
  BY BytesDiffer
<1>3. \A i \in 1..(Len(body) + 2) : i = 1 \/ i = Len(body) + 2 \/ i \in 2..(Len(body) + 1)
  BY <1>1
<1>4. \A i \in 1..(Len(body) + 2) : f[i] # Nul
  BY <1>1, <1>2, <1>3
<1>5. \A i \in 2..(Len(body) + 2) : i = Len(body) + 2 \/ i \in 2..(Len(body) + 1)
  BY <1>1
<1>6. \A i \in 1..(Len(body) + 1) : i = 1 \/ i \in 2..(Len(body) + 1)
  BY <1>1
<1> QED BY <1>1, <1>2, <1>4, <1>5, <1>6

\* A command is known by its bytes.
LEMMA SameFrame ==
  ASSUME NEW a \in Known \cup Unknown, NEW b \in Known \cup Unknown, Frame(a) = Frame(b)
  PROVE  a = b
<1>1. PICK f : f = Frame(a)
  OBVIOUS
<1>2. IsFrame(f, a) /\ IsFrame(f, b)
  BY <1>1, FrameIs
<1>3. Len(a) \in Nat /\ Len(b) \in Nat /\ Len(f) = Len(a) + 2 /\ Len(f) = Len(b) + 2
  BY <1>2 DEF IsFrame
<1>4. \A i \in 1..Len(a) : a[i] = b[i]
  <2> TAKE i \in 1..Len(a)
  <2>1. i + 1 \in 2..(Len(a) + 1) /\ i + 1 \in 2..(Len(b) + 1) /\ i + 1 - 1 = i
    BY <1>3
  <2>2. f[i + 1] = a[i + 1 - 1] /\ f[i + 1] = b[i + 1 - 1]
    BY <1>2, <2>1 DEF IsFrame
  <2> QED BY <2>1, <2>2
<1>5. a \in Seq(Letters) /\ b \in Seq(Letters) /\ Len(a) = Len(b)
  BY <1>3, BodyIs
<1> QED BY <1>4, <1>5, SeqEqual

\* The line with a command after it.
WithCommand(all, bytes, body) ==
  /\ all \in Seq(Byte) /\ Len(all) = Len(bytes) + Len(body) + 2
  /\ \A i \in 1..Len(bytes) : all[i] = bytes[i]
  /\ \A i \in 1..(Len(body) + 2) : all[Len(bytes) + i] = Frame(body)[i]

LEMMA SentBytes ==
  ASSUME NEW bytes \in Seq(Byte), NEW body \in Known \cup Unknown
  PROVE  WithCommand(bytes \o Frame(body), bytes, body)
<1>1. PICK f : f = Frame(body)
  OBVIOUS
<1>2. f \in Seq(Byte) /\ Len(f) = Len(body) + 2 /\ Len(body) \in Nat
  <2>1. IsFrame(f, body)
    BY <1>1, FrameIs
  <2> QED BY <2>1 DEF IsFrame
<1>3. PICK all : all = bytes \o f
  OBVIOUS
<1>4. Len(bytes) \in Nat
  BY LenProperties
<1>5. /\ all \in Seq(Byte) /\ Len(all) = Len(bytes) + Len(f)
      /\ \A i \in 1..(Len(bytes) + Len(f)) :
           all[i] = IF i <= Len(bytes) THEN bytes[i] ELSE f[i - Len(bytes)]
  BY <1>2, <1>3, ConcatProperties
<1>6. Len(all) = Len(bytes) + Len(body) + 2
  BY <1>2, <1>4, <1>5
<1>7. \A i \in 1..Len(bytes) : all[i] = bytes[i]
  BY <1>2, <1>4, <1>5
<1>8. \A i \in 1..(Len(body) + 2) : all[Len(bytes) + i] = f[i]
  <2> TAKE i \in 1..(Len(body) + 2)
  <2>1. PICK j : j = Len(bytes) + i
    OBVIOUS
  <2>2. j \in 1..(Len(bytes) + Len(f)) /\ ~(j <= Len(bytes)) /\ j - Len(bytes) = i
    BY <1>2, <1>4, <2>1
  <2> QED BY <1>5, <2>1, <2>2
<1> QED BY <1>1, <1>3, <1>5, <1>6, <1>7, <1>8 DEF WithCommand

-----------------------------------------------------------------------------
(* How long read_data gets *)

\* A line that leaves room for d bytes of read_data: when the first i of its bytes have come,
\* read_data may be room[i] long, full at its end.  Between two places with no $ there is as
\* much more room as there are bytes; and a Nul leaves room for a command behind it whose $
\* it hides, and for what read_data held before it, wherever the piece ends.
IsRoom(room, d, bytes, full) ==
  /\ room \in [0..Len(bytes) -> Nat] /\ room[Len(bytes)] = full /\ d <= room[0]
  /\ \A i \in 0..Len(bytes) : 1 <= room[i] /\ room[i] <= full
  /\ \A i, j \in 0..Len(bytes) :
       i <= j /\ (\A k \in (i + 1)..j : bytes[k] # Dollar) => room[i] + (j - i) <= room[j]
  /\ \A i \in 1..Len(bytes) :
       bytes[i] = Nul => /\ room[i - 1] + (Longest + 1) <= full
                         /\ \A k \in i..Len(bytes) : room[i - 1] <= room[k]

RoomFor(d, bytes, full) == \E room : IsRoom(room, d, bytes, full)

LEMMA LongestIs == Longest \in Nat
BY UartAssumption DEF UartAssumption

LEMMA RoomWhenEmpty ==
  ASSUME NEW d \in Nat, NEW full \in Nat, d <= full, 1 <= full, NEW none, none = <<>>
  PROVE  RoomFor(d, none, full)
<1>1. Len(none) = 0
  BY EmptySeq
<1>2. PICK room : room = [i \in 0..0 |-> full]
  OBVIOUS
<1>3. room \in [0..Len(none) -> Nat] /\ room[0] = full
  BY <1>1, <1>2
<1>4. \A i \in 0..Len(none) : i = 0
  BY <1>1
<1>5. \A i \in 1..Len(none) : FALSE
  BY <1>1
<1>6. /\ room[Len(none)] = full /\ d <= room[0]
      /\ \A i \in 0..Len(none) : 1 <= room[i] /\ room[i] <= full
      /\ \A i, j \in 0..Len(none) : room[i] + (j - i) <= room[j]
  BY <1>1, <1>3, <1>4
<1> QED BY <1>3, <1>5, <1>6 DEF RoomFor, IsRoom

\* There is room for what read_data becomes when the first m bytes are added.
LEMMA CollectedFits ==
  ASSUME NEW data \in Seq(Byte), NEW bytes \in Seq(Byte), NEW full \in Nat, NEW room,
         IsRoom(room, Len(data), bytes, full), NEW m \in 0..Len(bytes)
  PROVE  /\ Collected(data, SubSeq(bytes, 1, m)) \in Seq(Byte)
         /\ Len(Collected(data, SubSeq(bytes, 1, m))) \in Nat
         /\ Len(Collected(data, SubSeq(bytes, 1, m))) <= room[m]
<1>1. Len(bytes) \in Nat /\ Len(data) \in Nat
  BY LenProperties
<1>2. PICK text : text = SubSeq(bytes, 1, m)
  OBVIOUS
<1>3. text \in Seq(Byte) /\ Len(text) = m /\ \A i \in 1..m : text[i] = bytes[i]
  BY <1>2, FirstBytes
<1>4. PICK all : all = Collected(data, text)
  OBVIOUS
<1>5. /\ all \in Seq(Byte)
      /\ \/ /\ \A i \in 1..m : text[i] # Dollar
            /\ Len(all) = Len(data) + m
         \/ \E p \in 1..m :
              /\ \A i \in (p + 1)..m : text[i] # Dollar
              /\ Len(all) = m - p + 1
  <2>1. HasLength(all, data, text)
    BY <1>3, <1>4, CollectedLength
  <2> QED BY <1>3, <2>1 DEF HasLength
<1>6. /\ room \in [0..Len(bytes) -> Nat] /\ Len(data) <= room[0]
      /\ \A i \in 0..Len(bytes) : 1 <= room[i]
      /\ \A i, j \in 0..Len(bytes) :
           i <= j /\ (\A k \in (i + 1)..j : bytes[k] # Dollar) => room[i] + (j - i) <= room[j]
  BY DEF IsRoom
<1>7. room[m] \in Nat /\ room[0] \in Nat /\ m \in Nat /\ 0 \in 0..Len(bytes)
  BY <1>1, <1>6
<1>8. CASE (\A i \in 1..m : text[i] # Dollar) /\ Len(all) = Len(data) + m
  <2>1. PICK z : z = 0
    OBVIOUS
  <2>2. z \in 0..Len(bytes) /\ z <= m
    BY <1>7, <2>1
  <2>3. \A i \in (z + 1)..m : bytes[i] # Dollar
    BY <1>3, <1>8, <2>1
  <2>4. room[z] + (m - z) <= room[m]
    BY <1>6, <2>2, <2>3
  <2>5. Len(all) <= room[m]
    BY <1>1, <1>6, <1>7, <1>8, <2>1, <2>4
  <2> QED BY <1>2, <1>4, <1>5, <2>5, LenProperties
<1>9. CASE \E p \in 1..m :
              /\ \A i \in (p + 1)..m : text[i] # Dollar
              /\ Len(all) = m - p + 1
  <2>1. PICK p \in 1..m : /\ \A i \in (p + 1)..m : text[i] # Dollar
                          /\ Len(all) = m - p + 1
    BY <1>9
  <2>2. p \in 0..Len(bytes) /\ p <= m /\ p \in Nat
    BY <1>1, <1>7
  <2>3. \A i \in (p + 1)..m : bytes[i] # Dollar
    <3> TAKE i \in (p + 1)..m
    <3>1. i \in 1..m
      BY <2>2
    <3> QED BY <1>3, <2>1, <3>1
  <2>4. room[p] + (m - p) <= room[m]
    BY <1>6, <2>2, <2>3
  <2>5. room[p] \in Nat /\ 1 <= room[p]
    BY <1>6, <2>2
  <2>6. Len(all) <= room[m]
    BY <1>7, <2>1, <2>2, <2>4, <2>5
  <2> QED BY <1>2, <1>4, <1>5, <2>6, LenProperties
<1> QED BY <1>5, <1>8, <1>9

\* Some of the line is read.
LEMMA RoomWhenRead ==
  ASSUME NEW data \in Seq(Byte), NEW bytes \in Seq(Byte), NEW full \in Nat,
         NEW n \in 1..Len(bytes), RoomFor(Len(data), bytes, full)
  PROVE  RoomFor(Len(Collected(data, Text(SubSeq(bytes, 1, n)))),
                 SubSeq(bytes, n + 1, Len(bytes)), full)
<1>1. Len(bytes) \in Nat /\ Len(data) \in Nat /\ n \in Nat
  BY LenProperties
<1>2. PICK room : IsRoom(room, Len(data), bytes, full)
  BY DEF RoomFor
<1>3. /\ room \in [0..Len(bytes) -> Nat] /\ room[Len(bytes)] = full
      /\ \A i \in 0..Len(bytes) : 1 <= room[i] /\ room[i] <= full
      /\ \A i, j \in 0..Len(bytes) :
           i <= j /\ (\A k \in (i + 1)..j : bytes[k] # Dollar) => room[i] + (j - i) <= room[j]
      /\ \A i \in 1..Len(bytes) :
           bytes[i] = Nul => /\ room[i - 1] + (Longest + 1) <= full
                             /\ \A k \in i..Len(bytes) : room[i - 1] <= room[k]
  BY <1>2 DEF IsRoom
<1>4. PICK m \in 0..n : /\ Text(SubSeq(bytes, 1, n)) = SubSeq(bytes, 1, m)
                        /\ m < n => bytes[m + 1] = Nul
  BY TextIs
<1>5. PICK d : d = Len(Collected(data, SubSeq(bytes, 1, m)))
  OBVIOUS
<1>6. m \in 0..Len(bytes) /\ m \in Nat
  BY <1>1, <1>4
<1>7. d \in Nat /\ d <= room[m] /\ room[m] \in Nat /\ room[n] \in Nat
  <2>1. d \in Nat /\ d <= room[m]
    BY <1>2, <1>5, <1>6, CollectedFits
  <2>2. n \in 0..Len(bytes)
    BY <1>1
  <2>3. room[m] \in Nat /\ room[n] \in Nat
    BY <1>3, <1>6, <2>2
  <2> QED BY <2>1, <2>3
<1>8. d <= room[n]
  <2>1. CASE m = n
    BY <1>7, <2>1
  <2>2. CASE m < n
    <3>1. PICK i : i = m + 1
      OBVIOUS
    <3>2. i \in 1..Len(bytes) /\ bytes[i] = Nul /\ i - 1 = m /\ n \in i..Len(bytes)
      BY <1>1, <1>4, <1>6, <2>2, <3>1
    <3>3. room[i - 1] <= room[n]
      BY <1>3, <3>2
    <3> QED BY <1>7, <3>2, <3>3
  <2> QED BY <1>1, <1>4, <1>6, <2>1, <2>2
<1>9. PICK rest : rest = SubSeq(bytes, n + 1, Len(bytes))
  OBVIOUS
<1>10. /\ Len(rest) = Len(bytes) - n /\ Len(rest) \in Nat
       /\ \A i \in 1..Len(rest) : rest[i] = bytes[n + i]
  BY <1>1, <1>9, LastBytes, n \in 0..Len(bytes)
<1>11. PICK room2 : room2 = [i \in 0..Len(rest) |-> room[n + i]]
  OBVIOUS
<1>12. \A i \in 0..Len(rest) : n + i \in 0..Len(bytes) /\ room2[i] = room[n + i]
  BY <1>1, <1>10, <1>11
<1>13. room2 \in [0..Len(rest) -> Nat]
  BY <1>3, <1>11, <1>12
<1>14. room2[Len(rest)] = full /\ d <= room2[0]
  <2>1. Len(rest) \in 0..Len(rest) /\ 0 \in 0..Len(rest) /\ n + Len(rest) = Len(bytes) /\ n + 0 = n
    BY <1>1, <1>10
  <2> QED BY <1>3, <1>8, <1>12, <2>1
<1>15. \A i \in 0..Len(rest) : 1 <= room2[i] /\ room2[i] <= full
  BY <1>3, <1>12
<1>16. \A i, j \in 0..Len(rest) :
         i <= j /\ (\A k \in (i + 1)..j : rest[k] # Dollar) => room2[i] + (j - i) <= room2[j]
  <2> SUFFICES ASSUME NEW i \in 0..Len(rest), NEW j \in 0..Len(rest), i <= j,
                      \A k \in (i + 1)..j : rest[k] # Dollar
               PROVE  room2[i] + (j - i) <= room2[j]
    OBVIOUS
  <2>1. PICK a, b : a = n + i /\ b = n + j
    OBVIOUS
  <2>2. a <= b /\ a \in 0..Len(bytes) /\ b \in 0..Len(bytes) /\ b - a = j - i
    BY <1>1, <1>12, <2>1
  <2>3. \A k \in (a + 1)..b : bytes[k] # Dollar
    <3> TAKE k \in (a + 1)..b
    <3>1. k - n \in (i + 1)..j /\ k - n \in 1..Len(rest) /\ n + (k - n) = k
      BY <1>1, <1>10, <2>1
    <3>2. rest[k - n] # Dollar
      BY <3>1
    <3> QED BY <1>10, <3>1, <3>2
  <2>4. room[a] + (b - a) <= room[b]
    BY <1>3, <2>2, <2>3
  <2>5. room2[i] = room[a] /\ room2[j] = room[b]
    BY <1>12, <2>1
  <2> QED BY <2>2, <2>4, <2>5
<1>17. \A i \in 1..Len(rest) :
         rest[i] = Nul => /\ room2[i - 1] + (Longest + 1) <= full
                          /\ \A k \in i..Len(rest) : room2[i - 1] <= room2[k]
  <2> SUFFICES ASSUME NEW i \in 1..Len(rest), rest[i] = Nul
               PROVE  /\ room2[i - 1] + (Longest + 1) <= full
                      /\ \A k \in i..Len(rest) : room2[i - 1] <= room2[k]
    OBVIOUS
  <2>1. PICK a : a = n + i
    OBVIOUS
  <2>2. /\ a \in 1..Len(bytes) /\ bytes[a] = Nul /\ i - 1 \in 0..Len(rest) /\ n + (i - 1) = a - 1
    BY <1>1, <1>10, <2>1
  <2>3. room2[i - 1] = room[a - 1]
    <3>1. room2[i - 1] = room[n + (i - 1)]
      BY <1>12, <2>2
    <3> QED BY <2>2, <3>1
  <2>4. /\ room[a - 1] + (Longest + 1) <= full
        /\ \A k \in a..Len(bytes) : room[a - 1] <= room[k]
    BY <1>3, <2>2
  <2>5. \A k \in i..Len(rest) : room2[i - 1] <= room2[k]
    <3> TAKE k \in i..Len(rest)
    <3>1. k \in 0..Len(rest) /\ n + k \in a..Len(bytes)
      BY <1>1, <1>10, <2>1
    <3>2. room[a - 1] <= room[n + k] /\ room2[k] = room[n + k]
      BY <1>12, <2>4, <3>1
    <3> QED BY <2>3, <3>2
  <2> QED BY <2>3, <2>4, <2>5
<1>18. RoomFor(d, rest, full)
  BY <1>13, <1>14, <1>15, <1>16, <1>17 DEF RoomFor, IsRoom
<1> QED BY <1>4, <1>5, <1>9, <1>18


\* A command is sent: its $ starts read_data anew.
LEMMA RoomWhenSent ==
  ASSUME NEW d \in Nat, NEW bytes \in Seq(Byte), NEW full \in Nat, NEW body \in Known \cup Unknown,
         RoomFor(d, bytes, full), Longest + 2 <= full
  PROVE  RoomFor(d, bytes \o Frame(body), full)
<1>1. PICK K : K = Len(body)
  OBVIOUS
<1>2. PICK L : L = Len(bytes)
  OBVIOUS
<1>3. L \in Nat /\ K \in Nat /\ K <= Longest /\ Longest \in Nat
  BY <1>1, <1>2, LenProperties, BodyIs, LongestIs
<1>4. PICK all : all = bytes \o Frame(body)
  OBVIOUS
<1>5. PICK f : f = Frame(body)
  OBVIOUS
<1>6. /\ Len(all) = L + K + 2
      /\ \A i \in 1..L : all[i] = bytes[i]
      /\ \A i \in 1..(K + 2) : all[L + i] = f[i]
  <2>1. WithCommand(all, bytes, body)
    BY <1>4, SentBytes
  <2> QED BY <1>1, <1>2, <1>5, <2>1 DEF WithCommand
<1>7. all[L + 1] = Dollar /\ \A i \in (L + 1)..(L + K + 2) : all[i] # Nul
  <2>1. IsFrame(f, body)
    BY <1>5, FrameIs
  <2>2. f[1] = Dollar /\ \A i \in 1..(K + 2) : f[i] # Nul
    BY <1>1, <2>1, FrameBytes DEF IsFrame
  <2>3. 1 \in 1..(K + 2) /\ all[L + 1] = f[1]
    BY <1>3, <1>6
  <2>4. \A i \in (L + 1)..(L + K + 2) : all[i] # Nul
    <3> TAKE i \in (L + 1)..(L + K + 2)
    <3>1. PICK j : j = i - L
      OBVIOUS
    <3>2. j \in 1..(K + 2) /\ L + j = i
      BY <1>3, <3>1
    <3> QED BY <1>6, <2>2, <3>2
  <2> QED BY <2>2, <2>3, <2>4
<1>8. PICK room : IsRoom(room, d, bytes, full)
  BY DEF RoomFor
<1>9. /\ room \in [0..L -> Nat] /\ room[L] = full /\ d <= room[0]
      /\ \A i \in 0..L : 1 <= room[i] /\ room[i] <= full
      /\ \A i, j \in 0..L :
           i <= j /\ (\A k \in (i + 1)..j : bytes[k] # Dollar) => room[i] + (j - i) <= room[j]
      /\ \A i \in 1..L :
           bytes[i] = Nul => /\ room[i - 1] + (Longest + 1) <= full
                             /\ \A k \in i..L : room[i - 1] <= room[k]
  BY <1>2, <1>8 DEF IsRoom
<1>10. PICK M : M = L + K + 2
  OBVIOUS
<1>11. PICK room2 : room2 = [i \in 0..M |-> IF i <= L THEN room[i] ELSE full - (M - i)]
  OBVIOUS
<1>12. M \in Nat /\ Len(all) = M
  BY <1>3, <1>6, <1>10
<1>13. \A i \in 0..L : i \in 0..M /\ room2[i] = room[i]
  BY <1>3, <1>10, <1>11
<1>14. \A i \in (L + 1)..M : i \in 0..M /\ room2[i] = full - (M - i)
  BY <1>3, <1>10, <1>11
<1>15. \A i \in (L + 1)..M : room2[i] \in Nat /\ 1 <= room2[i] /\ room2[i] <= full
                              /\ full <= room2[i] + (Longest + 1)
  BY <1>3, <1>10, <1>14
<1>16. \A i \in 0..M : i \in 0..L \/ i \in (L + 1)..M
  BY <1>3, <1>10
<1>17. room2 \in [0..M -> Nat]
  <2>1. \A i \in 0..M : room2[i] \in Nat
    BY <1>9, <1>13, <1>15, <1>16
  <2> QED BY <1>11, <2>1
<1>18. room2[M] = full /\ d <= room2[0]
  <2>1. M \in (L + 1)..M /\ 0 \in 0..L /\ M - M = 0
    BY <1>3, <1>10
  <2> QED BY <1>9, <1>13, <1>14, <2>1
<1>19. \A i \in 0..M : 1 <= room2[i] /\ room2[i] <= full
  BY <1>9, <1>13, <1>15, <1>16
<1>20. \A i, j \in 0..M :
         i <= j /\ (\A k \in (i + 1)..j : all[k] # Dollar) => room2[i] + (j - i) <= room2[j]
  <2> SUFFICES ASSUME NEW i \in 0..M, NEW j \in 0..M, i <= j,
                      \A k \in (i + 1)..j : all[k] # Dollar
               PROVE  room2[i] + (j - i) <= room2[j]
    OBVIOUS
  <2>1. CASE j \in 0..L
    <3>1. i \in 0..L
      BY <1>3, <2>1
    <3>2. \A k \in (i + 1)..j : bytes[k] # Dollar
      <4> TAKE k \in (i + 1)..j
      <4>1. k \in 1..L /\ all[k] # Dollar
        BY <1>3, <2>1, <3>1
      <4> QED BY <1>6, <4>1
    <3>3. room[i] + (j - i) <= room[j]
      BY <1>9, <2>1, <3>1, <3>2
    <3> QED BY <1>13, <2>1, <3>1, <3>3
  <2>2. CASE j \in (L + 1)..M /\ i \in (L + 1)..M
    <3>1. room2[i] = full - (M - i) /\ room2[j] = full - (M - j)
      BY <1>14, <2>2
    <3> QED BY <1>3, <1>12, <2>2, <3>1
  <2>3. CASE j \in (L + 1)..M /\ i \in 0..L
    <3>1. L + 1 \in (i + 1)..j
      BY <1>3, <2>3
    <3> QED BY <1>7, <3>1
  <2> QED BY <1>16, <2>1, <2>2, <2>3
<1>21. \A i \in 1..M :
         all[i] = Nul => /\ room2[i - 1] + (Longest + 1) <= full
                         /\ \A k \in i..M : room2[i - 1] <= room2[k]
  <2> SUFFICES ASSUME NEW i \in 1..M, all[i] = Nul
               PROVE  /\ room2[i - 1] + (Longest + 1) <= full
                      /\ \A k \in i..M : room2[i - 1] <= room2[k]
    OBVIOUS
  <2>1. i \in 1..L /\ i - 1 \in 0..L /\ bytes[i] = Nul
    BY <1>3, <1>6, <1>7, <1>10
  <2>2. /\ room[i - 1] + (Longest + 1) <= full
        /\ \A k \in i..L : room[i - 1] <= room[k]
    BY <1>9, <2>1
  <2>3. room2[i - 1] = room[i - 1] /\ room[i - 1] \in Nat
    BY <1>9, <1>13, <2>1
  <2>4. \A k \in i..M : room2[i - 1] <= room2[k]
    <3> TAKE k \in i..M
    <3>1. CASE k \in i..L
      <4>1. k \in 0..L
        BY <2>1, <3>1
      <4> QED BY <1>13, <2>2, <2>3, <3>1, <4>1
    <3>2. CASE k \in (L + 1)..M
      <4>1. full <= room2[k] + (Longest + 1) /\ room2[k] \in Nat
        BY <1>15, <3>2
      <4> QED BY <1>3, <2>2, <2>3, <4>1
    <3>3. k \in i..L \/ k \in (L + 1)..M
      BY <1>3, <1>12
    <3> QED BY <3>1, <3>2, <3>3
  <2> QED BY <2>2, <2>3, <2>4
<1>22. RoomFor(d, all, full)
  BY <1>12, <1>17, <1>18, <1>19, <1>20, <1>21 DEF RoomFor, IsRoom
<1> QED BY <1>4, <1>22

\* A byte of noise is added, with room for it and a command behind it.
LEMMA RoomWhenNoise ==
  ASSUME NEW d \in Nat, NEW bytes \in Seq(Byte), NEW full \in Nat, NEW b \in Byte,
         RoomFor(d, bytes, full)
  PROVE  RoomFor(d, Append(bytes, b), full + (Longest + 1))
<1>1. PICK L : L = Len(bytes)
  OBVIOUS
<1>2. PICK M : M = L + 1
  OBVIOUS
<1>3. L \in Nat /\ M \in Nat /\ Longest \in Nat
  BY <1>1, <1>2, LenProperties, LongestIs
<1>4. PICK all : all = Append(bytes, b)
  OBVIOUS
<1>5. Len(all) = M /\ \A i \in 1..L : all[i] = bytes[i]
  BY <1>1, <1>2, <1>4, AppendProperties
<1>6. PICK room : IsRoom(room, d, bytes, full)
  BY DEF RoomFor
<1>7. /\ room \in [0..L -> Nat] /\ room[L] = full /\ d <= room[0]
      /\ \A i \in 0..L : 1 <= room[i] /\ room[i] <= full
      /\ \A i, j \in 0..L :
           i <= j /\ (\A k \in (i + 1)..j : bytes[k] # Dollar) => room[i] + (j - i) <= room[j]
      /\ \A i \in 1..L :
           bytes[i] = Nul => /\ room[i - 1] + (Longest + 1) <= full
                             /\ \A k \in i..L : room[i - 1] <= room[k]
  BY <1>1, <1>6 DEF IsRoom
<1>8. PICK top : top = full + (Longest + 1)
  OBVIOUS
<1>9. top \in Nat /\ 1 <= top /\ full <= top /\ full + 1 <= top
  BY <1>3, <1>8
<1>10. PICK room2 : room2 = [i \in 0..M |-> IF i <= L THEN room[i] ELSE top]
  OBVIOUS
<1>11. (\A i \in 0..L : i \in 0..M /\ room2[i] = room[i]) /\ M \in 0..M /\ room2[M] = top
  BY <1>2, <1>3, <1>10
<1>12. \A i \in 0..M : i \in 0..L \/ i = M
  BY <1>2, <1>3
<1>13. \A i \in 0..M : room2[i] \in Nat /\ 1 <= room2[i] /\ room2[i] <= top
  <2> TAKE i \in 0..M
  <2>1. CASE i \in 0..L
    <3>1. room[i] \in Nat /\ 1 <= room[i] /\ room[i] <= full
      BY <1>7, <2>1
    <3> QED BY <1>9, <1>11, <2>1, <3>1
  <2>2. CASE i = M
    BY <1>9, <1>11, <2>2
  <2> QED BY <1>12, <2>1, <2>2
<1>14. room2 \in [0..M -> Nat]
  BY <1>10, <1>13
<1>15. d <= room2[0]
  <2>1. 0 \in 0..L
    BY <1>3
  <2> QED BY <1>7, <1>11, <2>1
<1>16. \A i, j \in 0..M :
         i <= j /\ (\A k \in (i + 1)..j : all[k] # Dollar) => room2[i] + (j - i) <= room2[j]
  <2> SUFFICES ASSUME NEW i \in 0..M, NEW j \in 0..M, i <= j,
                      \A k \in (i + 1)..j : all[k] # Dollar
               PROVE  room2[i] + (j - i) <= room2[j]
    OBVIOUS
  <2>1. ASSUME NEW e \in 0..L, i <= e, e <= j PROVE room[i] + (e - i) <= room[e] /\ i \in 0..L
    <3>1. i \in 0..L
      BY <1>3, <2>1
    <3>2. \A k \in (i + 1)..e : bytes[k] # Dollar
      <4> TAKE k \in (i + 1)..e
      <4>1. k \in 1..L /\ k \in (i + 1)..j
        BY <1>3, <2>1, <3>1
      <4> QED BY <1>5, <4>1
    <3> QED BY <1>7, <2>1, <3>1, <3>2
  <2>2. CASE j \in 0..L
    <3>1. room[i] + (j - i) <= room[j] /\ i \in 0..L
      BY <2>1, <2>2
    <3> QED BY <1>11, <2>2, <3>1
  <2>3. CASE j = M /\ i \in 0..L
    <3>1. L \in 0..L /\ i <= L /\ L <= j
      BY <1>2, <1>3, <2>3
    <3>2. room[i] + (L - i) <= room[L]
      BY <2>1, <3>1
    <3>3. room[i] \in Nat
      BY <1>7, <2>3
    <3> QED BY <1>2, <1>3, <1>7, <1>9, <1>11, <2>3, <3>2, <3>3
  <2>4. CASE j = M /\ i = M
    BY <1>9, <1>11, <2>4
  <2> QED BY <1>12, <2>2, <2>3, <2>4
<1>17. \A i \in 1..M :
         all[i] = Nul => /\ room2[i - 1] + (Longest + 1) <= top
                         /\ \A k \in i..M : room2[i - 1] <= room2[k]
  <2> SUFFICES ASSUME NEW i \in 1..M, all[i] = Nul
               PROVE  /\ room2[i - 1] + (Longest + 1) <= top
                      /\ \A k \in i..M : room2[i - 1] <= room2[k]
    OBVIOUS
  <2>1. i - 1 \in 0..L
    BY <1>2, <1>3
  <2>2. room2[i - 1] = room[i - 1] /\ room[i - 1] \in Nat /\ room[i - 1] <= full
    BY <1>7, <1>11, <2>1
  <2>3. room2[i - 1] + (Longest + 1) <= top
    BY <1>3, <1>8, <2>2
  <2>4. \A k \in i..M : room2[i - 1] <= room2[k]
    <3> TAKE k \in i..M
    <3>1. CASE k = M
      BY <1>9, <1>11, <2>2, <3>1
    <3>2. CASE k # M
      <4>1. i \in 1..L /\ k \in i..L /\ k \in 0..L
        BY <1>2, <1>3, <3>2
      <4>2. bytes[i] = Nul
        BY <1>5, <4>1
      <4>3. room[i - 1] <= room[k]
        BY <1>7, <4>1, <4>2
      <4> QED BY <1>11, <2>2, <4>1, <4>3
    <3> QED BY <3>1, <3>2
  <2> QED BY <2>3, <2>4
<1>18. RoomFor(d, all, top)
  BY <1>5, <1>11, <1>13, <1>14, <1>15, <1>16, <1>17 DEF RoomFor, IsRoom
<1> QED BY <1>4, <1>8, <1>18

-----------------------------------------------------------------------------
(* The types *)

LEMMA TypesInit == Init => TypeOK
<1> SUFFICES ASSUME Init PROVE TypeOK
  OBVIOUS
<1>1. \A S : <<>> \in Seq(S) /\ Len(<<>>) = 0
  BY EmptySeq
<1>2. /\ read_data = <<>> /\ read_report = <<>> /\ fd_uart1 = "none" /\ pc = "open"
      /\ line = <<>> /\ up = TRUE /\ patient \in BOOLEAN
      /\ asked = <<>> /\ answers = <<>> /\ frames = 0 /\ noise = <<>>
  BY DEF Init
<1>3. 0 \in 0..MaxFrames /\ 0 <= MaxNoise
  BY UartAssumption DEF UartAssumption
<1>4. read_data \in Seq(Byte) /\ read_report \in Seq(Byte) /\ line \in Seq(Byte)
  BY <1>1, <1>2
<1>5. asked \in Seq(Known) /\ answers \in Seq(Known) /\ noise \in Seq(Noise) /\ Len(noise) <= MaxNoise
  BY <1>1, <1>2, <1>3
<1> QED BY <1>2, <1>3, <1>4, <1>5 DEF TypeOK

LEMMA TypesStep == TypeOK /\ [Next]_vars => TypeOK'
<1> SUFFICES ASSUME TypeOK, [Next]_vars PROVE TypeOK'
  OBVIOUS
<1>1. CASE UART0_Open
  BY <1>1 DEF TypeOK, UART0_Open, device
<1>2. CASE uart1_sub
  BY <1>2 DEF TypeOK, uart1_sub, device
<1>3. CASE get_complete_frame
  <2>1. PICK n \in 1..Len(line) :
          LET text == Text(SubSeq(line, 1, n))
          IN /\ n <= Size + 1 /\ Fits(read_data, text)
             /\ read_data' = Collected(read_data, text)
             /\ line' = SubSeq(line, n + 1, Len(line))
             /\ IF Again(text) THEN UNCHANGED pc ELSE pc' = "execute"
             /\ IF Contains(text, Hash)
                  THEN read_report' = Collected(read_data, SubSeq(text, 1, Reported(text)))
                  ELSE UNCHANGED read_report
    BY <1>3, Zenon DEF get_complete_frame
  <2>2. PICK text : text = Text(SubSeq(line, 1, n))
    OBVIOUS
  <2>3. line \in Seq(Byte) /\ read_data \in Seq(Byte) /\ Len(line) \in Nat
    BY LenProperties DEF TypeOK
  <2>4. PICK m \in 0..n : text = SubSeq(line, 1, m)
    BY <2>2, <2>3, TextIs
  <2>5. text \in Seq(Byte) /\ Len(text) = m
    <3>1. m \in 0..Len(line)
      BY <2>3, <2>4
    <3>2. SubSeq(line, 1, m) \in Seq(Byte) /\ Len(SubSeq(line, 1, m)) = m
      BY <2>3, <3>1, FirstBytes
    <3> QED BY <2>4, <3>2
  <2>6. read_data' \in Seq(Byte)
    <3>1. HasLength(Collected(read_data, text), read_data, text)
      BY <2>3, <2>5, CollectedLength
    <3> QED BY <2>1, <2>2, <3>1 DEF HasLength
  <2>7. line' \in Seq(Byte)
    <3>1. n \in 0..Len(line)
      BY <2>3
    <3> QED BY <2>1, <2>3, <3>1, LastBytes
  <2>8. read_report' \in Seq(Byte)
    <3>1. CASE Contains(text, Hash)
      <4>1. PICK ends : ends = {i \in DOMAIN text : text[i] = Hash}
        OBVIOUS
      <4>2. Len(text) \in Nat /\ DOMAIN text = 1..Len(text)
        BY <2>5, LenProperties
      <4>3. ends # {} /\ ends \subseteq 1..Len(text)
        BY <3>1, <4>1, <4>2 DEF Contains
      <4>4. Max(ends) \in ends
        BY <4>2, <4>3, MaxOf
      <4>5. PICK h : h = Reported(text)
        OBVIOUS
      <4>6. h \in 0..Len(text)
        BY <4>1, <4>2, <4>3, <4>4, <4>5 DEF Reported
      <4>7. SubSeq(text, 1, h) \in Seq(Byte)
        BY <2>5, <4>6, FirstBytes
      <4>8. HasLength(Collected(read_data, SubSeq(text, 1, h)), read_data, SubSeq(text, 1, h))
        BY <2>3, <4>7, CollectedLength
      <4> QED BY <2>1, <2>2, <3>1, <4>5, <4>8 DEF HasLength
    <3>2. CASE ~Contains(text, Hash)
      BY <2>1, <2>2, <3>2 DEF TypeOK
    <3> QED BY <3>1, <3>2
  <2>9. pc' \in {"read", "execute"}
    BY <1>3, <2>1, <2>2 DEF get_complete_frame
  <2>10. UNCHANGED <<fd_uart1, patient, asked, frames, up, answers, noise>>
    BY <1>3 DEF get_complete_frame, device
  <2> QED BY <2>6, <2>7, <2>8, <2>9, <2>10 DEF TypeOK
<1>4. CASE readFails
  BY <1>4 DEF TypeOK, readFails, device
<1>5. CASE uart_1_Main
  <2>1. UNCHANGED <<read_data, read_report, fd_uart1, patient, asked, frames, line, up, noise>>
        /\ pc' = "read"
    BY <1>5 DEF uart_1_Main, device
  <2>2. answers' \in Seq(Known)
    <3>1. CASE up /\ Body(read_report) # {}
      <4>1. PICK body \in Body(read_report) : answers' = Append(answers, body)
        BY <1>5, <3>1 DEF uart_1_Main
      <4>2. body \in Known
        BY DEF Body
      <4>3. answers \in Seq(Known)
        BY DEF TypeOK
      <4> QED BY <4>1, <4>2, <4>3, AppendProperties
    <3>2. CASE ~(up /\ Body(read_report) # {})
      BY <1>5, <3>2 DEF uart_1_Main, TypeOK
    <3> QED BY <3>1, <3>2
  <2> QED BY <2>1, <2>2 DEF TypeOK
<1>6. ASSUME NEW body \in Known \cup Unknown, deviceSends(body) PROVE TypeOK'
  <2>1. line' \in Seq(Byte)
    <3>1. WithCommand(line \o Frame(body), line, body)
      BY SentBytes DEF TypeOK
    <3> QED BY <1>6, <3>1 DEF deviceSends, WithCommand
  <2>2. asked' \in Seq(Known)
    BY <1>6, AppendProperties DEF deviceSends, TypeOK
  <2>3. frames' \in 0..MaxFrames
    BY <1>6, UartAssumption DEF deviceSends, TypeOK, UartAssumption
  <2>4. UNCHANGED <<read_data, read_report, fd_uart1, pc, patient, up, answers, noise>>
    BY <1>6 DEF deviceSends, port
  <2> QED BY <2>1, <2>2, <2>3, <2>4 DEF TypeOK
<1>7. CASE lineAdds
  <2>1. PICK b \in Noise : line' = Append(line, b) /\ noise' = Append(noise, b)
    BY <1>7 DEF lineAdds
  <2>2. line' \in Seq(Byte)
    <3>1. b \in Byte /\ line \in Seq(Byte)
      BY BytesDiffer DEF Byte, TypeOK
    <3> QED BY <2>1, <3>1, AppendProperties
  <2>3. noise' \in Seq(Noise) /\ Len(noise') = Len(noise) + 1 /\ Len(noise) \in Nat
    <3>1. noise \in Seq(Noise)
      BY DEF TypeOK
    <3> QED BY <2>1, <3>1, AppendProperties, LenProperties
  <2>4. Len(noise') <= MaxNoise
    BY <1>7, <2>3, UartAssumption DEF lineAdds, UartAssumption
  <2>5. UNCHANGED <<read_data, read_report, fd_uart1, pc, patient, asked, frames, up, answers>>
    BY <1>7 DEF lineAdds, port, device
  <2> QED BY <2>2, <2>3, <2>4, <2>5 DEF TypeOK
<1>8. CASE hangsUp
  <2>1. line' \in Seq(Byte)
    BY <1>8, EmptySeq DEF hangsUp
  <2> QED BY <1>8, <2>1 DEF hangsUp, TypeOK, port, device
<1>9. CASE UNCHANGED vars
  BY <1>9 DEF TypeOK, vars, port, device
<1>10. CASE runsOver
  BY <1>10 DEF TypeOK, runsOver, device
<1> QED BY <1>1, <1>2, <1>3, <1>4, <1>5, <1>6, <1>7, <1>8, <1>9, <1>10 DEF Next, main

\* Every variable keeps its type: read_data, the report and the line are made of bytes, and
\* only known commands are answered (uart_1_app.c:42-125).
THEOREM TypesKept == Spec => []TypeOK
<1>1. Init => TypeOK
  BY TypesInit
<1>2. TypeOK /\ [Next]_vars => TypeOK'
  BY TypesStep
<1> QED BY <1>1, <1>2, PTL DEF Spec

-----------------------------------------------------------------------------
(* The buffers *)

Room == RoomFor(Len(read_data), line, Load(Len(noise)))

LEMMA LoadIs ==
  ASSUME NEW n \in Nat
  PROVE  Load(n) \in Nat /\ Longest + 2 <= Load(n) /\ Load(n + 1) = Load(n) + (Longest + 1)
<1>1. PICK step : step = Longest + 1
  OBVIOUS
<1>2. step \in Nat /\ Longest \in Nat
  BY <1>1, LongestIs
<1>3. n * step \in Nat /\ (n + 1) * step = n * step + step
  BY <1>2
<1> QED BY <1>1, <1>2, <1>3 DEF Load

LEMMA RoomInit == Init => Room
<1> SUFFICES ASSUME Init PROVE Room
  OBVIOUS
<1>1. read_data = <<>> /\ line = <<>> /\ noise = <<>>
  BY DEF Init
<1>2. Len(read_data) = 0 /\ Len(noise) = 0
  BY <1>1, EmptySeq
<1>3. PICK full : full = Load(Len(noise))
  OBVIOUS
<1>4. full \in Nat /\ Longest + 2 <= full /\ Longest \in Nat
  BY <1>2, <1>3, LoadIs, LongestIs
<1>5. full \in Nat /\ 1 <= full /\ 0 <= full
  BY <1>4
<1>6. RoomFor(Len(read_data), line, full)
  BY <1>1, <1>2, <1>5, RoomWhenEmpty
<1> QED BY <1>3, <1>6 DEF Room

LEMMA RoomStep == TypeOK /\ Room /\ [Next]_vars => Room'
<1> SUFFICES ASSUME TypeOK, Room, [Next]_vars PROVE Room'
  OBVIOUS
<1>1. /\ read_data \in Seq(Byte) /\ line \in Seq(Byte) /\ noise \in Seq(Noise)
      /\ Len(read_data) \in Nat /\ Len(line) \in Nat /\ Len(noise) \in Nat
  BY LenProperties DEF TypeOK
<1>2. PICK full : full = Load(Len(noise))
  OBVIOUS
<1>3. /\ full \in Nat /\ Longest + 2 <= full /\ Longest \in Nat
      /\ Load(Len(noise) + 1) = full + (Longest + 1)
  BY <1>1, <1>2, LoadIs, LongestIs
<1>4. RoomFor(Len(read_data), line, full)
  BY <1>2 DEF Room
<1>5. CASE get_complete_frame
  <2>1. PICK n \in 1..Len(line) :
          /\ read_data' = Collected(read_data, Text(SubSeq(line, 1, n)))
          /\ line' = SubSeq(line, n + 1, Len(line))
    BY <1>5 DEF get_complete_frame
  <2>2. RoomFor(Len(Collected(read_data, Text(SubSeq(line, 1, n)))),
                SubSeq(line, n + 1, Len(line)), full)
    BY <1>1, <1>3, <1>4, RoomWhenRead
  <2>3. noise' = noise
    BY <1>5 DEF get_complete_frame
  <2> QED BY <1>2, <2>1, <2>2, <2>3 DEF Room
<1>6. ASSUME NEW body \in Known \cup Unknown, deviceSends(body) PROVE Room'
  <2>1. RoomFor(Len(read_data), line \o Frame(body), full)
    BY <1>1, <1>3, <1>4, RoomWhenSent
  <2>2. line' = line \o Frame(body) /\ read_data' = read_data /\ noise' = noise
    BY <1>6 DEF deviceSends, port
  <2> QED BY <1>2, <2>1, <2>2 DEF Room
<1>7. CASE lineAdds
  <2>1. PICK b \in Noise : line' = Append(line, b) /\ noise' = Append(noise, b)
    BY <1>7 DEF lineAdds
  <2>2. b \in Byte
    BY BytesDiffer DEF Byte
  <2>3. Len(noise') = Len(noise) + 1
    BY <1>1, <2>1, AppendProperties
  <2>4. RoomFor(Len(read_data), Append(line, b), full + (Longest + 1))
    BY <1>1, <1>3, <1>4, <2>2, RoomWhenNoise
  <2>5. read_data' = read_data
    BY <1>7 DEF lineAdds, port
  <2> QED BY <1>3, <2>1, <2>3, <2>4, <2>5 DEF Room
<1>8. CASE hangsUp
  <2>1. PICK room : IsRoom(room, Len(read_data), line, full)
    BY <1>4 DEF RoomFor
  <2>2. /\ Len(read_data) <= room[0] /\ room[0] \in Nat /\ room[0] <= full
    <3>1. 0 \in 0..Len(line)
      BY <1>1
    <3> QED BY <2>1, <3>1 DEF IsRoom
  <2>3. Len(read_data) <= full /\ 1 <= full
    BY <1>1, <1>3, <2>2
  <2>4. line' = <<>> /\ read_data' = read_data /\ noise' = noise
    BY <1>8 DEF hangsUp, port
  <2>5. RoomFor(Len(read_data), line', full)
    BY <1>1, <1>3, <2>3, <2>4, RoomWhenEmpty
  <2> QED BY <1>2, <2>4, <2>5 DEF Room
<1>9. CASE UART0_Open \/ uart1_sub \/ runsOver \/ readFails \/ uart_1_Main \/ UNCHANGED vars
  <2>1. UNCHANGED <<read_data, line, noise>>
    BY <1>9 DEF UART0_Open, uart1_sub, runsOver, readFails, uart_1_Main, vars, port
  <2> QED BY <1>2, <1>4, <2>1 DEF Room
<1> QED BY <1>5, <1>6, <1>7, <1>8, <1>9 DEF Next, main

\* A read goes beyond a buffer only if more bytes wait than fit, or after much noise.
LEMMA OverrunStep ==
  TypeOK /\ Room /\ [Next]_vars =>
    [pc # "overrun" /\ pc' = "overrun" => Len(line) > Size \/ Load(Len(noise)) > Size]_vars
<1> SUFFICES ASSUME TypeOK, Room, [Next]_vars, pc # "overrun", pc' = "overrun"
             PROVE  Len(line) > Size \/ Load(Len(noise)) > Size
  BY Zenon
<1>1. /\ read_data \in Seq(Byte) /\ line \in Seq(Byte) /\ Len(line) \in Nat
      /\ Len(noise) \in Nat /\ Size \in Nat
  BY UartAssumption, LenProperties DEF TypeOK, UartAssumption
<1>2. runsOver
  <2>1. ~get_complete_frame
    BY DEF get_complete_frame
  <2>2. \A body \in Known \cup Unknown : ~deviceSends(body)
    BY DEF deviceSends, port
  <2>3. ~(lineAdds \/ hangsUp \/ UNCHANGED vars)
    BY DEF lineAdds, hangsUp, port, vars
  <2>4. ~(UART0_Open \/ uart1_sub \/ readFails \/ uart_1_Main)
    BY DEF UART0_Open, uart1_sub, readFails, uart_1_Main
  <2> QED BY <2>1, <2>2, <2>3, <2>4 DEF Next, main
<1>3. PICK n \in 1..Len(line) :
        Unended(SubSeq(line, 1, n)) \/ ~Fits(read_data, Text(SubSeq(line, 1, n)))
  BY <1>2 DEF runsOver
<1>4. CASE Unended(SubSeq(line, 1, n))
  <2>1. n \in 0..Len(line)
    BY <1>1
  <2>2. Len(SubSeq(line, 1, n)) = n
    BY <1>1, <2>1, FirstBytes
  <2> QED BY <1>1, <1>4, <2>1, <2>2 DEF Unended
<1>5. CASE ~Fits(read_data, Text(SubSeq(line, 1, n)))
  <2>1. PICK m \in 0..n : Text(SubSeq(line, 1, n)) = SubSeq(line, 1, m)
    BY <1>1, TextIs
  <2>2. PICK text : text = SubSeq(line, 1, m)
    OBVIOUS
  <2>3. m \in 0..Len(line) /\ m \in Nat
    BY <1>1
  <2>4. text \in Seq(Byte) /\ Len(text) = m /\ \A i \in 1..m : text[i] = line[i]
    BY <1>1, <2>2, <2>3, FirstBytes
  <2>5. PICK i \in DOMAIN text : ~(Len(Collected(read_data, SubSeq(text, 1, i))) <= Size)
    BY <1>5, <2>1, <2>2, Zenon DEF Fits
  <2>6. i \in 1..m /\ i \in 0..Len(text) /\ i \in 0..Len(line)
    <3>1. DOMAIN text = 1..m
      BY <2>4, LenProperties
    <3> QED BY <1>1, <2>3, <2>4, <2>5, <3>1
  <2>7. SubSeq(text, 1, i) = SubSeq(line, 1, i)
    <3>1. PICK a, b : a = SubSeq(text, 1, i) /\ b = SubSeq(line, 1, i)
      OBVIOUS
    <3>2. a \in Seq(Byte) /\ Len(a) = i /\ \A j \in 1..i : a[j] = text[j]
      BY <2>4, <2>6, <3>1, FirstBytes
    <3>3. b \in Seq(Byte) /\ Len(b) = i /\ \A j \in 1..i : b[j] = line[j]
      BY <1>1, <2>6, <3>1, FirstBytes
    <3>4. \A j \in 1..i : a[j] = b[j]
      BY <2>3, <2>4, <2>6, <3>2, <3>3
    <3> QED BY <3>1, <3>2, <3>3, <3>4, SeqEqual
  <2>8. PICK room : IsRoom(room, Len(read_data), line, Load(Len(noise)))
    BY DEF Room, RoomFor
  <2>9. PICK x : x = Len(Collected(read_data, SubSeq(line, 1, i)))
    OBVIOUS
  <2>10. Load(Len(noise)) \in Nat
    BY <1>1, LoadIs
  <2>11. x \in Nat /\ x <= room[i]
    BY <1>1, <2>6, <2>8, <2>9, <2>10, CollectedFits
  <2>12. room[i] \in Nat /\ room[i] <= Load(Len(noise))
    BY <2>6, <2>8 DEF IsRoom
  <2>13. ~(x <= Size)
    BY <2>5, <2>7, <2>9
  <2>14. PICK full : full = Load(Len(noise))
    OBVIOUS
  <2>15. full > Size
    BY <1>1, <2>10, <2>11, <2>12, <2>13, <2>14
  <2> QED BY <2>14, <2>15
<1> QED BY <1>3, <1>4, <1>5

\* However often read_data is filled and however the commands are cut, a read goes beyond a
\* buffer only when more bytes wait than fit or the line added too many for it: a $
\* clears read_data, and what a Nul hides is at most a command (uart_1_app.c:42-81).
THEOREM BuffersWereHeld == Spec => BuffersHold
<1>1. Init => TypeOK /\ Room
  BY TypesInit, RoomInit
<1>2. (TypeOK /\ Room) /\ [Next]_vars => (TypeOK /\ Room)'
  BY TypesStep, RoomStep
<1>3. (TypeOK /\ Room) /\ [Next]_vars =>
        [pc # "overrun" /\ pc' = "overrun" => Len(line) > Size \/ Load(Len(noise)) > Size]_vars
  BY OverrunStep
<1> QED BY <1>1, <1>2, <1>3, PTL DEF Spec, BuffersHold

-----------------------------------------------------------------------------
(* The commands in read_data and on the line *)

\* A command: $ at its beginning, # at its end, and neither of them or a Nul in it.
IsShape(f) ==
  /\ f \in Seq(Byte) /\ Len(f) \in Nat /\ 2 <= Len(f)
  /\ f[1] = Dollar /\ f[Len(f)] = Hash
  /\ \A i \in 1..Len(f) : f[i] # Nul
  /\ \A i \in 2..Len(f) : f[i] # Dollar
  /\ \A i \in 1..(Len(f) - 1) : f[i] # Hash

LEMMA ShapeIs ==
  ASSUME NEW body \in Known \cup Unknown
  PROVE  IsShape(Frame(body))
<1>1. PICK f : f = Frame(body)
  OBVIOUS
<1>2. IsFrame(f, body)
  BY <1>1, FrameIs
<1>3. /\ f \in Seq(Byte) /\ Len(body) \in Nat /\ Len(f) = Len(body) + 2
      /\ f[1] = Dollar /\ f[Len(body) + 2] = Hash
  BY <1>2 DEF IsFrame
<1>4. /\ \A i \in 1..(Len(body) + 2) : f[i] # Nul
      /\ \A i \in 2..(Len(body) + 2) : f[i] # Dollar
      /\ \A i \in 1..(Len(body) + 1) : f[i] # Hash
  BY <1>2, FrameBytes
<1>5. Len(f) - 1 = Len(body) + 1 /\ Len(f) \in Nat /\ 2 <= Len(f)
  BY <1>3
<1> QED BY <1>1, <1>3, <1>4, <1>5 DEF IsShape

\* No $ among these bytes.
NoHead(bytes, i, j) == \A k \in i..j : bytes[k] # Dollar

\* What read_data is after the first m bytes, byte by byte.
IsCollected(all, data, bytes, m) ==
  /\ all \in Seq(Byte)
  /\ \/ /\ NoHead(bytes, 1, m)
        /\ Len(all) = Len(data) + m
        /\ \A i \in 1..Len(data) : all[i] = data[i]
        /\ \A i \in 1..m : all[Len(data) + i] = bytes[i]
     \/ \E p \in 1..m :
          /\ bytes[p] = Dollar /\ NoHead(bytes, p + 1, m)
          /\ Len(all) = m - p + 1
          /\ \A i \in p..m : all[i - p + 1] = bytes[i]

LEMMA CollectedBytes ==
  ASSUME NEW data \in Seq(Byte), NEW bytes \in Seq(Byte), NEW m \in 0..Len(bytes)
  PROVE  IsCollected(Collected(data, SubSeq(bytes, 1, m)), data, bytes, m)
<1>1. Len(bytes) \in Nat /\ Len(data) \in Nat /\ m \in Nat
  BY LenProperties
<1>2. PICK text : text = SubSeq(bytes, 1, m)
  OBVIOUS
<1>3. text \in Seq(Byte) /\ Len(text) = m /\ \A i \in 1..m : text[i] = bytes[i]
  BY <1>2, FirstBytes
<1>4. PICK all : all = Collected(data, text)
  OBVIOUS
<1>5. DOMAIN text = 1..m
  BY <1>3, LenProperties
<1>6. CASE all = data \o text /\ \A i \in DOMAIN text : text[i] # Dollar
  <2>1. /\ data \o text \in Seq(Byte) /\ Len(data \o text) = Len(data) + Len(text)
        /\ \A i \in 1..(Len(data) + Len(text)) :
             (data \o text)[i] = IF i <= Len(data) THEN data[i] ELSE text[i - Len(data)]
    BY <1>3, ConcatProperties
  <2>2. /\ all \in Seq(Byte) /\ Len(all) = Len(data) + m
        /\ \A i \in 1..(Len(data) + m) :
             all[i] = IF i <= Len(data) THEN data[i] ELSE text[i - Len(data)]
    BY <1>3, <1>6, <2>1
  <2>3. NoHead(bytes, 1, m)
    BY <1>3, <1>5, <1>6 DEF NoHead
  <2>4. \A i \in 1..Len(data) : all[i] = data[i]
    BY <1>1, <2>2
  <2>5. \A i \in 1..m : all[Len(data) + i] = bytes[i]
    <3> TAKE i \in 1..m
    <3>1. PICK j : j = Len(data) + i
      OBVIOUS
    <3>2. j \in 1..(Len(data) + m) /\ ~(j <= Len(data)) /\ j - Len(data) = i
      BY <1>1, <3>1
    <3> QED BY <1>3, <2>2, <3>1, <3>2
  <2> QED BY <1>2, <1>4, <2>2, <2>3, <2>4, <2>5 DEF IsCollected
<1>7. CASE \E p \in DOMAIN text :
              /\ text[p] = Dollar /\ \A i \in DOMAIN text : i > p => text[i] # Dollar
              /\ all = SubSeq(text, p, Len(text))
  <2>1. PICK p \in DOMAIN text :
              /\ text[p] = Dollar /\ \A i \in DOMAIN text : i > p => text[i] # Dollar
              /\ all = SubSeq(text, p, Len(text))
    BY <1>7
  <2>2. PICK q : q = p - 1
    OBVIOUS
  <2>3. p \in 1..m /\ q \in 0..Len(text) /\ q + 1 = p /\ q \in Nat
    BY <1>1, <1>3, <1>5, <2>2
  <2>4. /\ all \in Seq(Byte) /\ Len(all) = m - q
        /\ \A i \in 1..(m - q) : all[i] = text[q + i]
    <3>1. /\ SubSeq(text, q + 1, Len(text)) \in Seq(Byte)
          /\ Len(SubSeq(text, q + 1, Len(text))) = Len(text) - q
          /\ \A i \in 1..(Len(text) - q) : SubSeq(text, q + 1, Len(text))[i] = text[q + i]
      BY <1>3, <2>3, LastBytes
    <3>2. all = SubSeq(text, q + 1, Len(text)) /\ Len(text) = m
      BY <1>3, <2>1, <2>3
    <3> QED BY <3>1, <3>2
  <2>5. NoHead(bytes, p + 1, m)
    <3>1. \A i \in (p + 1)..m : bytes[i] # Dollar
      <4> TAKE i \in (p + 1)..m
      <4>1. i \in 1..m /\ i > p
        BY <1>1, <2>3
      <4> QED BY <1>3, <1>5, <2>1, <4>1
    <3> QED BY <3>1 DEF NoHead
  <2>6. \A i \in p..m : all[i - p + 1] = bytes[i]
    <3> TAKE i \in p..m
    <3>1. PICK j : j = i - p + 1
      OBVIOUS
    <3>2. p \in Nat /\ 1 <= p /\ i \in Nat /\ p <= i /\ i <= m /\ p = q + 1
      BY <1>1, <2>3
    <3>3. j = i - q
      BY <2>3, <3>1, <3>2
    <3>4. j \in 1..(m - q) /\ q + j = i /\ i \in 1..m
      BY <1>1, <2>3, <3>2, <3>3
    <3> QED BY <1>3, <2>4, <3>1, <3>4
  <2>7. bytes[p] = Dollar /\ Len(all) = m - p + 1
    BY <1>1, <1>3, <2>1, <2>3, <2>4
  <2> QED BY <1>2, <1>4, <2>3, <2>4, <2>5, <2>6, <2>7 DEF IsCollected
<1> QED BY <1>3, <1>4, <1>6, <1>7, CollectedIs

\* No command is made of these bytes and what follows them.
Spoiled(data) ==
  Len(data) = 0 \/ data[1] # Dollar \/ \E i \in 1..Len(data) : data[i] = Hash

\* No command is under way at the j-th byte: one has ended after the last $.
Between(data, bytes, j) ==
  \/ \E h \in 1..(j - 1) : bytes[h] = Hash /\ NoHead(bytes, h + 1, j - 1)
  \/ NoHead(bytes, 1, j - 1) /\ Spoiled(data)

\* The command f ends at the h-th byte; if some of it was read, read_data
\* holds just that, or what does not make a command of the rest.
Ends(data, bytes, h, f) ==
  \/ /\ Len(f) <= h
     /\ \A i \in 1..Len(f) : bytes[h - Len(f) + i] = f[i]
  \/ /\ NoHead(bytes, 1, h)
     /\ \/ Spoiled(data)
        \/ /\ Len(data) + h = Len(f)
           /\ \A i \in 1..Len(data) : data[i] = f[i]
           /\ \A i \in 1..h : bytes[i] = f[Len(data) + i]

LEMMA SpoiledAfter ==
  ASSUME NEW data \in Seq(Byte), NEW bytes \in Seq(Byte), NEW m \in 0..Len(bytes), NEW all,
         IsCollected(all, data, bytes, m), Between(data, bytes, m + 1)
  PROVE  Spoiled(all)
<1>1. Len(bytes) \in Nat /\ Len(data) \in Nat /\ m \in Nat /\ m + 1 - 1 = m
  BY LenProperties
<1>2. \/ \E h \in 1..m : bytes[h] = Hash /\ NoHead(bytes, h + 1, m)
      \/ NoHead(bytes, 1, m) /\ Spoiled(data)
  BY <1>1 DEF Between
<1>3. Dollar # Hash
  BY BytesDiffer
<1>4. CASE /\ NoHead(bytes, 1, m)
           /\ Len(all) = Len(data) + m
           /\ \A i \in 1..Len(data) : all[i] = data[i]
           /\ \A i \in 1..m : all[Len(data) + i] = bytes[i]
  <2>1. ASSUME NEW h \in 1..m, bytes[h] = Hash PROVE Spoiled(all)
    <3>1. Len(data) + h \in 1..Len(all) /\ all[Len(data) + h] = Hash
      BY <1>1, <1>4, <2>1
    <3> QED BY <3>1 DEF Spoiled
  <2>2. CASE Spoiled(data)
    <3>1. CASE Len(data) = 0 /\ m = 0
      BY <1>4, <3>1 DEF Spoiled
    <3>2. CASE Len(data) = 0 /\ m # 0
      <4>1. 1 \in 1..m
        BY <1>1, <3>2
      <4>2. all[Len(data) + 1] = bytes[1] /\ Len(data) + 1 = 1
        BY <1>4, <3>2, <4>1
      <4>3. bytes[1] # Dollar
        BY <1>4, <4>1 DEF NoHead
      <4> QED BY <4>2, <4>3 DEF Spoiled
    <3>3. CASE Len(data) # 0 /\ data[1] # Dollar
      <4>1. 1 \in 1..Len(data)
        BY <1>1, <3>3
      <4> QED BY <1>4, <3>3, <4>1 DEF Spoiled
    <3>4. CASE \E i \in 1..Len(data) : data[i] = Hash
      <4>1. PICK i \in 1..Len(data) : data[i] = Hash
        BY <3>4
      <4>2. i \in 1..Len(all) /\ all[i] = Hash
        BY <1>1, <1>4, <4>1
      <4> QED BY <4>2 DEF Spoiled
    <3> QED BY <2>2, <3>1, <3>2, <3>3, <3>4 DEF Spoiled
  <2> QED BY <1>2, <2>1, <2>2
<1>5. CASE \E p \in 1..m :
             /\ bytes[p] = Dollar /\ NoHead(bytes, p + 1, m)
             /\ Len(all) = m - p + 1
             /\ \A i \in p..m : all[i - p + 1] = bytes[i]
  <2>1. PICK p \in 1..m :
             /\ bytes[p] = Dollar /\ NoHead(bytes, p + 1, m)
             /\ Len(all) = m - p + 1
             /\ \A i \in p..m : all[i - p + 1] = bytes[i]
    BY <1>5
  <2>2. PICK h \in 1..m : bytes[h] = Hash /\ NoHead(bytes, h + 1, m)
    BY <1>2, <2>1 DEF NoHead
  <2>3. ~(p \in (h + 1)..m)
    BY <2>1, <2>2 DEF NoHead
  <2>4. p # h
    BY <1>3, <2>1, <2>2
  <2>5. h \in p..m /\ h - p + 1 \in 1..(m - p + 1)
    BY <1>1, <2>3, <2>4
  <2>6. all[h - p + 1] = Hash
    BY <2>1, <2>2, <2>5
  <2> QED BY <2>1, <2>5, <2>6 DEF Spoiled
<1> QED BY <1>4, <1>5 DEF IsCollected

\* A report that has the form of a command is the one whose # it ends with.
LEMMA ReportIs ==
  ASSUME NEW data \in Seq(Byte), NEW bytes \in Seq(Byte), NEW h \in 1..Len(bytes), NEW f, NEW g,
         IsCollected(g, data, bytes, h), Ends(data, bytes, h, f), IsShape(f), IsShape(g)
  PROVE  g = f
<1>1. Len(bytes) \in Nat /\ Len(data) \in Nat /\ h \in Nat /\ Len(f) \in Nat /\ Len(g) \in Nat
  BY LenProperties DEF IsShape
<1>2. /\ f \in Seq(Byte) /\ 2 <= Len(f) /\ f[1] = Dollar
      /\ \A i \in 2..Len(f) : f[i] # Dollar
  BY DEF IsShape
<1>3. /\ g \in Seq(Byte) /\ g[1] = Dollar /\ 2 <= Len(g)
      /\ \A i \in 1..(Len(g) - 1) : g[i] # Hash
  BY DEF IsShape
<1>4. CASE /\ Len(f) <= h
           /\ \A i \in 1..Len(f) : bytes[h - Len(f) + i] = f[i]
  <2>1. PICK s : s = h - Len(f) + 1
    OBVIOUS
  <2>2. s \in 1..h /\ h - Len(f) + 1 = s /\ 1 \in 1..Len(f)
    BY <1>1, <1>2, <1>4, <2>1
  <2>3. bytes[s] = Dollar
    BY <1>2, <1>4, <2>2
  <2>4. \A i \in (s + 1)..h : bytes[i] # Dollar
    <3> TAKE i \in (s + 1)..h
    <3>1. PICK j : j = i - (h - Len(f))
      OBVIOUS
    <3>2. j \in 2..Len(f) /\ j \in 1..Len(f) /\ h - Len(f) + j = i
      BY <1>1, <2>1, <2>2, <3>1
    <3> QED BY <1>2, <1>4, <3>2
  <2>5. PICK p \in 1..h :
          /\ bytes[p] = Dollar /\ NoHead(bytes, p + 1, h)
          /\ Len(g) = h - p + 1
          /\ \A i \in p..h : g[i - p + 1] = bytes[i]
    BY <2>2, <2>3 DEF IsCollected, NoHead
  <2>6. p = s
    <3>1. ~(p \in (s + 1)..h)
      BY <2>4, <2>5
    <3>2. ~(s \in (p + 1)..h)
      BY <2>3, <2>5 DEF NoHead
    <3> QED BY <1>1, <2>2, <3>1, <3>2
  <2>7. Len(g) = Len(f)
    BY <1>1, <2>1, <2>5, <2>6
  <2>8. \A i \in 1..Len(f) : g[i] = f[i]
    <3> TAKE i \in 1..Len(f)
    <3>1. PICK j : j = h - Len(f) + i
      OBVIOUS
    <3>2. j \in p..h /\ j - p + 1 = i
      BY <1>1, <2>1, <2>2, <2>6, <3>1
    <3>3. bytes[j] = f[i]
      BY <1>4, <3>1
    <3> QED BY <2>5, <3>2, <3>3
  <2> QED BY <1>2, <1>3, <2>7, <2>8, SeqEqual
<1>5. CASE /\ NoHead(bytes, 1, h)
           /\ \/ Spoiled(data)
              \/ /\ Len(data) + h = Len(f)
                 /\ \A i \in 1..Len(data) : data[i] = f[i]
                 /\ \A i \in 1..h : bytes[i] = f[Len(data) + i]
  <2>1. /\ Len(g) = Len(data) + h
        /\ \A i \in 1..Len(data) : g[i] = data[i]
        /\ \A i \in 1..h : g[Len(data) + i] = bytes[i]
    BY <1>5 DEF IsCollected, NoHead
  <2>2. ~Spoiled(data)
    <3>1. Len(data) # 0
      <4> SUFFICES ASSUME Len(data) = 0 PROVE FALSE
        OBVIOUS
      <4>1. 1 \in 1..h /\ Len(data) + 1 = 1
        BY <1>1
      <4>2. g[1] = bytes[1] /\ bytes[1] # Dollar
        BY <1>5, <2>1, <4>1 DEF NoHead
      <4> QED BY <1>3, <4>2
    <3>2. data[1] = Dollar
      <4>1. 1 \in 1..Len(data)
        BY <1>1, <3>1
      <4> QED BY <1>3, <2>1, <4>1
    <3>3. \A i \in 1..Len(data) : data[i] # Hash
      <4> TAKE i \in 1..Len(data)
      <4>1. i \in 1..(Len(g) - 1)
        BY <1>1, <2>1
      <4> QED BY <1>3, <2>1, <4>1
    <3> QED BY <3>1, <3>2, <3>3 DEF Spoiled
  <2>3. /\ Len(g) = Len(f)
        /\ \A i \in 1..Len(data) : data[i] = f[i]
        /\ \A i \in 1..h : bytes[i] = f[Len(data) + i]
    BY <1>5, <2>1, <2>2
  <2>4. \A i \in 1..Len(f) : g[i] = f[i]
    <3> TAKE i \in 1..Len(f)
    <3>1. CASE i \in 1..Len(data)
      BY <2>1, <2>3, <3>1
    <3>2. CASE ~(i \in 1..Len(data))
      <4>1. PICK j : j = i - Len(data)
        OBVIOUS
      <4>2. j \in 1..h /\ Len(data) + j = i
        BY <1>1, <2>1, <2>3, <3>2, <4>1
      <4>3. g[Len(data) + j] = bytes[j] /\ bytes[j] = f[Len(data) + j]
        BY <2>1, <2>3, <4>2
      <4> QED BY <4>2, <4>3
    <3> QED BY <3>1, <3>2
  <2> QED BY <1>2, <1>3, <2>3, <2>4, SeqEqual
<1> QED BY <1>4, <1>5 DEF Ends

\* A read leaves the end of a command that is still on the line what it was.
LEMMA EndsAfter ==
  ASSUME NEW data \in Seq(Byte), NEW bytes \in Seq(Byte), NEW n \in 1..Len(bytes), NEW m \in 0..n,
         m < n => bytes[m + 1] = Nul /\ Between(data, bytes, m + 1),
         NEW all, IsCollected(all, data, bytes, m), NEW h \in (n + 1)..Len(bytes),
         NEW f, IsShape(f), Ends(data, bytes, h, f),
         NEW rest, \A i \in 1..(Len(bytes) - n) : rest[i] = bytes[n + i]
  PROVE  Ends(all, rest, h - n, f)
<1>1. /\ Len(bytes) \in Nat /\ Len(data) \in Nat /\ h \in Nat /\ n \in Nat /\ m \in Nat
      /\ 1 <= n /\ m <= n /\ n < h /\ h <= Len(bytes)
  BY LenProperties
<1>2. PICK L : L = Len(f)
  OBVIOUS
<1>3. /\ L \in Nat /\ 2 <= L /\ f[1] = Dollar
      /\ \A i \in 1..L : f[i] # Nul
      /\ \A i \in 2..L : f[i] # Dollar
  BY <1>2 DEF IsShape
<1>4. PICK e : e = h - n
  OBVIOUS
<1>5. e \in Nat /\ 1 <= e /\ \A i \in 1..e : rest[i] = bytes[n + i]
  BY <1>1, <1>4
<1>6. CASE L <= h /\ \A i \in 1..L : bytes[h - L + i] = f[i]
  <2>1. PICK s : s = h - L + 1
    OBVIOUS
  <2>2. s \in 1..h /\ bytes[s] = Dollar
    <3>1. 1 \in 1..L /\ h - L + 1 = s /\ s \in 1..h
      BY <1>1, <1>3, <1>6, <2>1
    <3> QED BY <1>3, <1>6, <3>1
  <2>3. \A i \in s..h : bytes[i] # Nul
    <3> TAKE i \in s..h
    <3>1. PICK j : j = i - (h - L)
      OBVIOUS
    <3>2. j \in 1..L /\ h - L + j = i
      BY <1>1, <1>3, <2>1, <2>2, <3>1
    <3> QED BY <1>3, <1>6, <3>2
  <2>4. \A i \in (s + 1)..h : bytes[i] # Dollar
    <3> TAKE i \in (s + 1)..h
    <3>1. PICK j : j = i - (h - L)
      OBVIOUS
    <3>2. j \in 2..L /\ j \in 1..L /\ h - L + j = i
      BY <1>1, <1>3, <2>1, <2>2, <3>1
    <3> QED BY <1>3, <1>6, <3>2
  <2>5. CASE n < s
    <3>1. L <= e
      BY <1>1, <1>3, <1>4, <2>1, <2>2, <2>5
    <3>2. \A i \in 1..L : rest[e - L + i] = f[i]
      <4> TAKE i \in 1..L
      <4>1. PICK j : j = e - L + i
        OBVIOUS
      <4>2. j \in 1..e /\ n + j = h - L + i
        BY <1>1, <1>3, <1>4, <1>5, <3>1, <4>1
      <4> QED BY <1>5, <1>6, <4>1, <4>2
    <3> QED BY <1>2, <1>4, <3>1, <3>2 DEF Ends
  <2>6. CASE s <= n
    <3>1. NoHead(rest, 1, e)
      <4>1. \A k \in 1..e : rest[k] # Dollar
        <5> TAKE k \in 1..e
        <5>1. n + k \in (s + 1)..h
          BY <1>1, <1>4, <1>5, <2>2, <2>6
        <5> QED BY <1>5, <2>4, <5>1
      <4> QED BY <4>1 DEF NoHead
    <3>2. CASE m < n
      <4>1. Spoiled(all)
        BY <1>1, <3>2, SpoiledAfter, m \in 0..Len(bytes)
      <4> QED BY <1>4, <3>1, <4>1 DEF Ends
    <3>3. CASE m = n
      <4>1. s \in 1..m
        BY <1>1, <2>2, <2>6, <3>3
      <4>2. PICK p \in 1..m :
              /\ bytes[p] = Dollar /\ NoHead(bytes, p + 1, m)
              /\ Len(all) = m - p + 1
              /\ \A i \in p..m : all[i - p + 1] = bytes[i]
        BY <2>2, <4>1 DEF IsCollected, NoHead
      <4>3. p = s
        <5>1. ~(p \in (s + 1)..h)
          BY <2>4, <4>2
        <5>2. ~(s \in (p + 1)..m)
          BY <2>2, <4>2 DEF NoHead
        <5> QED BY <1>1, <4>1, <5>1, <5>2
      <4>4. Len(all) = m - s + 1 /\ Len(all) + e = L /\ Len(all) \in Nat
        BY <1>1, <1>3, <1>4, <2>1, <3>3, <4>1, <4>2, <4>3
      <4>5. \A i \in 1..Len(all) : all[i] = f[i]
        <5> TAKE i \in 1..Len(all)
        <5>1. PICK j : j = h - L + i
          OBVIOUS
        <5>2. j \in p..m /\ j - p + 1 = i /\ i \in 1..L
          BY <1>1, <1>3, <1>5, <2>1, <4>1, <4>3, <4>4, <5>1
        <5>3. bytes[j] = f[i]
          BY <1>6, <5>1, <5>2
        <5> QED BY <4>2, <5>2, <5>3
      <4>6. \A i \in 1..e : rest[i] = f[Len(all) + i]
        <5> TAKE i \in 1..e
        <5>1. PICK a : a = Len(all)
          OBVIOUS
        <5>2. a \in Nat /\ a + e = L /\ e \in Nat /\ n \in Nat /\ h = n + e
          BY <1>1, <1>4, <1>5, <4>4, <5>1
        <5>3. i \in Nat /\ 1 <= i /\ i <= e
          BY <5>2
        <5>4. a + i \in 1..L /\ h - L + (a + i) = n + i
          BY <5>2, <5>3
        <5>5. bytes[n + i] = f[a + i]
          BY <1>6, <5>4
        <5> QED BY <1>5, <5>1, <5>5
      <4> QED BY <1>2, <1>4, <3>1, <4>4, <4>5, <4>6 DEF Ends
    <3> QED BY <1>1, <3>2, <3>3
  <2> QED BY <1>1, <2>2, <2>5, <2>6
<1>7. CASE /\ NoHead(bytes, 1, h)
           /\ \/ Spoiled(data)
              \/ /\ Len(data) + h = L
                 /\ \A i \in 1..Len(data) : data[i] = f[i]
                 /\ \A i \in 1..h : bytes[i] = f[Len(data) + i]
  <2>1. NoHead(rest, 1, e) /\ NoHead(bytes, 1, m)
    <3>1. \A k \in 1..e : rest[k] # Dollar
      <4> TAKE k \in 1..e
      <4>1. n + k \in 1..h
        BY <1>1, <1>4, <1>5
      <4> QED BY <1>5, <1>7, <4>1 DEF NoHead
    <3>2. \A k \in 1..m : bytes[k] # Dollar
      <4> TAKE k \in 1..m
      <4>1. k \in 1..h
        BY <1>1
      <4> QED BY <1>7, <4>1 DEF NoHead
    <3> QED BY <3>1, <3>2 DEF NoHead
  <2>2. CASE m < n \/ Spoiled(data)
    <3>1. Between(data, bytes, m + 1)
      <4>1. m + 1 - 1 = m
        BY <1>1
      <4> QED BY <2>1, <2>2, <4>1 DEF Between
    <3>2. Spoiled(all)
      BY <1>1, <3>1, SpoiledAfter, m \in 0..Len(bytes)
    <3> QED BY <1>4, <2>1, <3>2 DEF Ends
  <2>3. CASE /\ m = n /\ Len(data) + h = L
             /\ \A i \in 1..Len(data) : data[i] = f[i]
             /\ \A i \in 1..h : bytes[i] = f[Len(data) + i]
    <3>1. /\ Len(all) = Len(data) + m
          /\ \A i \in 1..Len(data) : all[i] = data[i]
          /\ \A i \in 1..m : all[Len(data) + i] = bytes[i]
      BY <2>1 DEF IsCollected, NoHead
    <3>2. Len(all) + e = L /\ Len(all) \in Nat
      <4>1. Len(data) \in Nat /\ m \in Nat /\ n \in Nat /\ h \in Nat
        BY <1>1
      <4> QED BY <1>4, <2>3, <3>1, <4>1
    <3>3. \A i \in 1..Len(all) : all[i] = f[i]
      <4> TAKE i \in 1..Len(all)
      <4>1. CASE i \in 1..Len(data)
        BY <2>3, <3>1, <4>1
      <4>2. CASE ~(i \in 1..Len(data))
        <5>1. PICK j : j = i - Len(data)
          OBVIOUS
        <5>2. j \in 1..m /\ j \in 1..h /\ Len(data) + j = i
          BY <1>1, <3>1, <3>2, <4>2, <5>1
        <5>3. all[Len(data) + j] = bytes[j] /\ bytes[j] = f[Len(data) + j]
          BY <2>3, <3>1, <5>2
        <5> QED BY <5>2, <5>3
      <4> QED BY <4>1, <4>2
    <3>4. \A i \in 1..e : rest[i] = f[Len(all) + i]
      <4> TAKE i \in 1..e
      <4>1. PICK j : j = n + i
        OBVIOUS
      <4>2. j \in 1..h /\ Len(data) + j = Len(all) + i
        BY <1>1, <1>4, <1>5, <2>3, <3>1, <4>1
      <4>3. bytes[j] = f[Len(data) + j]
        BY <2>3, <4>2
      <4> QED BY <1>5, <4>1, <4>2, <4>3
    <3> QED BY <1>2, <1>4, <2>1, <3>2, <3>3, <3>4 DEF Ends
  <2> QED BY <1>1, <1>7, <2>2, <2>3
<1> QED BY <1>2, <1>6, <1>7 DEF Ends

\* Nor does it change where no command is under way.
LEMMA BetweenAfter ==
  ASSUME NEW data \in Seq(Byte), NEW bytes \in Seq(Byte), NEW n \in 1..Len(bytes), NEW m \in 0..n,
         m < n => bytes[m + 1] = Nul /\ Between(data, bytes, m + 1),
         NEW all, IsCollected(all, data, bytes, m), NEW j \in (n + 1)..(Len(bytes) + 1),
         Between(data, bytes, j),
         NEW rest, \A i \in 1..(Len(bytes) - n) : rest[i] = bytes[n + i]
  PROVE  Between(all, rest, j - n)
<1>1. /\ Len(bytes) \in Nat /\ Len(data) \in Nat /\ j \in Nat /\ n \in Nat /\ m \in Nat
      /\ 1 <= n /\ m <= n /\ n < j /\ j <= Len(bytes) + 1
  BY LenProperties
<1>2. PICK e : e = j - n
  OBVIOUS
<1>3. e \in Nat /\ 1 <= e /\ \A i \in 1..(e - 1) : rest[i] = bytes[n + i]
  BY <1>1, <1>2
<1>4. CASE \E h \in (n + 1)..(j - 1) : bytes[h] = Hash /\ NoHead(bytes, h + 1, j - 1)
  <2>1. PICK h \in (n + 1)..(j - 1) : bytes[h] = Hash /\ NoHead(bytes, h + 1, j - 1)
    BY <1>4
  <2>2. PICK g : g = h - n
    OBVIOUS
  <2>3. g \in 1..(e - 1) /\ n + g = h
    BY <1>1, <1>2, <2>2
  <2>4. rest[g] = Hash
    BY <1>3, <2>1, <2>3
  <2>5. \A k \in (g + 1)..(e - 1) : rest[k] # Dollar
    <3> TAKE k \in (g + 1)..(e - 1)
    <3>1. k \in 1..(e - 1) /\ n + k \in (h + 1)..(j - 1)
      BY <1>1, <1>2, <2>2, <2>3
    <3> QED BY <1>3, <2>1, <3>1 DEF NoHead
  <2> QED BY <1>2, <2>3, <2>4, <2>5 DEF Between, NoHead
<1>5. CASE NoHead(bytes, n + 1, j - 1) /\ Between(data, bytes, n + 1)
  <2>1. \A k \in 1..(e - 1) : rest[k] # Dollar
    <3> TAKE k \in 1..(e - 1)
    <3>1. n + k \in (n + 1)..(j - 1)
      BY <1>1, <1>2, <1>3
    <3> QED BY <1>3, <1>5, <3>1 DEF NoHead
  <2>2. Between(data, bytes, m + 1)
    BY <1>1, <1>5
  <2>3. Spoiled(all)
    BY <1>1, <2>2, SpoiledAfter, m \in 0..Len(bytes)
  <2> QED BY <1>2, <2>1, <2>3 DEF Between, NoHead
<1>6. ASSUME NEW h \in 1..(j - 1), bytes[h] = Hash, NoHead(bytes, h + 1, j - 1), h <= n
      PROVE  NoHead(bytes, n + 1, j - 1) /\ Between(data, bytes, n + 1)
  <2>1. n + 1 - 1 = n /\ h \in 1..n
    BY <1>1, <1>6
  <2>2. \A k \in (n + 1)..(j - 1) : bytes[k] # Dollar
    <3> TAKE k \in (n + 1)..(j - 1)
    <3>1. k \in (h + 1)..(j - 1)
      BY <1>1, <2>1
    <3> QED BY <1>6, <3>1 DEF NoHead
  <2>3. \A k \in (h + 1)..n : bytes[k] # Dollar
    <3> TAKE k \in (h + 1)..n
    <3>1. k \in (h + 1)..(j - 1)
      BY <1>1, <2>1
    <3> QED BY <1>6, <3>1 DEF NoHead
  <2> QED BY <1>6, <2>1, <2>2, <2>3 DEF Between, NoHead
<1>7. ASSUME NoHead(bytes, 1, j - 1), Spoiled(data)
      PROVE  NoHead(bytes, n + 1, j - 1) /\ Between(data, bytes, n + 1)
  <2>1. n + 1 - 1 = n
    BY <1>1
  <2>2. \A k \in (n + 1)..(j - 1) : bytes[k] # Dollar
    <3> TAKE k \in (n + 1)..(j - 1)
    <3>1. k \in 1..(j - 1)
      BY <1>1
    <3> QED BY <1>7, <3>1 DEF NoHead
  <2>3. \A k \in 1..n : bytes[k] # Dollar
    <3> TAKE k \in 1..n
    <3>1. k \in 1..(j - 1)
      BY <1>1
    <3> QED BY <1>7, <3>1 DEF NoHead
  <2> QED BY <1>7, <2>1, <2>2, <2>3 DEF Between, NoHead
<1>8. \/ \E h \in 1..(j - 1) : bytes[h] = Hash /\ NoHead(bytes, h + 1, j - 1)
      \/ NoHead(bytes, 1, j - 1) /\ Spoiled(data)
  BY DEF Between
<1>9. CASE \E h \in 1..(j - 1) : bytes[h] = Hash /\ NoHead(bytes, h + 1, j - 1)
  <2>1. PICK h \in 1..(j - 1) : bytes[h] = Hash /\ NoHead(bytes, h + 1, j - 1)
    BY <1>9
  <2>2. CASE h <= n
    BY <1>5, <1>6, <2>1, <2>2
  <2>3. CASE ~(h <= n)
    <3>1. h \in (n + 1)..(j - 1)
      BY <1>1, <2>3
    <3> QED BY <1>4, <2>1, <3>1
  <2> QED BY <2>2, <2>3
<1> QED BY <1>5, <1>7, <1>8, <1>9

-----------------------------------------------------------------------------
(* The commands on the line are those that were asked *)

\* tag[i] of the commands t were sent with or before the first i bytes of the line; each # ends
\* one that is known only if it is the last of these, and neither a Nul nor what is
\* sent next cuts into one.
IsSent(tag, data, bytes, t) ==
  /\ tag \in [0..Len(bytes) -> 0..Len(t)]
  /\ \A i, j \in 0..Len(bytes) : i <= j => tag[i] <= tag[j]
  /\ \A h \in 1..Len(bytes) :
       bytes[h] = Hash =>
         \E body \in Known \cup Unknown :
           /\ Ends(data, bytes, h, Frame(body))
           /\ body \in Known => tag[h - 1] < tag[h] /\ t[tag[h]] = body
  /\ \A j \in 1..Len(bytes) : bytes[j] = Nul => Between(data, bytes, j)
  /\ Between(data, bytes, Len(bytes) + 1)

\* Some of the line is read.
LEMMA SentWhenRead ==
  ASSUME NEW data \in Seq(Byte), NEW bytes \in Seq(Byte), NEW n \in 1..Len(bytes), NEW m \in 0..n,
         m < n => bytes[m + 1] = Nul, NEW all, IsCollected(all, data, bytes, m),
         NEW t, Len(t) \in Nat, NEW tag, IsSent(tag, data, bytes, t)
  PROVE  \E tag2 : /\ IsSent(tag2, all, SubSeq(bytes, n + 1, Len(bytes)), t)
                   /\ tag2[0] = tag[n]
<1>1. PICK L : L = Len(bytes)
  OBVIOUS
<1>2. L \in Nat /\ n \in Nat /\ 1 <= n /\ n <= L /\ m \in Nat
  BY <1>1, LenProperties
<1>3. /\ tag \in [0..L -> 0..Len(t)]
      /\ \A i, j \in 0..L : i <= j => tag[i] <= tag[j]
      /\ \A h \in 1..L :
           bytes[h] = Hash =>
             \E body \in Known \cup Unknown :
               /\ Ends(data, bytes, h, Frame(body))
               /\ body \in Known => tag[h - 1] < tag[h] /\ t[tag[h]] = body
      /\ \A j \in 1..L : bytes[j] = Nul => Between(data, bytes, j)
      /\ Between(data, bytes, L + 1)
  BY <1>1 DEF IsSent
<1>4. m < n => bytes[m + 1] = Nul /\ Between(data, bytes, m + 1)
  BY <1>2, <1>3
<1>5. PICK rest : rest = SubSeq(bytes, n + 1, Len(bytes))
  OBVIOUS
<1>6. PICK M : M = L - n
  OBVIOUS
<1>7. /\ M \in Nat /\ n + M = L /\ Len(rest) = M /\ n + 0 = n /\ 0 \in 0..M
      /\ \A i \in 1..M : rest[i] = bytes[n + i]
  BY <1>1, <1>2, <1>5, <1>6, LastBytes, n \in 0..Len(bytes)
<1>8. \A i \in 1..(Len(bytes) - n) : rest[i] = bytes[n + i]
  BY <1>1, <1>6, <1>7
<1>9. PICK tag2 : tag2 = [i \in 0..M |-> tag[n + i]]
  OBVIOUS
<1>10. \A i \in 0..M : n + i \in 0..L /\ tag2[i] = tag[n + i]
  BY <1>2, <1>7, <1>9
<1>11. tag2 \in [0..M -> 0..Len(t)]
  BY <1>3, <1>9, <1>10
<1>12. \A i, j \in 0..M : i <= j => tag2[i] <= tag2[j]
  <2> SUFFICES ASSUME NEW i \in 0..M, NEW j \in 0..M, i <= j PROVE tag2[i] <= tag2[j]
    OBVIOUS
  <2>1. n + i <= n + j
    BY <1>2, <1>7
  <2>2. tag[n + i] <= tag[n + j]
    BY <1>3, <1>10, <2>1
  <2> QED BY <1>10, <2>2
<1>13. ASSUME NEW h \in 1..M, rest[h] = Hash
       PROVE  \E body \in Known \cup Unknown :
                /\ Ends(all, rest, h, Frame(body))
                /\ body \in Known => tag2[h - 1] < tag2[h] /\ t[tag2[h]] = body
  <2>1. PICK g : g = n + h
    OBVIOUS
  <2>2. /\ g \in 1..L /\ g \in (n + 1)..Len(bytes) /\ g - n = h
        /\ h - 1 \in 0..M /\ n + (h - 1) = g - 1 /\ h \in 0..M
    BY <1>1, <1>2, <1>7, <2>1
  <2>3. bytes[g] = Hash
    BY <1>7, <1>13, <2>1
  <2>4. PICK body \in Known \cup Unknown :
          /\ Ends(data, bytes, g, Frame(body))
          /\ body \in Known => tag[g - 1] < tag[g] /\ t[tag[g]] = body
    BY <1>3, <2>2, <2>3
  <2>5. PICK f : f = Frame(body)
    OBVIOUS
  <2>6. IsShape(f) /\ Ends(data, bytes, g, f)
    BY <2>4, <2>5, ShapeIs
  <2>7. Ends(all, rest, g - n, f)
    BY <1>4, <1>8, <2>2, <2>6, EndsAfter
  <2>8. tag2[h] = tag[g] /\ tag2[h - 1] = tag[g - 1]
    <3>1. tag2[h - 1] = tag[n + (h - 1)]
      BY <1>10, <2>2
    <3> QED BY <1>10, <2>1, <2>2, <3>1
  <2> QED BY <2>2, <2>4, <2>5, <2>7, <2>8
<1>14. \A j \in 1..M : rest[j] = Nul => Between(all, rest, j)
  <2> SUFFICES ASSUME NEW j \in 1..M, rest[j] = Nul PROVE Between(all, rest, j)
    OBVIOUS
  <2>1. PICK g : g = n + j
    OBVIOUS
  <2>2. g \in 1..L /\ g \in (n + 1)..(Len(bytes) + 1) /\ g - n = j /\ bytes[g] = Nul
    BY <1>1, <1>2, <1>7, <2>1
  <2>3. Between(data, bytes, g)
    BY <1>3, <2>2
  <2>4. Between(all, rest, g - n)
    BY <1>4, <1>8, <2>2, <2>3, BetweenAfter
  <2> QED BY <2>2, <2>4
<1>15. Between(all, rest, M + 1)
  <2>1. PICK g : g = L + 1
    OBVIOUS
  <2>2. g \in (n + 1)..(Len(bytes) + 1) /\ g - n = M + 1
    BY <1>1, <1>2, <1>7, <2>1
  <2>3. Between(all, rest, g - n)
    BY <1>3, <1>4, <1>8, <2>1, <2>2, BetweenAfter
  <2> QED BY <2>2, <2>3
<1>16. tag2[0] = tag[n]
  BY <1>7, <1>10
<1>17. IsSent(tag2, all, rest, t)
  BY <1>7, <1>11, <1>12, <1>13, <1>14, <1>15 DEF IsSent
<1> QED BY <1>5, <1>16, <1>17

\* What was true of the line stays true when bytes are added to it.
LEMMA StillTrue ==
  ASSUME NEW data, NEW bytes, NEW L \in Nat, NEW more, \A i \in 1..L : more[i] = bytes[i]
  PROVE  /\ \A h \in 1..L : \A f : IsShape(f) /\ Ends(data, bytes, h, f) => Ends(data, more, h, f)
         /\ \A j \in 1..(L + 1) : Between(data, bytes, j) => Between(data, more, j)
<1>1. ASSUME NEW h \in 1..L, NEW f, IsShape(f), Ends(data, bytes, h, f)
      PROVE  Ends(data, more, h, f)
  <2>1. Len(f) \in Nat /\ 2 <= Len(f) /\ h \in Nat /\ 1 <= h /\ h <= L
    BY <1>1 DEF IsShape
  <2>2. CASE Len(f) <= h /\ \A i \in 1..Len(f) : bytes[h - Len(f) + i] = f[i]
    <3>1. \A i \in 1..Len(f) : more[h - Len(f) + i] = f[i]
      <4> TAKE i \in 1..Len(f)
      <4>1. PICK j : j = h - Len(f) + i
        OBVIOUS
      <4>2. j \in 1..L
        BY <2>1, <2>2, <4>1
      <4> QED BY <2>2, <4>1, <4>2
    <3> QED BY <2>2, <3>1 DEF Ends
  <2>3. CASE /\ NoHead(bytes, 1, h)
             /\ \/ Spoiled(data)
                \/ /\ Len(data) + h = Len(f)
                   /\ \A i \in 1..Len(data) : data[i] = f[i]
                   /\ \A i \in 1..h : bytes[i] = f[Len(data) + i]
    <3>1. \A i \in 1..h : more[i] = bytes[i]
      <4> TAKE i \in 1..h
      <4>1. i \in 1..L
        BY <2>1
      <4> QED BY <4>1
    <3> QED BY <2>3, <3>1 DEF Ends, NoHead
  <2> QED BY <1>1, <2>2, <2>3 DEF Ends
<1>2. ASSUME NEW j \in 1..(L + 1), Between(data, bytes, j) PROVE Between(data, more, j)
  <2>1. \A i \in 1..(j - 1) : more[i] = bytes[i]
    <3> TAKE i \in 1..(j - 1)
    <3>1. i \in 1..L
      OBVIOUS
    <3> QED BY <3>1
  <2>2. CASE \E h \in 1..(j - 1) : bytes[h] = Hash /\ NoHead(bytes, h + 1, j - 1)
    <3>1. PICK h \in 1..(j - 1) : bytes[h] = Hash /\ NoHead(bytes, h + 1, j - 1)
      BY <2>2
    <3>2. \A k \in (h + 1)..(j - 1) : more[k] # Dollar
      <4> TAKE k \in (h + 1)..(j - 1)
      <4>1. k \in 1..(j - 1)
        OBVIOUS
      <4> QED BY <2>1, <3>1, <4>1 DEF NoHead
    <3> QED BY <2>1, <3>1, <3>2 DEF Between, NoHead
  <2>3. CASE NoHead(bytes, 1, j - 1) /\ Spoiled(data)
    BY <2>1, <2>3 DEF Between, NoHead
  <2> QED BY <1>2, <2>2, <2>3 DEF Between
<1> QED BY <1>1, <1>2

\* A command is sent.
LEMMA SentWhenSent ==
  ASSUME NEW data, NEW bytes \in Seq(Byte), NEW body \in Known \cup Unknown,
         NEW t, Len(t) \in Nat, NEW t2, Len(t2) \in Nat, Len(t) <= Len(t2),
         \A i \in 1..Len(t) : t2[i] = t[i],
         body \in Known => Len(t) < Len(t2) /\ t2[Len(t2)] = body,
         NEW tag, IsSent(tag, data, bytes, t)
  PROVE  \E tag2 : IsSent(tag2, data, bytes \o Frame(body), t2) /\ tag2[0] = tag[0]
<1>1. PICK L : L = Len(bytes)
  OBVIOUS
<1>2. PICK f : f = Frame(body)
  OBVIOUS
<1>3. PICK K : K = Len(body) + 2
  OBVIOUS
<1>4. PICK all : all = bytes \o Frame(body)
  OBVIOUS
<1>5. PICK M : M = L + K
  OBVIOUS
<1>6. IsFrame(f, body) /\ IsShape(f)
  BY <1>2, FrameIs, ShapeIs
<1>7. L \in Nat /\ K \in Nat /\ 2 <= K /\ Len(f) = K /\ M \in Nat
  BY <1>1, <1>3, <1>5, <1>6, LenProperties DEF IsFrame
<1>8. /\ Len(all) = M
      /\ \A i \in 1..L : all[i] = bytes[i]
      /\ \A i \in 1..K : all[L + i] = f[i]
  <2>1. WithCommand(all, bytes, body)
    BY <1>4, SentBytes
  <2>2. Len(body) \in Nat
    BY <1>6 DEF IsFrame
  <2> QED BY <1>1, <1>2, <1>3, <1>5, <1>7, <2>1, <2>2 DEF WithCommand
<1>9. /\ all[M] = Hash
      /\ \A i \in (L + 1)..(M - 1) : all[i] # Hash
      /\ \A i \in (L + 1)..M : all[i] # Nul
  <2>1. K \in 1..K /\ f[K] = Hash /\ (\A i \in 1..(K - 1) : f[i] # Hash) /\ \A i \in 1..K : f[i] # Nul
    BY <1>6, <1>7 DEF IsShape
  <2>2. \A i \in (L + 1)..M : i - L \in 1..K /\ L + (i - L) = i /\ all[i] = f[i - L]
    <3> TAKE i \in (L + 1)..M
    <3>1. i - L \in 1..K /\ L + (i - L) = i
      BY <1>5, <1>7
    <3>2. all[L + (i - L)] = f[i - L]
      BY <1>8, <3>1
    <3> QED BY <3>1, <3>2
  <2>3. \A i \in (L + 1)..(M - 1) : i \in (L + 1)..M /\ i - L \in 1..(K - 1)
    BY <1>5, <1>7
  <2>4. all[M] = f[K]
    BY <1>5, <1>8, <2>1
  <2> QED BY <2>1, <2>2, <2>3, <2>4
<1>10. /\ tag \in [0..L -> 0..Len(t)]
       /\ \A i, j \in 0..L : i <= j => tag[i] <= tag[j]
       /\ \A h \in 1..L :
            bytes[h] = Hash =>
              \E b \in Known \cup Unknown :
                /\ Ends(data, bytes, h, Frame(b))
                /\ b \in Known => tag[h - 1] < tag[h] /\ t[tag[h]] = b
       /\ \A j \in 1..L : bytes[j] = Nul => Between(data, bytes, j)
       /\ Between(data, bytes, L + 1)
  BY <1>1 DEF IsSent
<1>11. PICK tag2 : tag2 = [i \in 0..M |-> IF i <= L THEN tag[i] ELSE IF i < M THEN tag[L] ELSE Len(t2)]
  OBVIOUS
<1>12. /\ \A i \in 0..L : i \in 0..M /\ i < M /\ tag2[i] = tag[i] /\ tag[i] \in Nat /\ tag[i] <= Len(t)
       /\ \A i \in (L + 1)..(M - 1) : i \in 0..M /\ tag2[i] = tag[L]
       /\ M \in 0..M /\ ~(M <= L) /\ tag2[M] = Len(t2)
       /\ \A i \in 0..M : i \in 0..L \/ i \in (L + 1)..(M - 1) \/ i = M
       /\ L \in 0..L /\ 0 \in 0..L
  BY <1>5, <1>7, <1>10, <1>11
<1>13. \A i \in 0..M : tag2[i] \in Nat /\ tag2[i] <= Len(t2) /\ (i < M => tag2[i] <= Len(t))
  <2> TAKE i \in 0..M
  <2>1. CASE i \in 0..L
    BY <1>12, <2>1
  <2>2. CASE i \in (L + 1)..(M - 1)
    BY <1>12, <2>2
  <2>3. CASE i = M
    BY <1>7, <1>12, <2>3
  <2> QED BY <1>12, <2>1, <2>2, <2>3
<1>14. tag2 \in [0..M -> 0..Len(t2)]
  BY <1>11, <1>13
<1>15. \A i, j \in 0..M : i <= j => tag2[i] <= tag2[j]
  <2> SUFFICES ASSUME NEW i \in 0..M, NEW j \in 0..M, i <= j PROVE tag2[i] <= tag2[j]
    OBVIOUS
  <2>1. CASE j = M
    BY <1>12, <1>13, <2>1
  <2>2. CASE j \in 0..L
    <3>1. i \in 0..L
      BY <1>7, <2>2
    <3> QED BY <1>10, <1>12, <2>2, <3>1
  <2>3. CASE j \in (L + 1)..(M - 1) /\ i \in 0..L
    <3>1. tag[i] <= tag[L]
      BY <1>10, <1>12, <2>3
    <3> QED BY <1>12, <2>3, <3>1
  <2>4. CASE j \in (L + 1)..(M - 1) /\ i \in (L + 1)..(M - 1)
    BY <1>12, <2>4
  <2>5. i # M \/ j = M
    BY <1>7
  <2> QED BY <1>12, <2>1, <2>2, <2>3, <2>4, <2>5
<1>16. /\ \A h \in 1..L : \A g : IsShape(g) /\ Ends(data, bytes, h, g) => Ends(data, all, h, g)
       /\ \A j \in 1..(L + 1) : Between(data, bytes, j) => Between(data, all, j)
  BY <1>7, <1>8, StillTrue
<1>17. ASSUME NEW h \in 1..M, all[h] = Hash
       PROVE  \E b \in Known \cup Unknown :
                /\ Ends(data, all, h, Frame(b))
                /\ b \in Known => tag2[h - 1] < tag2[h] /\ t2[tag2[h]] = b
  <2>1. CASE h \in 1..L
    <3>1. bytes[h] = Hash
      BY <1>8, <1>17, <2>1
    <3>2. PICK b \in Known \cup Unknown :
            /\ Ends(data, bytes, h, Frame(b))
            /\ b \in Known => tag[h - 1] < tag[h] /\ t[tag[h]] = b
      BY <1>10, <2>1, <3>1
    <3>3. Ends(data, all, h, Frame(b))
      BY <1>16, <2>1, <3>2, ShapeIs
    <3>4. h - 1 \in 0..L /\ h \in 0..L
      BY <1>7, <2>1
    <3>5. tag2[h - 1] = tag[h - 1] /\ tag2[h] = tag[h] /\ tag[h] \in Nat /\ tag[h] <= Len(t)
          /\ tag[h - 1] \in Nat
      BY <1>12, <3>4
    <3>6. ASSUME b \in Known PROVE tag2[h - 1] < tag2[h] /\ t2[tag2[h]] = b
      <4>1. tag[h] \in 1..Len(t)
        BY <3>2, <3>5, <3>6
      <4> QED BY <3>2, <3>5, <3>6, <4>1
    <3> QED BY <3>3, <3>6
  <2>2. CASE h = M
    <3>1. \A i \in 1..Len(f) : all[h - Len(f) + i] = f[i]
      <4> TAKE i \in 1..Len(f)
      <4>1. h - Len(f) + i = L + i /\ i \in 1..K
        BY <1>5, <1>7, <2>2
      <4> QED BY <1>8, <4>1
    <3>2. Len(f) <= h
      BY <1>5, <1>7, <2>2
    <3>3. Ends(data, all, h, f)
      BY <3>1, <3>2 DEF Ends
    <3>4. ASSUME body \in Known PROVE tag2[h - 1] < tag2[h] /\ t2[tag2[h]] = body
      <4>1. h - 1 \in 0..M /\ h - 1 < M
        BY <1>7, <2>2
      <4>2. tag2[h - 1] <= Len(t) /\ tag2[h - 1] \in Nat /\ Len(t) < Len(t2)
        BY <1>13, <3>4, <4>1
      <4> QED BY <1>12, <2>2, <3>4, <4>2
    <3> QED BY <1>2, <3>3, <3>4
  <2>3. h \in 1..L \/ h \in (L + 1)..(M - 1) \/ h = M
    BY <1>7
  <2> QED BY <1>9, <1>17, <2>1, <2>2, <2>3
<1>18. \A j \in 1..M : all[j] = Nul => Between(data, all, j)
  <2> SUFFICES ASSUME NEW j \in 1..M, all[j] = Nul PROVE Between(data, all, j)
    OBVIOUS
  <2>1. j \in 1..L /\ j \in 1..(L + 1)
    BY <1>7, <1>9
  <2> QED BY <1>8, <1>10, <1>16, <2>1
<1>19. Between(data, all, M + 1)
  <2>1. M + 1 - 1 = M /\ M \in 1..M /\ \A k \in (M + 1)..M : FALSE
    BY <1>5, <1>7
  <2> QED BY <1>9, <2>1 DEF Between, NoHead
<1>20. tag2[0] = tag[0]
  BY <1>12
<1>21. IsSent(tag2, data, all, t2)
  BY <1>8, <1>14, <1>15, <1>17, <1>18, <1>19 DEF IsSent
<1> QED BY <1>4, <1>20, <1>21

\* The line adds a byte.
LEMMA SentWhenNoise ==
  ASSUME NEW data, NEW bytes \in Seq(Byte), NEW b \in Byte, b # Dollar, b # Hash,
         NEW t, Len(t) \in Nat, NEW tag, IsSent(tag, data, bytes, t)
  PROVE  \E tag2 : IsSent(tag2, data, Append(bytes, b), t) /\ tag2[0] = tag[0]
<1>1. PICK L : L = Len(bytes)
  OBVIOUS
<1>2. PICK M : M = L + 1
  OBVIOUS
<1>3. PICK all : all = Append(bytes, b)
  OBVIOUS
<1>4. L \in Nat /\ M \in Nat /\ Len(all) = M /\ all[M] = b /\ \A i \in 1..L : all[i] = bytes[i]
  BY <1>1, <1>2, <1>3, LenProperties, AppendProperties
<1>5. /\ tag \in [0..L -> 0..Len(t)]
      /\ \A i, j \in 0..L : i <= j => tag[i] <= tag[j]
      /\ \A h \in 1..L :
           bytes[h] = Hash =>
             \E body \in Known \cup Unknown :
               /\ Ends(data, bytes, h, Frame(body))
               /\ body \in Known => tag[h - 1] < tag[h] /\ t[tag[h]] = body
      /\ \A j \in 1..L : bytes[j] = Nul => Between(data, bytes, j)
      /\ Between(data, bytes, L + 1)
  BY <1>1 DEF IsSent
<1>6. PICK tag2 : tag2 = [i \in 0..M |-> IF i <= L THEN tag[i] ELSE tag[L]]
  OBVIOUS
<1>7. /\ \A i \in 0..L : i \in 0..M /\ tag2[i] = tag[i]
      /\ M \in 0..M /\ tag2[M] = tag[L] /\ L \in 0..L /\ 0 \in 0..L
      /\ \A i \in 0..M : i \in 0..L \/ i = M
  BY <1>2, <1>4, <1>6
<1>8. tag2 \in [0..M -> 0..Len(t)]
  <2>1. \A i \in 0..M : tag2[i] \in 0..Len(t)
    BY <1>5, <1>7
  <2> QED BY <1>6, <2>1
<1>9. \A i, j \in 0..M : i <= j => tag2[i] <= tag2[j]
  <2> SUFFICES ASSUME NEW i \in 0..M, NEW j \in 0..M, i <= j PROVE tag2[i] <= tag2[j]
    OBVIOUS
  <2>1. CASE j \in 0..L
    <3>1. i \in 0..L
      BY <1>4, <2>1
    <3> QED BY <1>5, <1>7, <2>1, <3>1
  <2>2. CASE j = M /\ i \in 0..L
    <3>1. i <= L
      BY <1>4, <2>2
    <3>2. tag[i] <= tag[L]
      BY <1>5, <1>7, <2>2, <3>1
    <3> QED BY <1>7, <2>2, <3>2
  <2>3. CASE j = M /\ i = M
    <3>1. tag[L] \in Nat
      BY <1>5, <1>7
    <3> QED BY <1>7, <2>3, <3>1
  <2> QED BY <1>7, <2>1, <2>2, <2>3
<1>10. /\ \A h \in 1..L : \A g : IsShape(g) /\ Ends(data, bytes, h, g) => Ends(data, all, h, g)
       /\ \A j \in 1..(L + 1) : Between(data, bytes, j) => Between(data, all, j)
  BY <1>4, StillTrue
<1>11. ASSUME NEW h \in 1..M, all[h] = Hash
       PROVE  \E body \in Known \cup Unknown :
                /\ Ends(data, all, h, Frame(body))
                /\ body \in Known => tag2[h - 1] < tag2[h] /\ t[tag2[h]] = body
  <2>1. h \in 1..L /\ h \in 0..L /\ h - 1 \in 0..L
    BY <1>2, <1>4, <1>11
  <2>2. PICK body \in Known \cup Unknown :
          /\ Ends(data, bytes, h, Frame(body))
          /\ body \in Known => tag[h - 1] < tag[h] /\ t[tag[h]] = body
    BY <1>4, <1>5, <1>11, <2>1
  <2>3. Ends(data, all, h, Frame(body))
    BY <1>10, <2>1, <2>2, ShapeIs
  <2>4. tag2[h - 1] = tag[h - 1] /\ tag2[h] = tag[h]
    BY <1>7, <2>1
  <2> QED BY <2>2, <2>3, <2>4
<1>12. Between(data, all, M)
  <2>1. M \in 1..(L + 1) /\ M = L + 1
    BY <1>2, <1>4
  <2> QED BY <1>5, <1>10, <2>1
<1>13. \A j \in 1..M : all[j] = Nul => Between(data, all, j)
  <2> SUFFICES ASSUME NEW j \in 1..M, all[j] = Nul PROVE Between(data, all, j)
    OBVIOUS
  <2>1. CASE j \in 1..L
    <3>1. j \in 1..(L + 1) /\ bytes[j] = Nul
      BY <1>4, <2>1
    <3> QED BY <1>5, <1>10, <2>1, <3>1
  <2>2. j \in 1..L \/ j = M
    BY <1>2, <1>4
  <2> QED BY <1>12, <2>1, <2>2
<1>14. Between(data, all, M + 1)
  <2>1. PICK j : j = M + 1
    OBVIOUS
  <2>2. j - 1 = M /\ M - 1 = L
    BY <1>2, <1>4, <2>1
  <2>3. CASE \E h \in 1..L : all[h] = Hash /\ NoHead(all, h + 1, L)
    <3>1. PICK h \in 1..L : all[h] = Hash /\ NoHead(all, h + 1, L)
      BY <2>3
    <3>2. \A k \in (h + 1)..M : all[k] # Dollar
      <4> TAKE k \in (h + 1)..M
      <4>1. k \in (h + 1)..L \/ k = M
        BY <1>2, <1>4
      <4> QED BY <1>4, <3>1, <4>1 DEF NoHead
    <3>3. h \in 1..M
      BY <1>2, <1>4
    <3> QED BY <2>1, <2>2, <3>1, <3>2, <3>3 DEF Between, NoHead
  <2>4. CASE NoHead(all, 1, L) /\ Spoiled(data)
    <3>1. \A k \in 1..M : all[k] # Dollar
      <4> TAKE k \in 1..M
      <4>1. k \in 1..L \/ k = M
        BY <1>2, <1>4
      <4> QED BY <1>4, <2>4, <4>1 DEF NoHead
    <3> QED BY <2>1, <2>2, <2>4, <3>1 DEF Between, NoHead
  <2> QED BY <1>12, <2>2, <2>3, <2>4 DEF Between
<1>15. tag2[0] = tag[0]
  BY <1>7
<1>16. IsSent(tag2, data, all, t)
  BY <1>4, <1>8, <1>9, <1>11, <1>13, <1>14 DEF IsSent
<1> QED BY <1>3, <1>15, <1>16

-----------------------------------------------------------------------------
(* Nothing is answered that was not asked *)

\* The answers s are some of the first k commands of t, in their order.
AnsweredBy(s, t, k) ==
  \E place \in [1..Len(s) -> 1..k] :
    /\ \A i \in 1..Len(s) : s[i] = t[place[i]]
    /\ \A i, j \in 1..Len(s) : i < j => place[i] < place[j]

LEMMA AnsweredLater ==
  ASSUME NEW s, NEW t, NEW k \in Nat, NEW k2 \in Nat, k <= k2, NEW t2,
         \A i \in 1..k : t2[i] = t[i], AnsweredBy(s, t, k)
  PROVE  AnsweredBy(s, t2, k2)
<1>1. PICK place \in [1..Len(s) -> 1..k] :
        /\ \A i \in 1..Len(s) : s[i] = t[place[i]]
        /\ \A i, j \in 1..Len(s) : i < j => place[i] < place[j]
  BY DEF AnsweredBy
<1>2. place \in [1..Len(s) -> 1..k2] /\ \A i \in 1..Len(s) : place[i] \in 1..k
  BY <1>1
<1>3. \A i \in 1..Len(s) : s[i] = t2[place[i]]
  BY <1>1, <1>2
<1> QED BY <1>1, <1>2, <1>3 DEF AnsweredBy

\* A later one of them is answered.
LEMMA AnsweredNext ==
  ASSUME NEW S, NEW s \in Seq(S), NEW t, NEW k \in Nat, NEW k2 \in Nat, k < k2, NEW k3 \in Nat,
         k2 <= k3, t[k2] \in S, AnsweredBy(s, t, k)
  PROVE  AnsweredBy(Append(s, t[k2]), t, k3)
<1>1. PICK L : L = Len(s)
  OBVIOUS
<1>2. PICK place \in [1..L -> 1..k] :
        /\ \A i \in 1..L : s[i] = t[place[i]]
        /\ \A i, j \in 1..L : i < j => place[i] < place[j]
  BY <1>1 DEF AnsweredBy
<1>3. PICK all : all = Append(s, t[k2])
  OBVIOUS
<1>4. L \in Nat /\ Len(all) = L + 1 /\ all[L + 1] = t[k2] /\ \A i \in 1..L : all[i] = s[i]
  BY <1>1, <1>3, LenProperties, AppendProperties
<1>5. PICK M : M = L + 1
  OBVIOUS
<1>6. PICK at : at = [i \in 1..M |-> IF i = M THEN k2 ELSE place[i]]
  OBVIOUS
<1>7. /\ \A i \in 1..M : i \in 1..L \/ i = M
      /\ \A i \in 1..L : i \in 1..M /\ at[i] = place[i] /\ place[i] \in 1..k
      /\ M \in 1..M /\ at[M] = k2 /\ M = L + 1
  BY <1>2, <1>4, <1>5, <1>6
<1>8. at \in [1..M -> 1..k3]
  <2>1. \A i \in 1..M : at[i] \in 1..k3
    BY <1>7
  <2> QED BY <1>6, <2>1
<1>9. \A i \in 1..M : all[i] = t[at[i]]
  BY <1>2, <1>4, <1>7
<1>10. \A i, j \in 1..M : i < j => at[i] < at[j]
  <2> SUFFICES ASSUME NEW i \in 1..M, NEW j \in 1..M, i < j PROVE at[i] < at[j]
    OBVIOUS
  <2>1. i \in 1..L
    BY <1>4, <1>7
  <2>2. CASE j \in 1..L
    BY <1>2, <1>7, <2>1, <2>2
  <2>3. CASE j = M
    BY <1>7, <2>1, <2>3
  <2> QED BY <1>7, <2>2, <2>3
<1>11. AnsweredBy(all, t, k3)
  BY <1>4, <1>7, <1>8, <1>9, <1>10 DEF AnsweredBy
<1> QED BY <1>3, <1>11

\* The answers are some of the commands that were asked; as long as there is anyone to answer,
\* so they are with the next one, and no command that was not read yet is among them.
Asked ==
  /\ AnsweredBy(answers, asked, Len(asked))
  /\ up /\ pc # "overrun" =>
       \E tag : /\ IsSent(tag, read_data, line, asked)
                /\ AnsweredBy(answers, asked, tag[0])
                /\ pc = "execute" =>
                     \A body \in Body(read_report) :
                       AnsweredBy(Append(answers, body), asked, tag[0])

LEMMA AskedInit == Init => Asked
<1> SUFFICES ASSUME Init PROVE Asked
  OBVIOUS
<1>1. PICK none : none = <<>>
  OBVIOUS
<1>2. none \in Seq(Byte) /\ Len(none) = 0
  BY <1>1, EmptySeq
<1>3. /\ answers = none /\ read_data = none /\ line = none /\ asked = none /\ pc = "open"
  BY <1>1 DEF Init
<1>4. PICK place : place = [i \in 1..0 |-> i]
  OBVIOUS
<1>5. place \in [1..0 -> 1..0] /\ \A i \in 1..0 : FALSE
  BY <1>4
<1>6. AnsweredBy(none, none, 0)
  BY <1>2, <1>5 DEF AnsweredBy
<1>7. PICK tag : tag = [i \in 0..0 |-> 0]
  OBVIOUS
<1>8. tag \in [0..0 -> 0..0] /\ tag[0] = 0 /\ \A i \in 0..0 : i = 0
  BY <1>7
<1>9. Between(none, none, 1)
  <2>1. \A i \in 1..(1 - 1) : FALSE
    OBVIOUS
  <2> QED BY <1>2, <2>1 DEF Between, NoHead, Spoiled
<1>10. IsSent(tag, none, none, none)
  BY <1>2, <1>5, <1>8, <1>9 DEF IsSent
<1> QED BY <1>2, <1>3, <1>6, <1>8, <1>10 DEF Asked

\* A report that is answered is a command that was not answered yet.
LEMMA ReportWasAsked ==
  ASSUME NEW data \in Seq(Byte), NEW bytes \in Seq(Byte), NEW h \in 1..Len(bytes),
         bytes[h] = Hash, NEW s \in Seq(Known), NEW t, Len(t) \in Nat, NEW n \in h..Len(bytes),
         NEW tag, IsSent(tag, data, bytes, t), AnsweredBy(s, t, tag[0]),
         NEW body \in Known, Frame(body) = Collected(data, SubSeq(bytes, 1, h))
  PROVE  AnsweredBy(Append(s, body), t, tag[n])
<1>1. PICK g : g = Frame(body)
  OBVIOUS
<1>2. IsShape(g)
  BY <1>1, ShapeIs
<1>3. IsCollected(g, data, bytes, h)
  <2>1. h \in 0..Len(bytes)
    OBVIOUS
  <2> QED BY <1>1, <2>1, CollectedBytes
<1>4. /\ tag \in [0..Len(bytes) -> 0..Len(t)]
      /\ \A i, j \in 0..Len(bytes) : i <= j => tag[i] <= tag[j]
  BY DEF IsSent
<1>5. PICK b \in Known \cup Unknown :
        /\ Ends(data, bytes, h, Frame(b))
        /\ b \in Known => tag[h - 1] < tag[h] /\ t[tag[h]] = b
  BY DEF IsSent
<1>6. PICK f : f = Frame(b)
  OBVIOUS
<1>7. IsShape(f)
  BY <1>6, ShapeIs
<1>8. g = f
  BY <1>2, <1>3, <1>5, <1>6, <1>7, ReportIs
<1>9. b = body
  BY <1>1, <1>6, <1>8, SameFrame
<1>10. tag[h - 1] < tag[h] /\ t[tag[h]] = body
  BY <1>5, <1>9
<1>11. Len(bytes) \in Nat /\ 0 \in 0..Len(bytes) /\ h - 1 \in 0..Len(bytes) /\ 0 <= h - 1
       /\ h \in 0..Len(bytes) /\ n \in 0..Len(bytes) /\ h <= n
  BY LenProperties
<1>12. tag[0] <= tag[h - 1] /\ tag[h] <= tag[n]
  BY <1>4, <1>11
<1>13. tag[0] \in Nat /\ tag[h - 1] \in Nat /\ tag[h] \in Nat /\ tag[n] \in Nat
  BY <1>4, <1>11
<1>14. PICK k2 : k2 = tag[h]
  OBVIOUS
<1>15. k2 \in Nat /\ tag[0] < k2 /\ k2 <= tag[n] /\ t[k2] = body
  BY <1>10, <1>12, <1>13, <1>14
<1>16. AnsweredBy(Append(s, t[k2]), t, tag[n])
  BY <1>13, <1>15, AnsweredNext
<1> QED BY <1>15, <1>16

\* A read.
LEMMA AskedRead == TypeOK /\ Asked /\ get_complete_frame => Asked'
<1> SUFFICES ASSUME TypeOK, Asked, get_complete_frame PROVE Asked'
  OBVIOUS
<1>1. /\ read_data \in Seq(Byte) /\ line \in Seq(Byte) /\ answers \in Seq(Known)
      /\ asked \in Seq(Known) /\ Len(asked) \in Nat /\ Len(line) \in Nat
  BY LenProperties DEF TypeOK
<1>2. PICK n \in 1..Len(line) :
        LET text == Text(SubSeq(line, 1, n))
        IN /\ n <= Size + 1 /\ Fits(read_data, text)
           /\ read_data' = Collected(read_data, text)
           /\ line' = SubSeq(line, n + 1, Len(line))
           /\ IF Again(text) THEN UNCHANGED pc ELSE pc' = "execute"
           /\ IF Contains(text, Hash)
                THEN read_report' = Collected(read_data, SubSeq(text, 1, Reported(text)))
                ELSE UNCHANGED read_report
  BY Zenon DEF get_complete_frame
<1>3. PICK m \in 0..n : /\ Text(SubSeq(line, 1, n)) = SubSeq(line, 1, m)
                        /\ m < n => line[m + 1] = Nul
  BY <1>1, TextIs
<1>4. PICK text : text = SubSeq(line, 1, m)
  OBVIOUS
<1>5. /\ read_data' = Collected(read_data, text)
      /\ line' = SubSeq(line, n + 1, Len(line))
      /\ Again(text) => pc' = pc
      /\ Contains(text, Hash)
           => read_report' = Collected(read_data, SubSeq(text, 1, Reported(text)))
  BY <1>2, <1>3, <1>4, Zenon
<1>6. pc = "read" /\ asked' = asked /\ answers' = answers /\ up' = up
  BY DEF get_complete_frame, device
<1>7. m \in 0..Len(line) /\ m \in Nat /\ n \in Nat /\ n \in 0..Len(line)
  BY <1>1
<1>8. text \in Seq(Byte) /\ Len(text) = m /\ DOMAIN text = 1..m /\ \A i \in 1..m : text[i] = line[i]
  BY <1>1, <1>4, <1>7, FirstBytes, LenProperties
<1>9. SUFFICES ASSUME up'
               PROVE  \E tag : /\ IsSent(tag, read_data', line', asked)
                               /\ AnsweredBy(answers, asked, tag[0])
                               /\ pc' = "execute" =>
                                    \A body \in Body(read_report') :
                                      AnsweredBy(Append(answers, body), asked, tag[0])
  <2>1. AnsweredBy(answers, asked, Len(asked))
    BY DEF Asked
  <2>2. Body(read_report)' = Body(read_report')
    BY DEF Body, Frame
  <2> QED BY <1>6, <1>9, <2>1, <2>2 DEF Asked
<1>10. PICK tag : IsSent(tag, read_data, line, asked) /\ AnsweredBy(answers, asked, tag[0])
  BY <1>6, <1>9 DEF Asked
<1>11. IsCollected(read_data', read_data, line, m)
  BY <1>1, <1>4, <1>5, <1>7, CollectedBytes
<1>12. PICK tag2 : IsSent(tag2, read_data', line', asked) /\ tag2[0] = tag[n]
  <2>1. PICK all : all = read_data'
    OBVIOUS
  <2>2. \E tag2 : /\ IsSent(tag2, all, SubSeq(line, n + 1, Len(line)), asked)
                  /\ tag2[0] = tag[n]
    BY <1>1, <1>3, <1>10, <1>11, <2>1, SentWhenRead
  <2> QED BY <1>5, <2>1, <2>2
<1>13. AnsweredBy(answers, asked, tag2[0])
  <2>1. tag \in [0..Len(line) -> 0..Len(asked)] /\ \A i, j \in 0..Len(line) : i <= j => tag[i] <= tag[j]
    BY <1>10 DEF IsSent
  <2>2. 0 \in 0..Len(line) /\ 0 <= n
    BY <1>1, <1>7
  <2>3. tag[0] \in Nat /\ tag[n] \in Nat /\ tag[0] <= tag[n]
    BY <1>7, <2>1, <2>2
  <2>4. AnsweredBy(answers, asked, tag[n])
    BY <1>10, <2>3, AnsweredLater
  <2> QED BY <1>12, <2>4
<1>14. ASSUME pc' = "execute", NEW body \in Body(read_report')
       PROVE  AnsweredBy(Append(answers, body), asked, tag2[0])
  <2>1. Contains(text, Hash)
    BY <1>5, <1>6, <1>14 DEF Again
  <2>2. PICK ends : ends = {i \in DOMAIN text : text[i] = Hash}
    OBVIOUS
  <2>3. ends # {} /\ ends \subseteq 1..m
    BY <1>8, <2>1, <2>2 DEF Contains
  <2>4. Max(ends) \in ends
    BY <1>7, <2>3, MaxOf
  <2>5. PICK h : h = Reported(text)
    OBVIOUS
  <2>6. h \in 1..m /\ text[h] = Hash
    BY <2>2, <2>3, <2>4, <2>5 DEF Reported
  <2>7. h \in 1..Len(line) /\ line[h] = Hash /\ n \in h..Len(line) /\ h \in 0..Len(text)
        /\ h \in 0..Len(line)
    BY <1>1, <1>7, <1>8, <2>6
  <2>8. SubSeq(text, 1, h) = SubSeq(line, 1, h)
    <3>1. PICK a, b : a = SubSeq(text, 1, h) /\ b = SubSeq(line, 1, h)
      OBVIOUS
    <3>2. a \in Seq(Byte) /\ Len(a) = h /\ \A j \in 1..h : a[j] = text[j]
      BY <1>8, <2>7, <3>1, FirstBytes
    <3>3. b \in Seq(Byte) /\ Len(b) = h /\ \A j \in 1..h : b[j] = line[j]
      BY <1>1, <2>7, <3>1, FirstBytes
    <3>4. \A j \in 1..h : a[j] = b[j]
      BY <1>7, <1>8, <2>6, <3>2, <3>3
    <3> QED BY <3>1, <3>2, <3>3, <3>4, SeqEqual
  <2>9. body \in Known /\ Frame(body) = Collected(read_data, SubSeq(line, 1, h))
    BY <1>5, <1>14, <2>1, <2>5, <2>8 DEF Body
  <2>10. AnsweredBy(Append(answers, body), asked, tag[n])
    BY <1>1, <1>10, <2>7, <2>9, ReportWasAsked
  <2> QED BY <1>12, <2>10
<1> QED BY <1>12, <1>13, <1>14

LEMMA AskedStep == TypeOK /\ Asked /\ [Next]_vars => Asked'
<1> SUFFICES ASSUME TypeOK, Asked, [Next]_vars PROVE Asked'
  OBVIOUS
<1>1. /\ line \in Seq(Byte) /\ answers \in Seq(Known) /\ asked \in Seq(Known)
      /\ Len(asked) \in Nat
  BY LenProperties DEF TypeOK
<1>2. AnsweredBy(answers, asked, Len(asked))
  BY DEF Asked
<1>3. ASSUME NEW tag, IsSent(tag, read_data, line, asked)
      PROVE  tag[0] \in Nat /\ tag[0] <= Len(asked)
  <2>1. tag \in [0..Len(line) -> 0..Len(asked)] /\ 0 \in 0..Len(line)
    BY <1>1, <1>3, LenProperties DEF IsSent
  <2> QED BY <1>1, <2>1
<1>4. CASE get_complete_frame
  BY <1>4, AskedRead
<1>5. CASE uart_1_Main
  <2>1. /\ pc = "execute" /\ pc' = "read" /\ UNCHANGED <<read_data, line, up, asked>>
    BY <1>5 DEF uart_1_Main, device
  <2>2. CASE up /\ Body(read_report) # {}
    <3>1. PICK body \in Body(read_report) : answers' = Append(answers, body)
      BY <1>5, <2>2 DEF uart_1_Main
    <3>2. PICK tag : /\ IsSent(tag, read_data, line, asked)
                     /\ AnsweredBy(Append(answers, body), asked, tag[0])
      BY <2>1, <2>2 DEF Asked
    <3>3. AnsweredBy(Append(answers, body), asked, Len(asked))
      BY <1>1, <1>3, <3>2, AnsweredLater
    <3> QED BY <2>1, <3>1, <3>2, <3>3 DEF Asked
  <2>3. CASE ~(up /\ Body(read_report) # {})
    <3>1. answers' = answers
      BY <1>5, <2>3 DEF uart_1_Main
    <3> QED BY <2>1, <3>1 DEF Asked
  <2> QED BY <2>2, <2>3
<1>6. ASSUME NEW body \in Known \cup Unknown, deviceSends(body) PROVE Asked'
  <2>1. /\ line' = line \o Frame(body)
        /\ asked' = IF body \in Known THEN Append(asked, body) ELSE asked
        /\ UNCHANGED <<read_data, read_report, pc, up, answers>>
    BY <1>6 DEF deviceSends, port
  <2>2. PICK t2 : t2 = asked'
    OBVIOUS
  <2>3. /\ Len(t2) \in Nat /\ Len(asked) <= Len(t2)
        /\ \A i \in 1..Len(asked) : t2[i] = asked[i]
        /\ body \in Known => Len(asked) < Len(t2) /\ t2[Len(t2)] = body
    <3>1. CASE body \in Known
      <4>1. /\ Len(t2) = Len(asked) + 1 /\ t2[Len(asked) + 1] = body
            /\ \A i \in 1..Len(asked) : t2[i] = asked[i]
        BY <1>1, <2>1, <2>2, <3>1, AppendProperties
      <4> QED BY <1>1, <4>1
    <3>2. CASE body \notin Known
      BY <1>1, <2>1, <2>2, <3>2
    <3> QED BY <3>1, <3>2
  <2>4. AnsweredBy(answers, t2, Len(t2))
    BY <1>1, <1>2, <2>3, AnsweredLater
  <2>5. ASSUME up, pc # "overrun"
        PROVE  \E tag : /\ IsSent(tag, read_data, line', t2)
                        /\ AnsweredBy(answers, t2, tag[0])
                        /\ pc = "execute" =>
                             \A b \in Body(read_report) :
                               AnsweredBy(Append(answers, b), t2, tag[0])
    <3>1. PICK tag : /\ IsSent(tag, read_data, line, asked)
                     /\ AnsweredBy(answers, asked, tag[0])
                     /\ pc = "execute" =>
                          \A b \in Body(read_report) :
                            AnsweredBy(Append(answers, b), asked, tag[0])
      BY <2>5 DEF Asked
    <3>2. PICK tag2 : IsSent(tag2, read_data, line \o Frame(body), t2) /\ tag2[0] = tag[0]
      BY <1>1, <2>3, <3>1, SentWhenSent
    <3>3. tag[0] \in Nat /\ \A i \in 1..tag[0] : t2[i] = asked[i]
      BY <1>1, <1>3, <2>3, <3>1
    <3>4. \A s : AnsweredBy(s, asked, tag[0]) => AnsweredBy(s, t2, tag2[0])
      BY <3>2, <3>3, AnsweredLater
    <3> QED BY <2>1, <3>1, <3>2, <3>4
  <2>6. Body(read_report)' = Body(read_report)
    BY <2>1 DEF Body, Frame
  <2> QED BY <2>1, <2>2, <2>4, <2>5, <2>6 DEF Asked
<1>7. CASE lineAdds
  <2>1. PICK b \in Noise : line' = Append(line, b)
    BY <1>7 DEF lineAdds
  <2>2. b \in Byte /\ b # Dollar /\ b # Hash
    BY BytesDiffer DEF Byte
  <2>3. UNCHANGED <<read_data, read_report, pc, up, answers, asked>>
    BY <1>7 DEF lineAdds, port, device
  <2>4. Body(read_report)' = Body(read_report)
    BY <2>3 DEF Body, Frame
  <2>5. ASSUME up, pc # "overrun"
        PROVE  \E tag : /\ IsSent(tag, read_data, line', asked)
                        /\ AnsweredBy(answers, asked, tag[0])
                        /\ pc = "execute" =>
                             \A body \in Body(read_report) :
                               AnsweredBy(Append(answers, body), asked, tag[0])
    <3>1. PICK tag : /\ IsSent(tag, read_data, line, asked)
                     /\ AnsweredBy(answers, asked, tag[0])
                     /\ pc = "execute" =>
                          \A body \in Body(read_report) :
                            AnsweredBy(Append(answers, body), asked, tag[0])
      BY <2>5 DEF Asked
    <3>2. PICK tag2 : IsSent(tag2, read_data, Append(line, b), asked) /\ tag2[0] = tag[0]
      BY <1>1, <2>2, <3>1, SentWhenNoise
    <3> QED BY <2>1, <3>1, <3>2
  <2> QED BY <1>2, <2>3, <2>4, <2>5 DEF Asked
<1>8. CASE hangsUp
  <2>1. up' = FALSE /\ UNCHANGED <<answers, asked>>
    BY <1>8 DEF hangsUp, port, device
  <2> QED BY <1>2, <2>1 DEF Asked
<1>9. CASE readFails
  <2>1. ~up' /\ UNCHANGED <<answers, asked>>
    BY <1>9 DEF readFails, device
  <2> QED BY <1>2, <2>1 DEF Asked
<1>10. CASE runsOver
  <2>1. pc' = "overrun" /\ UNCHANGED <<answers, asked>>
    BY <1>10 DEF runsOver, device
  <2> QED BY <1>2, <2>1 DEF Asked
<1>11. CASE UART0_Open \/ uart1_sub
  <2>1. /\ pc # "execute" /\ pc # "overrun" /\ pc' # "execute"
        /\ UNCHANGED <<read_data, line, up, answers, asked>>
    BY <1>11 DEF UART0_Open, uart1_sub, device
  <2> QED BY <2>1 DEF Asked
<1>12. CASE UNCHANGED vars
  <2>1. UNCHANGED <<read_data, read_report, pc, up, line, answers, asked>>
    BY <1>12 DEF vars, port, device
  <2>2. Body(read_report)' = Body(read_report)
    BY <2>1 DEF Body, Frame
  <2> QED BY <2>1, <2>2 DEF Asked
<1> QED BY <1>4, <1>5, <1>6, <1>7, <1>8, <1>9, <1>10, <1>11, <1>12 DEF Next, main

\* Nothing is answered that was not asked, in another order or twice, however the bytes are
\* cut into pieces, whatever the commands are and the line adds, a Nul too, and with any
\* bounds, until a buffer is overrun (uart_1_app.c:42-90, 109-125).
THEOREM AnsweredWasAsked == Spec => []AnswersWereAsked
<1>1. Init => TypeOK /\ Asked
  BY TypesInit, AskedInit
<1>2. (TypeOK /\ Asked) /\ [Next]_vars => (TypeOK /\ Asked)'
  BY TypesStep, AskedStep
<1>3. TypeOK /\ Asked => AnswersWereAsked
  <2> SUFFICES ASSUME TypeOK, Asked PROVE AnswersWereAsked
    OBVIOUS
  <2>1. DOMAIN answers = 1..Len(answers) /\ DOMAIN asked = 1..Len(asked)
    BY LenProperties DEF TypeOK
  <2>2. AnsweredBy(answers, asked, Len(asked))
    BY DEF Asked
  <2> QED BY <2>1, <2>2, Zenon DEF AnsweredBy, AnswersWereAsked, Within
<1> QED BY <1>1, <1>2, <1>3, PTL DEF Spec
=============================================================================
