-------------------------- MODULE Utilities_proofs ----------------------------
(***************************************************************************)
(* What holds of the client library's utilities: the check of UTF-8        *)
(* characters, the red-black tree and the heap tracker that keeps its      *)
(* records in one.                                                         *)
(*                                                                         *)
(* The tree is described without recursion.  S says which nodes there are  *)
(* from each node down, and B how many black ones on a way down from it:   *)
(* both exist for every tree the code makes, and a rotation, an insertion, *)
(* a removal or a round of a balancing loop is shown to turn them into     *)
(* those of the new tree.  The recursive functions of the model (the       *)
(* search, the minimum, the successor, the depth, the heights, the walk)   *)
(* are then shown to be what S and B say: a witness solves the equation of *)
(* the recursion, and the lowest, the highest or the first place where a   *)
(* solution differs from it is a contradiction.                            *)
(***************************************************************************)
EXTENDS Utf8, Heap, SequenceTheorems, FiniteSetTheorems, WellFoundedInduction, TLAPS

-----------------------------------------------------------------------------
(* The check of characters.  That a string is accepted exactly when it is a  *)
(* sequence of accepted characters is an induction over the string and is    *)
(* left to TLC.                                                              *)

\* The rows of valid_ranges as ranges of bytes.
Rows(n, b1, b2, b3, b4) ==
  \/ n = 1 /\ b1 \in 0..127
  \/ n = 2 /\ b1 \in 194..223 /\ b2 \in 128..191
  \/ /\ n = 3 /\ b3 \in 128..191
     /\ \/ b1 = 224 /\ b2 \in 160..191
        \/ b1 \in 225..236 /\ b2 \in 128..191
        \/ b1 = 237 /\ b2 \in 128..159
        \/ b1 \in 238..239 /\ b2 \in 128..191
  \/ /\ n = 4 /\ b3 \in 128..191 /\ b4 \in 128..191
     /\ \/ b1 = 240 /\ b2 \in 144..191
        \/ b1 \in 241..243 /\ b2 \in 128..191
        \/ b1 = 244 /\ b2 \in 128..143

\* Comparing chars is comparing bytes, signed or not: no range of the table has
\* its limits on either side of 128.
LEMMA TableIsRows ==
  ASSUME NEW signed \in BOOLEAN, NEW n \in 1..4,
         NEW b1 \in Byte, NEW b2 \in Byte, NEW b3 \in Byte, NEW b4 \in Byte
  PROVE  valid_ranges(signed, n, b1, b2, b3, b4) <=> Rows(n, b1, b2, b3, b4)
<1>. USE DEF valid_ranges, Rows, In, AsChar, Continues, Byte
<1>1. CASE signed = FALSE
  <2>1. CASE n = 1
    BY <1>1, <2>1, SMT
  <2>2. CASE n = 2
    BY <1>1, <2>2, SMT
  <2>3. CASE n = 3
    BY <1>1, <2>3, SMT
  <2>4. CASE n = 4
    BY <1>1, <2>4, SMT
  <2>. QED
    BY <2>1, <2>2, <2>3, <2>4
<1>2. CASE signed = TRUE
  <2>1. CASE n = 1
    BY <1>2, <2>1, SMT
  <2>2. CASE n = 2
    BY <1>2, <2>2, SMT
  <2>3. CASE n = 3
    BY <1>2, <2>3, SMT
  <2>4. CASE n = 4
    BY <1>2, <2>4, SMT
  <2>. QED
    BY <2>1, <2>2, <2>3, <2>4
<1>. QED
  BY <1>1, <1>2

\* The scalar value of the bytes of a row.
Value(n, b1, b2, b3, b4) ==
  IF n = 1 THEN b1
  ELSE IF n = 2 THEN 64 * (b1 - 192) + (b2 - 128)
  ELSE IF n = 3 THEN 4096 * (b1 - 224) + 64 * (b2 - 128) + (b3 - 128)
  ELSE 262144 * (b1 - 240) + 4096 * (b2 - 128) + 64 * (b3 - 128) + (b4 - 128)

\* The bytes b1 to bn are the encoding e.
Bytes(e, n, b1, b2, b3, b4) ==
  e = IF n = 1 THEN <<b1>> ELSE IF n = 2 THEN <<b1, b2>>
      ELSE IF n = 3 THEN <<b1, b2, b3>> ELSE <<b1, b2, b3, b4>>

\* The bytes of a row are the encoding of a scalar value.
LEMMA RowsEncode ==
  ASSUME NEW n \in 1..4,
         NEW b1 \in Byte, NEW b2 \in Byte, NEW b3 \in Byte, NEW b4 \in Byte,
         Rows(n, b1, b2, b3, b4)
  PROVE  \E c \in Nat : IsScalar(c) /\ Bytes(Encoding(c), n, b1, b2, b3, b4)
<1>. DEFINE c == Value(n, b1, b2, b3, b4)
<1>1. CASE n = 1
  <2>1. c \in 0..127
    BY <1>1, SMT DEF Value, Rows
  <2>2. IsScalar(c) /\ Encoding(c) = <<b1>>
    BY <1>1, <2>1, SMT DEF IsScalar, Encoding, Value
  <2>. QED
    BY <1>1, <2>1, <2>2, SMT DEF Bytes
<1>2. CASE n = 2
  <2>1. c \in 128..2047 /\ c \div 64 = b1 - 192 /\ c % 64 = b2 - 128
    BY <1>2, SMT DEF Value, Rows
  <2>. HIDE DEF c
  <2>2. IsScalar(c) /\ Encoding(c) = <<192 + (c \div 64), 128 + (c % 64)>>
    BY <2>1, SMT DEF IsScalar, Encoding
  <2>3. 192 + (c \div 64) = b1 /\ 128 + (c % 64) = b2
    BY <2>1, SMT DEF Byte
  <2>. QED
    BY <1>2, <2>1, <2>2, <2>3, SMT DEF Bytes
<1>3. CASE n = 3
  <2>1. b1 \in 224..239 /\ b2 \in 128..191 /\ b3 \in 128..191
    BY <1>3, SMT DEF Rows
  <2>2. c = 4096 * (b1 - 224) + 64 * (b2 - 128) + (b3 - 128)
    BY <1>3, SMT DEF Value
  <2>3. c \in Nat /\ 2048 <= c /\ c < 65536 /\ ~(55296 <= c /\ c <= 57343)
    BY <1>3, <2>1, <2>2, SMT DEF Rows
  <2>. HIDE DEF c
  <2>4. c \div 4096 = b1 - 224 /\ c % 64 = b3 - 128
    BY <2>1, <2>2, SMT
  <2>5. c \div 64 = 64 * (b1 - 224) + (b2 - 128)
    BY <2>1, <2>2, SMT
  <2>6. (c \div 64) % 64 = b2 - 128
    BY <2>1, <2>5, SMT
  <2>7. Encoding(c) = <<224 + (b1 - 224), 128 + (b2 - 128), 128 + (b3 - 128)>>
    BY <2>3, <2>4, <2>6, SMT DEF Encoding
  <2>8. Encoding(c) = <<b1, b2, b3>>
    BY <2>1, <2>7, SMT
  <2>9. IsScalar(c)
    BY <2>3, SMT DEF IsScalar
  <2>. QED
    BY <1>3, <2>3, <2>8, <2>9, SMT DEF Bytes
<1>4. CASE n = 4
  <2>1. b1 \in 240..244 /\ b2 \in 128..191 /\ b3 \in 128..191 /\ b4 \in 128..191
    BY <1>4, SMT DEF Rows
  <2>2. c = 262144 * (b1 - 240) + 4096 * (b2 - 128) + 64 * (b3 - 128) + (b4 - 128)
    BY <1>4, SMT DEF Value
  <2>3. c \in Nat /\ 65536 <= c /\ c <= 1114111
    BY <1>4, <2>1, <2>2, SMT DEF Rows
  <2>. HIDE DEF c
  <2>4. c \div 262144 = b1 - 240 /\ c % 64 = b4 - 128
    BY <2>1, <2>2, SMT
  <2>5. c \div 4096 = 64 * (b1 - 240) + (b2 - 128)
    BY <2>1, <2>2, SMT
  <2>6. (c \div 4096) % 64 = b2 - 128
    BY <2>1, <2>5, SMT
  <2>7. c \div 64 = 4096 * (b1 - 240) + 64 * (b2 - 128) + (b3 - 128)
    BY <2>1, <2>2, SMT
  <2>8. (c \div 64) % 64 = b3 - 128
    BY <2>1, <2>7, SMT
  <2>9. Encoding(c) = <<240 + (b1 - 240), 128 + (b2 - 128), 128 + (b3 - 128), 128 + (b4 - 128)>>
    BY <2>3, <2>4, <2>6, <2>8, SMT DEF Encoding
  <2>10. Encoding(c) = <<b1, b2, b3, b4>>
    BY <2>1, <2>9, SMT
  <2>11. IsScalar(c)
    BY <2>3, SMT DEF IsScalar
  <2>. QED
    BY <1>4, <2>3, <2>10, <2>11, SMT DEF Bytes
<1>. QED
  BY <1>1, <1>2, <1>3, <1>4

\* The encoding of a scalar value is a row, whatever bytes follow it, and its
\* first byte announces its length.
LEMMA EncodingIsRow ==
  ASSUME NEW c, IsScalar(c), NEW n \in 1..4,
         NEW b1 \in Byte, NEW b2 \in Byte, NEW b3 \in Byte, NEW b4 \in Byte,
         Bytes(Encoding(c), n, b1, b2, b3, b4)
  PROVE  n = charlen(b1) /\ Rows(n, b1, b2, b3, b4)
<1>0. c \in Nat
  BY DEF IsScalar
<1>1. CASE c < 128
  <2>1. Encoding(c) = <<c>>
    BY <1>0, <1>1, SMT DEF Encoding
  <2>2. n = 1 /\ b1 = c
    BY <2>1, SMT DEF Bytes
  <2>. QED
    BY <1>0, <1>1, <2>2, SMT DEF Rows, charlen
<1>2. CASE 128 <= c /\ c < 2048
  <2>1. Encoding(c) = <<192 + (c \div 64), 128 + (c % 64)>>
    BY <1>0, <1>2, SMT DEF Encoding
  <2>2. n = 2 /\ b1 = 192 + (c \div 64) /\ b2 = 128 + (c % 64)
    BY <2>1, SMT DEF Bytes
  <2>3. c \div 64 \in 2..31 /\ c % 64 \in 0..63
    BY <1>0, <1>2, SMT
  <2>. QED
    BY <2>2, <2>3, SMT DEF Rows, charlen
<1>3. CASE 2048 <= c /\ c < 65536
  <2>1. Encoding(c) = <<224 + (c \div 4096), 128 + ((c \div 64) % 64), 128 + (c % 64)>>
    BY <1>0, <1>3, SMT DEF Encoding
  <2>2. /\ n = 3 /\ b1 = 224 + (c \div 4096)
        /\ b2 = 128 + ((c \div 64) % 64) /\ b3 = 128 + (c % 64)
    BY <2>1, SMT DEF Bytes
  <2>3. c \div 4096 \in 0..15 /\ (c \div 64) % 64 \in 0..63 /\ c % 64 \in 0..63
    BY <1>0, <1>3, SMT
  <2>4. c = 4096 * (c \div 4096) + 64 * ((c \div 64) % 64) + (c % 64)
    BY <1>0, SMT
  <2>5. ~(55296 <= c /\ c <= 57343)
    BY <1>0, <1>3, SMT DEF IsScalar
  <2>6. b1 \in 224..239 /\ b2 \in 128..191 /\ b3 \in 128..191
    BY <2>2, <2>3, SMT
  <2>7. c = 4096 * (b1 - 224) + 64 * (b2 - 128) + (b3 - 128)
    BY <1>0, <2>2, <2>3, <2>4, SMT
  <2>8. (b1 = 224 => b2 >= 160) /\ (b1 = 237 => b2 <= 159)
    BY <1>0, <1>3, <2>5, <2>6, <2>7, SMT
  <2>. QED
    BY <2>2, <2>6, <2>8, SMT DEF Rows, charlen
<1>4. CASE 65536 <= c
  <2>1. Encoding(c) = <<240 + (c \div 262144), 128 + ((c \div 4096) % 64),
                        128 + ((c \div 64) % 64), 128 + (c % 64)>>
    BY <1>0, <1>4, SMT DEF Encoding
  <2>2. /\ n = 4 /\ b1 = 240 + (c \div 262144) /\ b2 = 128 + ((c \div 4096) % 64)
        /\ b3 = 128 + ((c \div 64) % 64) /\ b4 = 128 + (c % 64)
    BY <2>1, SMT DEF Bytes
  <2>3. c <= 1114111
    BY <1>0, <1>4, SMT DEF IsScalar
  <2>4. /\ c \div 262144 \in 0..4 /\ (c \div 4096) % 64 \in 0..63
        /\ (c \div 64) % 64 \in 0..63 /\ c % 64 \in 0..63
    BY <1>0, <2>3, SMT
  <2>5. c = 262144 * (c \div 262144) + 4096 * ((c \div 4096) % 64)
              + 64 * ((c \div 64) % 64) + (c % 64)
    BY <1>0, SMT
  <2>6. b1 \in 240..244 /\ b2 \in 128..191 /\ b3 \in 128..191 /\ b4 \in 128..191
    BY <2>2, <2>4, SMT
  <2>7. c = 262144 * (b1 - 240) + 4096 * (b2 - 128) + 64 * (b3 - 128) + (b4 - 128)
    BY <1>0, <2>2, <2>4, <2>5, SMT
  <2>8. (b1 = 240 => b2 >= 144) /\ (b1 = 244 => b2 <= 143)
    BY <1>0, <1>4, <2>3, <2>6, <2>7, SMT
  <2>. QED
    BY <2>2, <2>6, <2>8, SMT DEF Rows, charlen
<1>. QED
  BY <1>0, <1>1, <1>2, <1>3, <1>4, SMT

LEMMA EncodingShape ==
  ASSUME NEW c, IsScalar(c)
  PROVE  \E n \in 1..4 : /\ Len(Encoding(c)) = n
                         /\ Bytes(Encoding(c), n, Encoding(c)[1], Encoding(c)[2],
                                  Encoding(c)[3], Encoding(c)[4])
<1>0. c \in Nat
  BY DEF IsScalar
<1>1. CASE c < 128
  BY <1>0, <1>1, SMT DEF Encoding, Bytes
<1>2. CASE 128 <= c /\ c < 2048
  BY <1>0, <1>2, SMT DEF Encoding, Bytes
<1>3. CASE 2048 <= c /\ c < 65536
  BY <1>0, <1>3, SMT DEF Encoding, Bytes
<1>4. CASE 65536 <= c
  BY <1>0, <1>4, SMT DEF Encoding, Bytes
<1>. QED
  BY <1>0, <1>1, <1>2, <1>3, <1>4, SMT

\* UTF8_char_validate accepts what lies at a position exactly when it is the
\* encoding of a Unicode scalar value that ends within the string, and the next
\* character is then looked for behind it: no overlong form, no surrogate,
\* nothing above U+10FFFF, no character cut short by the end of the string,
\* although the code compares with the length of the whole string.
THEOREM CharacterCheck ==
  ASSUME NEW signed \in BOOLEAN, NEW s \in CString, NEW i \in 1..Len(s)
  PROVE  /\ UTF8_char_validate(signed, Len(s), s, i) <=> \E c \in Nat : IsScalar(c) /\ HasAt(s, i, c)
         /\ \A c \in Nat : IsScalar(c) /\ HasAt(s, i, c) => charlen(s[i]) = Len(Encoding(c))
<1>. DEFINE b1 == s[i]
            b2 == Char(s, i + 1)
            b3 == Char(s, i + 2)
            b4 == Char(s, i + 3)
            n == charlen(b1)
<1>0. Len(s) \in Nat /\ i \in Nat /\ \A j \in 1..Len(s) : s[j] \in 1..255
  BY ElementOfSeq, LenProperties DEF CString
<1>1. b1 \in Byte /\ b2 \in Byte /\ b3 \in Byte /\ b4 \in Byte
  <2>1. \A j \in Nat \ {0} : Char(s, j) \in Byte
    BY <1>0, SMT DEF Char, Byte
  <2>2. b1 \in Byte
    BY <1>0, SMT DEF Byte
  <2>3. i + 1 \in Nat \ {0} /\ i + 2 \in Nat \ {0} /\ i + 3 \in Nat \ {0}
    BY <1>0, SMT
  <2>. QED
    BY <2>1, <2>2, <2>3
<1>. HIDE DEF b1, b2, b3, b4
<1>2. n \in 1..4
  BY <1>1, SMT DEF charlen, Byte
<1>. HIDE DEF n
<1>3. ASSUME UTF8_char_validate(signed, Len(s), s, i)
      PROVE  \E c \in Nat : IsScalar(c) /\ HasAt(s, i, c)
  <2>1. Rows(n, b1, b2, b3, b4)
    BY <1>1, <1>2, <1>3, TableIsRows DEF UTF8_char_validate, n, b1, b2, b3, b4
  <2>2. PICK c \in Nat : IsScalar(c) /\ Bytes(Encoding(c), n, b1, b2, b3, b4)
    BY <1>1, <1>2, <2>1, RowsEncode
  <2>3. /\ n >= 2 => b2 >= 128
        /\ n >= 3 => b3 >= 128
        /\ n >= 4 => b4 >= 128
    BY <1>1, <1>2, <2>1, SMT DEF Rows, Byte
  <2>4. i + n - 1 <= Len(s)
    BY <1>0, <1>2, <2>3, SMT DEF Char, b2, b3, b4
  <2>5. Len(Encoding(c)) = n
    BY <1>2, <2>2, SMT DEF Bytes
  <2>6. \A j \in 1..n : s[i + j - 1] = Encoding(c)[j]
    <3>1. CASE n = 1
      BY <2>2, <2>4, <3>1, SMT DEF Bytes, Char, b1, b2, b3, b4
    <3>2. CASE n = 2
      BY <1>0, <2>2, <2>4, <3>2, SMT DEF Bytes, Char, b1, b2, b3, b4
    <3>3. CASE n = 3
      BY <1>0, <2>2, <2>4, <3>3, SMT DEF Bytes, Char, b1, b2, b3, b4
    <3>4. CASE n = 4
      BY <1>0, <2>2, <2>4, <3>4, SMT DEF Bytes, Char, b1, b2, b3, b4
    <3>. QED
      BY <1>2, <3>1, <3>2, <3>3, <3>4, SMT
  <2>. QED
    BY <2>2, <2>4, <2>5, <2>6 DEF HasAt
<1>4. ASSUME NEW c \in Nat, IsScalar(c), HasAt(s, i, c)
      PROVE  /\ charlen(s[i]) = Len(Encoding(c))
             /\ UTF8_char_validate(signed, Len(s), s, i)
  <2>. DEFINE e == Encoding(c)
              m == Len(e)
  <2>1. m \in 1..4 /\ Bytes(e, m, e[1], e[2], e[3], e[4])
    BY <1>4, EncodingShape
  <2>2. i + m - 1 <= Len(s) /\ \A j \in 1..m : s[i + j - 1] = e[j]
    BY <1>4 DEF HasAt
  <2>. HIDE DEF e, m
  <2>3. /\ b1 = e[1]
        /\ m >= 2 => b2 = e[2]
        /\ m >= 3 => b3 = e[3]
        /\ m >= 4 => b4 = e[4]
    BY <1>0, <2>1, <2>2, SMT DEF Char, b1, b2, b3, b4
  <2>4. Bytes(e, m, b1, b2, b3, b4)
    BY <2>1, <2>3, SMT DEF Bytes
  <2>5. m = n /\ Rows(m, b1, b2, b3, b4)
    BY <1>1, <1>4, <2>1, <2>4, EncodingIsRow DEF e, n
  <2>6. n <= Len(s)
    BY <1>0, <2>1, <2>2, <2>5, SMT
  <2>. QED
    BY <1>1, <1>2, <2>5, <2>6, TableIsRows DEF UTF8_char_validate, n, m, e, b1, b2, b3, b4
<1>. QED
  BY <1>3, <1>4

-----------------------------------------------------------------------------
(* Trees *)

USE DEF LEFT, RIGHT, Sides, Opposite

-----------------------------------------------------------------------------
(* The invariant of a tree *)

Nodes(t) == DOMAIN t.node \ {Temp}
Red(t, n) == t.node[n].red
Before(s, a, b) == IF s = LEFT THEN a < b ELSE b < a

Typed(t) ==
  /\ t \in [root : Links, node : [DOMAIN t.node -> Node]]
  /\ DOMAIN t.node \subseteq Names
  /\ IsFiniteSet(DOMAIN t.node)

\* The links lead to nodes and back.
Linked(t) ==
  /\ t.root \in Nodes(t) \cup {Nil}
  /\ t.root = Nil <=> Nodes(t) = {}
  /\ \A n \in Nodes(t) :
       /\ Parent(t, n) \in Nodes(t) \cup {Nil}
       /\ Parent(t, n) = Nil <=> n = t.root
       /\ Parent(t, n) # Nil => \E s \in Sides : Child(t, Parent(t, n), s) = n
       /\ \A s \in Sides :
            /\ Child(t, n, s) \in Nodes(t) \cup {Nil}
            /\ Child(t, n, s) # Nil => Parent(t, Child(t, n, s)) = n

\* S says which nodes there are from each node down: it, smaller ones on the
\* left, and larger ones on the right.
Sorted(t, S) ==
  /\ S \in [Nodes(t) \cup {Nil} -> SUBSET Nodes(t)]
  /\ S[Nil] = {}
  /\ S[t.root] = Nodes(t)
  /\ \A n \in Nodes(t) :
       /\ S[n] = {n} \cup S[Child(t, n, LEFT)] \cup S[Child(t, n, RIGHT)]
       /\ \A s \in Sides : \A m \in S[Child(t, n, s)] : Before(s, m, n)

\* Temp hangs on a node and has no children.
Loose(t) ==
  Temp \in DOMAIN t.node => /\ Parent(t, Temp) \in Nodes(t)
                            /\ \A s \in Sides : Child(t, Temp, s) = Nil

Shape(t, S) == Typed(t) /\ Linked(t) /\ Loose(t) /\ Sorted(t, S)

Weight(t, n) == IF Red(t, n) THEN 0 ELSE 1
NoEdge == <<Nil, LEFT>>
Extra(n, s, short) == IF <<n, s>> = short THEN 1 ELSE 0
Heights(t, B, short) ==
  /\ B \in [Nodes(t) \cup {Nil} -> Nat]
  /\ B[Nil] = 0
  /\ \A n \in Nodes(t), s \in Sides :
       B[n] = Weight(t, n) + Extra(n, s, short) + B[Child(t, n, s)]

NoRedPair(t, above, below) ==
  \A n \in Nodes(t), s \in Sides :
     LET c == Child(t, n, s)
     IN Red(t, n) /\ c # Nil /\ n # above /\ c # below => ~Red(t, c)

RootBlack(t) == t.root # Nil => ~Red(t, t.root)

Sound(t, S, B) == Shape(t, S) /\ Heights(t, B, NoEdge) /\ NoRedPair(t, Nil, Nil) /\ RootBlack(t)

Adding(t, S, B, c) ==
  /\ Shape(t, S) /\ Heights(t, B, NoEdge)
  /\ c \in Nodes(t) /\ Red(t, c)
  /\ NoRedPair(t, Nil, c)
  /\ t.root # c => RootBlack(t)

\* c hangs one black node short from the edge.
Hangs(t, c, edge) ==
  /\ Parent(t, c) \in Nodes(t)
  /\ \E s \in Sides : edge = <<Parent(t, c), s>> /\ Child(t, Parent(t, c), s) = InTree(c)

Removing(t, S, B, c, edge) ==
  /\ Shape(t, S)
  /\ c \in DOMAIN t.node \cup {Nil}
  /\ c = Temp => ~Red(t, Temp)
  /\ Heights(t, B, edge)
  /\ NoRedPair(t, c, c)
  /\ c # t.root => RootBlack(t)
  /\ IF c \in {Nil, t.root} THEN edge = NoEdge ELSE Hangs(t, c, edge)

Tidy(t) == Temp \notin DOMAIN t.node

-----------------------------------------------------------------------------
(* What the assignments to a tree's links and colours change *)

SameNodes(t, u) == Typed(u) /\ DOMAIN u.node = DOMAIN t.node

LEMMA TypedNode ==
  ASSUME NEW t, Typed(t), NEW n \in DOMAIN t.node
  PROVE  /\ t.node[n] \in Node /\ n \in Names
         /\ Parent(t, n) \in Links
         /\ \A s \in Sides : Child(t, n, s) \in Links
         /\ Red(t, n) \in BOOLEAN
BY DEF Typed, Node, Parent, Child, Red

LEMMA Put ==
  ASSUME NEW t, Typed(t), NEW n \in DOMAIN t.node, NEW r \in Node,
         NEW u, u = [t EXCEPT !.node[n] = r]
  PROVE  /\ SameNodes(t, u) /\ u.root = t.root
         /\ \A m \in DOMAIN t.node : u.node[m] = IF m = n THEN r ELSE t.node[m]
BY DEF Typed, SameNodes

LEMMA Paints ==
  ASSUME NEW t, Typed(t), NEW n \in DOMAIN t.node, NEW red \in BOOLEAN,
         NEW u, u = Paint(t, n, red)
  PROVE  /\ SameNodes(t, u) /\ u.root = t.root
         /\ \A m \in DOMAIN t.node :
              /\ Parent(u, m) = Parent(t, m)
              /\ \A s \in Sides : Child(u, m, s) = Child(t, m, s)
              /\ Red(u, m) = IF m = n THEN red ELSE Red(t, m)
<1>1. PICK r : r = [t.node[n] EXCEPT !.red = red]
  OBVIOUS
<1>2. t.node[n] \in Node
  BY TypedNode
<1>3. r \in Node /\ r.red = red /\ r.parent = t.node[n].parent /\ r.child = t.node[n].child
  BY <1>1, <1>2 DEF Node
<1>4. u = [t EXCEPT !.node[n] = r]
  BY <1>1 DEF Paint
<1>5. SameNodes(t, u) /\ u.root = t.root /\ \A m \in DOMAIN t.node : u.node[m] = IF m = n THEN r ELSE t.node[m]
  BY <1>3, <1>4, Put
<1> QED BY <1>3, <1>5 DEF Parent, Child, Red

\* The two colours one by one.
Blackened(t, n) == Paint(t, n, FALSE)
Reddened(t, n) == Paint(t, n, TRUE)

LEMMA Blackens ==
  ASSUME NEW t, Typed(t), NEW n \in DOMAIN t.node, NEW u, u = Blackened(t, n)
  PROVE  /\ SameNodes(t, u) /\ u.root = t.root
         /\ \A m \in DOMAIN t.node :
              /\ Parent(u, m) = Parent(t, m)
              /\ \A s \in Sides : Child(u, m, s) = Child(t, m, s)
              /\ Red(u, m) <=> m # n /\ Red(t, m)
<1>1. PICK r : r = [t.node[n] EXCEPT !.red = FALSE]
  OBVIOUS
<1>2. t.node[n] \in Node
  BY TypedNode
<1>3. r \in Node /\ r.red = FALSE /\ r.parent = t.node[n].parent /\ r.child = t.node[n].child
  BY <1>1, <1>2 DEF Node
<1>4. u = [t EXCEPT !.node[n] = r]
  BY <1>1 DEF Paint, Blackened
<1>5. SameNodes(t, u) /\ u.root = t.root /\ \A m \in DOMAIN t.node : u.node[m] = IF m = n THEN r ELSE t.node[m]
  BY <1>3, <1>4, Put
<1> QED BY <1>3, <1>5 DEF Parent, Child, Red

LEMMA Reddens ==
  ASSUME NEW t, Typed(t), NEW n \in DOMAIN t.node, NEW u, u = Reddened(t, n)
  PROVE  /\ SameNodes(t, u) /\ u.root = t.root
         /\ \A m \in DOMAIN t.node :
              /\ Parent(u, m) = Parent(t, m)
              /\ \A s \in Sides : Child(u, m, s) = Child(t, m, s)
              /\ Red(u, m) <=> m = n \/ Red(t, m)
<1>1. PICK r : r = [t.node[n] EXCEPT !.red = TRUE]
  OBVIOUS
<1>2. t.node[n] \in Node
  BY TypedNode
<1>3. r \in Node /\ r.red = TRUE /\ r.parent = t.node[n].parent /\ r.child = t.node[n].child
  BY <1>1, <1>2 DEF Node
<1>4. u = [t EXCEPT !.node[n] = r]
  BY <1>1 DEF Paint, Reddened
<1>5. SameNodes(t, u) /\ u.root = t.root /\ \A m \in DOMAIN t.node : u.node[m] = IF m = n THEN r ELSE t.node[m]
  BY <1>3, <1>4, Put
<1> QED BY <1>3, <1>5 DEF Parent, Child, Red

LEMMA SetsParent ==
  ASSUME NEW t, Typed(t), NEW n \in DOMAIN t.node \cup {Nil}, NEW p \in Links,
         NEW u, u = SetParent(t, n, p), Nil \notin DOMAIN t.node
  PROVE  /\ SameNodes(t, u) /\ u.root = t.root
         /\ \A m \in DOMAIN t.node :
              /\ Parent(u, m) = IF m = n THEN p ELSE Parent(t, m)
              /\ \A s \in Sides : Child(u, m, s) = Child(t, m, s)
              /\ Red(u, m) = Red(t, m)
<1>1. CASE n = Nil
  BY <1>1 DEF SetParent, SameNodes
<1>2. CASE n # Nil
  <2>1. PICK r : r = [t.node[n] EXCEPT !.parent = p]
    OBVIOUS
  <2>2. t.node[n] \in Node
    BY <1>2, TypedNode
  <2>3. r \in Node /\ r.red = t.node[n].red /\ r.parent = p /\ r.child = t.node[n].child
    BY <2>1, <2>2 DEF Node
  <2>4. u = [t EXCEPT !.node[n] = r]
    BY <1>2, <2>1 DEF SetParent
  <2>5. SameNodes(t, u) /\ u.root = t.root /\ \A m \in DOMAIN t.node : u.node[m] = IF m = n THEN r ELSE t.node[m]
    BY <1>2, <2>3, <2>4, Put
  <2> QED BY <2>3, <2>5 DEF Parent, Child, Red
<1> QED BY <1>1, <1>2

WithNode(t, n, r) == [t EXCEPT !.node[n] = r]
WithChild(r, side, c) == [r EXCEPT !.child[side] = c]

LEMMA PutsChild ==
  ASSUME NEW t, Typed(t), NEW n \in DOMAIN t.node, NEW side \in Sides, NEW c \in Links,
         NEW r, r = WithChild(t.node[n], side, c),
         NEW u, u = WithNode(t, n, r)
  PROVE  /\ SameNodes(t, u) /\ u.root = t.root
         /\ \A m \in DOMAIN t.node :
              /\ Parent(u, m) = Parent(t, m)
              /\ \A s \in Sides : Child(u, m, s) = IF m = n /\ s = side THEN c ELSE Child(t, m, s)
              /\ Red(u, m) = Red(t, m)
<1>1. t.node[n] \in Node
  BY TypedNode
<1>2. r \in Node /\ r.red = t.node[n].red /\ r.parent = t.node[n].parent
      /\ \A s \in Sides : r.child[s] = IF s = side THEN c ELSE t.node[n].child[s]
  BY <1>1 DEF Node, WithChild
<1>3. SameNodes(t, u) /\ u.root = t.root /\ \A m \in DOMAIN t.node : u.node[m] = IF m = n THEN r ELSE t.node[m]
  BY <1>2, Put DEF WithNode
<1>4. ASSUME NEW m \in DOMAIN t.node, NEW s \in Sides
      PROVE  Child(u, m, s) = IF m = n /\ s = side THEN c ELSE Child(t, m, s)
  <2>1. CASE m = n
    BY <1>2, <1>3, <2>1 DEF Child
  <2>2. CASE m # n
    BY <1>3, <2>2 DEF Child
  <2> QED BY <2>1, <2>2
<1> QED BY <1>2, <1>3, <1>4 DEF Parent, Red

SetChild(t, n, side, c) == [t EXCEPT !.node[n].child[side] = c]

LEMMA SetsChild ==
  ASSUME NEW t, Typed(t), NEW n \in DOMAIN t.node, NEW side \in Sides, NEW c \in Links,
         NEW u, u = SetChild(t, n, side, c)
  PROVE  /\ SameNodes(t, u) /\ u.root = t.root
         /\ \A m \in DOMAIN t.node :
              /\ Parent(u, m) = Parent(t, m)
              /\ \A s \in Sides : Child(u, m, s) = IF m = n /\ s = side THEN c ELSE Child(t, m, s)
              /\ Red(u, m) = Red(t, m)
<1>1. PICK r : r = WithChild(t.node[n], side, c)
  OBVIOUS
<1>2. u = WithNode(t, n, r)
  <2>1. PICK v : v = [t.node EXCEPT ![n] = r]
    OBVIOUS
  <2>2. v = [t.node EXCEPT ![n].child[side] = c]
    BY <1>1, <2>1, Zenon DEF WithChild
  <2>3. u = [t EXCEPT !.node = v]
    BY <2>2, Zenon DEF SetChild
  <2>4. [t EXCEPT !.node[n] = r] = [t EXCEPT !.node = v]
    BY <2>1
  <2> QED BY <2>3, <2>4, Zenon DEF WithNode
<1> QED BY <1>1, <1>2, PutsChild

LEMMA ReplacesChild ==
  ASSUME NEW t, Typed(t), NEW p \in DOMAIN t.node \cup {Nil}, Nil \notin DOMAIN t.node,
         NEW old, NEW new \in Links,
         p # Nil => Child(t, p, LEFT) = old \/ Child(t, p, RIGHT) = old,
         p # Nil => Child(t, p, LEFT) # Child(t, p, RIGHT),
         NEW u, u = ReplaceChild(t, p, old, new)
  PROVE  /\ SameNodes(t, u)
         /\ u.root = IF p = Nil THEN new ELSE t.root
         /\ \A m \in DOMAIN t.node :
              /\ Parent(u, m) = Parent(t, m)
              /\ \A s \in Sides : Child(u, m, s) = IF m = p /\ Child(t, m, s) = old THEN new ELSE Child(t, m, s)
              /\ Red(u, m) = Red(t, m)
<1>1. CASE p = Nil
  BY <1>1 DEF ReplaceChild, SameNodes, Typed, Parent, Child, Red
<1>2. CASE p # Nil
  <2>1. PICK side \in Sides : side = IF Child(t, p, LEFT) = old THEN LEFT ELSE RIGHT
    OBVIOUS
  <2>2. \A s \in Sides : s = side <=> Child(t, p, s) = old
    BY <1>2, <2>1
  <2>3. u = SetChild(t, p, side, new)
    BY <1>2, <2>1, Zenon DEF ReplaceChild, SetChild
  <2> QED BY <1>2, <2>2, <2>3, SetsChild
<1> QED BY <1>1, <1>2

-----------------------------------------------------------------------------
(* Shapes *)

LEMMA NamesAre ==
  ASSUME NEW t, Typed(t)
  PROVE  /\ Nil \notin DOMAIN t.node /\ Nil \notin Nodes(t) /\ Temp \notin Nodes(t)
         /\ Nodes(t) \subseteq DOMAIN t.node /\ Nodes(t) \subseteq Contents
         /\ \A n \in Nodes(t) : n \in Nat
         /\ IsFiniteSet(Nodes(t))
<1>1. IsFiniteSet(Nodes(t))
  BY FS_Subset DEF Typed, Nodes
<1> QED BY <1>1, ContentsAssumption DEF Typed, Nodes, Names

\* What a shape says of a node.
LEMMA NodeFacts ==
  ASSUME NEW t, NEW S, Shape(t, S), NEW n \in Nodes(t)
  PROVE  /\ n \in DOMAIN t.node /\ n \in Nat /\ n # Nil /\ n # Temp /\ n \in Links
         /\ S[n] \subseteq Nodes(t) /\ n \in S[n] /\ S[Nil] = {}
         /\ S[n] = {n} \cup S[Child(t, n, LEFT)] \cup S[Child(t, n, RIGHT)]
         /\ Child(t, n, LEFT) # Nil => Child(t, n, LEFT) # Child(t, n, RIGHT)
         /\ Parent(t, n) \in Nodes(t) \cup {Nil}
         /\ Parent(t, n) = Nil <=> n = t.root
         /\ \A s \in Sides :
              /\ Child(t, n, s) \in Nodes(t) \cup {Nil}
              /\ Child(t, n, s) # Nil => /\ Parent(t, Child(t, n, s)) = n
                                         /\ Child(t, n, s) \in S[Child(t, n, s)]
              /\ Child(t, n, s) # n
              /\ S[Child(t, n, s)] \subseteq S[n]
              /\ n \notin S[Child(t, n, s)]
              /\ \A m \in S[Child(t, n, s)] : Before(s, m, n)
<1>1. n \in DOMAIN t.node /\ n \in Nat /\ n # Nil /\ n # Temp /\ n \in Links
  BY NamesAre DEF Shape, Typed, Nodes, Links, Names
<1>2. /\ S[n] \subseteq Nodes(t) /\ n \in S[n] /\ S[Nil] = {}
      /\ S[n] = {n} \cup S[Child(t, n, LEFT)] \cup S[Child(t, n, RIGHT)]
      /\ \A s \in Sides : \A m \in S[Child(t, n, s)] : Before(s, m, n)
  BY DEF Shape, Sorted
<1>3. /\ Parent(t, n) \in Nodes(t) \cup {Nil}
      /\ Parent(t, n) = Nil <=> n = t.root
      /\ \A s \in Sides : /\ Child(t, n, s) \in Nodes(t) \cup {Nil}
                          /\ Child(t, n, s) # Nil => Parent(t, Child(t, n, s)) = n
  BY DEF Shape, Linked
<1>4. \A c \in Nodes(t) : c \in S[c] /\ c \in Nat
  BY NamesAre DEF Shape, Sorted
<1>5. \A s \in Sides : n \notin S[Child(t, n, s)] /\ S[Child(t, n, s)] \subseteq S[n]
  BY <1>1, <1>2 DEF Before
<1>6. Child(t, n, LEFT) # Nil => Child(t, n, LEFT) # Child(t, n, RIGHT)
  <2>1. ASSUME Child(t, n, LEFT) # Nil, Child(t, n, LEFT) = Child(t, n, RIGHT)
        PROVE  FALSE
    <3>1. PICK c \in Nodes(t) : c = Child(t, n, LEFT)
      BY <1>3, <2>1
    <3>2. Before(LEFT, c, n) /\ Before(RIGHT, c, n) /\ c \in Nat
      BY <1>2, <1>4, <2>1, <3>1
    <3> QED BY <1>1, <3>2 DEF Before
  <2> QED BY <2>1
<1>7. \A s \in Sides : /\ Child(t, n, s) # n
                       /\ Child(t, n, s) # Nil => Child(t, n, s) \in S[Child(t, n, s)]
  BY <1>1, <1>3, <1>4, <1>5
<1> QED BY <1>1, <1>2, <1>3, <1>5, <1>6, <1>7

NodeOf(t, S, n) ==
  /\ n \in DOMAIN t.node /\ n \in Nat /\ n # Nil /\ n # Temp /\ n \in Links
  /\ S[n] \subseteq Nodes(t) /\ n \in S[n] /\ S[Nil] = {}
  /\ S[n] = {n} \cup S[Child(t, n, LEFT)] \cup S[Child(t, n, RIGHT)]
  /\ Child(t, n, LEFT) # Nil => Child(t, n, LEFT) # Child(t, n, RIGHT)
  /\ Parent(t, n) \in Nodes(t) \cup {Nil}
  /\ Parent(t, n) = Nil <=> n = t.root
  /\ \A s \in Sides :
       /\ Child(t, n, s) \in Nodes(t) \cup {Nil}
       /\ Child(t, n, s) # Nil => /\ Parent(t, Child(t, n, s)) = n
                                  /\ Child(t, n, s) \in S[Child(t, n, s)]
       /\ Child(t, n, s) # n
       /\ S[Child(t, n, s)] \subseteq S[n]
       /\ n \notin S[Child(t, n, s)]
       /\ \A m \in S[Child(t, n, s)] : Before(s, m, n)

LEMMA NodeIs ==
  ASSUME NEW t, NEW S, Shape(t, S), NEW n \in Nodes(t)
  PROVE  NodeOf(t, S, n)
BY NodeFacts DEF NodeOf

\* Two nodes have no child in common.
LEMMA OneParent ==
  ASSUME NEW t, NEW S, Shape(t, S), NEW n \in Nodes(t), NEW m \in Nodes(t), NEW r \in Sides, NEW s \in Sides,
         Child(t, n, s) # Nil, Child(t, n, s) = Child(t, m, r)
  PROVE  n = m /\ r = s
<1>1. n = m
  BY NodeFacts
<1> QED BY <1>1, NodeFacts

\* A node that has a parent is its child on one side.
LEMMA ParentFacts ==
  ASSUME NEW t, NEW S, Shape(t, S), NEW n \in Nodes(t), Parent(t, n) # Nil
  PROVE  /\ Parent(t, n) \in Nodes(t) /\ Parent(t, n) # n
         /\ Child(t, Parent(t, n), LEFT) = n \/ Child(t, Parent(t, n), RIGHT) = n
         /\ Child(t, Parent(t, n), LEFT) # Child(t, Parent(t, n), RIGHT)
<1>1. PICK p \in Nodes(t) : p = Parent(t, n)
  BY NodeFacts
<1>2. Child(t, p, LEFT) = n \/ Child(t, p, RIGHT) = n
  BY <1>1, NodeFacts DEF Shape, Linked
<1>3. n # Nil
  BY NodeFacts
<1>4. p # n
  BY <1>2, NodeFacts
<1>5. Child(t, p, LEFT) # Child(t, p, RIGHT)
  BY <1>2, <1>3, NodeFacts
<1> QED BY <1>1, <1>2, <1>4, <1>5

SameLinks(t, u) ==
  /\ SameNodes(t, u) /\ u.root = t.root
  /\ \A m \in DOMAIN t.node :
       /\ Parent(u, m) = Parent(t, m)
       /\ \A s \in Sides : Child(u, m, s) = Child(t, m, s)

LEMMA ShapeOfLinks ==
  ASSUME NEW t, NEW S, Shape(t, S), NEW u, SameLinks(t, u)
  PROVE  Shape(u, S) /\ Nodes(u) = Nodes(t)
<1>1. Nodes(u) = Nodes(t) /\ u.root = t.root /\ Typed(u) /\ Nodes(t) \subseteq DOMAIN t.node
  BY DEF SameLinks, SameNodes, Nodes
<1>2. ASSUME NEW m \in Nodes(t)
      PROVE  Parent(u, m) = Parent(t, m) /\ \A s \in Sides : Child(u, m, s) = Child(t, m, s)
  BY <1>1 DEF SameLinks
<1>3. Sorted(u, S)
  <2>1. ASSUME NEW n \in Nodes(u)
        PROVE  /\ S[n] = {n} \cup S[Child(u, n, LEFT)] \cup S[Child(u, n, RIGHT)]
               /\ \A s \in Sides : \A m \in S[Child(u, n, s)] : Before(s, m, n)
    BY <1>1, <1>2 DEF Shape, Sorted
  <2> QED BY <1>1, <2>1 DEF Shape, Sorted
<1>4. Linked(u)
  <2>1. ASSUME NEW n \in Nodes(u)
        PROVE /\ Parent(u, n) \in Nodes(u) \cup {Nil}
              /\ Parent(u, n) = Nil <=> n = u.root
              /\ Parent(u, n) # Nil => \E s \in Sides : Child(u, Parent(u, n), s) = n
              /\ \A s \in Sides :
                   /\ Child(u, n, s) \in Nodes(u) \cup {Nil}
                   /\ Child(u, n, s) # Nil => Parent(u, Child(u, n, s)) = n
    BY <1>1, <1>2 DEF Shape, Linked
  <2> QED BY <1>1, <2>1 DEF Shape, Linked
<1>5. Loose(u)
  BY <1>1 DEF SameLinks, SameNodes, Loose, Shape
<1> QED BY <1>1, <1>3, <1>4, <1>5 DEF Shape

-----------------------------------------------------------------------------
(* Rotations *)

\* The links after n has gone down on this side.
Rotated(t, n, side, u) ==
  LET o == Child(t, n, Opposite(side))
      i == Child(t, o, side)
  IN /\ SameNodes(t, u)
     /\ u.root = IF n = t.root THEN o ELSE t.root
     /\ \A m \in DOMAIN t.node :
          /\ Parent(u, m) = IF m = n THEN o ELSE IF m = o THEN Parent(t, n)
                            ELSE IF m = i THEN n ELSE Parent(t, m)
          /\ \A s \in Sides :
               Child(u, m, s) = IF m = n THEN (IF s = side THEN Child(t, n, s) ELSE i)
                                ELSE IF m = o THEN (IF s = side THEN n ELSE Child(t, o, s))
                                ELSE IF Child(t, m, s) = n THEN o
                                ELSE Child(t, m, s)

LEMMA Rotates ==
  ASSUME NEW t, NEW S, Shape(t, S), NEW n \in Nodes(t), NEW side \in Sides,
         Child(t, n, Opposite(side)) # Nil,
         NEW u, u = TreeRotate(t, n, side)
  PROVE  Rotated(t, n, side, u) /\ \A m \in DOMAIN t.node : Red(u, m) = Red(t, m)
<1>1. PICK opp \in Sides : opp = Opposite(side) /\ opp # side
  OBVIOUS
<1>2. PICK o \in Nodes(t) : o = Child(t, n, opp)
  BY <1>1, NodeFacts
<1>3. PICK i \in Nodes(t) \cup {Nil} : i = Child(t, o, side)
  BY NodeFacts
<1>4. PICK p \in Nodes(t) \cup {Nil} : p = Parent(t, n)
  BY NodeFacts
<1>5. /\ Typed(t) /\ Nil \notin DOMAIN t.node /\ Nodes(t) \subseteq DOMAIN t.node
      /\ n \in Links /\ o \in Links /\ i \in Links /\ p \in Links /\ n # Nil /\ o # Nil /\ n # o
      /\ \A m \in DOMAIN t.node : m \in Nodes(t) \/ m = Temp
  <2>1. Nodes(t) \subseteq Links /\ Nil \in Links
    BY NodeFacts DEF Links
  <2>2. Typed(t) /\ Nil \notin DOMAIN t.node /\ Nodes(t) \subseteq DOMAIN t.node /\ Nil \notin Nodes(t)
    BY NamesAre DEF Shape
  <2>3. \A m \in DOMAIN t.node : m \in Nodes(t) \/ m = Temp
    BY DEF Nodes
  <2>4. n # o
    BY <1>1, <1>2, NodeFacts
  <2> QED BY <1>2, <1>3, <1>4, <2>1, <2>2, <2>3, <2>4
<1>a. p # Nil => p # n /\ (Child(t, p, LEFT) = n \/ Child(t, p, RIGHT) = n)
                /\ Child(t, p, LEFT) # Child(t, p, RIGHT)
  BY <1>4, ParentFacts
<1>b. S[o] \subseteq S[n] /\ n \notin S[o] /\ o \in S[o]
  BY <1>1, <1>2, <1>5, NodeFacts
<1>6. i # n /\ i # o /\ p # n
  <2>1. i # o
    BY <1>3, NodeFacts
  <2>2. i # Nil => i \in S[i] /\ S[i] \subseteq S[o]
    BY <1>3, NodeFacts
  <2> QED BY <1>a, <1>b, <1>5, <2>1, <2>2
<1>7. p # o
  <2>1. SUFFICES ASSUME p = o PROVE FALSE
    OBVIOUS
  <2>2. Child(t, o, LEFT) = n \/ Child(t, o, RIGHT) = n
    BY <1>5, <1>a, <2>1
  <2>3. S[n] \subseteq S[o] /\ n \in S[n]
    BY <2>2, NodeFacts
  <2> QED BY <1>b, <2>3
<1>10. PICK t1 : t1 = SetChild(t, n, opp, i)
  OBVIOUS
<1>11. PICK t2 : t2 = SetParent(t1, i, n)
  OBVIOUS
<1>12. PICK t3 : t3 = SetParent(t2, o, p)
  OBVIOUS
<1>13. PICK t4 : t4 = ReplaceChild(t3, p, n, o)
  OBVIOUS
<1>14. PICK t5 : t5 = SetChild(t4, o, side, n)
  OBVIOUS
<1>15. u = SetParent(t5, n, o)
  BY <1>1, <1>2, <1>3, <1>4, <1>10, <1>11, <1>12, <1>13, <1>14, Zenon DEF TreeRotate, SetChild
<1>20. /\ SameNodes(t, t1) /\ t1.root = t.root
       /\ \A m \in DOMAIN t.node :
            /\ Parent(t1, m) = Parent(t, m)
            /\ \A s \in Sides : Child(t1, m, s) = IF m = n /\ s = opp THEN i ELSE Child(t, m, s)
            /\ Red(t1, m) = Red(t, m)
  BY <1>5, <1>10, SetsChild
<1>21. /\ SameNodes(t, t2) /\ t2.root = t.root
       /\ \A m \in DOMAIN t.node :
            /\ Parent(t2, m) = IF m = i THEN n ELSE Parent(t, m)
            /\ \A s \in Sides : Child(t2, m, s) = IF m = n /\ s = opp THEN i ELSE Child(t, m, s)
            /\ Red(t2, m) = Red(t, m)
  <2>1. /\ SameNodes(t1, t2) /\ t2.root = t1.root
        /\ \A m \in DOMAIN t1.node :
             /\ Parent(t2, m) = IF m = i THEN n ELSE Parent(t1, m)
             /\ \A s \in Sides : Child(t2, m, s) = Child(t1, m, s)
             /\ Red(t2, m) = Red(t1, m)
    BY <1>5, <1>11, <1>20, SetsParent DEF SameNodes
  <2> QED BY <1>20, <2>1 DEF SameNodes
<1>22. /\ SameNodes(t, t3) /\ t3.root = t.root
       /\ \A m \in DOMAIN t.node :
            /\ Parent(t3, m) = IF m = o THEN p ELSE IF m = i THEN n ELSE Parent(t, m)
            /\ \A s \in Sides : Child(t3, m, s) = IF m = n /\ s = opp THEN i ELSE Child(t, m, s)
            /\ Red(t3, m) = Red(t, m)
  <2>1. /\ SameNodes(t2, t3) /\ t3.root = t2.root
        /\ \A m \in DOMAIN t2.node :
             /\ Parent(t3, m) = IF m = o THEN p ELSE Parent(t2, m)
             /\ \A s \in Sides : Child(t3, m, s) = Child(t2, m, s)
             /\ Red(t3, m) = Red(t2, m)
    BY <1>5, <1>12, <1>21, SetsParent DEF SameNodes
  <2> QED BY <1>21, <2>1 DEF SameNodes
<1>23. /\ SameNodes(t, t4) /\ t4.root = IF p = Nil THEN o ELSE t.root
       /\ \A m \in DOMAIN t.node :
            /\ Parent(t4, m) = IF m = o THEN p ELSE IF m = i THEN n ELSE Parent(t, m)
            /\ \A s \in Sides :
                 Child(t4, m, s) = IF m = n /\ s = opp THEN i
                                   ELSE IF m = p /\ Child(t, m, s) = n THEN o ELSE Child(t, m, s)
            /\ Red(t4, m) = Red(t, m)
  <2>1. p # Nil => /\ Child(t3, p, LEFT) = n \/ Child(t3, p, RIGHT) = n
                   /\ Child(t3, p, LEFT) # Child(t3, p, RIGHT)
    BY <1>5, <1>6, <1>a, <1>22
  <2>2. Typed(t3) /\ DOMAIN t3.node = DOMAIN t.node
    BY <1>22 DEF SameNodes
  <2>3. /\ SameNodes(t3, t4) /\ t4.root = IF p = Nil THEN o ELSE t3.root
        /\ \A m \in DOMAIN t3.node :
             /\ Parent(t4, m) = Parent(t3, m)
             /\ \A s \in Sides : Child(t4, m, s) = IF m = p /\ Child(t3, m, s) = n THEN o ELSE Child(t3, m, s)
             /\ Red(t4, m) = Red(t3, m)
    BY <1>5, <1>13, <2>1, <2>2, ReplacesChild
  <2>4. ASSUME NEW m \in DOMAIN t.node, NEW s \in Sides
        PROVE  Child(t4, m, s) = IF m = n /\ s = opp THEN i
                                 ELSE IF m = p /\ Child(t, m, s) = n THEN o ELSE Child(t, m, s)
    BY <1>6, <1>22, <2>2, <2>3
  <2> QED BY <1>22, <2>2, <2>3, <2>4 DEF SameNodes
<1>24. /\ SameNodes(t, t5) /\ t5.root = t4.root
       /\ \A m \in DOMAIN t.node :
            /\ Parent(t5, m) = Parent(t4, m) /\ Red(t5, m) = Red(t, m)
            /\ \A s \in Sides :
                 Child(t5, m, s) = IF m = o /\ s = side THEN n ELSE Child(t4, m, s)
  BY <1>5, <1>14, <1>23, SetsChild DEF SameNodes
<1>25. /\ SameNodes(t, u) /\ u.root = t5.root
       /\ \A m \in DOMAIN t.node :
            /\ Parent(u, m) = IF m = n THEN o ELSE Parent(t5, m)
            /\ Red(u, m) = Red(t, m)
            /\ \A s \in Sides : Child(u, m, s) = Child(t5, m, s)
  BY <1>5, <1>15, <1>24, SetsParent DEF SameNodes
<1>26. u.root = IF n = t.root THEN o ELSE t.root
  BY <1>4, <1>23, <1>24, <1>25, NodeFacts
<1>27. ASSUME NEW m \in DOMAIN t.node
       PROVE  Parent(u, m) = IF m = n THEN o ELSE IF m = o THEN Parent(t, n)
                             ELSE IF m = i THEN n ELSE Parent(t, m)
  BY <1>4, <1>23, <1>24, <1>25
<1>28. ASSUME NEW m \in DOMAIN t.node, NEW s \in Sides
       PROVE Child(u, m, s) = IF m = n THEN (IF s = side THEN Child(t, n, s) ELSE i)
                              ELSE IF m = o THEN (IF s = side THEN n ELSE Child(t, o, s))
                              ELSE IF Child(t, m, s) = n THEN o
                              ELSE Child(t, m, s)
  <2>1. Child(u, m, s) = IF m = o /\ s = side THEN n
                         ELSE IF m = n /\ s = opp THEN i
                         ELSE IF m = p /\ Child(t, m, s) = n THEN o ELSE Child(t, m, s)
    BY <1>23, <1>24, <1>25
  <2>2. Child(t, m, s) = n => m = p
    BY <1>4, <1>5, NodeFacts DEF Shape, Loose
  <2>3. s = side \/ s = opp
    BY <1>1
  <2>4. Child(t, n, s) # n /\ Child(t, o, s) # n
    BY <1>4, <1>5, <1>7, NodeFacts
  <2> QED BY <1>1, <1>5, <2>1, <2>2, <2>3, <2>4
<1>30. \A m \in DOMAIN t.node : Red(u, m) = Red(t, m)
  BY <1>25
<1>31. SameNodes(t, u)
  BY <1>25
<1> QED BY <1>1, <1>2, <1>3, <1>26, <1>27, <1>28, <1>30, <1>31 DEF Rotated

RotatedSets(t, S, n, side) ==
  LET o == Child(t, n, Opposite(side))
  IN [m \in Nodes(t) \cup {Nil} |->
        IF m = o THEN S[n]
        ELSE IF m = n THEN {n} \cup S[Child(t, n, side)] \cup S[Child(t, o, side)]
        ELSE S[m]]

LEMMA RotatedShape ==
  ASSUME NEW t, NEW S, Shape(t, S), NEW n \in Nodes(t), NEW side \in Sides,
         Child(t, n, Opposite(side)) # Nil,
         NEW u, Rotated(t, n, side, u)
  PROVE  Shape(u, RotatedSets(t, S, n, side)) /\ Nodes(u) = Nodes(t)
<1>1. PICK opp \in Sides : opp = Opposite(side) /\ opp # side
  OBVIOUS
<1>2. PICK o \in Nodes(t) : o = Child(t, n, opp)
  BY <1>1, NodeFacts
<1>3. PICK i \in Nodes(t) \cup {Nil} : i = Child(t, o, side)
  BY NodeFacts
<1>4. PICK near \in Nodes(t) \cup {Nil} : near = Child(t, n, side)
  BY NodeFacts
<1>5. PICK outer \in Nodes(t) \cup {Nil} : outer = Child(t, o, opp)
  BY NodeFacts
<1>6. PICK R : R = RotatedSets(t, S, n, side)
  OBVIOUS
<1>7. /\ R \in [Nodes(t) \cup {Nil} -> SUBSET Nodes(t)]
      /\ \A m \in Nodes(t) \cup {Nil} :
           R[m] = IF m = o THEN S[n] ELSE IF m = n THEN {n} \cup S[near] \cup S[i] ELSE S[m]
  <2>1. S \in [Nodes(t) \cup {Nil} -> SUBSET Nodes(t)]
    BY DEF Shape, Sorted
  <2> QED BY <1>1, <1>2, <1>3, <1>4, <1>6, <2>1 DEF RotatedSets
<1>8. /\ SameNodes(t, u)
      /\ u.root = IF n = t.root THEN o ELSE t.root
      /\ \A m \in DOMAIN t.node :
           /\ Parent(u, m) = IF m = n THEN o ELSE IF m = o THEN Parent(t, n)
                             ELSE IF m = i THEN n ELSE Parent(t, m)
           /\ \A s \in Sides :
                Child(u, m, s) = IF m = n THEN (IF s = side THEN Child(t, n, s) ELSE i)
                                 ELSE IF m = o THEN (IF s = side THEN n ELSE Child(t, o, s))
                                 ELSE IF Child(t, m, s) = n THEN o
                                 ELSE Child(t, m, s)
  BY <1>1, <1>2, <1>3 DEF Rotated
<1>9. Nodes(u) = Nodes(t) /\ Nodes(t) \subseteq DOMAIN t.node /\ Typed(u)
  BY <1>8 DEF SameNodes, Nodes
<1>10. /\ n # Nil /\ o # Nil /\ n # o /\ n \in Nat /\ o \in Nat /\ Nil \notin Nodes(t)
       /\ i # n /\ i # o /\ near # n /\ near # o /\ outer # n /\ outer # o
       /\ i # Nil => Parent(t, i) = o
       /\ near # Nil => Parent(t, near) = n
       /\ outer # Nil => Parent(t, outer) = o /\ outer # i
  <2>1. n # Nil /\ o # Nil /\ n # o /\ n \in Nat /\ o \in Nat /\ Nil \notin Nodes(t)
    BY <1>1, <1>2, NodeFacts, NamesAre DEF Shape
  <2>2. i # o /\ outer # o /\ near # n
    BY <1>3, <1>4, <1>5, NodeFacts
  <2>3. near # o
    BY <1>1, <1>2, <1>4, <2>1, OneParent
  <2>4. /\ S[i] \subseteq S[o] /\ S[outer] \subseteq S[o] /\ n \notin S[o]
        /\ i # Nil => i \in S[i]
        /\ outer # Nil => outer \in S[outer]
    BY <1>1, <1>2, <1>3, <1>5, NodeFacts
  <2>5. i # n /\ outer # n
    BY <2>1, <2>4
  <2>6. /\ i # Nil => Parent(t, i) = o
        /\ near # Nil => Parent(t, near) = n
        /\ outer # Nil => Parent(t, outer) = o
    BY <1>3, <1>4, <1>5, NodeFacts
  <2>7. outer # Nil => outer # i
    BY <1>1, <1>3, <1>5, NodeFacts
  <2> QED BY <2>1, <2>2, <2>3, <2>5, <2>6, <2>7
<1>11. /\ S[n] = {n} \cup S[near] \cup S[o] /\ S[o] = {o} \cup S[i] \cup S[outer]
       /\ S[n] \subseteq Nodes(t)
       /\ \A m \in S[near] : Before(side, m, n)
       /\ \A m \in S[o] : Before(opp, m, n)
       /\ \A m \in S[i] : Before(side, m, o)
       /\ \A m \in S[outer] : Before(opp, m, o)
  BY <1>1, <1>2, <1>3, <1>4, <1>5, NodeFacts
<1>12. Sorted(u, R)
  <2>1. R[Nil] = {} /\ R[u.root] = Nodes(t)
    <3>1. S[Nil] = {} /\ S[t.root] = Nodes(t) /\ t.root \in Nodes(t) \cup {Nil}
      BY DEF Shape, Sorted, Linked
    <3>2. t.root # o
      BY <1>1, <1>2, <1>10, NodeFacts
    <3> QED BY <1>7, <1>8, <1>10, <3>1, <3>2
  <2>2. ASSUME NEW m \in Nodes(t)
        PROVE  /\ R[m] = {m} \cup R[Child(u, m, LEFT)] \cup R[Child(u, m, RIGHT)]
               /\ \A s \in Sides : \A k \in R[Child(u, m, s)] : Before(s, k, m)
    <3>1. CASE m = n
      <4>1. Child(u, m, side) = near /\ Child(u, m, opp) = i
        BY <1>1, <1>4, <1>8, <1>9, <3>1
      <4>2. R[near] = S[near] /\ R[i] = S[i] /\ R[m] = {n} \cup S[near] \cup S[i]
        BY <1>7, <1>10, <3>1
      <4>3. \A k \in S[i] : Before(opp, k, n)
        BY <1>11
      <4> QED BY <1>1, <1>11, <3>1, <4>1, <4>2, <4>3
    <3>2. CASE m = o
      <4>1. Child(u, m, side) = n /\ Child(u, m, opp) = outer
        BY <1>1, <1>5, <1>8, <1>9, <1>10, <3>2
      <4>2. R[n] = {n} \cup S[near] \cup S[i] /\ R[outer] = S[outer] /\ R[m] = S[n]
        BY <1>7, <1>10, <3>2
      <4>3. Before(side, n, o)
        BY <1>1, <1>10, <1>11 DEF Before
      <4>4. \A k \in S[near] : Before(side, k, o)
        <5>1. \A k \in S[near] : k \in Nat
          BY <1>11, NamesAre DEF Shape
        <5> QED BY <1>10, <1>11, <4>3, <5>1 DEF Before
      <4> QED BY <1>1, <1>11, <3>2, <4>1, <4>2, <4>3, <4>4
    <3>3. CASE m # n /\ m # o
      <4>1. ASSUME NEW s \in Sides PROVE R[Child(u, m, s)] = S[Child(t, m, s)]
        <5>1. Child(t, m, s) # o
          BY <1>1, <1>2, <1>10, <3>3, OneParent
        <5>2. Child(t, m, s) \in Nodes(t) \cup {Nil}
          BY NodeFacts
        <5> QED BY <1>7, <1>8, <1>9, <1>10, <3>3, <5>1, <5>2
      <4>2. R[m] = S[m]
        BY <1>7, <3>3
      <4> QED BY <4>1, <4>2, NodeFacts
    <3> QED BY <3>1, <3>2, <3>3
  <2> QED BY <1>7, <1>9, <2>1, <2>2 DEF Sorted
<1>13. Linked(u)
  <2>1. u.root \in Nodes(u) \cup {Nil} /\ (u.root = Nil <=> Nodes(u) = {})
    BY <1>8, <1>9, <1>10 DEF Shape, Linked
  <2>2. ASSUME NEW m \in Nodes(t)
        PROVE  /\ Parent(u, m) \in Nodes(t) \cup {Nil}
               /\ Parent(u, m) = Nil <=> m = u.root
               /\ Parent(u, m) # Nil => \E s \in Sides : Child(u, Parent(u, m), s) = m
    <3>1. CASE m = n
      BY <1>8, <1>9, <1>10, <3>1
    <3>2. CASE m = o
      <4>1. Parent(u, m) = Parent(t, n) /\ Parent(t, n) \in Nodes(t) \cup {Nil}
        BY <1>8, <1>9, <1>10, <3>2, NodeFacts
      <4>2. Parent(t, n) = Nil <=> n = t.root
        BY NodeFacts
      <4>3. o # t.root
        BY <1>1, <1>2, <1>10, NodeFacts
      <4>4. ASSUME Parent(t, n) # Nil
            PROVE  \E s \in Sides : Child(u, Parent(t, n), s) = o
        <5>1. PICK p \in Nodes(t) : p = Parent(t, n) /\ p # n
          BY <4>4, ParentFacts
        <5>2. PICK s \in Sides : Child(t, p, s) = n
          BY <4>4, <5>1, ParentFacts
        <5>3. p # o
          BY <1>3, <1>5, <1>1, <1>10, <5>2
        <5>4. Child(u, p, s) = o
          BY <1>8, <1>9, <5>1, <5>2, <5>3
        <5> QED BY <5>1, <5>4
      <4> QED BY <1>8, <3>2, <4>1, <4>2, <4>3, <4>4
    <3>3. CASE m = i
      BY <1>1, <1>8, <1>9, <1>10, <3>3, NodeFacts DEF Shape, Linked
    <3>4. CASE m # n /\ m # o /\ m # i
      <4>1. Parent(u, m) = Parent(t, m) /\ Parent(t, m) \in Nodes(t) \cup {Nil}
            /\ (Parent(t, m) = Nil <=> m = t.root)
        BY <1>8, <1>9, <3>4, NodeFacts
      <4>2. ASSUME Parent(t, m) # Nil
            PROVE  \E s \in Sides : Child(u, Parent(t, m), s) = m
        <5>1. PICK p \in Nodes(t) : p = Parent(t, m)
          BY <4>2, ParentFacts
        <5>2. PICK s \in Sides : Child(t, p, s) = m
          BY <4>2, <5>1, ParentFacts
        <5>3. p = n => s = side
          BY <1>1, <1>2, <3>4, <5>2
        <5>4. p = o => s = opp
          BY <1>1, <1>3, <3>4, <5>2
        <5> QED BY <1>1, <1>8, <1>9, <1>10, <3>4, <5>1, <5>2, <5>3, <5>4
      <4> QED BY <1>8, <1>10, <3>4, <4>1, <4>2
    <3> QED BY <3>1, <3>2, <3>3, <3>4
  <2>3. ASSUME NEW m \in Nodes(t), NEW s \in Sides
        PROVE  /\ Child(u, m, s) \in Nodes(t) \cup {Nil}
               /\ Child(u, m, s) # Nil => Parent(u, Child(u, m, s)) = m
    <3>1. CASE m = n
      BY <1>1, <1>4, <1>8, <1>9, <1>10, <3>1
    <3>2. CASE m = o
      BY <1>1, <1>5, <1>8, <1>9, <1>10, <3>2
    <3>3. CASE m # n /\ m # o
      <4>1. PICK c \in Nodes(t) \cup {Nil} : c = Child(t, m, s)
        BY NodeFacts
      <4>2. c # Nil => Parent(t, c) = m
        BY <4>1, NodeFacts
      <4>3. Child(u, m, s) = IF c = n THEN o ELSE c
        BY <1>8, <1>9, <3>3, <4>1
      <4>4. c # o
        BY <1>1, <1>2, <1>10, <3>3, <4>1, OneParent
      <4> QED BY <1>8, <1>9, <1>10, <3>3, <4>2, <4>3, <4>4
    <3> QED BY <3>1, <3>2, <3>3
  <2> QED BY <1>9, <2>1, <2>2, <2>3 DEF Linked
<1>14. Loose(u)
  <2>1. SUFFICES ASSUME Temp \in DOMAIN t.node
                 PROVE  Parent(u, Temp) \in Nodes(t) /\ \A s \in Sides : Child(u, Temp, s) = Nil
    BY <1>8, <1>9 DEF Loose, SameNodes
  <2>2. Temp \notin Nodes(t) /\ Temp # Nil
    BY ContentsAssumption DEF Nodes
  <2> QED BY <1>8, <1>10, <2>1, <2>2 DEF Shape, Loose
<1> QED BY <1>6, <1>9, <1>12, <1>13, <1>14 DEF Shape

\* A rotation of what has been painted.
LEMMA RotatesPainted ==
  ASSUME NEW t, NEW S, Shape(t, S), NEW x, SameLinks(t, x), NEW n \in Nodes(t), NEW side \in Sides,
         Child(t, n, Opposite(side)) # Nil,
         NEW u, u = TreeRotate(x, n, side)
  PROVE  /\ Rotated(t, n, side, u)
         /\ \A m \in Nodes(t) : Red(u, m) = Red(x, m)
         /\ SameNodes(t, u)
         /\ \A m \in DOMAIN t.node \ Nodes(t) : Red(u, m) = Red(x, m)
<1>1. Shape(x, S) /\ Nodes(x) = Nodes(t) /\ DOMAIN x.node = DOMAIN t.node
      /\ Nodes(t) \subseteq DOMAIN t.node
  BY ShapeOfLinks, NamesAre DEF SameLinks, SameNodes, Shape
<1>2. x.root = t.root /\ \A m \in DOMAIN t.node :
         /\ Parent(x, m) = Parent(t, m)
         /\ \A s \in Sides : Child(x, m, s) = Child(t, m, s)
  BY DEF SameLinks
<1>3. PICK o \in Nodes(t) : o = Child(t, n, Opposite(side)) /\ o = Child(x, n, Opposite(side))
  BY <1>1, <1>2, NodeFacts
<1>4. PICK i : i = Child(t, o, side) /\ i = Child(x, o, side)
  BY <1>1, <1>2
<1>5. o # Nil
  BY <1>3
<1>6. Rotated(x, n, side, u) /\ \A m \in DOMAIN t.node : Red(u, m) = Red(x, m)
  BY <1>1, <1>3, <1>5, Rotates
<1>7. /\ SameNodes(t, u)
      /\ u.root = IF n = t.root THEN o ELSE t.root
      /\ \A m \in DOMAIN t.node :
           /\ Parent(u, m) = IF m = n THEN o ELSE IF m = o THEN Parent(t, n)
                             ELSE IF m = i THEN n ELSE Parent(t, m)
           /\ \A s \in Sides :
                Child(u, m, s) = IF m = n THEN (IF s = side THEN Child(t, n, s) ELSE i)
                                 ELSE IF m = o THEN (IF s = side THEN n ELSE Child(t, o, s))
                                 ELSE IF Child(t, m, s) = n THEN o
                                 ELSE Child(t, m, s)
  BY <1>1, <1>2, <1>3, <1>4, <1>6 DEF Rotated, SameNodes
<1>8. Rotated(t, n, side, u)
  BY <1>3, <1>4, <1>7 DEF Rotated
<1> QED BY <1>1, <1>6, <1>7, <1>8

\* The links about a rotation, one by one.
LEMMA RotationLinks ==
  ASSUME NEW t, NEW S, Shape(t, S), NEW n \in Nodes(t), NEW side \in Sides, NEW opp \in Sides,
         opp = Opposite(side), NEW o \in Nodes(t), o = Child(t, n, opp),
         NEW u, Rotated(t, n, side, u)
  PROVE  /\ Nodes(u) = Nodes(t) /\ n # o
         /\ Child(t, n, side) # o
         /\ Child(u, n, side) = Child(t, n, side) /\ Child(u, n, opp) = Child(t, o, side)
         /\ Child(u, o, side) = n /\ Child(u, o, opp) = Child(t, o, opp)
         /\ Parent(u, n) = o /\ Parent(u, o) = Parent(t, n)
         /\ \A m \in Nodes(t) : m # n /\ m # o =>
              \A s \in Sides : /\ Child(u, m, s) = IF Child(t, m, s) = n THEN o ELSE Child(t, m, s)
                               /\ Child(t, m, s) # o
         /\ \A s \in Sides : Child(t, o, s) \notin {n, o}
<1>1. n # o /\ o # Nil /\ n # Nil
  BY NodeFacts
<1>2. Nodes(u) = Nodes(t) /\ Nodes(t) \subseteq DOMAIN t.node
  BY DEF Rotated, SameNodes, Nodes
<1>3. /\ Child(u, n, side) = Child(t, n, side) /\ Child(u, n, opp) = Child(t, o, side)
      /\ Child(u, o, side) = n /\ Child(u, o, opp) = Child(t, o, opp)
      /\ Parent(u, n) = o /\ Parent(u, o) = Parent(t, n)
  BY <1>1, <1>2 DEF Rotated
<1>4. ASSUME NEW m \in Nodes(t), m # n, m # o, NEW s \in Sides
      PROVE  /\ Child(u, m, s) = IF Child(t, m, s) = n THEN o ELSE Child(t, m, s)
             /\ Child(t, m, s) # o
  <2>1. Child(t, m, s) # o
    BY <1>1, <1>4, OneParent
  <2>2. Child(u, m, s) = IF Child(t, m, s) = n THEN o ELSE Child(t, m, s)
    BY <1>2, <1>4 DEF Rotated
  <2> QED BY <2>1, <2>2
<1>5. ASSUME NEW s \in Sides PROVE Child(t, o, s) # n /\ Child(t, o, s) # o
  <2>1. S[Child(t, o, s)] \subseteq S[o] /\ n \notin S[o] /\ n \in S[n] /\ Child(t, o, s) # o
    BY NodeFacts
  <2> QED BY <2>1
<1>6. Child(t, n, side) # o
  BY <1>1, OneParent
<1> QED BY <1>1, <1>2, <1>3, <1>4, <1>5, <1>6

\* n turns red and hands its colour to the red node that comes up.
Swapped(t, n, side, u) ==
  /\ Rotated(t, n, side, u)
  /\ \A m \in Nodes(t) : 
          Red(u, m) <=> \/ m = n
                        \/ m = Child(t, n, Opposite(side)) /\ Red(t, n)
                        \/ m # Child(t, n, Opposite(side)) /\ Red(t, m)

SwappedHeights(t, B, n, side) ==
  [m \in Nodes(t) \cup {Nil} |-> IF m = n THEN B[n] - Weight(t, n)
                                 ELSE IF m = Child(t, n, Opposite(side)) THEN B[n]
                                 ELSE B[m]]

LEMMA SwapKeepsHeights ==
  ASSUME NEW t, NEW S, Shape(t, S), NEW B, NEW edge, Heights(t, B, edge),
         NEW n \in Nodes(t), NEW side \in Sides,
         Child(t, n, Opposite(side)) # Nil,
         Red(t, Child(t, n, Opposite(side))),
         edge # <<n, Opposite(side)>>,
         \A s \in Sides : edge # <<Child(t, n, Opposite(side)), s>>,
         NEW u, Swapped(t, n, side, u)
  PROVE  Heights(u, SwappedHeights(t, B, n, side), edge)
<1>1. PICK opp \in Sides : opp = Opposite(side) /\ opp # side
  OBVIOUS
<1>2. PICK o \in Nodes(t) : o = Child(t, n, opp)
  BY <1>1, NodeFacts
<1>3. PICK near \in Nodes(t) \cup {Nil} : near = Child(t, n, side)
  BY NodeFacts
<1>4. PICK i \in Nodes(t) \cup {Nil} : i = Child(t, o, side)
  BY NodeFacts
<1>5. PICK outer \in Nodes(t) \cup {Nil} : outer = Child(t, o, opp)
  BY NodeFacts
<1>6. /\ Nodes(u) = Nodes(t) /\ n # o
      /\ near # o
      /\ Child(u, n, side) = near /\ Child(u, n, opp) = i
      /\ Child(u, o, side) = n /\ Child(u, o, opp) = outer
      /\ \A m \in Nodes(t) : m # n /\ m # o =>
           \A s \in Sides : /\ Child(u, m, s) = IF Child(t, m, s) = n THEN o ELSE Child(t, m, s)
                            /\ Child(t, m, s) # o
      /\ \A s \in Sides : Child(t, o, s) \notin {n, o}
  BY <1>1, <1>2, <1>3, <1>4, <1>5, RotationLinks DEF Swapped
<1>7. /\ n # Nil /\ o # Nil /\ near # n /\ Nil \notin Nodes(t)
  BY <1>2, <1>3, NodeFacts, NamesAre DEF Shape
<1>8. /\ B \in [Nodes(t) \cup {Nil} -> Nat] /\ B[Nil] = 0
      /\ \A m \in Nodes(t), s \in Sides : B[m] = Weight(t, m) + Extra(m, s, edge) + B[Child(t, m, s)]
  BY DEF Heights
<1>9. /\ Weight(u, n) = 0 /\ Weight(t, o) = 0 /\ Weight(u, o) = Weight(t, n)
      /\ \A m \in Nodes(t) : m # n /\ m # o => Weight(u, m) = Weight(t, m)
      /\ \A m \in Nodes(t) : Weight(t, m) \in {0, 1}
  <2>0. n # o /\ Child(t, n, Opposite(side)) = o
    BY <1>1, <1>2, <1>6
  <2>a. \A m \in Nodes(t) : Red(u, m) <=> m = n \/ (m = o /\ Red(t, n)) \/ (m # o /\ Red(t, m))
    BY <2>0 DEF Swapped
  <2>b. Red(t, o)
    BY <2>0
  <2>1. Red(u, n) /\ (Red(u, o) <=> Red(t, n)) /\ Red(t, o)
    BY <2>0, <2>a, <2>b
  <2>2. \A m \in Nodes(t) : m # n /\ m # o => (Red(u, m) <=> Red(t, m))
    BY <2>a
  <2> QED BY <2>1, <2>2 DEF Weight
<1>10. Extra(n, opp, edge) = 0 /\ \A s \in Sides : Extra(o, s, edge) = 0
  BY <1>1, <1>2 DEF Extra
<1>11. \A m, s : Extra(m, s, edge) \in {0, 1}
  BY DEF Extra
<1>12. PICK C : C = SwappedHeights(t, B, n, side)
  OBVIOUS
<1>13. /\ B[n] = Weight(t, n) + Extra(n, side, edge) + B[near]
       /\ B[n] = Weight(t, n) + B[o] /\ B[o] = B[i] /\ B[o] = B[outer]
       /\ B[n] \in Nat /\ B[o] \in Nat /\ B[i] \in Nat /\ B[near] \in Nat /\ B[outer] \in Nat
  <2>1. B[n] = Weight(t, n) + Extra(n, side, edge) + B[near]
    BY <1>3, <1>8
  <2>2. B[n] = Weight(t, n) + Extra(n, opp, edge) + B[o]
    BY <1>2, <1>8
  <2>3. B[o] = Weight(t, o) + Extra(o, side, edge) + B[i]
    BY <1>4, <1>8
  <2>4. B[o] = Weight(t, o) + Extra(o, opp, edge) + B[outer]
    BY <1>5, <1>8
  <2>5. B[n] \in Nat /\ B[o] \in Nat /\ B[i] \in Nat /\ B[near] \in Nat /\ B[outer] \in Nat
    BY <1>8
  <2> QED BY <1>9, <1>10, <2>1, <2>2, <2>3, <2>4, <2>5
<1>14. /\ C[n] = B[o] /\ C[o] = B[n]
       /\ \A m \in Nodes(t) \cup {Nil} : m # n /\ m # o => C[m] = B[m]
  <2>1. \A m \in Nodes(t) \cup {Nil} : C[m] = IF m = n THEN B[n] - Weight(t, n) ELSE IF m = o THEN B[n] ELSE B[m]
    BY <1>1, <1>2, <1>12 DEF SwappedHeights
  <2>2. B[n] - Weight(t, n) = B[o]
    BY <1>9, <1>13
  <2> QED BY <1>6, <2>1, <2>2
<1>15. C \in [Nodes(u) \cup {Nil} -> Nat] /\ C[Nil] = 0
  <2>1. C = [m \in Nodes(t) \cup {Nil} |-> C[m]]
    BY <1>12 DEF SwappedHeights
  <2>2. \A m \in Nodes(t) \cup {Nil} : C[m] \in Nat
    BY <1>8, <1>13, <1>14
  <2>3. C[Nil] = 0
    BY <1>7, <1>8, <1>14
  <2> QED BY <1>6, <2>1, <2>2, <2>3
<1>16. ASSUME NEW m \in Nodes(t), NEW s \in Sides
       PROVE  C[m] = Weight(u, m) + Extra(m, s, edge) + C[Child(u, m, s)]
  <2>1. CASE m = n
    <3>1. C[near] = B[near] /\ C[i] = B[i]
      BY <1>3, <1>4, <1>6, <1>7, <1>14
    <3>2. CASE s = side
      BY <1>6, <1>9, <1>11, <1>13, <1>14, <2>1, <3>1, <3>2
    <3>3. CASE s = opp
      BY <1>6, <1>9, <1>10, <1>13, <1>14, <2>1, <3>1, <3>3
    <3> QED BY <1>1, <3>2, <3>3
  <2>2. CASE m = o
    <3>1. C[outer] = B[outer]
      BY <1>5, <1>6, <1>7, <1>14
    <3>2. CASE s = side
      BY <1>6, <1>9, <1>10, <1>13, <1>14, <2>2, <3>2
    <3>3. CASE s = opp
      BY <1>6, <1>9, <1>10, <1>13, <1>14, <2>2, <3>1, <3>3
    <3> QED BY <1>1, <3>2, <3>3
  <2>3. CASE m # n /\ m # o
    <3>1. Child(t, m, s) \in Nodes(t) \cup {Nil} /\ Child(t, m, s) # o
      BY <1>6, <2>3, NodeFacts
    <3>2. C[Child(u, m, s)] = B[Child(t, m, s)]
      BY <1>6, <1>14, <2>3, <3>1
    <3>3. C[m] = B[m] /\ Weight(u, m) = Weight(t, m)
      BY <1>9, <1>14, <2>3
    <3> QED BY <1>8, <3>2, <3>3
  <2> QED BY <2>1, <2>2, <2>3
<1> QED BY <1>6, <1>12, <1>15, <1>16 DEF Heights

-----------------------------------------------------------------------------
(* A round after an insertion *)

LEMMA SidesAre ==
  /\ LEFT \in Sides /\ RIGHT \in Sides /\ LEFT # RIGHT
  /\ \A s \in Sides : /\ Opposite(s) \in Sides /\ Opposite(s) # s /\ Opposite(Opposite(s)) = s
                      /\ s = LEFT \/ s = RIGHT
                      /\ \A r \in Sides : r = s \/ r = Opposite(s)
OBVIOUS

HIDE DEF LEFT, RIGHT, Sides, Opposite

\* The colours are those of t, but that a is black and b is red.
Painted(t, a, b, u) ==
  /\ SameLinks(t, u)
  /\ \A m \in DOMAIN t.node : Red(u, m) <=> m = b \/ (m # a /\ Red(t, m))

LEMMA BlackAndRed ==
  ASSUME NEW t, NEW S, Shape(t, S), NEW a \in Nodes(t), NEW b \in Nodes(t), a # b,
         NEW u, u = Reddened(Blackened(t, a), b)
  PROVE  Painted(t, a, b, u)
<1>1. Typed(t) /\ a \in DOMAIN t.node /\ b \in DOMAIN t.node
  BY NamesAre DEF Shape
<1>2. PICK x : x = Blackened(t, a)
  OBVIOUS
<1>3. /\ SameNodes(t, x) /\ x.root = t.root
      /\ \A m \in DOMAIN t.node :
           /\ Parent(x, m) = Parent(t, m)
           /\ \A s \in Sides : Child(x, m, s) = Child(t, m, s)
           /\ Red(x, m) <=> m # a /\ Red(t, m)
  BY <1>1, <1>2, Blackens
<1>4. Typed(x) /\ DOMAIN x.node = DOMAIN t.node
  BY <1>3 DEF SameNodes
<1>5. /\ SameNodes(x, u) /\ u.root = x.root
      /\ \A m \in DOMAIN x.node :
           /\ Parent(u, m) = Parent(x, m)
           /\ \A s \in Sides : Child(u, m, s) = Child(x, m, s)
           /\ Red(u, m) <=> m = b \/ Red(x, m)
  BY <1>1, <1>2, <1>4, Reddens
<1>6. SameLinks(t, u)
  BY <1>3, <1>4, <1>5 DEF SameLinks, SameNodes
<1> QED BY <1>3, <1>4, <1>5, <1>6 DEF Painted

\* Two red nodes in a row on one side of a black one: the upper comes up.
Straight(t, S, B, which, opp, g, top, low) ==
  /\ Shape(t, S) /\ Heights(t, B, NoEdge) /\ RootBlack(t)
  /\ which \in Sides /\ opp \in Sides /\ opp = Opposite(which)
  /\ g \in Nodes(t) /\ top \in Nodes(t) /\ low \in Nodes(t)
  /\ top = Child(t, g, opp) /\ low = Child(t, top, opp)
  /\ Red(t, top) /\ Red(t, low) /\ ~Red(t, g)
  /\ NoRedPair(t, Nil, low) /\ (Child(t, g, which) # Nil => ~Red(t, Child(t, g, which)))

LEMMA RaisesParent ==
  ASSUME NEW t, NEW S, NEW B, NEW which, NEW opp, NEW g, NEW top, NEW low,
         Straight(t, S, B, which, opp, g, top, low),
         NEW x, Painted(t, top, g, x),
         NEW u, u = TreeRotate(x, g, which)
  PROVE  /\ SameNodes(t, u)
         /\ \E S2, B2 : Adding(u, S2, B2, low)
         /\ Parent(u, low) = top /\ ~Red(u, top)
<1>0. /\ Shape(t, S) /\ Heights(t, B, NoEdge) /\ RootBlack(t)
      /\ which \in Sides /\ opp \in Sides /\ opp = Opposite(which)
      /\ g \in Nodes(t) /\ top \in Nodes(t) /\ low \in Nodes(t)
      /\ top = Child(t, g, opp) /\ low = Child(t, top, opp)
      /\ Red(t, top) /\ Red(t, low) /\ ~Red(t, g)
      /\ NoRedPair(t, Nil, low) /\ (Child(t, g, which) # Nil => ~Red(t, Child(t, g, which)))
  BY DEF Straight
<1> USE <1>0
<1>1. NodeOf(t, S, g) /\ NodeOf(t, S, top) /\ NodeOf(t, S, low)
  BY NodeIs
<1>2. g # top /\ g # Nil /\ top # Nil /\ low # Nil /\ low # top /\ low # g
  BY <1>1 DEF NodeOf
<1>3. SameLinks(t, x) /\ \A m \in DOMAIN t.node : Red(x, m) <=> m = g \/ (m # top /\ Red(t, m))
  BY DEF Painted
<1>4. Child(t, g, Opposite(which)) # Nil
  BY <1>2
<1>5. Rotated(t, g, which, u) /\ SameNodes(t, u) /\ \A m \in Nodes(t) : Red(u, m) = Red(x, m)
  BY <1>3, <1>4, RotatesPainted
<1>6. \A m \in Nodes(t) : Red(u, m) <=> m = g \/ (m # top /\ Red(t, m))
  BY <1>3, <1>5, NodeFacts
<1>7. Swapped(t, g, which, u)
  <2>1. top = Child(t, g, Opposite(which))
    OBVIOUS
  <2>2. \A m \in Nodes(t) : Red(u, m) <=> m = g \/ (m = top /\ Red(t, g)) \/ (m # top /\ Red(t, m))
    BY <1>2, <1>6
  <2> QED BY <1>5, <2>1, <2>2 DEF Swapped
<1>8. PICK S2 : Shape(u, S2) /\ Nodes(u) = Nodes(t)
  BY <1>4, <1>5, RotatedShape
<1>9. PICK B2 : Heights(u, B2, NoEdge)
  <2>1. NoEdge # <<g, Opposite(which)>> /\ \A s \in Sides : NoEdge # <<top, s>>
    BY <1>2 DEF NoEdge
  <2>2. Red(t, Child(t, g, Opposite(which))) /\ \A s \in Sides : NoEdge # <<Child(t, g, Opposite(which)), s>>
    BY <2>1
  <2> QED BY <1>4, <1>7, <2>1, <2>2, SwapKeepsHeights
<1>10. /\ Nodes(u) = Nodes(t)
       /\ Child(u, g, which) = Child(t, g, which) /\ Child(u, g, opp) = Child(t, top, which)
       /\ Child(u, top, which) = g /\ Child(u, top, opp) = low
       /\ \A m \in Nodes(t) : m # g /\ m # top =>
            \A s \in Sides : /\ Child(u, m, s) = IF Child(t, m, s) = g THEN top ELSE Child(t, m, s)
                             /\ Child(t, m, s) # top
       /\ \A s \in Sides : Child(t, top, s) \notin {g, top}
       /\ Child(t, g, which) # top
  BY <1>5, RotationLinks
<1>11. Parent(u, low) = top
  BY <1>2, <1>8, <1>10, NodeFacts
<1>12. NoRedPair(u, Nil, low)
  <2>1. SUFFICES ASSUME NEW m \in Nodes(t), NEW s \in Sides, NEW c, c = Child(u, m, s),
                        Red(u, m), c # Nil, c # low
                 PROVE  ~Red(u, c)
    BY <1>8 DEF NoRedPair
  <2>2. CASE m = g
    <3>1. CASE s = which
      <4>1. c = Child(t, g, which) /\ c \in Nodes(t) /\ c # g /\ c # top
        BY <1>10, <2>1, <2>2, <3>1, NodeFacts
      <4>2. ~Red(t, c)
        BY <2>1, <4>1
      <4> QED BY <1>6, <4>1, <4>2
    <3>2. CASE s = opp
      <4>1. c = Child(t, top, which) /\ c \in Nodes(t) /\ c # g /\ c # top
        BY <1>10, <2>1, <2>2, <3>2, NodeFacts
      <4>2. ~Red(t, c)
        BY <2>1, <1>2, <4>1 DEF NoRedPair
      <4> QED BY <1>6, <4>1, <4>2
    <3> QED BY <3>1, <3>2, SidesAre
  <2>3. CASE m = top
    BY <1>6, <2>1, <2>3
  <2>4. CASE m # g /\ m # top
    <3>1. CASE Child(t, m, s) = g
      BY <1>6, <1>10, <2>1, <2>4, <3>1
    <3>2. CASE Child(t, m, s) # g
      <4>1. c = Child(t, m, s) /\ c # g /\ c # top /\ c \in Nodes(t)
        <5>1. NodeOf(t, S, m)
          BY NodeIs
        <5>2. c = Child(t, m, s) /\ c # top
          BY <1>10, <2>1, <2>4, <3>2
        <5> QED BY <2>1, <3>2, <5>1, <5>2 DEF NodeOf
      <4>2. Red(t, m) /\ m # Nil
        BY <1>6, <2>1, <2>4, NodeFacts
      <4>3. ~Red(t, c)
        BY <2>1, <4>1, <4>2 DEF NoRedPair
      <4> QED BY <1>6, <4>1, <4>3
    <3> QED BY <3>1, <3>2
  <2> QED BY <2>2, <2>3, <2>4
<1>13. RootBlack(u)
  <2>1. u.root = IF g = t.root THEN top ELSE t.root
    BY <1>5 DEF Rotated
  <2>2. t.root # top /\ t.root \in Nodes(t) \cup {Nil}
    <3>1. Parent(t, top) = g /\ (Parent(t, top) = Nil <=> top = t.root)
      BY <1>1, <1>2 DEF NodeOf
    <3> QED BY <1>2, <3>1 DEF Shape, Linked
  <2> QED BY <1>6, <2>1, <2>2 DEF RootBlack
<1>14. Adding(u, S2, B2, low)
  BY <1>2, <1>6, <1>8, <1>9, <1>12, <1>13 DEF Adding
<1> QED BY <1>5, <1>6, <1>11, <1>14

-----------------------------------------------------------------------------
(* Up and down a tree *)

LEMMA LeastNumber ==
  ASSUME NEW A \in SUBSET Nat, A # {}
  PROVE  \E a \in A : \A b \in A : a <= b
<1>1. PICK R : R = OpToRel(<, Nat)
  OBVIOUS
<1>2. IsWellFoundedOn(R, Nat)
  BY <1>1, NatLessThanWellFounded
<1>3. PICK x \in A : \A y \in A : ~(<<y, x>> \in R)
  BY <1>2, WFMin, Zenon
<1>4. \A y \in A : ~(y < x)
  BY <1>1, <1>3 DEF OpToRel
<1> QED BY <1>4

\* How many nodes there are from each node down.
LEMMA Counts ==
  ASSUME NEW t, NEW S, Shape(t, S)
  PROVE  \E C \in [Nodes(t) -> Nat] :
           /\ \A n \in Nodes(t), s \in Sides : Child(t, n, s) # Nil => C[Child(t, n, s)] < C[n]
           /\ \E N \in Nat : \A n \in Nodes(t) : C[n] <= N
<1>1. PICK C : C = [n \in Nodes(t) |-> Cardinality(S[n])]
  OBVIOUS
<1>2. ASSUME NEW n \in Nodes(t) 
      PROVE  /\ IsFiniteSet(S[n]) /\ C[n] = Cardinality(S[n]) /\ C[n] \in Nat
             /\ C[n] <= Cardinality(Nodes(t))
  <2>1. S[n] \subseteq Nodes(t)
    BY NodeFacts
  <2>2. IsFiniteSet(S[n]) /\ Cardinality(S[n]) <= Cardinality(Nodes(t))
    BY <2>1, NamesAre, FS_Subset DEF Shape
  <2> QED BY <1>1, <2>2, FS_CardinalityType
<1>3. ASSUME NEW n \in Nodes(t), NEW s \in Sides, NEW c, c = Child(t, n, s), c # Nil
      PROVE  C[c] < C[n]
  <2>1. c \in Nodes(t) /\ S[c] \subseteq S[n] /\ n \in S[n] /\ n \notin S[c]
    BY <1>3, NodeIs DEF NodeOf
  <2>2. IsFiniteSet(S[n]) /\ C[n] = Cardinality(S[n]) /\ C[c] = Cardinality(S[c]) /\ C[c] \in Nat /\ C[n] \in Nat
    BY <1>2, <2>1
  <2>3. Cardinality(S[c]) <= Cardinality(S[n]) /\ (Cardinality(S[n]) = Cardinality(S[c]) => S[n] = S[c])
    BY <2>1, <2>2, FS_Subset
  <2> QED BY <2>1, <2>2, <2>3
<1>4. Cardinality(Nodes(t)) \in Nat
  BY NamesAre, FS_CardinalityType DEF Shape
<1> QED BY <1>1, <1>2, <1>3, <1>4

LEMMA LowestNode ==
  ASSUME NEW t, NEW S, Shape(t, S), NEW X, X \subseteq Nodes(t), X # {}
  PROVE  \E n \in X : \A s \in Sides : Child(t, n, s) \notin X
<1>1. PICK C \in [Nodes(t) -> Nat] :
         \A n \in Nodes(t), s \in Sides : Child(t, n, s) # Nil => C[Child(t, n, s)] < C[n]
  BY Counts
<1>2. PICK A : A = {C[n] : n \in X}
  OBVIOUS
<1>3. A \in SUBSET Nat /\ A # {}
  BY <1>1, <1>2
<1>4. PICK a \in A : \A b \in A : a <= b
  BY <1>3, LeastNumber
<1>5. PICK n \in X : C[n] = a
  BY <1>2, <1>4
<1>6. \A m \in X : C[m] \in Nat /\ ~(C[m] < C[n])
  BY <1>1, <1>2, <1>4, <1>5
<1>7. Nil \notin X
  BY NamesAre DEF Shape
<1> QED BY <1>1, <1>5, <1>6, <1>7

LEMMA HighestNode ==
  ASSUME NEW t, NEW S, Shape(t, S), NEW X, X \subseteq Nodes(t), X # {}
  PROVE  \E n \in X : Parent(t, n) \notin X
<1>1. PICK C \in [Nodes(t) -> Nat] :
         /\ \A n \in Nodes(t), s \in Sides : Child(t, n, s) # Nil => C[Child(t, n, s)] < C[n]
         /\ \E N \in Nat : \A n \in Nodes(t) : C[n] <= N
  BY Counts
<1>2. PICK N \in Nat : \A n \in Nodes(t) : C[n] <= N
  BY <1>1
<1>3. PICK A : A = {N - C[n] : n \in X}
  OBVIOUS
<1>4. A \in SUBSET Nat /\ A # {}
  BY <1>1, <1>2, <1>3
<1>5. PICK a \in A : \A b \in A : a <= b
  BY <1>4, LeastNumber
<1>6. PICK n \in X : N - C[n] = a
  BY <1>3, <1>5
<1>7. \A m \in X : C[m] \in Nat /\ N - C[m] >= N - C[n] /\ C[n] \in Nat
  BY <1>1, <1>3, <1>5, <1>6
<1>8. ASSUME Parent(t, n) \in X PROVE FALSE
  <2>1. Parent(t, n) \in Nodes(t) /\ n # Nil /\ Nil \notin Nodes(t) /\ n \in Nodes(t)
    BY <1>8, NamesAre DEF Shape
  <2>2. PICK s \in Sides : Child(t, Parent(t, n), s) = n
    BY <2>1, ParentFacts, SidesAre
  <2>3. C[n] < C[Parent(t, n)]
    BY <1>1, <2>1, <2>2
  <2> QED BY <1>2, <1>7, <1>8, <2>1, <2>3
<1> QED BY <1>8

\* Who is below a node that is below another is below the other.
LEMMA Below ==
  ASSUME NEW t, NEW S, Shape(t, S), NEW k \in Nodes(t), NEW n \in Nodes(t), n \in S[k]
  PROVE  /\ S[n] \subseteq S[k]
         /\ n # k => Parent(t, n) \in S[k]
<1>1. PICK X : X = {m \in Nodes(t) : n \in S[m] /\ ~(S[n] \subseteq S[m] /\ (n # m => Parent(t, n) \in S[m]))}
  OBVIOUS
<1>2. ASSUME X # {} PROVE FALSE
  <2>1. PICK m \in X : \A s \in Sides : Child(t, m, s) \notin X
    BY <1>1, <1>2, LowestNode
  <2>2. NodeOf(t, S, m) /\ NodeOf(t, S, n) /\ m \in Nodes(t) /\ n \in S[m]
    BY <1>1, <2>1, NodeIs
  <2>3. n # m
    BY <1>1, <2>1
  <2>4. PICK s \in Sides : n \in S[Child(t, m, s)]
    BY <2>2, <2>3, SidesAre DEF NodeOf
  <2>5. PICK c : c = Child(t, m, s)
    OBVIOUS
  <2>6. c \in Nodes(t) /\ S[c] \subseteq S[m] /\ Parent(t, c) = m /\ m \in S[m]
    BY <2>2, <2>4, <2>5 DEF NodeOf
  <2>7. S[n] \subseteq S[c] /\ (n # c => Parent(t, n) \in S[c])
    BY <1>1, <2>1, <2>4, <2>5, <2>6
  <2> QED BY <1>1, <2>1, <2>6, <2>7
<1> QED BY <1>1, <1>2

\* A node is below another when its parent is.
LEMMA BelowParent ==
  ASSUME NEW t, NEW S, Shape(t, S), NEW k \in Nodes(t), NEW n \in Nodes(t), n # k
  PROVE  n \in S[k] <=> Parent(t, n) # Nil /\ Parent(t, n) \in S[k]
<1>1. NodeOf(t, S, n) /\ Nil \notin Nodes(t) /\ NodeOf(t, S, k)
  BY NodeIs, NamesAre DEF Shape
<1>2. ASSUME n \in S[k] PROVE Parent(t, n) # Nil /\ Parent(t, n) \in S[k]
  BY <1>1, <1>2, Below DEF NodeOf
<1>3. ASSUME Parent(t, n) # Nil, Parent(t, n) \in S[k] PROVE n \in S[k]
  <2>1. PICK p \in Nodes(t) : p = Parent(t, n)
    BY <1>1, <1>3 DEF NodeOf
  <2>2. PICK s \in Sides : Child(t, p, s) = n
    BY <1>3, <2>1, ParentFacts, SidesAre
  <2>3. n \in S[n] /\ S[n] \subseteq S[p]
    BY <1>1, <2>1, <2>2, NodeIs DEF NodeOf
  <2> QED BY <1>3, <2>1, <2>3, Below
<1> QED BY <1>2, <1>3

\* What is not below a node lies to one side of all that is.
LEMMA Interval ==
  ASSUME NEW t, NEW S, Shape(t, S), NEW n \in Nodes(t), NEW k \in Nodes(t), k \notin S[n]
  PROVE  \E s \in Sides : \A a \in S[n] : Before(s, k, a)
<1>1. PICK X : X = {m \in Nodes(t) : k \notin S[m] /\ ~\E s \in Sides : \A a \in S[m] : Before(s, k, a)}
  OBVIOUS
<1>2. ASSUME X # {} PROVE FALSE
  <2>1. PICK m \in X : Parent(t, m) \notin X
    BY <1>1, <1>2, HighestNode
  <2>2. m \in Nodes(t) /\ NodeOf(t, S, m) /\ k \notin S[m] /\ ~\E s \in Sides : \A a \in S[m] : Before(s, k, a)
    BY <1>1, <2>1, NodeIs
  <2>3. S[t.root] = Nodes(t)
    BY DEF Shape, Sorted
  <2>4. PICK p \in Nodes(t) : p = Parent(t, m)
    BY <2>2, <2>3 DEF NodeOf
  <2>5. p # Nil
    BY NamesAre DEF Shape
  <2>6. PICK s \in Sides : Child(t, p, s) = m
    BY <2>2, <2>4, <2>5, ParentFacts, SidesAre
  <2>7. NodeOf(t, S, p) /\ S[m] \subseteq S[p]
    BY <2>6, NodeIs DEF NodeOf
  <2>8. k \in S[p]
    BY <1>1, <2>1, <2>2, <2>4, <2>7
  <2>9. k = p \/ k \in S[Child(t, p, Opposite(s))]
    BY <2>2, <2>6, <2>7, <2>8, SidesAre DEF NodeOf
  <2>10. Opposite(s) \in Sides
    BY SidesAre
  <2>11. \A a \in S[m] : Before(s, a, p) /\ a \in Nat
    BY <2>2, <2>6, <2>7, NamesAre DEF NodeOf, Shape
  <2>12. \A a \in S[m] : Before(Opposite(s), p, a)
    BY <2>11, SidesAre, <2>7 DEF Before, NodeOf
  <2>13. CASE k = p
    BY <2>2, <2>10, <2>12, <2>13
  <2>14. CASE k \in S[Child(t, p, Opposite(s))]
    <3>1. Before(Opposite(s), k, p) /\ k \in Nat /\ p \in Nat
      BY <2>7, <2>10, <2>14, NamesAre DEF NodeOf, Shape
    <3>2. \A a \in S[m] : Before(Opposite(s), k, a)
      BY <3>1, <2>11, <2>12 DEF Before
    <3> QED BY <2>2, <2>10, <3>2
  <2> QED BY <2>9, <2>13, <2>14
<1> QED BY <1>1, <1>2

-----------------------------------------------------------------------------
(* A round of TreeBalanceAfterAdd *)

LEMMA PaintsLinks ==
  ASSUME NEW t, NEW S, Shape(t, S), NEW n \in Nodes(t), NEW u, u = Blackened(t, n) \/ u = Reddened(t, n)
  PROVE  SameLinks(t, u) /\ Shape(u, S) /\ Nodes(u) = Nodes(t)
<1>1. Typed(t) /\ n \in DOMAIN t.node
  BY NamesAre DEF Shape
<1>2. CASE u = Blackened(t, n)
  <2>1. SameLinks(t, u)
    BY <1>1, <1>2, Blackens DEF SameLinks
  <2> QED BY <2>1, ShapeOfLinks
<1>3. CASE u = Reddened(t, n)
  <2>1. SameLinks(t, u)
    BY <1>1, <1>3, Reddens DEF SameLinks
  <2> QED BY <2>1, ShapeOfLinks
<1> QED BY <1>2, <1>3

LEMMA LinksTwice ==
  ASSUME NEW t, NEW x, NEW u, SameLinks(t, x), SameLinks(x, u)
  PROVE  SameLinks(t, u)
BY DEF SameLinks, SameNodes

\* The colours go over from p and uncle to g.
LEMMA RecoloursUncle ==
  ASSUME NEW t, NEW S, NEW B, NEW n, Adding(t, S, B, n),
         NEW which \in Sides, NEW p \in Nodes(t), NEW g \in Nodes(t), NEW uncle \in Nodes(t),
         p = Parent(t, n), Red(t, p), p = Child(t, g, Opposite(which)), uncle = Child(t, g, which),
         ~Red(t, g), Red(t, uncle),
         NEW u, u = Reddened(Blackened(Blackened(t, p), uncle), g)
  PROVE  /\ SameLinks(t, u)
         /\ \E B2 : Adding(u, S, B2, g)
<1>1. PICK opp \in Sides : opp = Opposite(which) /\ opp # which /\ \A s \in Sides : s = which \/ s = opp
  BY SidesAre
<1>2. Shape(t, S) /\ Heights(t, B, NoEdge) /\ n \in Nodes(t) /\ Red(t, n) /\ NoRedPair(t, Nil, n)
      /\ (t.root # n => RootBlack(t)) /\ Nodes(t) \subseteq DOMAIN t.node
  BY NamesAre DEF Adding, Shape
<1>3. NodeOf(t, S, g) /\ NodeOf(t, S, p) /\ NodeOf(t, S, uncle) /\ NodeOf(t, S, n)
  BY <1>2, NodeIs
<1>4. p # uncle /\ p # g /\ uncle # g /\ p # Nil /\ uncle # Nil /\ g # Nil
  <2>1. p # Nil /\ uncle # Nil /\ g # Nil /\ p # g /\ uncle # g
    BY <1>1, <1>3 DEF NodeOf
  <2>2. p # uncle
    BY <1>1, <1>2, <2>1, OneParent
  <2> QED BY <2>1, <2>2
<1>5. PICK x : x = Blackened(t, p)
  OBVIOUS
<1>6. PICK y : y = Blackened(x, uncle)
  OBVIOUS
<1>7. u = Reddened(y, g)
  BY <1>5, <1>6
<1>8. SameLinks(t, x) /\ Shape(x, S) /\ Nodes(x) = Nodes(t)
  BY <1>2, <1>5, PaintsLinks
<1>9. SameLinks(x, y) /\ Shape(y, S) /\ Nodes(y) = Nodes(t)
  BY <1>6, <1>8, PaintsLinks
<1>10. SameLinks(y, u) /\ Shape(u, S) /\ Nodes(u) = Nodes(t)
  BY <1>7, <1>9, PaintsLinks
<1>11. SameLinks(t, u)
  BY <1>8, <1>9, <1>10, LinksTwice
<1>12. \A m \in Nodes(t) : Red(x, m) <=> m # p /\ Red(t, m)
  BY <1>2, <1>5, Blackens DEF Shape
<1>13. \A m \in Nodes(t) : Red(y, m) <=> m # uncle /\ Red(x, m)
  <2>1. Typed(x) /\ Nodes(t) \subseteq DOMAIN x.node
    BY <1>8, NamesAre DEF Shape
  <2> QED BY <1>6, <2>1, Blackens
<1>14. \A m \in Nodes(t) : Red(u, m) <=> m = g \/ Red(y, m)
  <2>1. Typed(y) /\ Nodes(t) \subseteq DOMAIN y.node
    BY <1>9, NamesAre DEF Shape
  <2> QED BY <1>7, <2>1, Reddens
<1>15. \A m \in Nodes(t) : Red(u, m) <=> m = g \/ (m # p /\ m # uncle /\ Red(t, m))
  BY <1>12, <1>13, <1>14
<1>16. \A m \in Nodes(t), s \in Sides : Child(u, m, s) = Child(t, m, s)
  BY <1>2, <1>11 DEF SameLinks
<1>20. PICK C : C = [m \in Nodes(t) \cup {Nil} |-> IF m = p \/ m = uncle THEN B[m] + 1 ELSE B[m]]
  OBVIOUS
<1>21. /\ B \in [Nodes(t) \cup {Nil} -> Nat] /\ B[Nil] = 0
       /\ \A m \in Nodes(t), s \in Sides : B[m] = Weight(t, m) + B[Child(t, m, s)]
  <2>1. \A m \in Nodes(t), s \in Sides : Extra(m, s, NoEdge) = 0
    BY NamesAre, <1>2 DEF Extra, NoEdge, Shape
  <2>2. \A m \in Nodes(t), s \in Sides : Weight(t, m) \in {0, 1} /\ B[Child(t, m, s)] \in Nat
    BY <1>2, NodeFacts DEF Heights, Weight
  <2> QED BY <1>2, <2>1, <2>2 DEF Heights
<1>22. C \in [Nodes(t) \cup {Nil} -> Nat] /\ C[Nil] = 0
  BY <1>4, <1>20, <1>21
<1>23. ASSUME NEW m \in Nodes(t), NEW s \in Sides
       PROVE  C[m] = Weight(u, m) + C[Child(t, m, s)]
  <2>1. PICK c \in Nodes(t) \cup {Nil} : c = Child(t, m, s) /\ c # m
    BY <1>2, NodeFacts
  <2>2. B[m] = Weight(t, m) + B[c] /\ B[m] \in Nat /\ B[c] \in Nat
    BY <1>21, <2>1
  <2>3. CASE m = g
    <3>1. c = p \/ c = uncle
      BY <1>1, <2>1, <2>3
    <3>2. Weight(u, m) = 0 /\ Weight(t, m) = 1
      BY <1>15, <2>3 DEF Weight
    <3> QED BY <1>4, <1>20, <2>1, <2>2, <2>3, <3>1, <3>2
  <2>4. CASE m # g
    <3>1. c # p /\ c # uncle
      BY <1>2, <1>1, <1>4, <2>1, <2>4, OneParent
    <3>2. CASE m = p \/ m = uncle
      <4>1. Weight(u, m) = 1 /\ Weight(t, m) = 0
        BY <1>4, <1>15, <2>4, <3>2 DEF Weight
      <4> QED BY <1>20, <2>1, <2>2, <3>1, <3>2, <4>1
    <3>3. CASE m # p /\ m # uncle
      <4>1. Weight(u, m) = Weight(t, m)
        BY <1>15, <2>4, <3>3 DEF Weight
      <4> QED BY <1>20, <2>1, <2>2, <3>1, <3>3, <4>1
    <3> QED BY <3>2, <3>3
  <2> QED BY <2>3, <2>4
<1>24. Heights(u, C, NoEdge)
  <2>1. \A m \in Nodes(t), s \in Sides : Extra(m, s, NoEdge) = 0
    BY NamesAre, <1>2 DEF Extra, NoEdge, Shape
  <2>2. \A m \in Nodes(t) : Weight(u, m) \in Nat
    BY DEF Weight
  <2>3. ASSUME NEW m \in Nodes(t), NEW s \in Sides
        PROVE  C[m] = Weight(u, m) + Extra(m, s, NoEdge) + C[Child(u, m, s)]
    BY <1>16, <1>23, <2>1, <2>2
  <2> QED BY <1>10, <1>22, <2>3 DEF Heights
<1>25. NoRedPair(u, Nil, g)
  <2>1. SUFFICES ASSUME NEW m \in Nodes(t), NEW s \in Sides, NEW c, c = Child(t, m, s),
                        Red(u, m), c # Nil, c # g
                 PROVE  ~Red(u, c)
    BY <1>10, <1>16 DEF NoRedPair
  <2>2. c \in Nodes(t) /\ Parent(t, c) = m /\ m # Nil
    BY <1>2, <2>1, NodeFacts
  <2>3. CASE m = g
    BY <1>1, <1>4, <1>15, <2>1, <2>3
  <2>4. CASE m # g
    <3>1. Red(t, m) /\ m # p
      BY <1>15, <2>1, <2>4
    <3>2. c # n
      BY <2>2, <3>1
    <3>3. ~Red(t, c)
      BY <1>2, <2>1, <2>2, <3>1, <3>2 DEF NoRedPair
    <3> QED BY <1>15, <2>1, <2>2, <3>3
  <2> QED BY <2>3, <2>4
<1>26. u.root # g => RootBlack(u)
  <2>1. u.root = t.root
    BY <1>11 DEF SameLinks
  <2>2. t.root # n
    BY <1>3, <1>4 DEF NodeOf
  <2>3. t.root \in Nodes(t) \cup {Nil}
    BY <1>2 DEF Shape, Linked
  <2> QED BY <1>2, <1>15, <2>1, <2>2, <2>3 DEF RootBlack
<1>27. Adding(u, S, C, g)
  BY <1>10, <1>15, <1>24, <1>25, <1>26 DEF Adding
<1> QED BY <1>11, <1>27

\* A bend between two red nodes is straightened first.
Bent(t, S, B, n, which, opp, p, g) ==
  /\ Adding(t, S, B, n)
  /\ which \in Sides /\ opp \in Sides /\ opp = Opposite(which)
  /\ p \in Nodes(t) /\ g \in Nodes(t)
  /\ p = Parent(t, n) /\ Red(t, p) /\ p = Child(t, g, opp) /\ n = Child(t, p, which) /\ ~Red(t, g)

LEMMA Straightens ==
  ASSUME NEW t, NEW S, NEW B, NEW n, NEW which, NEW opp, NEW p, NEW g,
         Bent(t, S, B, n, which, opp, p, g),
         NEW u, u = TreeRotate(t, p, opp)
  PROVE  /\ SameNodes(t, u)
         /\ \E S2, B2 : Shape(u, S2) /\ Heights(u, B2, NoEdge)
         /\ Parent(u, p) = n /\ n = Child(u, g, opp) /\ p = Child(u, n, opp)
         /\ Child(u, g, which) = Child(t, g, which)
         /\ \A m \in Nodes(t) : Red(u, m) <=> Red(t, m)
         /\ NoRedPair(u, Nil, p) /\ (t.root # n => RootBlack(u))
<1>0. /\ Adding(t, S, B, n)
      /\ which \in Sides /\ opp \in Sides /\ opp = Opposite(which)
      /\ p \in Nodes(t) /\ g \in Nodes(t)
      /\ p = Parent(t, n) /\ Red(t, p) /\ p = Child(t, g, opp) /\ n = Child(t, p, which) /\ ~Red(t, g)
  BY DEF Bent
<1> USE <1>0
<1>1. opp # which /\ which = Opposite(opp) /\ \A s \in Sides : s = which \/ s = opp
  BY SidesAre
<1>2. Shape(t, S) /\ Heights(t, B, NoEdge) /\ n \in Nodes(t) /\ Red(t, n) /\ NoRedPair(t, Nil, n)
      /\ (t.root # n => RootBlack(t)) /\ Nodes(t) \subseteq DOMAIN t.node
  BY NamesAre DEF Adding, Shape
<1>3. NodeOf(t, S, g) /\ NodeOf(t, S, p) /\ NodeOf(t, S, n)
  BY <1>2, NodeIs
<1>4. p # g /\ p # Nil /\ g # Nil /\ n # p /\ n # Nil /\ n # g
  <2>1. p # g /\ p # Nil /\ g # Nil /\ n # p /\ n # Nil
    BY <1>3 DEF NodeOf
  <2> QED BY <1>2, <2>1
<1>5. Child(t, p, Opposite(opp)) # Nil /\ n = Child(t, p, Opposite(opp))
  BY <1>1, <1>4
<1>6. Rotated(t, p, opp, u) /\ \A m \in DOMAIN t.node : Red(u, m) = Red(t, m)
  BY <1>2, <1>5, Rotates
<1>7. \A m \in Nodes(t) : Red(u, m) <=> Red(t, m)
  BY <1>2, <1>6
<1>8. /\ Nodes(u) = Nodes(t)
      /\ Child(u, p, opp) = Child(t, p, opp) /\ Child(u, p, which) = Child(t, n, opp)
      /\ Child(u, n, opp) = p /\ Child(u, n, which) = Child(t, n, which)
      /\ Parent(u, p) = n
      /\ \A m \in Nodes(t) : m # p /\ m # n =>
           \A s \in Sides : /\ Child(u, m, s) = IF Child(t, m, s) = p THEN n ELSE Child(t, m, s)
                            /\ Child(t, m, s) # n
      /\ \A s \in Sides : Child(t, n, s) \notin {p, n}
      /\ Child(t, p, opp) # n
  BY <1>1, <1>2, <1>5, <1>6, RotationLinks
<1>9. SameNodes(t, u)
  BY <1>6 DEF Rotated
<1>10. PICK S2 : Shape(u, S2)
  BY <1>2, <1>5, <1>6, RotatedShape
<1>11. Swapped(t, p, opp, u)
  <2>1. \A m \in Nodes(t) : Red(u, m) <=> m = p \/ (m = n /\ Red(t, p)) \/ (m # n /\ Red(t, m))
    BY <1>2, <1>7
  <2>2. \A m \in Nodes(t) : Red(u, m) <=> \/ m = p
                                          \/ m = Child(t, p, Opposite(opp)) /\ Red(t, p)
                                          \/ m # Child(t, p, Opposite(opp)) /\ Red(t, m)
    BY <1>5, <2>1
  <2> QED BY <1>6, <2>2 DEF Swapped
<1>12. PICK B2 : Heights(u, B2, NoEdge)
  <2>1. NoEdge # <<p, Opposite(opp)>> /\ \A s \in Sides : NoEdge # <<n, s>>
    BY <1>4 DEF NoEdge
  <2>2. Red(t, Child(t, p, Opposite(opp))) /\ \A s \in Sides : NoEdge # <<Child(t, p, Opposite(opp)), s>>
    BY <1>2, <1>5, <2>1
  <2> QED BY <1>2, <1>5, <1>11, <2>1, <2>2, SwapKeepsHeights
<1>13. n = Child(u, g, opp) /\ Child(u, g, which) = Child(t, g, which)
  <2>1. Child(t, g, which) # p
    BY <1>1, <1>2, <1>4, OneParent
  <2> QED BY <1>1, <1>4, <1>8, <2>1
<1>14. NoRedPair(u, Nil, p)
  <2>1. SUFFICES ASSUME NEW m \in Nodes(t), NEW s \in Sides, NEW c, c = Child(u, m, s),
                        Red(u, m), c # Nil, c # p
                 PROVE  ~Red(u, c)
    BY <1>8 DEF NoRedPair
  <2>2. \A k \in Nodes(t), r \in Sides :
          LET d == Child(t, k, r)
          IN Red(t, k) /\ d # Nil /\ d # n => d \in Nodes(t) /\ ~Red(t, d)
    BY <1>2, NodeFacts DEF NoRedPair
  <2>3. CASE m = p
    <3>1. c = Child(t, p, opp) \/ c = Child(t, n, opp)
      BY <1>1, <1>8, <2>1, <2>3
    <3>2. c # n
      BY <1>8, <3>1, <1>1
    <3> QED BY <1>2, <1>7, <2>1, <2>2, <3>1, <3>2
  <2>4. CASE m = n
    <3>1. c = Child(t, n, which) /\ c # n
      BY <1>1, <1>8, <2>1, <2>4
    <3> QED BY <1>2, <1>7, <2>1, <2>2, <3>1
  <2>5. CASE m # p /\ m # n
    <3>1. Red(t, m)
      BY <1>7, <2>1
    <3>2. Child(t, m, s) # p
      BY <1>2, <1>4, <3>1, OneParent
    <3>3. c = Child(t, m, s) /\ c # n
      BY <1>8, <2>1, <2>5, <3>2
    <3> QED BY <1>7, <2>1, <2>2, <3>1, <3>3
  <2> QED BY <2>3, <2>4, <2>5
<1>15. ASSUME t.root # n PROVE RootBlack(u)
  <2>1. u.root = IF p = t.root THEN n ELSE t.root
    BY <1>5, <1>6 DEF Rotated
  <2>2. p # t.root
    BY <1>3, <1>4 DEF NodeOf
  <2>3. t.root \in Nodes(t) \cup {Nil}
    BY <1>2 DEF Shape, Linked
  <2> QED BY <1>2, <1>7, <1>15, <2>1, <2>2, <2>3 DEF RootBlack
<1> QED BY <1>7, <1>8, <1>9, <1>10, <1>12, <1>13, <1>14, <1>15

LEMMA RedUncle ==
  ASSUME NEW t, NEW n, NEW which, isRed(t, Child(t, Parent(t, Parent(t, n)), which))
  PROVE  TreeBAASub(t, n, which) =
           [tree |-> Reddened(Blackened(Blackened(t, Parent(t, n)), Child(t, Parent(t, Parent(t, n)), which)),
                              Parent(t, Parent(t, n))),
            cur |-> Parent(t, Parent(t, n))]
BY Zenon DEF TreeBAASub, Reddened, Blackened

LEMMA BlackIs ==
  ASSUME NEW t, NEW n, ~Red(t, n)
  PROVE  ~isRed(t, n)
BY Zenon DEF Red, isRed

Climbs(t, S, B, n, which, p, g) ==
  /\ Adding(t, S, B, n)
  /\ which \in Sides /\ p \in Nodes(t) /\ g \in Nodes(t)
  /\ p = Parent(t, n) /\ Red(t, p) /\ g = Parent(t, p) /\ p = Child(t, g, Opposite(which))

\* After a round, either the loop goes on two nodes further up, in a tree with
\* the same links, or it is over.
LEMMA AddingRound ==
  ASSUME NEW t, NEW S, NEW B, NEW n, NEW which, NEW p, NEW g, Climbs(t, S, B, n, which, p, g),
         NEW r, r = TreeBAASub(t, n, which)
  PROVE  /\ SameNodes(t, r.tree)
         /\ \E S2, B2 : Adding(r.tree, S2, B2, r.cur)
         /\ \/ SameLinks(t, r.tree) /\ r.cur = g
            \/ ~isRed(r.tree, Parent(r.tree, r.cur))
<1>0. /\ Adding(t, S, B, n)
      /\ which \in Sides /\ p \in Nodes(t) /\ g \in Nodes(t)
      /\ p = Parent(t, n) /\ Red(t, p) /\ g = Parent(t, p) /\ p = Child(t, g, Opposite(which))
  BY DEF Climbs
<1>1. PICK opp \in Sides : opp = Opposite(which) /\ opp # which /\ which = Opposite(opp)
                           /\ \A s \in Sides : s = which \/ s = opp
  BY <1>0, SidesAre
<1>2. Shape(t, S) /\ Heights(t, B, NoEdge) /\ n \in Nodes(t) /\ Red(t, n) /\ NoRedPair(t, Nil, n)
      /\ (t.root # n => RootBlack(t)) /\ Nodes(t) \subseteq DOMAIN t.node
  BY <1>0, NamesAre DEF Adding, Shape
<1>3. NodeOf(t, S, g) /\ NodeOf(t, S, p) /\ NodeOf(t, S, n)
  BY <1>0, <1>2, NodeIs
<1>4. p # Nil /\ g # Nil /\ n # Nil /\ p # g /\ n # p /\ t.root # n
  <2>1. p # Nil /\ g # Nil /\ n # Nil /\ p # g /\ t.root # n
    BY <1>0, <1>1, <1>3 DEF NodeOf
  <2>2. n # p
    BY <1>0, <1>2, <2>1, ParentFacts
  <2> QED BY <1>0, <2>1, <2>2
<1>5. ~Red(t, g)
  BY <1>0, <1>1, <1>2, <1>4 DEF NoRedPair
<1>6. PICK uncle \in Nodes(t) \cup {Nil} : uncle = Child(t, g, which)
  BY <1>0, <1>3 DEF NodeOf
<1>7. RootBlack(t)
  BY <1>0, <1>2, <1>4
<1>8. CASE uncle # Nil /\ Red(t, uncle)
  <2>1. isRed(t, Child(t, g, which))
    BY <1>0, <1>6, <1>8 DEF isRed, Red
  <2>2. r = [tree |-> Reddened(Blackened(Blackened(t, p), Child(t, g, which)), g), cur |-> g]
    <3>1. Parent(t, Parent(t, n)) = g /\ Parent(t, n) = p
      BY <1>0
    <3>2. isRed(t, Child(t, Parent(t, Parent(t, n)), which))
      BY <2>1, <3>1
    <3>3. TreeBAASub(t, n, which) =
           [tree |-> Reddened(Blackened(Blackened(t, Parent(t, n)), Child(t, Parent(t, Parent(t, n)), which)),
                              Parent(t, Parent(t, n))),
            cur |-> Parent(t, Parent(t, n))]
      BY <3>2, RedUncle
    <3> QED BY <3>1, <3>3
  <2>3. r.tree = Reddened(Blackened(Blackened(t, p), uncle), g) /\ r.cur = g
    BY <1>6, <2>2
  <2>4. SameLinks(t, r.tree) /\ \E B2 : Adding(r.tree, S, B2, g)
    BY <1>0, <1>5, <1>6, <1>8, <2>3, RecoloursUncle
  <2> QED BY <1>0, <2>3, <2>4 DEF SameLinks
<1>9. CASE ~(uncle # Nil /\ Red(t, uncle))
  <2>1. ~isRed(t, Child(t, g, which))
    BY <1>0, <1>6, <1>9 DEF isRed, Red
  <2>2. n = Child(t, p, which) \/ n = Child(t, p, opp)
    <3>1. PICK s \in Sides : Child(t, p, s) = n
      <4>1. Child(t, p, LEFT) = n \/ Child(t, p, RIGHT) = n
        BY <1>0, <1>2, <1>4, ParentFacts
      <4> QED BY <4>1, SidesAre
    <3> QED BY <1>0, <1>1, <3>1
  <2>3. CASE n = Child(t, p, which)
    <3>1. PICK v : v = TreeRotate(t, p, opp)
      OBVIOUS
    <3>2. /\ SameNodes(t, v)
          /\ Parent(v, p) = n /\ n = Child(v, g, opp) /\ p = Child(v, n, opp)
          /\ Child(v, g, which) = Child(t, g, which)
          /\ \A m \in Nodes(t) : Red(v, m) <=> Red(t, m)
          /\ NoRedPair(v, Nil, p) /\ RootBlack(v)
          /\ \E S2, B2 : Shape(v, S2) /\ Heights(v, B2, NoEdge)
      <4>1. Bent(t, S, B, n, which, opp, p, g)
        BY <1>0, <1>1, <1>5, <2>3 DEF Bent
      <4> QED BY <1>4, <3>1, <4>1, Straightens
    <3>3. PICK S2, B2 : Shape(v, S2) /\ Heights(v, B2, NoEdge)
      BY <1>0, <3>2
    <3>4. Nodes(v) = Nodes(t)
      BY <1>0, <3>2 DEF SameNodes, Nodes
    <3>5. PICK x : x = Reddened(Blackened(v, n), g)
      OBVIOUS
    <3>6. Painted(v, n, g, x)
      <4>1. n # g
        BY <1>0, <1>5, <1>2
      <4> QED BY <1>0, <1>2, <3>3, <3>4, <3>5, <4>1, BlackAndRed
    <3>7. PICK u : u = TreeRotate(x, g, which)
      OBVIOUS
    <3>8. r = [tree |-> u, cur |-> p]
      BY <1>0, <1>1, <2>1, <2>3, <3>1, <3>2, <3>5, <3>7, Zenon DEF TreeBAASub, Reddened, Blackened
    <3>9. Red(v, n) /\ Red(v, p) /\ ~Red(v, g)
      BY <1>0, <1>2, <1>5, <3>2
    <3>10. Child(v, g, which) # Nil => ~Red(v, Child(v, g, which))
      BY <1>0, <1>6, <1>9, <3>2
    <3>11. /\ SameNodes(v, u)
           /\ \E S3, B3 : Adding(u, S3, B3, p)
           /\ Parent(u, p) = n /\ ~Red(u, n)
      <4>1. n \in Nodes(v) /\ g \in Nodes(v) /\ p \in Nodes(v)
        BY <1>0, <1>2, <3>4
      <4>2. Straight(v, S2, B2, which, opp, g, n, p)
        BY <1>0, <1>1, <3>2, <3>3, <3>9, <3>10, <4>1 DEF Straight
      <4> QED BY <3>6, <3>7, <4>2, RaisesParent
    <3>12. r.tree = u /\ r.cur = p /\ ~isRed(u, n)
      BY <3>8, <3>11, BlackIs
    <3>13. SameNodes(t, u)
      BY <3>2, <3>11 DEF SameNodes
    <3> QED BY <3>11, <3>12, <3>13
  <2>4. CASE n = Child(t, p, opp)
    <3>1. n # Child(t, p, which)
      <4>1. p \in Nodes(t) /\ which \in Sides
        BY <1>0
      <4>2. ASSUME n = Child(t, p, which) PROVE FALSE
        <5>1. Child(t, p, opp) # Nil /\ Child(t, p, opp) = Child(t, p, which)
          BY <1>4, <2>4, <4>2
        <5>2. opp = which
          BY <1>2, <4>1, <5>1, OneParent
        <5> QED BY <1>1, <5>2
      <4> QED BY <4>2
    <3>5. PICK x : x = Reddened(Blackened(t, p), g)
      OBVIOUS
    <3>6. Painted(t, p, g, x)
      BY <1>0, <1>2, <1>4, <3>5, BlackAndRed
    <3>7. PICK u : u = TreeRotate(x, g, which)
      OBVIOUS
    <3>8. r = [tree |-> u, cur |-> n]
      BY <1>0, <1>1, <2>1, <3>1, <3>5, <3>7, Zenon DEF TreeBAASub, Reddened, Blackened
    <3>9. Child(t, g, which) # Nil => ~Red(t, Child(t, g, which))
      BY <1>0, <1>6, <1>9
    <3>10. /\ SameNodes(t, u)
           /\ \E S3, B3 : Adding(u, S3, B3, n)
           /\ Parent(u, n) = p /\ ~Red(u, p)
      <4>1. Straight(t, S, B, which, opp, g, p, n)
        BY <1>0, <1>1, <1>2, <1>5, <1>7, <2>4, <3>9 DEF Straight
      <4> QED BY <3>6, <3>7, <4>1, RaisesParent
    <3>11. r.tree = u /\ r.cur = n /\ ~isRed(u, p)
      BY <3>8, <3>10, BlackIs
    <3> QED BY <3>10, <3>11
  <2> QED BY <1>0, <2>2, <2>3, <2>4
<1> QED BY <1>0, <1>8, <1>9

\* The node at the root may be painted black at any time.
LEMMA RootPainted ==
  ASSUME NEW t, NEW S, Shape(t, S), NEW B, Heights(t, B, NoEdge), NEW r \in Nodes(t), r = t.root,
         NEW u, u = Blackened(t, r)
  PROVE  /\ SameLinks(t, u) /\ Shape(u, S)
         /\ \A m \in Nodes(t) : Red(u, m) <=> m # r /\ Red(t, m)
         /\ \E B2 : Heights(u, B2, NoEdge)
<1>1. SameLinks(t, u) /\ Shape(u, S) /\ Nodes(u) = Nodes(t)
  BY PaintsLinks
<1>2. \A m \in Nodes(t) : Red(u, m) <=> m # r /\ Red(t, m)
  BY Blackens, NamesAre DEF Shape
<1>3. \A m \in Nodes(t), s \in Sides : Child(u, m, s) = Child(t, m, s)
  BY <1>1, NamesAre DEF SameLinks, Shape
<1>4. r # Nil /\ Nil \notin Nodes(t) /\ \A m \in Nodes(t), s \in Sides : Child(t, m, s) # r
  BY NamesAre, NodeFacts DEF Shape
<1>5. /\ B \in [Nodes(t) \cup {Nil} -> Nat] /\ B[Nil] = 0
      /\ \A m \in Nodes(t), s \in Sides : B[m] = Weight(t, m) + Extra(m, s, NoEdge) + B[Child(t, m, s)]
  BY DEF Heights
<1>6. PICK C : C = [m \in Nodes(t) \cup {Nil} |-> IF m = r THEN B[m] + 1 - Weight(t, r) ELSE B[m]]
  OBVIOUS
<1>7. \A m \in Nodes(t) : Weight(t, m) \in {0, 1} /\ Weight(u, m) \in {0, 1}
                          /\ Weight(u, m) = IF m = r THEN 1 ELSE Weight(t, m)
  BY <1>2 DEF Weight
<1>8. \A m \in Nodes(t), s \in Sides : Extra(m, s, NoEdge) = 0
  BY <1>4 DEF Extra, NoEdge
<1>9. C \in [Nodes(t) \cup {Nil} -> Nat] /\ C[Nil] = 0
  <2>1. \A m \in Nodes(t) \cup {Nil} : C[m] \in Nat
    BY <1>5, <1>6, <1>7
  <2> QED BY <1>4, <1>5, <1>6, <2>1
<1>10. ASSUME NEW m \in Nodes(t), NEW s \in Sides
       PROVE  C[m] = Weight(u, m) + Extra(m, s, NoEdge) + C[Child(u, m, s)]
  <2>1. PICK c \in Nodes(t) \cup {Nil} : c = Child(t, m, s) /\ c # r
    BY <1>4, NodeFacts
  <2>2. C[c] = B[c] /\ B[c] \in Nat /\ B[m] \in Nat
    BY <1>5, <1>6, <2>1
  <2>3. B[m] = Weight(t, m) + B[c]
    BY <1>5, <1>7, <1>8, <2>1, <2>2
  <2>4. C[m] = Weight(u, m) + C[c]
    BY <1>6, <1>7, <2>2, <2>3
  <2> QED BY <1>3, <1>7, <1>8, <2>1, <2>2, <2>4
<1>11. Heights(u, C, NoEdge)
  BY <1>1, <1>9, <1>10 DEF Heights
<1> QED BY <1>1, <1>2, <1>11

LEMMA AddingEnds ==
  ASSUME NEW t, NEW S, NEW B, NEW c, Adding(t, S, B, c),
         ~(isRed(t, Parent(t, c)) /\ Parent(t, Parent(t, c)) # Nil),
         NEW u, u = Blackened(t, t.root)
  PROVE  SameLinks(t, u) /\ \E B2 : Sound(u, S, B2)
<1>1. Shape(t, S) /\ Heights(t, B, NoEdge) /\ c \in Nodes(t) /\ Red(t, c) /\ NoRedPair(t, Nil, c)
      /\ (t.root # c => RootBlack(t))
  BY DEF Adding
<1>2. NodeOf(t, S, c) /\ Nil \notin Nodes(t)
  BY <1>1, NodeIs, NamesAre DEF Shape
<1>3. PICK r \in Nodes(t) : r = t.root
  BY <1>1 DEF Shape, Linked
<1>4. u = Blackened(t, r)
  BY <1>3
<1>5. /\ SameLinks(t, u) /\ Shape(u, S)
      /\ \A m \in Nodes(t) : Red(u, m) <=> m # r /\ Red(t, m)
      /\ \E B2 : Heights(u, B2, NoEdge)
  BY <1>1, <1>3, <1>4, RootPainted
<1>6. PICK B2 : Heights(u, B2, NoEdge)
  BY <1>5
<1>7. Nodes(u) = Nodes(t) /\ u.root = r
  BY <1>3, <1>5 DEF SameLinks, SameNodes, Nodes
<1>8. RootBlack(u)
  BY <1>3, <1>5, <1>7 DEF RootBlack
<1>9. \A m \in Nodes(t), s \in Sides : Child(u, m, s) = Child(t, m, s)
  BY <1>1, <1>5, NamesAre DEF SameLinks, Shape
<1>10. c # r => ~Red(u, Parent(t, c))
  <2>1. SUFFICES ASSUME c # r, Red(u, Parent(t, c)) PROVE FALSE
    OBVIOUS
  <2>2. PICK p \in Nodes(t) : p = Parent(t, c)
    BY <1>2, <1>3, <2>1 DEF NodeOf
  <2>3. p # r /\ Red(t, p)
    BY <1>5, <2>1, <2>2
  <2>4. Parent(t, p) # Nil
    <3>1. NodeOf(t, S, p)
      BY <1>1, NodeIs
    <3> QED BY <1>3, <2>3, <3>1 DEF NodeOf
  <2>5. isRed(t, p)
    BY <1>2, <2>2, <2>3, Zenon DEF isRed, Red
  <2> QED BY <2>2, <2>4, <2>5
<1>11. NoRedPair(u, Nil, Nil)
  <2>1. SUFFICES ASSUME NEW m \in Nodes(t), NEW s \in Sides, NEW d, d = Child(t, m, s),
                        Red(u, m), d # Nil
                 PROVE  ~Red(u, d)
    BY <1>7, <1>9 DEF NoRedPair
  <2>2. NodeOf(t, S, m)
    BY <1>1, NodeIs
  <2>3. d \in Nodes(t) /\ Parent(t, d) = m /\ m # Nil
    BY <2>1, <2>2 DEF NodeOf
  <2>4. CASE d = c
    <3>1. c = r
      BY <1>10, <2>1, <2>3, <2>4
    <3> QED BY <1>5, <2>4, <3>1
  <2>5. CASE d # c
    <3>1. ~Red(t, d)
      BY <1>1, <1>5, <2>1, <2>3, <2>5 DEF NoRedPair
    <3> QED BY <1>5, <2>3, <3>1
  <2> QED BY <2>4, <2>5
<1>12. Sound(u, S, B2)
  BY <1>5, <1>6, <1>8, <1>11 DEF Sound
<1> QED BY <1>5, <1>12

-----------------------------------------------------------------------------
(* A round of TreeBalanceAfterRemove *)

\* The ways down on the side near of p have a black node too few; c is there.
Short(t, S, B, c, p, near) ==
  /\ Shape(t, S) /\ Heights(t, B, <<p, near>>) /\ NoRedPair(t, Nil, Nil) /\ RootBlack(t)
  /\ p \in Nodes(t) /\ near \in Sides /\ c \in DOMAIN t.node
  /\ Parent(t, c) = p /\ Child(t, p, near) = InTree(c)
  /\ InTree(c) # Nil => ~Red(t, InTree(c))

\* Then there is a sibling.
LEMMA Sibling ==
  ASSUME NEW t, NEW S, NEW B, NEW c, NEW p, NEW near, Short(t, S, B, c, p, near),
         NEW far, far = Opposite(near), NEW s, s = Child(t, p, far)
  PROVE  /\ s \in Nodes(t) /\ s # p /\ s # InTree(c) /\ far \in Sides /\ far # near
         /\ \A r \in Sides : r = near \/ r = far
         /\ p \in Nodes(t) /\ p # Nil /\ InTree(c) # p
         /\ near = Opposite(far) /\ near \in Sides
         /\ B[s] = 1 + B[InTree(c)] /\ B[s] \in Nat /\ B[InTree(c)] \in Nat
         /\ \A m \in Nodes(t) : Weight(t, m) \in {0, 1}
         /\ \A m, r : Extra(m, r, <<p, near>>) = IF m = p /\ r = near THEN 1 ELSE 0
<1>1. /\ Shape(t, S) /\ Heights(t, B, <<p, near>>)
      /\ p \in Nodes(t) /\ near \in Sides
      /\ Child(t, p, near) = InTree(c)
  BY DEF Short
<1>2. far \in Sides /\ far # near /\ near = Opposite(far) /\ \A r \in Sides : r = near \/ r = far
  BY <1>1, SidesAre
<1>3. NodeOf(t, S, p) /\ Nil \notin Nodes(t)
  BY <1>1, NodeIs, NamesAre DEF Shape
<1>4. /\ s \in Nodes(t) \cup {Nil} /\ InTree(c) \in Nodes(t) \cup {Nil}
      /\ s # p /\ p # Nil /\ InTree(c) # p
  BY <1>1, <1>2, <1>3 DEF NodeOf
<1>5. \A m \in Nodes(t) : Weight(t, m) \in {0, 1}
  BY DEF Weight
<1>6. \A m, r : Extra(m, r, <<p, near>>) = IF m = p /\ r = near THEN 1 ELSE 0
  BY DEF Extra
<1>7. /\ B[s] \in Nat /\ B[InTree(c)] \in Nat /\ B[Nil] = 0
      /\ B[p] = Weight(t, p) + 1 + B[InTree(c)]
      /\ B[p] = Weight(t, p) + 0 + B[s]
  BY <1>1, <1>2, <1>4, <1>6 DEF Heights
<1>8. B[s] = 1 + B[InTree(c)]
  BY <1>1, <1>5, <1>7
<1>9. s # Nil
  BY <1>7, <1>8
<1>10. s # InTree(c)
  BY <1>7, <1>8
<1> QED BY <1>1, <1>2, <1>3, <1>4, <1>5, <1>6, <1>7, <1>8, <1>9, <1>10

SiblingOf(t, B, c, p, near, far, s) ==
  /\ far = Opposite(near) /\ s = Child(t, p, far)
  /\ s \in Nodes(t) /\ s # p /\ s # InTree(c) /\ far \in Sides /\ far # near
  /\ \A r \in Sides : r = near \/ r = far
  /\ p \in Nodes(t) /\ p # Nil /\ InTree(c) # p
  /\ near = Opposite(far) /\ near \in Sides
  /\ B[s] = 1 + B[InTree(c)] /\ B[s] \in Nat /\ B[InTree(c)] \in Nat
  /\ \A m \in Nodes(t) : Weight(t, m) \in {0, 1}
  /\ \A m, r : Extra(m, r, <<p, near>>) = IF m = p /\ r = near THEN 1 ELSE 0

LEMMA SiblingIs ==
  ASSUME NEW t, NEW S, NEW B, NEW c, NEW p, NEW near, Short(t, S, B, c, p, near)
  PROVE  SiblingOf(t, B, c, p, near, Opposite(near), Child(t, p, Opposite(near)))
BY Sibling DEF SiblingOf

\* A red sibling comes up, and leaves a black one behind.
LEMMA RotatesSibling ==
  ASSUME NEW t, NEW S, NEW B, NEW c, NEW p, NEW near, Short(t, S, B, c, p, near),
         NEW far, far = Opposite(near), NEW s, s = Child(t, p, far), Red(t, s),
         NEW u, u = TreeRotate(Reddened(Blackened(t, s), p), p, near)
  PROVE  /\ SameNodes(t, u)
         /\ \E S2, B2 : Short(u, S2, B2, c, p, near)
         /\ Red(u, p)
         /\ ~Red(u, Child(u, p, far))
<1>0. /\ Shape(t, S) /\ Heights(t, B, <<p, near>>) /\ NoRedPair(t, Nil, Nil) /\ RootBlack(t)
      /\ p \in Nodes(t) /\ near \in Sides /\ c \in DOMAIN t.node
      /\ Parent(t, c) = p /\ Child(t, p, near) = InTree(c)
      /\ InTree(c) # Nil => ~Red(t, InTree(c))
  BY DEF Short
<1>1. /\ s \in Nodes(t) /\ s # p /\ s # InTree(c) /\ far \in Sides /\ far # near
      /\ \A r \in Sides : r = near \/ r = far
      /\ near = Opposite(far) /\ p # Nil /\ InTree(c) # p
  <2>1. SiblingOf(t, B, c, p, near, far, s)
    BY SiblingIs
  <2> QED BY <2>1 DEF SiblingOf
<1>2. NodeOf(t, S, p) /\ NodeOf(t, S, s) /\ Nil \notin Nodes(t)
  BY <1>0, <1>1, NodeIs, NamesAre DEF Shape
<1>3. PICK x : x = Reddened(Blackened(t, s), p)
  OBVIOUS
<1>4. Painted(t, s, p, x)
  BY <1>0, <1>1, <1>3, BlackAndRed
<1>5. SameLinks(t, x) /\ \A m \in DOMAIN t.node : Red(x, m) <=> m = p \/ (m # s /\ Red(t, m))
  BY <1>4 DEF Painted
<1>6. s = Child(t, p, Opposite(near)) /\ s # Nil /\ u = TreeRotate(x, p, near)
  BY <1>1, <1>2, <1>3 DEF NodeOf
<1>7. Rotated(t, p, near, u) /\ SameNodes(t, u) /\ \A m \in Nodes(t) : Red(u, m) = Red(x, m)
  BY <1>0, <1>5, <1>6, RotatesPainted
<1>8. \A m \in Nodes(t) : Red(u, m) <=> m = p \/ (m # s /\ Red(t, m))
  BY <1>0, <1>5, <1>7, NamesAre DEF Shape
<1>9. ~Red(t, p)
  BY <1>0, <1>1, <1>2, <1>6 DEF NoRedPair
<1>10. Swapped(t, p, near, u)
  <2>1. \A m \in Nodes(t) : Red(u, m) <=> m = p \/ (m = s /\ Red(t, p)) \/ (m # s /\ Red(t, m))
    BY <1>8, <1>9
  <2> QED BY <1>6, <1>7, <2>1 DEF Swapped
<1>11. PICK B2 : Heights(u, B2, <<p, near>>)
  <2>1. <<p, near>> # <<p, Opposite(near)>> /\ \A r \in Sides : <<p, near>> # <<s, r>>
    BY <1>1
  <2>2. Red(t, Child(t, p, Opposite(near))) /\ \A r \in Sides : <<p, near>> # <<Child(t, p, Opposite(near)), r>>
    BY <1>6, <2>1
  <2>3. Child(t, p, Opposite(near)) # Nil
    BY <1>6
  <2> QED BY <1>0, <1>10, <2>1, <2>2, <2>3, SwapKeepsHeights
<1>12. PICK S2 : Shape(u, S2)
  BY <1>0, <1>6, <1>7, RotatedShape
<1>13. /\ Nodes(u) = Nodes(t)
       /\ Child(u, p, near) = Child(t, p, near) /\ Child(u, p, far) = Child(t, s, near)
       /\ Child(u, s, near) = p /\ Child(u, s, far) = Child(t, s, far)
       /\ \A m \in Nodes(t) : m # p /\ m # s =>
            \A r \in Sides : /\ Child(u, m, r) = IF Child(t, m, r) = p THEN s ELSE Child(t, m, r)
                             /\ Child(t, m, r) # s
       /\ \A r \in Sides : Child(t, s, r) \notin {p, s}
  BY <1>0, <1>1, <1>6, <1>7, RotationLinks
<1>14. \A r \in Sides : Child(t, s, r) # Nil => ~Red(t, Child(t, s, r)) /\ ~Red(u, Child(t, s, r))
  <2>1. \A r \in Sides : Child(t, s, r) # Nil => ~Red(t, Child(t, s, r)) /\ Child(t, s, r) \in Nodes(t)
    BY <1>0, <1>1, <1>2, <1>6 DEF NoRedPair, NodeOf
  <2> QED BY <1>8, <1>13, <2>1
<1>15. InTree(c) # Nil => ~Red(u, InTree(c))
  <2>1. InTree(c) \in Nodes(t) \cup {Nil}
    BY <1>0, <1>2 DEF NodeOf
  <2> QED BY <1>0, <1>1, <1>8, <2>1
<1>16. NoRedPair(u, Nil, Nil)
  <2>1. SUFFICES ASSUME NEW m \in Nodes(t), NEW r \in Sides, NEW d, d = Child(u, m, r),
                        Red(u, m), d # Nil
                 PROVE  ~Red(u, d)
    BY <1>13 DEF NoRedPair
  <2>2. CASE m = p
    <3>1. d = InTree(c) \/ d = Child(t, s, near)
      BY <1>0, <1>1, <1>13, <2>1, <2>2
    <3> QED BY <1>0, <1>14, <1>15, <2>1, <3>1
  <2>3. CASE m = s
    BY <1>1, <1>8, <2>1, <2>3
  <2>4. CASE m # p /\ m # s
    <3>1. CASE Child(t, m, r) = p
      <4>1. d = s
        BY <1>13, <2>1, <2>4, <3>1
      <4> QED BY <1>1, <1>8, <4>1
    <3>2. CASE Child(t, m, r) # p
      <4>1. d = Child(t, m, r) /\ d # s
        BY <1>13, <2>1, <2>4, <3>2
      <4>2. NodeOf(t, S, m)
        BY <1>0, NodeIs
      <4>3. d \in Nodes(t) /\ m # Nil
        BY <2>1, <4>1, <4>2 DEF NodeOf
      <4>4. Red(t, m)
        BY <1>8, <2>1, <2>4
      <4>5. ~Red(t, d)
        BY <1>0, <2>1, <4>1, <4>3, <4>4 DEF NoRedPair
      <4> QED BY <1>8, <3>2, <4>1, <4>3, <4>5
    <3> QED BY <3>1, <3>2
  <2> QED BY <2>2, <2>3, <2>4
<1>17. RootBlack(u)
  <2>1. u.root = IF p = t.root THEN s ELSE t.root
    BY <1>6, <1>7 DEF Rotated
  <2>2. t.root \in Nodes(t) \cup {Nil}
    BY <1>0 DEF Shape, Linked
  <2> QED BY <1>0, <1>1, <1>8, <2>1, <2>2 DEF RootBlack
<1>18. Parent(u, c) = p /\ c \in DOMAIN u.node
  <2>1. c \in DOMAIN u.node
    BY <1>0, <1>7 DEF SameNodes
  <2>2. CASE c = Temp
    <3>1. c # p /\ c # s /\ c # Child(t, s, near)
      <4>1. Temp \notin Nodes(t) /\ Nil # Temp
        BY <1>0, NamesAre, ContentsAssumption DEF Shape
      <4>2. Child(t, s, near) \in Nodes(t) \cup {Nil}
        BY <1>0, <1>2 DEF NodeOf
      <4> QED BY <1>0, <1>1, <2>2, <4>1, <4>2
    <3>2. Parent(u, c) = Parent(t, c)
      BY <1>0, <1>6, <1>7, <3>1 DEF Rotated
    <3> QED BY <1>0, <2>1, <3>2
  <2>3. CASE c # Temp
    <3>1. InTree(c) = c /\ c # Nil
      BY <1>0, <2>3, NamesAre DEF InTree, Shape
    <3>2. NodeOf(u, S2, p)
      BY <1>0, <1>12, <1>13, NodeIs
    <3> QED BY <1>0, <1>13, <2>1, <3>1, <3>2 DEF NodeOf
  <2> QED BY <2>2, <2>3
<1>19. Short(u, S2, B2, c, p, near)
  BY <1>0, <1>11, <1>12, <1>13, <1>15, <1>16, <1>17, <1>18 DEF Short
<1>20. Red(u, p)
  BY <1>0, <1>8
<1>21. ~Red(u, Child(u, p, far))
  <2>1. PICK i : i = Child(u, p, far)
    OBVIOUS
  <2>2. i \in Nodes(u)
    BY <1>19, <2>1, SiblingIs DEF SiblingOf
  <2>3. i # Nil /\ i = Child(t, s, near)
    BY <1>2, <1>13, <2>1, <2>2
  <2> QED BY <1>0, <1>14, <2>1, <2>3
<1> QED BY <1>7, <1>19, <1>20, <1>21

\* The sibling turns red: the parent has a black node too few below.
LEMMA LowersSibling ==
  ASSUME NEW t, NEW S, NEW B, NEW c, NEW p, NEW near, Short(t, S, B, c, p, near),
         NEW far, far = Opposite(near), NEW s, s = Child(t, p, far), ~Red(t, s),
         \A r \in Sides : Child(t, s, r) # Nil => ~Red(t, Child(t, s, r)),
         NEW u, u = Reddened(t, s)
  PROVE  /\ SameLinks(t, u)
         /\ \E B2, edge : Removing(u, S, B2, p, edge)
<1>0. /\ Shape(t, S) /\ Heights(t, B, <<p, near>>) /\ NoRedPair(t, Nil, Nil) /\ RootBlack(t)
      /\ p \in Nodes(t) /\ near \in Sides /\ c \in DOMAIN t.node
      /\ Parent(t, c) = p /\ Child(t, p, near) = InTree(c)
      /\ InTree(c) # Nil => ~Red(t, InTree(c))
  BY DEF Short
<1>1. SiblingOf(t, B, c, p, near, far, s)
  BY SiblingIs
<1>2. /\ s \in Nodes(t) /\ s # p /\ s # InTree(c) /\ far \in Sides /\ far # near
      /\ \A r \in Sides : r = near \/ r = far
      /\ p # Nil /\ InTree(c) # p /\ B[s] = 1 + B[InTree(c)] /\ B[s] \in Nat /\ B[InTree(c)] \in Nat
      /\ \A m \in Nodes(t) : Weight(t, m) \in {0, 1}
      /\ \A m, r : Extra(m, r, <<p, near>>) = IF m = p /\ r = near THEN 1 ELSE 0
  BY <1>1 DEF SiblingOf
<1>3. NodeOf(t, S, p) /\ NodeOf(t, S, s) /\ Nil \notin Nodes(t) /\ Temp \notin Nodes(t) /\ Nodes(t) \subseteq DOMAIN t.node
  BY <1>0, <1>2, NodeIs, NamesAre DEF Shape
<1>4. s # Nil /\ Parent(t, s) = p /\ \A r \in Sides : Child(t, s, r) # p /\ Child(t, s, r) # s
  <2>1. s # Nil /\ Parent(t, s) = p /\ S[s] \subseteq S[p] /\ p \notin S[s]
    BY <1>2, <1>3 DEF NodeOf
  <2> QED BY <1>2, <1>3, <2>1 DEF NodeOf
<1>5. SameLinks(t, u) /\ Shape(u, S) /\ Nodes(u) = Nodes(t)
  BY <1>0, <1>2, PaintsLinks
<1>6. \A m \in Nodes(t) : Red(u, m) <=> m = s \/ Red(t, m)
  BY <1>0, <1>2, <1>3, Reddens DEF Shape
<1>7. \A m \in Nodes(t), r \in Sides : Child(u, m, r) = Child(t, m, r) /\ Parent(u, m) = Parent(t, m)
  BY <1>3, <1>5 DEF SameLinks
<1>8. PICK edge :
        /\ \A m \in Nodes(t), r \in Sides : Extra(m, r, edge) = IF Child(t, m, r) = p THEN 1 ELSE 0
        /\ IF p = t.root THEN edge = NoEdge ELSE Hangs(u, p, edge)
  <2>1. CASE p = t.root
    <3>1. \A m \in Nodes(t), r \in Sides : Child(t, m, r) # p
      BY <1>0, <1>2, <1>3, <2>1, NodeFacts
    <3>2. \A m \in Nodes(t), r \in Sides : Extra(m, r, NoEdge) = IF Child(t, m, r) = p THEN 1 ELSE 0
      BY <1>3, <3>1 DEF Extra, NoEdge
    <3> QED BY <2>1, <3>2
  <2>2. CASE p # t.root
    <3>1. PICK a \in Nodes(t) : a = Parent(t, p)
      BY <1>3, <2>2 DEF NodeOf
    <3>2. Child(t, a, LEFT) = p \/ Child(t, a, RIGHT) = p
      BY <1>0, <1>3, <3>1, ParentFacts
    <3>3. PICK side \in Sides : Child(t, a, side) = p
      BY <3>2, SidesAre
    <3>4. ASSUME NEW m \in Nodes(t), NEW r \in Sides
          PROVE  Child(t, m, r) = p <=> <<m, r>> = <<a, side>>
      BY <1>0, <1>2, <3>3, OneParent
    <3>5. \A m \in Nodes(t), r \in Sides : Extra(m, r, <<a, side>>) = IF Child(t, m, r) = p THEN 1 ELSE 0
      BY <3>4 DEF Extra
    <3>6. Parent(u, p) = a /\ Child(u, a, side) = p /\ InTree(p) = p
      BY <1>0, <1>3, <1>7, <3>1, <3>3 DEF InTree
    <3>7. Hangs(u, p, <<a, side>>)
      BY <1>5, <3>1, <3>3, <3>6 DEF Hangs
    <3> QED BY <2>2, <3>5, <3>7
  <2> QED BY <2>1, <2>2
<1>10. /\ B \in [Nodes(t) \cup {Nil} -> Nat] /\ B[Nil] = 0
       /\ \A m \in Nodes(t), r \in Sides : B[m] = Weight(t, m) + Extra(m, r, <<p, near>>) + B[Child(t, m, r)]
  BY <1>0 DEF Heights
<1>11. PICK C : C = [m \in Nodes(t) \cup {Nil} |-> IF m = p \/ m = s THEN B[m] - 1 ELSE B[m]]
  OBVIOUS
<1>12. B[p] = Weight(t, p) + B[s] /\ B[p] = Weight(t, p) + 1 + B[InTree(c)] /\ B[p] \in Nat
  BY <1>0, <1>2, <1>10
<1>13. C \in [Nodes(t) \cup {Nil} -> Nat] /\ C[Nil] = 0
  <2>1. \A m \in Nodes(t) \cup {Nil} : C[m] \in Nat
    BY <1>0, <1>2, <1>10, <1>11, <1>12
  <2> QED BY <1>2, <1>4, <1>10, <1>11, <2>1
<1>14. /\ Weight(u, s) = 0 /\ Weight(t, s) = 1
       /\ \A m \in Nodes(t) : m # s => Weight(u, m) = Weight(t, m)
  BY <1>2, <1>6 DEF Weight
<1>15. ASSUME NEW m \in Nodes(t), NEW r \in Sides
       PROVE  C[m] = Weight(u, m) + Extra(m, r, edge) + C[Child(t, m, r)]
  <2>1. PICK d \in Nodes(t) \cup {Nil} : d = Child(t, m, r)
    BY <1>0, NodeFacts
  <2>2. Extra(m, r, edge) = IF d = p THEN 1 ELSE 0
    BY <1>8, <2>1
  <2>3. B[d] \in Nat /\ B[m] \in Nat /\ Weight(t, m) \in {0, 1}
    BY <1>2, <1>10, <2>1
  <2>4. B[m] = Weight(t, m) + Extra(m, r, <<p, near>>) + B[d]
    BY <1>10, <2>1
  <2>5. CASE m = s
    <3>1. d # s /\ d # p /\ Extra(m, r, <<p, near>>) = 0
      BY <1>2, <1>4, <2>1, <2>5
    <3> QED BY <1>11, <1>14, <2>1, <2>2, <2>3, <2>4, <2>5, <3>1
  <2>6. CASE m = p
    <3>1. CASE r = near
      <4>1. d = InTree(c) /\ d # p /\ d # s
        BY <1>0, <1>2, <2>1, <2>6, <3>1
      <4> QED BY <1>2, <1>11, <1>12, <1>14, <2>1, <2>2, <2>3, <2>6, <4>1
    <3>2. CASE r = far
      <4>1. d = s
        BY <2>1, <2>6, <3>2
      <4> QED BY <1>2, <1>11, <1>12, <1>14, <2>1, <2>2, <2>3, <2>6, <4>1
    <3> QED BY <1>2, <3>1, <3>2
  <2>7. CASE m # s /\ m # p
    <3>1. d # s
      BY <1>0, <1>2, <1>4, <2>1, <2>7, OneParent
    <3>2. Extra(m, r, <<p, near>>) = 0 /\ C[m] = B[m] /\ Weight(u, m) = Weight(t, m)
      BY <1>2, <1>11, <1>14, <2>7
    <3>3. CASE d = p
      BY <1>11, <2>1, <2>2, <2>3, <2>4, <3>2, <3>3
    <3>4. CASE d # p
      BY <1>11, <2>1, <2>2, <2>3, <2>4, <3>1, <3>2, <3>4
    <3> QED BY <3>3, <3>4
  <2> QED BY <2>5, <2>6, <2>7
<1>16. Heights(u, C, edge)
  BY <1>5, <1>7, <1>13, <1>15 DEF Heights
<1>17. NoRedPair(u, p, p)
  <2>1. SUFFICES ASSUME NEW m \in Nodes(t), NEW r \in Sides, NEW d, d = Child(t, m, r),
                        Red(u, m), d # Nil, m # p, d # p
                 PROVE  ~Red(u, d)
    BY <1>5, <1>7 DEF NoRedPair
  <2>2. NodeOf(t, S, m)
    BY <1>0, NodeIs
  <2>3. d \in Nodes(t) /\ Parent(t, d) = m /\ m # Nil
    BY <2>1, <2>2 DEF NodeOf
  <2>4. d # s
    BY <1>4, <2>1, <2>3
  <2>5. CASE m = s
    BY <1>6, <2>1, <2>3, <2>4, <2>5
  <2>6. CASE m # s
    <3>1. ~Red(t, d)
      BY <1>0, <1>6, <2>1, <2>3, <2>6 DEF NoRedPair
    <3> QED BY <1>6, <2>3, <2>4, <3>1
  <2> QED BY <2>5, <2>6
<1>18. RootBlack(u)
  <2>1. u.root = t.root /\ t.root \in Nodes(t) \cup {Nil}
    BY <1>0, <1>5 DEF SameLinks, Shape, Linked
  <2>2. t.root # s
    BY <1>2, <1>3, <1>4 DEF NodeOf
  <2> QED BY <1>0, <1>6, <2>1, <2>2 DEF RootBlack
<1>19. Removing(u, S, C, p, edge)
  <2>1. p \in DOMAIN u.node \cup {Nil} /\ p # Temp /\ u.root = t.root /\ p # Nil
    BY <1>0, <1>2, <1>3, <1>5 DEF SameLinks, SameNodes
  <2> QED BY <1>5, <1>8, <1>16, <1>17, <1>18, <2>1 DEF Removing
<1> QED BY <1>5, <1>19

\* The near child of the sibling is red, the far one is not: it comes up.
LEMMA RotatesNephew ==
  ASSUME NEW t, NEW S, NEW B, NEW c, NEW p, NEW near, Short(t, S, B, c, p, near),
         NEW far, far = Opposite(near), NEW s, s = Child(t, p, far), ~Red(t, s),
         NEW x, x = Child(t, s, near), x # Nil, Red(t, x),
         Child(t, s, far) # Nil => ~Red(t, Child(t, s, far)),
         NEW u, u = TreeRotate(Reddened(Blackened(t, x), s), s, far)
  PROVE  /\ SameNodes(t, u)
         /\ \E S2, B2 : Short(u, S2, B2, c, p, near)
         /\ Child(u, p, far) = x /\ ~Red(u, x)
         /\ Child(u, x, far) = s /\ Red(u, s)
<1>0. /\ Shape(t, S) /\ Heights(t, B, <<p, near>>) /\ NoRedPair(t, Nil, Nil) /\ RootBlack(t)
      /\ p \in Nodes(t) /\ near \in Sides /\ c \in DOMAIN t.node
      /\ Parent(t, c) = p /\ Child(t, p, near) = InTree(c)
      /\ InTree(c) # Nil => ~Red(t, InTree(c))
  BY DEF Short
<1>1. /\ s \in Nodes(t) /\ s # p /\ s # InTree(c) /\ far \in Sides /\ far # near
      /\ \A r \in Sides : r = near \/ r = far
      /\ near = Opposite(far) /\ p # Nil /\ InTree(c) # p
  <2>1. SiblingOf(t, B, c, p, near, far, s)
    BY SiblingIs
  <2> QED BY <2>1 DEF SiblingOf
<1>a. NodeOf(t, S, p) /\ NodeOf(t, S, s) /\ Nil \notin Nodes(t) /\ Temp \notin Nodes(t)
  BY <1>0, <1>1, NodeIs, NamesAre DEF Shape
<1>b. x \in Nodes(t) /\ x # s /\ x # p /\ s # Nil /\ Parent(t, s) = p /\ Parent(t, x) = s
      /\ InTree(c) \in Nodes(t) \cup {Nil}
  <2>1. x \in Nodes(t) /\ x # s /\ s # Nil /\ Parent(t, s) = p /\ Parent(t, x) = s
        /\ InTree(c) \in Nodes(t) \cup {Nil} /\ x \in S[x] /\ S[x] \subseteq S[s] /\ p \notin S[s]
    BY <1>0, <1>1, <1>a DEF NodeOf
  <2> QED BY <2>1
<1>2. NodeOf(t, S, x)
  BY <1>0, <1>b, NodeIs
<1>c. (x # InTree(c) /\ Child(t, x, far) # InTree(c)) \/ InTree(c) = Nil
  <2>1. InTree(c) # Nil => Parent(t, InTree(c)) = p
    BY <1>0, <1>a DEF NodeOf
  <2>2. Child(t, x, far) # Nil => Parent(t, Child(t, x, far)) = x
    BY <1>1, <1>2 DEF NodeOf
  <2> QED BY <1>1, <1>b, <2>1, <2>2
<1>3. PICK w : w = Reddened(Blackened(t, x), s)
  OBVIOUS
<1>4. Painted(t, x, s, w)
  BY <1>0, <1>1, <1>b, <1>3, BlackAndRed
<1>5. SameLinks(t, w) /\ \A m \in DOMAIN t.node : Red(w, m) <=> m = s \/ (m # x /\ Red(t, m))
  BY <1>4 DEF Painted
<1>6. x = Child(t, s, Opposite(far)) /\ x # Nil /\ u = TreeRotate(w, s, far)
  BY <1>1, <1>3
<1>7. Rotated(t, s, far, u) /\ SameNodes(t, u) /\ \A m \in Nodes(t) : Red(u, m) = Red(w, m)
  BY <1>0, <1>1, <1>5, <1>6, RotatesPainted
<1>8. \A m \in Nodes(t) : Red(u, m) <=> m = s \/ (m # x /\ Red(t, m))
  BY <1>0, <1>5, <1>7, NamesAre DEF Shape
<1>10. Swapped(t, s, far, u)
  <2>1. \A m \in Nodes(t) : Red(u, m) <=> m = s \/ (m = x /\ Red(t, s)) \/ (m # x /\ Red(t, m))
    BY <1>8
  <2> QED BY <1>6, <1>7, <2>1 DEF Swapped
<1>11. PICK B2 : Heights(u, B2, <<p, near>>)
  <2>1. <<p, near>> # <<s, Opposite(far)>> /\ \A r \in Sides : <<p, near>> # <<x, r>>
    BY <1>1, <1>b
  <2>2. Red(t, Child(t, s, Opposite(far))) /\ \A r \in Sides : <<p, near>> # <<Child(t, s, Opposite(far)), r>>
    BY <1>6, <2>1
  <2>3. Child(t, s, Opposite(far)) # Nil
    BY <1>6
  <2> QED BY <1>0, <1>1, <1>10, <2>1, <2>2, <2>3, SwapKeepsHeights
<1>12. PICK S2 : Shape(u, S2)
  BY <1>0, <1>1, <1>6, <1>7, RotatedShape
<1>13. /\ Nodes(u) = Nodes(t)
       /\ Child(u, s, far) = Child(t, s, far) /\ Child(u, s, near) = Child(t, x, far)
       /\ Child(u, x, far) = s /\ Child(u, x, near) = Child(t, x, near)
       /\ \A m \in Nodes(t) : m # s /\ m # x =>
            \A r \in Sides : /\ Child(u, m, r) = IF Child(t, m, r) = s THEN x ELSE Child(t, m, r)
                             /\ Child(t, m, r) # x
       /\ \A r \in Sides : Child(t, x, r) \notin {s, x}
       /\ Child(t, s, far) # x
  BY <1>0, <1>1, <1>b, <1>6, <1>7, RotationLinks
<1>14. \A r \in Sides : Child(t, x, r) # Nil => ~Red(t, Child(t, x, r)) /\ ~Red(u, Child(t, x, r))
  <2>1. \A r \in Sides : Child(t, x, r) # Nil => ~Red(t, Child(t, x, r)) /\ Child(t, x, r) \in Nodes(t)
    BY <1>0, <1>b, <1>2, <1>6 DEF NoRedPair, NodeOf
  <2> QED BY <1>8, <1>13, <2>1
<1>15. InTree(c) # Nil => ~Red(u, InTree(c))
  BY <1>0, <1>1, <1>b, <1>8
<1>16. NoRedPair(u, Nil, Nil)
  <2>1. SUFFICES ASSUME NEW m \in Nodes(t), NEW r \in Sides, NEW d, d = Child(u, m, r),
                        Red(u, m), d # Nil
                 PROVE  ~Red(u, d)
    BY <1>13 DEF NoRedPair
  <2>2. CASE m = s
    <3>1. d = Child(t, s, far) \/ d = Child(t, x, far)
      BY <1>0, <1>1, <1>13, <2>1, <2>2
    <3>2. d = Child(t, s, far) => d # s /\ d # x /\ d \in Nodes(t)
      <4>1. /\ Child(t, s, far) \in Nodes(t) \cup {Nil} /\ Child(t, s, far) # s
            /\ Child(t, s, far) # x
        BY <1>1, <1>a, <1>13 DEF NodeOf
      <4> QED BY <2>1, <4>1
    <3>3. d = Child(t, s, far) => ~Red(t, d)
      BY <2>1
    <3> QED BY <1>1, <1>8, <1>14, <2>1, <3>1, <3>2, <3>3
  <2>3. CASE m = x
    BY <1>8, <1>b, <2>1, <2>3
  <2>4. CASE m # s /\ m # x
    <3>1. CASE Child(t, m, r) = s
      <4>1. d = x
        BY <1>13, <2>1, <2>4, <3>1
      <4> QED BY <1>b, <1>8, <4>1
    <3>2. CASE Child(t, m, r) # s
      <4>1. d = Child(t, m, r) /\ d # x
        BY <1>13, <2>1, <2>4, <3>2
      <4>2. NodeOf(t, S, m)
        BY <1>0, NodeIs
      <4>3. d \in Nodes(t) /\ m # Nil
        BY <2>1, <4>1, <4>2 DEF NodeOf
      <4>4. Red(t, m)
        BY <1>8, <2>1, <2>4
      <4>5. ~Red(t, d)
        BY <1>0, <2>1, <4>1, <4>3, <4>4 DEF NoRedPair
      <4> QED BY <1>8, <3>2, <4>1, <4>3, <4>5
    <3> QED BY <3>1, <3>2
  <2> QED BY <2>2, <2>3, <2>4
<1>17. RootBlack(u)
  <2>1. u.root = IF s = t.root THEN x ELSE t.root
    BY <1>6, <1>7 DEF Rotated
  <2>2. t.root \in Nodes(t) \cup {Nil}
    BY <1>0 DEF Shape, Linked
  <2>3. s # t.root
    BY <1>1, <1>a, <1>b DEF NodeOf
  <2> QED BY <1>0, <1>8, <2>1, <2>2, <2>3 DEF RootBlack
<1>18. Parent(u, c) = p /\ c \in DOMAIN u.node
  <2>1. c \in DOMAIN u.node
    BY <1>0, <1>7 DEF SameNodes
  <2>2. c # s /\ c # x /\ c # Child(t, x, far)
    <3>1. CASE c = Temp
      <4>1. Child(t, x, far) \in Nodes(t) \cup {Nil} /\ Nil # Temp
        BY <1>1, <1>2, ContentsAssumption DEF NodeOf
      <4> QED BY <1>1, <1>a, <1>b, <3>1, <4>1
    <3>2. CASE c # Temp
      <4>1. InTree(c) = c /\ c # Nil
        BY <1>0, <3>2, NamesAre DEF InTree, Shape
      <4> QED BY <1>1, <1>c, <4>1
    <3> QED BY <3>1, <3>2
  <2>3. Parent(u, c) = Parent(t, c)
    BY <1>0, <1>6, <1>7, <2>2 DEF Rotated
  <2> QED BY <1>0, <2>1, <2>3
<1>19. Child(u, p, near) = InTree(c) /\ Child(u, p, far) = x
  BY <1>0, <1>1, <1>b, <1>13
<1>20. Short(u, S2, B2, c, p, near)
  BY <1>0, <1>11, <1>12, <1>13, <1>15, <1>16, <1>17, <1>18, <1>19 DEF Short
<1>21. Red(u, s) /\ ~Red(u, x)
  BY <1>1, <1>b, <1>8
<1> QED BY <1>7, <1>13, <1>19, <1>20, <1>21

\* x takes the colour of p.
Copied(t, x, p) == Paint(t, x, isRed(t, p))

LEMMA Copies ==
  ASSUME NEW t, Typed(t), NEW n \in DOMAIN t.node, NEW p, p # Nil, NEW u, u = Copied(t, n, p)
  PROVE  /\ SameNodes(t, u) /\ u.root = t.root
         /\ \A m \in DOMAIN t.node :
              /\ Parent(u, m) = Parent(t, m)
              /\ \A s \in Sides : Child(u, m, s) = Child(t, m, s)
              /\ Red(u, m) <=> IF m = n THEN Red(t, p) ELSE Red(t, m)
<1>0. PICK b \in BOOLEAN : b = isRed(t, p) /\ (b <=> Red(t, p))
  <2>1. isRed(t, p) \in BOOLEAN
    BY Zenon DEF isRed
  <2>2. isRed(t, p) <=> Red(t, p)
    BY Zenon DEF isRed, Red
  <2> QED BY <2>1, <2>2
<1>1. PICK r : r = [t.node[n] EXCEPT !.red = b]
  OBVIOUS
<1>2. t.node[n] \in Node
  BY TypedNode
<1>3. r \in Node /\ r.red = b /\ r.parent = t.node[n].parent /\ r.child = t.node[n].child
  BY <1>1, <1>2 DEF Node
<1>4. u = [t EXCEPT !.node[n] = r]
  BY <1>0, <1>1 DEF Paint, Copied
<1>5. SameNodes(t, u) /\ u.root = t.root /\ \A m \in DOMAIN t.node : u.node[m] = IF m = n THEN r ELSE t.node[m]
  BY <1>3, <1>4, Put
<1>6. \A m \in DOMAIN t.node : Parent(u, m) = Parent(t, m) /\ \A s \in Sides : Child(u, m, s) = Child(t, m, s)
  BY <1>3, <1>5 DEF Parent, Child
<1>7. ASSUME NEW m \in DOMAIN t.node PROVE Red(u, m) <=> IF m = n THEN Red(t, p) ELSE Red(t, m)
  <2>1. CASE m = n
    <3>1. Red(u, m) = b
      BY <1>3, <1>5, <2>1 DEF Red
    <3> QED BY <1>0, <2>1, <3>1
  <2>2. CASE m # n
    BY <1>5, <2>2 DEF Red
  <2> QED BY <2>1, <2>2
<1> QED BY <1>5, <1>6, <1>7

\* The far child of the sibling is red: the sibling comes up, and that is the end.
Ending(t, S, B, c, p, near, far, s, y) ==
  /\ Short(t, S, B, c, p, near) /\ far = Opposite(near) /\ s = Child(t, p, far) /\ ~Red(t, s)
  /\ y = Child(t, s, far) /\ y # Nil /\ Red(t, y)

LEMMA EndingPaint ==
  ASSUME NEW t, NEW S, Shape(t, S), NEW p \in Nodes(t), NEW s \in Nodes(t), NEW y \in Nodes(t),
         s # y, s # p, y # p,
         NEW w, w = Blackened(Blackened(Copied(t, s, p), p), y)
  PROVE  /\ SameLinks(t, w)
         /\ \A m \in Nodes(t) : Red(w, m) <=> /\ m # p /\ m # y
                                              /\ (m = s /\ Red(t, p)) \/ (m # s /\ Red(t, m))
<1>1. Typed(t) /\ Nodes(t) \subseteq DOMAIN t.node /\ p # Nil
  BY NamesAre DEF Shape
<1>2. PICK x : x = Copied(t, s, p)
  OBVIOUS
<1>3. PICK z : z = Blackened(x, p)
  OBVIOUS
<1>4. w = Blackened(z, y)
  BY <1>2, <1>3
<1>5. /\ SameNodes(t, x) /\ x.root = t.root
      /\ \A m \in DOMAIN t.node :
           /\ Parent(x, m) = Parent(t, m)
           /\ \A r \in Sides : Child(x, m, r) = Child(t, m, r)
           /\ Red(x, m) <=> IF m = s THEN Red(t, p) ELSE Red(t, m)
  BY <1>1, <1>2, Copies
<1>6. SameLinks(t, x)
  BY <1>5 DEF SameLinks
<1>7. Shape(x, S) /\ Nodes(x) = Nodes(t)
  BY <1>6, ShapeOfLinks
<1>8. SameLinks(x, z) /\ Shape(z, S) /\ Nodes(z) = Nodes(t)
  BY <1>3, <1>7, PaintsLinks
<1>9. SameLinks(z, w)
  BY <1>4, <1>8, PaintsLinks
<1>10. SameLinks(t, w)
  BY <1>6, <1>8, <1>9, LinksTwice
<1>11. \A m \in Nodes(t) : Red(x, m) <=> IF m = s THEN Red(t, p) ELSE Red(t, m)
  BY <1>1, <1>5
<1>12. \A m \in Nodes(t) : Red(z, m) <=> m # p /\ Red(x, m)
  <2>1. Typed(x) /\ Nodes(t) \subseteq DOMAIN x.node
    BY <1>7, NamesAre DEF Shape
  <2> QED BY <1>3, <2>1, Blackens
<1>13. \A m \in Nodes(t) : Red(w, m) <=> m # y /\ Red(z, m)
  <2>1. Typed(z) /\ Nodes(t) \subseteq DOMAIN z.node
    BY <1>8, NamesAre DEF Shape
  <2> QED BY <1>4, <2>1, Blackens
<1>14. \A m \in Nodes(t) : Red(w, m) <=> /\ m # p /\ m # y
                                         /\ (m = s /\ Red(t, p)) \/ (m # s /\ Red(t, m))
  BY <1>11, <1>12, <1>13
<1> QED BY <1>10, <1>14

LEMMA RaisesSibling ==
  ASSUME NEW t, NEW S, NEW B, NEW c, NEW p, NEW near, NEW far, NEW s, NEW y,
         Ending(t, S, B, c, p, near, far, s, y),
         NEW u, u = TreeRotate(Blackened(Blackened(Copied(t, s, p), p), y), p, near)
  PROVE  /\ SameNodes(t, u)
         /\ \E S2, B2 : Sound(u, S2, B2)
<1>0. /\ Short(t, S, B, c, p, near) /\ far = Opposite(near) /\ s = Child(t, p, far) /\ ~Red(t, s)
      /\ y = Child(t, s, far) /\ y # Nil /\ Red(t, y)
  BY DEF Ending
<1>1. /\ Shape(t, S) /\ Heights(t, B, <<p, near>>) /\ NoRedPair(t, Nil, Nil) /\ RootBlack(t)
      /\ p \in Nodes(t) /\ near \in Sides /\ c \in DOMAIN t.node
      /\ Parent(t, c) = p /\ Child(t, p, near) = InTree(c)
      /\ InTree(c) # Nil => ~Red(t, InTree(c))
  BY <1>0 DEF Short
<1>2. /\ s \in Nodes(t) /\ s # p /\ s # InTree(c) /\ far \in Sides /\ far # near
      /\ \A r \in Sides : r = near \/ r = far
      /\ near = Opposite(far) /\ p # Nil /\ InTree(c) # p
      /\ B[s] = 1 + B[InTree(c)] /\ B[s] \in Nat /\ B[InTree(c)] \in Nat
      /\ \A m \in Nodes(t) : Weight(t, m) \in {0, 1}
      /\ \A m, r : Extra(m, r, <<p, near>>) = IF m = p /\ r = near THEN 1 ELSE 0
  <2>1. SiblingOf(t, B, c, p, near, far, s)
    BY <1>0, SiblingIs
  <2> QED BY <2>1 DEF SiblingOf
<1>3. NodeOf(t, S, p) /\ NodeOf(t, S, s) /\ Nil \notin Nodes(t)
  BY <1>1, <1>2, NodeIs, NamesAre DEF Shape
<1>4. PICK q \in Nodes(t) \cup {Nil} : q = InTree(c) /\ q = Child(t, p, near)
  BY <1>1, <1>3 DEF NodeOf
<1>5. PICK i \in Nodes(t) \cup {Nil} : i = Child(t, s, near)
  BY <1>1, <1>3 DEF NodeOf
<1>6. y \in Nodes(t)
  BY <1>0, <1>2, <1>3 DEF NodeOf
<1>7. /\ y # s /\ y # p /\ y # q /\ i # s /\ i # p /\ i # y /\ q # p /\ q # s
  <2>1. /\ y # s /\ i # s /\ q # p /\ q # s /\ p \notin S[s] /\ S[y] \subseteq S[s] /\ S[i] \subseteq S[s]
        /\ y \in S[y] /\ (i # Nil => i \in S[i])
    BY <1>0, <1>1, <1>2, <1>3, <1>4, <1>5 DEF NodeOf
  <2>2. y # p /\ i # p
    BY <1>2, <2>1
  <2>3. q # Nil => Parent(t, q) = p
    BY <1>1, <1>3, <1>4 DEF NodeOf
  <2>4. Parent(t, y) = s
    BY <1>0, <1>2, <1>3 DEF NodeOf
  <2>5. i # y
    <3>1. ASSUME i = y PROVE FALSE
      <4>1. Child(t, s, far) # Nil /\ Child(t, s, far) = Child(t, s, near)
        BY <1>0, <1>5, <3>1
      <4>2. far = near
        BY <1>1, <1>2, <4>1, OneParent
      <4> QED BY <1>2, <4>2
    <3> QED BY <3>1
  <2> QED BY <1>0, <1>2, <2>1, <2>2, <2>3, <2>4, <2>5
<1>8. PICK w : w = Blackened(Blackened(Copied(t, s, p), p), y)
  OBVIOUS
<1>9. /\ SameLinks(t, w)
      /\ \A m \in Nodes(t) : Red(w, m) <=> /\ m # p /\ m # y
                                           /\ (m = s /\ Red(t, p)) \/ (m # s /\ Red(t, m))
  BY <1>1, <1>2, <1>6, <1>7, <1>8, EndingPaint
<1>10. s = Child(t, p, Opposite(near)) /\ s # Nil /\ u = TreeRotate(w, p, near)
  BY <1>0, <1>2, <1>3, <1>8
<1>11. Rotated(t, p, near, u) /\ SameNodes(t, u) /\ \A m \in Nodes(t) : Red(u, m) = Red(w, m)
  BY <1>1, <1>9, <1>10, RotatesPainted
<1>12. \A m \in Nodes(t) : Red(u, m) <=> /\ m # p /\ m # y
                                         /\ (m = s /\ Red(t, p)) \/ (m # s /\ Red(t, m))
  BY <1>9, <1>11
<1>13. PICK S2 : Shape(u, S2)
  BY <1>1, <1>10, <1>11, RotatedShape
<1>14. /\ Nodes(u) = Nodes(t)
       /\ Child(u, p, near) = q /\ Child(u, p, far) = i
       /\ Child(u, s, near) = p /\ Child(u, s, far) = y
       /\ \A m \in Nodes(t) : m # p /\ m # s =>
            \A r \in Sides : /\ Child(u, m, r) = IF Child(t, m, r) = p THEN s ELSE Child(t, m, r)
                             /\ Child(t, m, r) # s
  <2>1. far = Opposite(near) /\ s = Child(t, p, far)
    BY <1>0
  <2>2. /\ Nodes(u) = Nodes(t)
        /\ Child(u, p, near) = Child(t, p, near) /\ Child(u, p, far) = Child(t, s, near)
        /\ Child(u, s, near) = p /\ Child(u, s, far) = Child(t, s, far)
        /\ \A m \in Nodes(t) : m # p /\ m # s =>
            \A r \in Sides : /\ Child(u, m, r) = IF Child(t, m, r) = p THEN s ELSE Child(t, m, r)
                             /\ Child(t, m, r) # s
    BY <1>1, <1>2, <1>11, <2>1, RotationLinks
  <2> QED BY <1>0, <1>4, <1>5, <2>2
<1>20. /\ B \in [Nodes(t) \cup {Nil} -> Nat] /\ B[Nil] = 0
       /\ \A m \in Nodes(t), r \in Sides : B[m] = Weight(t, m) + Extra(m, r, <<p, near>>) + B[Child(t, m, r)]
  BY <1>1 DEF Heights
<1>21. /\ Weight(t, s) = 1 /\ Weight(t, y) = 0 /\ Weight(u, p) = 1 /\ Weight(u, y) = 1
       /\ Weight(u, s) = Weight(t, p)
       /\ \A m \in Nodes(t) : m # p /\ m # y /\ m # s => Weight(u, m) = Weight(t, m)
  BY <1>0, <1>1, <1>2, <1>6, <1>7, <1>12 DEF Weight
<1>22. /\ B[p] = Weight(t, p) + 1 + B[q] /\ B[s] = 1 + B[q] /\ B[s] = 1 + B[i] /\ B[s] = 1 + B[y]
       /\ B[p] \in Nat /\ B[s] \in Nat /\ B[q] \in Nat /\ B[i] \in Nat /\ B[y] \in Nat
  <2>1. B[p] = Weight(t, p) + Extra(p, near, <<p, near>>) + B[q]
    BY <1>1, <1>4, <1>20
  <2>2. B[s] = Weight(t, s) + Extra(s, near, <<p, near>>) + B[i]
    BY <1>1, <1>2, <1>5, <1>20
  <2>3. B[s] = Weight(t, s) + Extra(s, far, <<p, near>>) + B[y]
    BY <1>0, <1>2, <1>20
  <2>4. Extra(p, near, <<p, near>>) = 1 /\ Extra(s, near, <<p, near>>) = 0 /\ Extra(s, far, <<p, near>>) = 0
    BY <1>2
  <2>5. B[p] \in Nat /\ B[s] \in Nat /\ B[q] \in Nat /\ B[i] \in Nat /\ B[y] \in Nat
    BY <1>1, <1>2, <1>4, <1>5, <1>6, <1>20
  <2> QED BY <1>2, <1>4, <1>21, <2>1, <2>2, <2>3, <2>4, <2>5
<1>23. PICK C : C = [m \in Nodes(t) \cup {Nil} |-> IF m = s THEN B[p] ELSE IF m = p \/ m = y THEN B[q] + 1 ELSE B[m]]
  OBVIOUS
<1>24. /\ C[s] = B[p] /\ C[p] = B[q] + 1 /\ C[y] = B[q] + 1 /\ C[q] = B[q] /\ C[i] = B[i]
       /\ \A m \in Nodes(t) \cup {Nil} : m # s /\ m # p /\ m # y => C[m] = B[m]
  BY <1>1, <1>2, <1>4, <1>5, <1>6, <1>7, <1>23
<1>25. C \in [Nodes(t) \cup {Nil} -> Nat] /\ C[Nil] = 0
  <2>1. \A m \in Nodes(t) \cup {Nil} : C[m] \in Nat
    BY <1>20, <1>22, <1>23
  <2>2. Nil # s /\ Nil # p /\ Nil # y
    BY <1>1, <1>2, <1>3, <1>6
  <2> QED BY <1>20, <1>23, <1>24, <2>1, <2>2
<1>26. \A m \in Nodes(t) : Weight(u, m) \in {0, 1}
  BY DEF Weight
<1>27. \A m \in Nodes(t), r \in Sides : Extra(m, r, NoEdge) = 0
  BY <1>3 DEF Extra, NoEdge
<1>28. ASSUME NEW m \in Nodes(t), NEW r \in Sides
       PROVE  C[m] = Weight(u, m) + C[Child(u, m, r)]
  <2>1. CASE m = p
    <3>1. Child(u, m, r) = q \/ Child(u, m, r) = i
      BY <1>2, <1>14, <2>1
    <3> QED BY <1>21, <1>22, <1>24, <2>1, <3>1
  <2>2. CASE m = s
    <3>1. Child(u, m, r) = p \/ Child(u, m, r) = y
      BY <1>2, <1>14, <2>2
    <3>2. C[Child(u, m, r)] = B[q] + 1
      BY <1>24, <3>1
    <3>3. Weight(u, m) = Weight(t, p) /\ Weight(t, p) \in {0, 1}
      BY <1>1, <1>2, <1>21, <2>2
    <3>4. C[m] = Weight(t, p) + 1 + B[q]
      BY <1>22, <1>24, <2>2
    <3> QED BY <1>22, <3>2, <3>3, <3>4
  <2>3. CASE m = y
    <3>0. NodeOf(t, S, y)
      BY <1>1, <1>6, NodeIs
    <3>1. PICK d \in Nodes(t) \cup {Nil} : d = Child(t, y, r) /\ d # y
      BY <3>0 DEF NodeOf
    <3>2. d # p /\ d # s
      <4>1. S[d] \subseteq S[y] /\ y \notin S[d] /\ (d # Nil => d \in S[d])
        BY <3>0, <3>1 DEF NodeOf
      <4>2. S[y] \subseteq S[s] /\ s \notin S[y] /\ p \notin S[s]
        BY <1>0, <1>2, <1>3 DEF NodeOf
      <4> QED BY <1>2, <1>3, <4>1, <4>2
    <3>3. Child(u, y, r) = d
      BY <1>6, <1>7, <1>14, <3>1, <3>2
    <3>4. B[y] = 0 + 0 + B[d]
      BY <1>2, <1>6, <1>7, <1>20, <1>21, <3>1
    <3> QED BY <1>20, <1>21, <1>22, <1>24, <2>3, <3>1, <3>2, <3>3, <3>4
  <2>4. CASE m # p /\ m # s /\ m # y
    <3>1. PICK d \in Nodes(t) \cup {Nil} : d = Child(t, m, r)
      BY <1>1, NodeFacts
    <3>2. B[m] = Weight(t, m) + B[d] /\ B[d] \in Nat
      BY <1>2, <1>20, <2>4, <3>1
    <3>3. d # y /\ d # s
      BY <1>0, <1>1, <1>2, <1>14, <2>4, <3>1, OneParent
    <3>4. C[m] = B[m] /\ Weight(u, m) = Weight(t, m)
      BY <1>21, <1>24, <2>4
    <3>5. CASE d = p
      BY <1>14, <1>24, <2>4, <3>1, <3>2, <3>4, <3>5
    <3>6. CASE d # p
      BY <1>14, <1>24, <2>4, <3>1, <3>2, <3>3, <3>4, <3>6
    <3> QED BY <3>5, <3>6
  <2> QED BY <2>1, <2>2, <2>3, <2>4
<1>29. Heights(u, C, NoEdge)
  <2>1. ASSUME NEW m \in Nodes(t), NEW r \in Sides
        PROVE  C[m] = Weight(u, m) + Extra(m, r, NoEdge) + C[Child(u, m, r)]
    <3>1. C[m] = Weight(u, m) + C[Child(u, m, r)] /\ Weight(u, m) \in {0, 1} /\ Extra(m, r, NoEdge) = 0
      BY <1>26, <1>27, <1>28
    <3>2. C[m] \in Nat
      BY <1>25
    <3> QED BY <3>1, <3>2
  <2> QED BY <1>14, <1>25, <2>1 DEF Heights
<1>30. NoRedPair(u, Nil, Nil)
  <2>1. SUFFICES ASSUME NEW m \in Nodes(t), NEW r \in Sides, NEW d, d = Child(u, m, r),
                        Red(u, m), d # Nil
                 PROVE  ~Red(u, d)
    BY <1>14 DEF NoRedPair
  <2>2. m # p /\ m # y /\ (m = s => Red(t, p)) /\ (m # s => Red(t, m))
    BY <1>12, <2>1
  <2>3. CASE m = s
    <3>1. d = p \/ d = y
      BY <1>2, <1>14, <2>1, <2>3
    <3> QED BY <1>1, <1>6, <1>12, <3>1
  <2>4. CASE m # s
    <3>1. PICK e : e = Child(t, m, r)
      OBVIOUS
    <3>2. d = IF e = p THEN s ELSE e
      BY <1>14, <2>1, <2>2, <2>4, <3>1
    <3>3. NodeOf(t, S, m) /\ e # s
      BY <1>1, <1>14, <2>2, <2>4, <3>1, NodeIs
    <3>4. e # Nil /\ e \in Nodes(t) /\ m # Nil
      BY <1>2, <2>1, <3>1, <3>2, <3>3 DEF NodeOf
    <3>5. ~Red(t, e)
      BY <1>1, <2>2, <2>4, <3>1, <3>4 DEF NoRedPair
    <3> QED BY <1>2, <1>12, <3>2, <3>3, <3>4, <3>5
  <2> QED BY <2>3, <2>4
<1>31. RootBlack(u)
  <2>1. u.root = IF p = t.root THEN s ELSE t.root
    BY <1>10, <1>11 DEF Rotated
  <2>2. t.root \in Nodes(t) \cup {Nil}
    BY <1>1 DEF Shape, Linked
  <2>3. t.root # s
    <3>1. Parent(t, s) = p
      BY <1>0, <1>2, <1>3, <1>10 DEF NodeOf
    <3> QED BY <1>2, <1>3, <3>1 DEF NodeOf
  <2> QED BY <1>1, <1>2, <1>12, <2>1, <2>2, <2>3 DEF RootBlack
<1>32. Sound(u, S2, C)
  BY <1>13, <1>29, <1>30, <1>31 DEF Sound
<1> QED BY <1>11, <1>32

\* The operators of the round, case by case.
LEMMA SiblingRotates ==
  ASSUME NEW t, NEW n, NEW which, isRed(t, Child(t, Parent(t, n), which))
  PROVE  BlackenSibling(t, n, which) =
           TreeRotate(Reddened(Blackened(t, Child(t, Parent(t, n), which)), Parent(t, n)),
                      Parent(t, n), Opposite(which))
BY Zenon DEF BlackenSibling, Reddened, Blackened

LEMMA SiblingStays ==
  ASSUME NEW t, NEW n, NEW which, ~isRed(t, Child(t, Parent(t, n), which))
  PROVE  BlackenSibling(t, n, which) = t
BY Zenon DEF BlackenSibling

LEMMA RoundLowers ==
  ASSUME NEW t, NEW n, NEW which, NEW v, v = BlackenSibling(t, n, which),
         NEW p, p = Parent(v, n), NEW s, s = Child(v, p, which), s # Nil,
         \A r \in Sides : ~isRed(v, Child(v, s, r))
  PROVE  TreeBARSub(t, n, which) = [tree |-> Reddened(v, s), cur |-> p]
<1>1. TreeBARSub(t, n, which) = LowerSibling(v, n, which)
  BY Zenon DEF TreeBARSub, isBlack
<1>2. LowerSibling(v, n, which) = [tree |-> Reddened(v, s), cur |-> p]
  BY Zenon DEF LowerSibling, Reddened
<1> QED BY <1>1, <1>2, Zenon

LEMMA RoundRaises ==
  ASSUME NEW t, NEW n, NEW which, NEW v, v = BlackenSibling(t, n, which),
         NEW p, p = Parent(v, n), NEW s, s = Child(v, p, which), s # Nil,
         ~\A r \in Sides : ~isRed(v, Child(v, s, r))
  PROVE  TreeBARSub(t, n, which) = RaiseNephew(v, n, which)
BY Zenon DEF TreeBARSub, isBlack

LEMMA NephewTurns ==
  ASSUME NEW v, NEW n, NEW which, NEW p, p = Parent(v, n), NEW s, s = Child(v, p, which),
         ~isRed(v, Child(v, s, which)),
         NEW w, w = TreeRotate(Reddened(Blackened(v, Child(v, s, Opposite(which))), s), s, which),
         NEW z, z = Child(w, p, which),
         NEW u, u = TreeRotate(Blackened(Blackened(Copied(w, z, p), p), Child(w, z, which)), p, Opposite(which))
  PROVE  RaiseNephew(v, n, which) = [tree |-> u, cur |-> u.root]
BY Zenon DEF RaiseNephew, isBlack, Reddened, Blackened, Copied

LEMMA NephewReady ==
  ASSUME NEW v, NEW n, NEW which, NEW p, p = Parent(v, n), NEW s, s = Child(v, p, which),
         isRed(v, Child(v, s, which)),
         NEW u, u = TreeRotate(Blackened(Blackened(Copied(v, s, p), p), Child(v, s, which)), p, Opposite(which))
  PROVE  RaiseNephew(v, n, which) = [tree |-> u, cur |-> u.root]
BY Zenon DEF RaiseNephew, isBlack, Reddened, Blackened, Copied

\* The sides are those the loop takes them for.
LEMMA SideOfSibling ==
  ASSUME NEW t, NEW S, NEW B, NEW c, NEW p, NEW near, Short(t, S, B, c, p, near)
  PROVE  (IF InTree(c) = Child(t, p, LEFT) THEN RIGHT ELSE LEFT) = Opposite(near)
<1>1. SiblingOf(t, B, c, p, near, Opposite(near), Child(t, p, Opposite(near)))
  BY SiblingIs
<1>2. Child(t, p, Opposite(near)) # InTree(c) /\ near \in Sides /\ Child(t, p, near) = InTree(c)
  BY <1>1 DEF SiblingOf, Short
<1>3. CASE near = LEFT
  BY <1>2, <1>3 DEF Opposite
<1>4. CASE near = RIGHT
  BY <1>2, <1>4 DEF Opposite, LEFT, RIGHT
<1> QED BY <1>2, <1>3, <1>4 DEF Sides

LEMMA ShortOf ==
  ASSUME NEW t, NEW S, NEW B, NEW c, NEW edge, Removing(t, S, B, c, edge),
         c # Nil, c # t.root, ~isRed(t, c)
  PROVE  \E near \in Sides : Short(t, S, B, c, Parent(t, c), near)
<1>1. /\ Shape(t, S) /\ c \in DOMAIN t.node /\ Heights(t, B, edge) /\ NoRedPair(t, c, c)
      /\ RootBlack(t) /\ Hangs(t, c, edge)
  BY DEF Removing
<1>2. PICK near \in Sides : edge = <<Parent(t, c), near>> /\ Child(t, Parent(t, c), near) = InTree(c)
  BY <1>1 DEF Hangs
<1>3. ~Red(t, c)
  BY Zenon DEF isRed, Red
<1>4. NoRedPair(t, Nil, Nil)
  <2>1. SUFFICES ASSUME NEW m \in Nodes(t), NEW r \in Sides, NEW d, d = Child(t, m, r),
                        Red(t, m), d # Nil
                 PROVE  ~Red(t, d)
    BY DEF NoRedPair
  <2>2. m # c
    BY <1>3, <2>1
  <2>3. CASE d = c
    BY <1>3, <2>3
  <2>4. CASE d # c
    BY <1>1, <2>1, <2>2, <2>4 DEF NoRedPair
  <2> QED BY <2>3, <2>4
<1>5. InTree(c) # Nil => ~Red(t, InTree(c))
  BY <1>3 DEF InTree
<1>6. Parent(t, c) \in Nodes(t)
  BY <1>1 DEF Hangs
<1>7. Heights(t, B, <<Parent(t, c), near>>)
  BY <1>1, <1>2
<1>8. Short(t, S, B, c, Parent(t, c), near)
  BY <1>1, <1>2, <1>4, <1>5, <1>6, <1>7 DEF Short
<1> QED BY <1>8

LEMMA RedIs ==
  ASSUME NEW t, NEW n
  PROVE  isRed(t, n) <=> n # Nil /\ Red(t, n)
BY Zenon DEF Red, isRed

\* A red sibling has gone.
LEMMA SiblingBlack ==
  ASSUME NEW t, NEW S, NEW B, NEW c, NEW p, NEW near, Short(t, S, B, c, p, near),
         NEW v, v = BlackenSibling(t, c, Opposite(near))
  PROVE  /\ SameNodes(t, v)
         /\ \E S2, B2 : Short(v, S2, B2, c, p, near)
         /\ ~Red(v, Child(v, p, Opposite(near)))
         /\ v = t \/ Red(v, p)
<1>1. Parent(t, c) = p /\ near \in Sides /\ near = Opposite(Opposite(near)) /\ Typed(t)
  BY SidesAre DEF Short, Shape
<1>2. SiblingOf(t, B, c, p, near, Opposite(near), Child(t, p, Opposite(near)))
  BY SiblingIs
<1>3. PICK s : s = Child(t, p, Opposite(near)) /\ s # Nil
  <2>1. Nil \notin Nodes(t)
    BY <1>1, NamesAre
  <2> QED BY <1>2, <2>1 DEF SiblingOf
<1>4. CASE Red(t, s)
  <2>1. isRed(t, Child(t, Parent(t, c), Opposite(near)))
    BY <1>1, <1>3, <1>4, RedIs
  <2>2. v = TreeRotate(Reddened(Blackened(t, Child(t, Parent(t, c), Opposite(near))), Parent(t, c)),
                      Parent(t, c), Opposite(Opposite(near)))
    BY <2>1, SiblingRotates
  <2>3. v = TreeRotate(Reddened(Blackened(t, s), p), p, near)
    BY <1>1, <1>3, <2>2
  <2> QED BY <1>3, <1>4, <2>3, RotatesSibling
<1>5. CASE ~Red(t, s)
  <2>1. ~isRed(t, Child(t, Parent(t, c), Opposite(near)))
    BY <1>1, <1>3, <1>5, RedIs
  <2>2. v = t
    BY <2>1, SiblingStays
  <2>3. SameNodes(t, v)
    BY <1>1, <2>2 DEF SameNodes
  <2> QED BY <1>3, <1>5, <2>2, <2>3
<1> QED BY <1>4, <1>5

\* The round: the loop goes on at the parent, or there is nothing left to do.
LEMMA RemovingRound ==
  ASSUME NEW t, NEW S, NEW B, NEW c, NEW edge, Removing(t, S, B, c, edge),
         c # Nil, c # t.root, ~isRed(t, c),
         NEW which, which = (IF InTree(c) = Child(t, Parent(t, c), LEFT) THEN RIGHT ELSE LEFT),
         NEW r, r = TreeBARSub(t, c, which)
  PROVE  /\ SameNodes(t, r.tree)
         /\ \E S2, B2, e : Removing(r.tree, S2, B2, r.cur, e)
         /\ \/ SameLinks(t, r.tree) /\ r.cur = Parent(t, c)
            \/ r.cur = r.tree.root
            \/ isRed(r.tree, r.cur)
<1>1. PICK near \in Sides : Short(t, S, B, c, Parent(t, c), near)
  BY ShortOf
<1>2. PICK p : p = Parent(t, c)
  OBVIOUS
<1>3. Short(t, S, B, c, p, near)
  BY <1>1, <1>2
<1>4. which = Opposite(near)
  BY <1>2, <1>3, SideOfSibling
<1>5. PICK v : v = BlackenSibling(t, c, which)
  OBVIOUS
<1>6. /\ SameNodes(t, v)
      /\ \E S1, B1 : Short(v, S1, B1, c, p, near)
      /\ ~Red(v, Child(v, p, which))
      /\ v = t \/ Red(v, p)
  BY <1>3, <1>4, <1>5, SiblingBlack
<1>7. PICK S1, B1 : Short(v, S1, B1, c, p, near)
  BY <1>6
<1>8. PICK s : s = Child(v, p, which)
  OBVIOUS
<1>9. SiblingOf(v, B1, c, p, near, which, s)
  BY <1>4, <1>7, <1>8, SiblingIs
<1>10. s # Nil /\ Parent(v, c) = p /\ Typed(v) /\ s # p /\ p # Nil /\ p \in DOMAIN v.node /\ near = Opposite(which)
       /\ s \in DOMAIN v.node
  <2>1. Shape(v, S1) /\ Parent(v, c) = p
    BY <1>7 DEF Short
  <2>2. Typed(v)
    BY <2>1 DEF Shape
  <2>3. Nil \notin Nodes(v) /\ Nodes(v) \subseteq DOMAIN v.node
    BY <2>2, NamesAre
  <2> QED BY <1>9, <2>1, <2>2, <2>3 DEF SiblingOf
<1>11. ASSUME NEW u, SameNodes(v, u), NEW S2, NEW B2, Sound(u, S2, B2), r = [tree |-> u, cur |-> u.root]
       PROVE  /\ SameNodes(t, r.tree)
              /\ \E S3, B3, e : Removing(r.tree, S3, B3, r.cur, e)
              /\ r.cur = r.tree.root
  <2>1. r.tree = u /\ r.cur = u.root /\ SameNodes(t, u)
    BY <1>6, <1>11 DEF SameNodes
  <2>2. Shape(u, S2) /\ Heights(u, B2, NoEdge) /\ NoRedPair(u, Nil, Nil) /\ RootBlack(u)
    BY <1>11 DEF Sound
  <2>3. u.root \in DOMAIN u.node \cup {Nil} /\ u.root # Temp
    <3>1. u.root \in Nodes(u) \cup {Nil} /\ Typed(u)
      BY <2>2 DEF Shape, Linked
    <3> QED BY <3>1, NamesAre, ContentsAssumption
  <2>4. NoRedPair(u, u.root, u.root)
    BY <2>2, NamesAre DEF NoRedPair, Shape
  <2>5. Removing(u, S2, B2, u.root, NoEdge)
    BY <2>2, <2>3, <2>4 DEF Removing
  <2> QED BY <2>1, <2>5
<1>12. CASE \A q \in Sides : ~isRed(v, Child(v, s, q))
  <2>1. PICK u : u = Reddened(v, s)
    OBVIOUS
  <2>2. r = [tree |-> u, cur |-> p]
    BY <1>5, <1>8, <1>10, <1>12, <2>1, RoundLowers
  <2>3. r.tree = u /\ r.cur = p
    BY <2>2
  <2>4. \A q \in Sides : Child(v, s, q) # Nil => ~Red(v, Child(v, s, q))
    BY <1>12, RedIs
  <2>5. /\ SameLinks(v, u)
        /\ \E B2, e : Removing(u, S1, B2, p, e)
    BY <1>4, <1>6, <1>7, <1>8, <2>1, <2>4, LowersSibling
  <2>6. SameNodes(t, u)
    BY <1>6, <2>5 DEF SameNodes, SameLinks
  <2>7. Red(v, p) => isRed(u, p)
    <3>1. Red(v, p) => Red(u, p)
      BY <1>10, <2>1, Reddens
    <3> QED BY <1>10, <3>1, RedIs
  <2>8. v = t => SameLinks(t, u)
    BY <2>5
  <2> QED BY <1>2, <1>6, <2>3, <2>5, <2>6, <2>7, <2>8
<1>13. CASE ~\A q \in Sides : ~isRed(v, Child(v, s, q))
  <2>1. r = RaiseNephew(v, c, which)
    BY <1>5, <1>8, <1>10, <1>13, RoundRaises
  <2>2. CASE isRed(v, Child(v, s, which))
    <3>1. PICK y : y = Child(v, s, which)
      OBVIOUS
    <3>2. Ending(v, S1, B1, c, p, near, which, s, y)
      BY <1>4, <1>6, <1>7, <1>8, <2>2, <3>1, RedIs DEF Ending
    <3>3. PICK u : u = TreeRotate(Blackened(Blackened(Copied(v, s, p), p), y), p, near)
      OBVIOUS
    <3>4. SameNodes(v, u) /\ \E S2, B2 : Sound(u, S2, B2)
      BY <3>2, <3>3, RaisesSibling
    <3>5. u = TreeRotate(Blackened(Blackened(Copied(v, s, p), p), Child(v, s, which)), p, Opposite(which))
      BY <1>10, <3>1, <3>3
    <3>6. RaiseNephew(v, c, which) = [tree |-> u, cur |-> u.root]
      BY <1>8, <1>10, <2>2, <3>5, NephewReady
    <3> QED BY <1>11, <2>1, <3>4, <3>6
  <2>3. CASE ~isRed(v, Child(v, s, which))
    <3>1. PICK x : x = Child(v, s, near)
      OBVIOUS
    <3>2. isRed(v, x)
      BY <1>9, <1>13, <2>3, <3>1 DEF SiblingOf
    <3>3. PICK w : w = TreeRotate(Reddened(Blackened(v, x), s), s, which)
      OBVIOUS
    <3>4. /\ SameNodes(v, w)
          /\ \E S2, B2 : Short(w, S2, B2, c, p, near)
          /\ Child(w, p, which) = x /\ ~Red(w, x)
          /\ Child(w, x, which) = s /\ Red(w, s)
      BY <1>4, <1>6, <1>7, <1>8, <2>3, <3>1, <3>2, <3>3, RedIs, RotatesNephew
    <3>5. PICK S2, B2 : Short(w, S2, B2, c, p, near)
      BY <3>4
    <3>6. Ending(w, S2, B2, c, p, near, which, x, s)
      BY <1>4, <1>10, <3>4, <3>5 DEF Ending
    <3>7. PICK u : u = TreeRotate(Blackened(Blackened(Copied(w, x, p), p), s), p, near)
      OBVIOUS
    <3>8. SameNodes(w, u) /\ \E S3, B3 : Sound(u, S3, B3)
      BY <3>6, <3>7, RaisesSibling
    <3>9. SameNodes(v, u)
      BY <3>4, <3>8 DEF SameNodes
    <3>10. RaiseNephew(v, c, which) = [tree |-> u, cur |-> u.root]
      <4>1. w = TreeRotate(Reddened(Blackened(v, Child(v, s, Opposite(which))), s), s, which)
        BY <1>10, <3>1, <3>3
      <4>2. u = TreeRotate(Blackened(Blackened(Copied(w, x, p), p), Child(w, x, which)), p, Opposite(which))
        BY <1>10, <3>4, <3>7
      <4>3. x = Child(w, p, which)
        BY <3>4
      <4> QED BY <1>8, <1>10, <2>3, <4>1, <4>2, <4>3, NephewTurns
    <3> QED BY <1>11, <2>1, <3>8, <3>9, <3>10
  <2> QED BY <2>2, <2>3
<1> QED BY <1>11, <1>12, <1>13

-----------------------------------------------------------------------------
(* The end of a removal *)

Same(t, u, X) ==
  /\ u.root = t.root
  /\ \A m \in X : /\ Parent(u, m) = Parent(t, m)
                  /\ \A s \in Sides : Child(u, m, s) = Child(t, m, s)

LEMMA Drops ==
  ASSUME NEW t, Typed(t), NEW n, NEW u, u = Drop(t, n)
  PROVE  /\ Typed(u) /\ DOMAIN u.node = DOMAIN t.node \ {n} /\ u.root = t.root
         /\ \A m \in DOMAIN u.node : /\ Parent(u, m) = Parent(t, m)
                                     /\ \A s \in Sides : Child(u, m, s) = Child(t, m, s)
                                     /\ Red(u, m) <=> Red(t, m)
<1>1. PICK f : f = [m \in DOMAIN t.node \ {n} |-> t.node[m]]
  OBVIOUS
<1>2. u = [t EXCEPT !.node = f]
  BY <1>1 DEF Drop
<1>3. t \in [root : Links, node : [DOMAIN t.node -> Node]]
  BY DEF Typed
<1>4. f \in [DOMAIN t.node \ {n} -> Node] /\ u.node = f /\ u.root = t.root
      /\ u \in [root : Links, node : [DOMAIN f -> Node]] /\ DOMAIN f = DOMAIN t.node \ {n}
  BY <1>1, <1>2, <1>3
<1>5. IsFiniteSet(DOMAIN f) /\ DOMAIN f \subseteq Names
  BY <1>4, FS_Subset DEF Typed
<1>6. Typed(u)
  BY <1>4, <1>5 DEF Typed
<1>7. \A m \in DOMAIN u.node : u.node[m] = t.node[m]
  BY <1>1, <1>4
<1> QED BY <1>4, <1>6, <1>7 DEF Parent, Child, Red

LEMMA DropsTemp ==
  ASSUME NEW t, NEW S, Shape(t, S), NEW u, u = Drop(t, Temp)
  PROVE  /\ Shape(u, S) /\ Nodes(u) = Nodes(t) /\ Tidy(u) /\ Same(t, u, Nodes(t))
         /\ \A m \in Nodes(t) : Red(u, m) <=> Red(t, m)
<1>0. Typed(t)
  BY DEF Shape
<1>1. /\ Typed(u) /\ DOMAIN u.node = DOMAIN t.node \ {Temp} /\ u.root = t.root
      /\ \A m \in DOMAIN u.node : /\ Parent(u, m) = Parent(t, m)
                                  /\ \A s \in Sides : Child(u, m, s) = Child(t, m, s)
                                  /\ Red(u, m) <=> Red(t, m)
  BY <1>0, Drops
<1>2. Nodes(u) = Nodes(t) /\ Tidy(u) /\ DOMAIN u.node = Nodes(t)
  BY <1>1 DEF Nodes, Tidy
<1>3. \A m \in Nodes(t) : Parent(u, m) = Parent(t, m) /\ \A s \in Sides : Child(u, m, s) = Child(t, m, s)
  BY <1>1, <1>2
<1>4. Sorted(u, S)
  <2>1. ASSUME NEW n \in Nodes(u)
        PROVE  /\ S[n] = {n} \cup S[Child(u, n, LEFT)] \cup S[Child(u, n, RIGHT)]
               /\ \A s \in Sides : \A m \in S[Child(u, n, s)] : Before(s, m, n)
    BY <1>2, <1>3, SidesAre DEF Shape, Sorted
  <2> QED BY <1>1, <1>2, <2>1 DEF Shape, Sorted
<1>5. Linked(u)
  <2>1. ASSUME NEW n \in Nodes(u)
        PROVE /\ Parent(u, n) \in Nodes(u) \cup {Nil}
              /\ Parent(u, n) = Nil <=> n = u.root
              /\ Parent(u, n) # Nil => \E s \in Sides : Child(u, Parent(u, n), s) = n
              /\ \A s \in Sides :
                   /\ Child(u, n, s) \in Nodes(u) \cup {Nil}
                   /\ Child(u, n, s) # Nil => Parent(u, Child(u, n, s)) = n
    BY <1>1, <1>2, <1>3 DEF Shape, Linked
  <2> QED BY <1>1, <1>2, <2>1 DEF Shape, Linked
<1>6. Loose(u)
  BY <1>2 DEF Loose, Tidy
<1> QED BY <1>1, <1>2, <1>3, <1>4, <1>5, <1>6 DEF Shape, Same

LEMMA DropsSound ==
  ASSUME NEW t, NEW S, NEW B, Sound(t, S, B), NEW u, u = Drop(t, Temp)
  PROVE  /\ Sound(u, S, B) /\ Nodes(u) = Nodes(t) /\ Tidy(u) /\ Same(t, u, Nodes(t))
         /\ \A m \in Nodes(t) : Red(u, m) <=> Red(t, m)
<1>1. Shape(t, S) /\ Heights(t, B, NoEdge) /\ NoRedPair(t, Nil, Nil) /\ RootBlack(t)
  BY DEF Sound
<1>2. /\ Shape(u, S) /\ Nodes(u) = Nodes(t) /\ Tidy(u) /\ Same(t, u, Nodes(t))
      /\ \A m \in Nodes(t) : Red(u, m) <=> Red(t, m)
  BY <1>1, DropsTemp
<1>3. Heights(u, B, NoEdge)
  BY <1>1, <1>2 DEF Heights, Same, Weight
<1>4. NoRedPair(u, Nil, Nil)
  <2>1. \A m \in Nodes(t), s \in Sides : Child(t, m, s) \in Nodes(t) \cup {Nil}
    BY <1>1, NodeIs DEF NodeOf
  <2> QED BY <1>1, <1>2, <2>1 DEF NoRedPair, Same
<1>5. RootBlack(u)
  <2>1. t.root \in Nodes(t) \cup {Nil}
    BY <1>1 DEF Shape, Linked
  <2> QED BY <1>1, <1>2, <2>1 DEF RootBlack, Same
<1> QED BY <1>2, <1>3, <1>4, <1>5 DEF Sound

\* A red node in the place that is short makes up for it by turning black.
LEMMA BlackensShort ==
  ASSUME NEW t, NEW S, NEW B, NEW c, NEW edge, Removing(t, S, B, c, edge),
         c \in Nodes(t), c # t.root, Red(t, c), NEW u, u = Blackened(t, c)
  PROVE  SameLinks(t, u) /\ \E B2 : Sound(u, S, B2)
<1>1. /\ Shape(t, S) /\ Heights(t, B, edge) /\ NoRedPair(t, c, c) /\ RootBlack(t)
      /\ Hangs(t, c, edge) /\ c # Nil /\ c # Temp /\ Nil \notin Nodes(t) /\ Nodes(t) \subseteq DOMAIN t.node
      /\ Typed(t)
  BY NamesAre DEF Removing, Shape
<1>2. SameLinks(t, u) /\ Shape(u, S) /\ Nodes(u) = Nodes(t)
  BY <1>1, PaintsLinks
<1>3. \A m \in Nodes(t) : Red(u, m) <=> m # c /\ Red(t, m)
  BY <1>1, Blackens
<1>4. \A m \in Nodes(t) : Parent(u, m) = Parent(t, m) /\ \A s \in Sides : Child(u, m, s) = Child(t, m, s)
  BY <1>1, <1>2 DEF SameLinks
<1>5. PICK p, near : p \in Nodes(t) /\ near \in Sides /\ edge = <<p, near>> /\ Child(t, p, near) = c
  BY <1>1 DEF Hangs, InTree
<1>6. /\ B \in [Nodes(t) \cup {Nil} -> Nat] /\ B[Nil] = 0
      /\ \A m \in Nodes(t), s \in Sides : B[m] = Weight(t, m) + Extra(m, s, edge) + B[Child(t, m, s)]
  BY <1>1 DEF Heights
<1>7. PICK C : C = [m \in Nodes(t) \cup {Nil} |-> IF m = c THEN B[c] + 1 ELSE B[m]]
  OBVIOUS
<1>8. C \in [Nodes(t) \cup {Nil} -> Nat] /\ C[Nil] = 0
  <2>1. \A m \in Nodes(t) \cup {Nil} : C[m] \in Nat
    BY <1>1, <1>6, <1>7
  <2> QED BY <1>1, <1>6, <1>7, <2>1
<1>9. \A m \in Nodes(t) : Weight(t, m) \in {0, 1} /\ Weight(u, m) = IF m = c THEN 1 ELSE Weight(t, m)
  BY <1>3 DEF Weight
<1>10. Weight(t, c) = 0
  BY DEF Weight
<1>11. \A m \in Nodes(t), s \in Sides : Extra(m, s, NoEdge) = 0
  BY <1>1 DEF Extra, NoEdge
<1>12. ASSUME NEW m \in Nodes(t), NEW s \in Sides
       PROVE  C[m] = Weight(u, m) + Extra(m, s, NoEdge) + C[Child(u, m, s)]
  <2>1. PICK d \in Nodes(t) \cup {Nil} : d = Child(t, m, s)
    BY <1>1, NodeIs DEF NodeOf
  <2>2. B[d] \in Nat /\ B[m] \in Nat /\ B[m] = Weight(t, m) + Extra(m, s, edge) + B[d]
    BY <1>6, <2>1
  <2>3. d = c <=> <<m, s>> = edge
    BY <1>1, <1>5, <2>1, OneParent
  <2>4. Extra(m, s, edge) = IF d = c THEN 1 ELSE 0
    BY <2>3 DEF Extra
  <2>5. d = c => m # c
    <3>1. NodeOf(t, S, m)
      BY <1>1, NodeIs
    <3> QED BY <2>1, <3>1 DEF NodeOf
  <2>6. C[m] = Weight(u, m) + C[d]
    BY <1>7, <1>9, <1>10, <2>1, <2>2, <2>4, <2>5
  <2>7. C[d] \in Nat /\ Weight(u, m) \in {0, 1} /\ Child(u, m, s) = d
    BY <1>4, <1>8, <1>9, <2>1
  <2> QED BY <1>11, <2>6, <2>7
<1>13. Heights(u, C, NoEdge)
  BY <1>2, <1>8, <1>12 DEF Heights
<1>14. NoRedPair(u, Nil, Nil)
  <2>1. SUFFICES ASSUME NEW m \in Nodes(t), NEW s \in Sides, NEW d, d = Child(t, m, s),
                        Red(u, m), d # Nil
                 PROVE  ~Red(u, d)
    BY <1>2, <1>4 DEF NoRedPair
  <2>2. d \in Nodes(t)
    BY <1>1, <2>1, NodeIs DEF NodeOf
  <2> QED BY <1>1, <1>3, <2>1, <2>2 DEF NoRedPair
<1>15. RootBlack(u)
  <2>1. t.root \in Nodes(t) \cup {Nil} /\ u.root = t.root
    BY <1>1, <1>2 DEF Shape, Linked, SameLinks
  <2> QED BY <1>1, <1>3, <2>1 DEF RootBlack
<1>16. Sound(u, S, C)
  BY <1>2, <1>13, <1>14, <1>15 DEF Sound
<1> QED BY <1>2, <1>16

LEMMA BlackensRoot ==
  ASSUME NEW t, NEW S, NEW B, NEW c, NEW edge, Removing(t, S, B, c, edge),
         c \in Nodes(t), c = t.root, NEW u, u = Blackened(t, c)
  PROVE  SameLinks(t, u) /\ \E B2 : Sound(u, S, B2)
<1>1. /\ Shape(t, S) /\ Heights(t, B, NoEdge) /\ NoRedPair(t, c, c)
      /\ Nil \notin Nodes(t) /\ Nodes(t) \subseteq DOMAIN t.node
  BY NamesAre DEF Removing, Shape
<1>2. /\ SameLinks(t, u) /\ Shape(u, S)
      /\ \A m \in Nodes(t) : Red(u, m) <=> m # c /\ Red(t, m)
      /\ \E B2 : Heights(u, B2, NoEdge)
  BY <1>1, RootPainted
<1>3. PICK B2 : Heights(u, B2, NoEdge)
  BY <1>2
<1>4. Nodes(u) = Nodes(t) /\ u.root = c
      /\ \A m \in Nodes(t), s \in Sides : Child(u, m, s) = Child(t, m, s)
  BY <1>1, <1>2 DEF SameLinks, SameNodes, Nodes
<1>5. NoRedPair(u, Nil, Nil)
  <2>1. SUFFICES ASSUME NEW m \in Nodes(t), NEW s \in Sides, NEW d, d = Child(t, m, s),
                        Red(u, m), d # Nil
                 PROVE  ~Red(u, d)
    BY <1>4 DEF NoRedPair
  <2>2. d \in Nodes(t)
    BY <1>1, <2>1, NodeIs DEF NodeOf
  <2> QED BY <1>1, <1>2, <2>1, <2>2 DEF NoRedPair
<1>6. RootBlack(u)
  BY <1>2, <1>4 DEF RootBlack
<1>7. Sound(u, S, B2)
  BY <1>2, <1>3, <1>5, <1>6 DEF Sound
<1> QED BY <1>2, <1>7

\* The last colour, and the node on the stack goes.
Ended(t, c) == IF c = Nil THEN t ELSE Blackened(t, c)

LEMMA RemovingEnds ==
  ASSUME NEW t, NEW S, NEW B, NEW c, NEW edge, Removing(t, S, B, c, edge),
         ~(c # Nil /\ c # t.root /\ ~isRed(t, c)),
         NEW u, u = Drop(Ended(t, c), Temp)
  PROVE  /\ Nodes(u) = Nodes(t) /\ Tidy(u) /\ Same(t, u, Nodes(t))
         /\ \E B2 : Sound(u, S, B2)
<1>1. /\ Shape(t, S) /\ c \in DOMAIN t.node \cup {Nil} /\ (c = Temp => ~Red(t, Temp))
      /\ NoRedPair(t, c, c) /\ (c # t.root => RootBlack(t))
      /\ Heights(t, B, edge) /\ (IF c \in {Nil, t.root} THEN edge = NoEdge ELSE Hangs(t, c, edge))
  BY DEF Removing
<1>2. t.root \in Nodes(t) \cup {Nil} /\ Nil \notin Nodes(t) /\ Temp \notin Nodes(t) /\ Nil # Temp
  BY <1>1, NamesAre, ContentsAssumption DEF Shape, Linked
<1>3. c \in Nodes(t) \cup {Nil}
  <2>1. c # Temp
    BY <1>1, <1>2, RedIs
  <2> QED BY <1>1, <2>1 DEF Nodes
<1>4. PICK v : v = Ended(t, c)
  OBVIOUS
<1>5. SameLinks(t, v) /\ \E B2 : Sound(v, S, B2)
  <2>1. CASE c = Nil
    <3>1. v = t /\ edge = NoEdge
      BY <1>1, <1>4, <2>1 DEF Ended
    <3>2. RootBlack(t)
      BY <1>1, <2>1 DEF RootBlack
    <3>3. Sound(v, S, B)
      BY <1>1, <2>1, <3>1, <3>2 DEF Sound
    <3>4. SameLinks(t, v)
      BY <1>1, <3>1 DEF SameLinks, SameNodes, Shape
    <3> QED BY <3>3, <3>4
  <2>2. CASE c # Nil /\ c = t.root
    <3>1. v = Blackened(t, c) /\ c \in Nodes(t)
      BY <1>3, <1>4, <2>2 DEF Ended
    <3> QED BY <2>2, <3>1, BlackensRoot
  <2>3. CASE c # Nil /\ c # t.root
    <3>1. v = Blackened(t, c) /\ c \in Nodes(t) /\ Red(t, c)
      BY <1>3, <1>4, <2>3, RedIs DEF Ended
    <3> QED BY <2>3, <3>1, BlackensShort
  <2> QED BY <2>1, <2>2, <2>3
<1>6. PICK B2 : Sound(v, S, B2)
  BY <1>5
<1>7. Sound(u, S, B2) /\ Nodes(u) = Nodes(v) /\ Tidy(u) /\ Same(v, u, Nodes(v))
  BY <1>4, <1>6, DropsSound
<1>8. Nodes(v) = Nodes(t) /\ Nodes(t) \subseteq DOMAIN t.node
  BY <1>5 DEF SameLinks, SameNodes, Nodes
<1>9. Same(t, u, Nodes(t))
  BY <1>5, <1>7, <1>8 DEF Same, SameLinks
<1> QED BY <1>7, <1>8, <1>9

-----------------------------------------------------------------------------
(* Searches *)

FindStep(t, x, f) ==
  f = [n \in Pointers(t) |-> IF n \in {Nil, x} THEN n ELSE f[Child(t, n, Side(n, x))]]

LEMMA FindUnfolds ==
  ASSUME NEW t, NEW x, NEW w, FindStep(t, x, w)
  PROVE  \E f : FindStep(t, x, f) /\ TreeFind(t, x) = f[t.root]
<1>1. PICK f : f = CHOOSE g : FindStep(t, x, g)
  OBVIOUS
<1>2. FindStep(t, x, f)
  BY <1>1, Zenon
<1>3. TreeFind(t, x) = f[t.root]
  BY <1>1, Zenon DEF TreeFind, FindStep
<1> QED BY <1>2, <1>3

LEMMA TidyNodes ==
  ASSUME NEW t, Tidy(t)
  PROVE  DOMAIN t.node = Nodes(t) /\ Pointers(t) = Nodes(t) \cup {Nil}
BY DEF Tidy, Nodes, Pointers

LEMMA SideIs ==
  ASSUME NEW n \in Nat, NEW x \in Nat, n # x
  PROVE  Side(n, x) \in Sides /\ Before(Side(n, x), x, n) /\ ~Before(Opposite(Side(n, x)), x, n)
<1>1. CASE n < x
  <2>1. Side(n, x) = RIGHT
    BY <1>1 DEF Side
  <2> QED BY <1>1, <2>1, SidesAre DEF Before
<1>2. CASE ~(n < x)
  <2>1. Side(n, x) = LEFT
    BY <1>2 DEF Side
  <2> QED BY <1>2, <2>1, SidesAre DEF Before
<1> QED BY <1>1, <1>2

\* What is below a node, and is not it, is below the child a search goes to.
LEMMA SideHolds ==
  ASSUME NEW t, NEW S, Shape(t, S), NEW n \in Nodes(t), NEW x \in Contents, n # x
  PROVE  /\ Side(n, x) \in Sides
         /\ Child(t, n, Side(n, x)) \in Nodes(t) \cup {Nil}
         /\ x \in S[n] <=> x \in S[Child(t, n, Side(n, x))]
<1>1. NodeOf(t, S, n) /\ x \in Nat
  BY NodeIs, ContentsAssumption
<1>2. PICK s \in Sides : s = Side(n, x) /\ Before(s, x, n) /\ ~Before(Opposite(s), x, n)
  BY <1>1, SideIs DEF NodeOf
<1>3. x \notin S[Child(t, n, Opposite(s))]
  BY <1>1, <1>2, SidesAre DEF NodeOf
<1>4. S[n] = {n} \cup S[Child(t, n, s)] \cup S[Child(t, n, Opposite(s))]
  BY <1>1, <1>2, SidesAre DEF NodeOf
<1>5. Child(t, n, s) \in Nodes(t) \cup {Nil}
  BY <1>1 DEF NodeOf
<1> QED BY <1>2, <1>3, <1>4, <1>5

\* A search finds what is there.
LEMMA Finds ==
  ASSUME NEW t, NEW S, Shape(t, S), Tidy(t), NEW x \in Contents
  PROVE  TreeFind(t, x) = IF x \in Nodes(t) THEN x ELSE Nil
<1>1. /\ Pointers(t) = Nodes(t) \cup {Nil} /\ Nil \notin Nodes(t) /\ x # Nil
      /\ t.root \in Nodes(t) \cup {Nil} /\ S[t.root] = Nodes(t) /\ S[Nil] = {}
      /\ S \in [Nodes(t) \cup {Nil} -> SUBSET Nodes(t)]
      /\ \A n \in Nodes(t) : n \in S[n]
  BY TidyNodes, NamesAre, ContentsAssumption DEF Shape, Linked, Sorted
<1>2. PICK w : w = [n \in Pointers(t) |-> IF x \in S[n] THEN x ELSE Nil]
  OBVIOUS
<1>3. ASSUME NEW n \in Pointers(t)
      PROVE  w[n] = IF n \in {Nil, x} THEN n ELSE w[Child(t, n, Side(n, x))]
  <2>1. CASE n = Nil
    BY <1>1, <1>2, <2>1
  <2>2. CASE n = x
    BY <1>1, <1>2, <2>2
  <2>3. CASE n # Nil /\ n # x
    <3>1. n \in Nodes(t)
      BY <1>1, <2>3
    <3>2. /\ Child(t, n, Side(n, x)) \in Nodes(t) \cup {Nil}
          /\ x \in S[n] <=> x \in S[Child(t, n, Side(n, x))]
      BY <2>3, <3>1, SideHolds
    <3> QED BY <1>1, <1>2, <2>3, <3>2
  <2> QED BY <2>1, <2>2, <2>3
<1>4. FindStep(t, x, w)
  <2>1. w = [n \in Pointers(t) |-> w[n]]
    BY <1>2
  <2> QED BY <1>3, <2>1, Zenon DEF FindStep
<1>5. PICK f : FindStep(t, x, f) /\ TreeFind(t, x) = f[t.root]
  BY <1>4, FindUnfolds
<1>6. \A n \in Pointers(t) : f[n] = IF n \in {Nil, x} THEN n ELSE f[Child(t, n, Side(n, x))]
  BY <1>5 DEF FindStep
<1>7. PICK X : X = {n \in Nodes(t) : f[n] # w[n]}
  OBVIOUS
<1>8. ASSUME X # {} PROVE FALSE
  <2>1. PICK n \in X : \A s \in Sides : Child(t, n, s) \notin X
    BY <1>7, <1>8, LowestNode
  <2>2. n \in Nodes(t) /\ f[n] # w[n] /\ n # Nil /\ n \in Pointers(t)
    BY <1>1, <1>7, <2>1
  <2>3. n # x
    BY <1>1, <1>2, <1>6, <2>2
  <2>4. PICK c \in Nodes(t) \cup {Nil} : c = Child(t, n, Side(n, x)) /\ Side(n, x) \in Sides
    BY <2>2, <2>3, SideHolds
  <2>5. f[n] = f[c] /\ w[n] = w[c]
    BY <1>3, <1>6, <2>2, <2>3, <2>4
  <2>6. f[c] = w[c]
    <3>1. CASE c = Nil
      BY <1>1, <1>3, <1>6, <3>1
    <3>2. CASE c # Nil
      BY <1>7, <2>1, <2>4, <3>2
    <3> QED BY <3>1, <3>2
  <2> QED BY <2>2, <2>5, <2>6
<1>9. f[t.root] = w[t.root]
  BY <1>1, <1>3, <1>6, <1>7, <1>8
<1> QED BY <1>1, <1>2, <1>5, <1>9

-----------------------------------------------------------------------------
(* Following links until there are none *)

\* What is reached when next is followed from each element of D.
Follows(D, next, w) == w = [n \in D |-> IF next[n] = Nil THEN n ELSE w[next[n]]]

LEMMA FollowEnds ==
  ASSUME NEW D, Nil \notin D, NEW next \in [D -> D \cup {Nil}]
  PROVE  \E w : Follows(D, next, w)
<1>1. PICK Closed : Closed = {Z \in SUBSET D : \A m \in Z : next[m] \in Z \cup {Nil}}
  OBVIOUS
<1>2. PICK E : E = [n \in D |-> {e \in D : next[e] = Nil /\ \A Z \in Closed : n \in Z => e \in Z}]
  OBVIOUS
<1>3. PICK w : w = [n \in D |-> CHOOSE e : e \in E[n]]
  OBVIOUS
<1>4. ASSUME NEW n \in D, next[n] = Nil PROVE w[n] = n
  <2>1. {n} \in Closed
    BY <1>1, <1>4
  <2>2. n \in E[n] /\ \A e \in E[n] : e = n
    BY <1>2, <1>4, <2>1
  <2>3. E[n] = {n}
    BY <2>2
  <2> QED BY <1>3, <2>3
<1>5. ASSUME NEW n \in D, next[n] # Nil PROVE w[n] = w[next[n]]
  <2>1. PICK c \in D : c = next[n]
    BY <1>5
  <2>2. ASSUME NEW e \in E[c] PROVE e \in E[n]
    <3>1. e \in D /\ next[e] = Nil /\ \A Z \in Closed : c \in Z => e \in Z
      BY <1>2, <2>2
    <3>2. ASSUME NEW Z \in Closed, n \in Z PROVE e \in Z
      <4>1. c \in Z
        BY <1>1, <1>5, <2>1, <3>2
      <4> QED BY <3>1, <4>1
    <3> QED BY <1>2, <3>1, <3>2
  <2>3. ASSUME NEW e \in E[n] PROVE e \in E[c]
    <3>1. e \in D /\ next[e] = Nil /\ \A Z \in Closed : n \in Z => e \in Z
      BY <1>2, <2>3
    <3>2. ASSUME NEW Z \in Closed, c \in Z PROVE e \in Z
      <4>1. Z \cup {n} \in Closed
        BY <1>1, <2>1, <3>2
      <4>2. e \in Z \cup {n}
        BY <3>1, <4>1
      <4> QED BY <1>5, <3>1, <4>2
    <3> QED BY <1>2, <3>1, <3>2
  <2>4. E[n] = E[c]
    BY <2>2, <2>3
  <2> QED BY <1>3, <2>1, <2>4
<1>6. \A n \in D : w[n] = IF next[n] = Nil THEN n ELSE w[next[n]]
  BY <1>4, <1>5
<1>7. w = [n \in D |-> w[n]]
  BY <1>3
<1>8. w = [n \in D |-> IF next[n] = Nil THEN n ELSE w[next[n]]]
  BY <1>6, <1>7
<1> QED BY <1>8 DEF Follows

\* The way down towards a content that is not there.
LastStep(t, x, f) ==
  f = [n \in DOMAIN t.node |-> LET next == Child(t, n, Side(n, x)) IN IF next = Nil THEN n ELSE f[next]]

LEMMA LastUnfolds ==
  ASSUME NEW t, NEW x, NEW w, LastStep(t, x, w), t.root # Nil
  PROVE  \E f : LastStep(t, x, f) /\ LastOnPath(t, x) = f[t.root]
<1>1. PICK f : f = CHOOSE g : LastStep(t, x, g)
  OBVIOUS
<1>2. LastStep(t, x, f)
  BY <1>1, Zenon
<1>3. LastOnPath(t, x) = f[t.root]
  BY <1>1, Zenon DEF LastOnPath, LastStep
<1> QED BY <1>2, <1>3

\* Where a content that is not there belongs.
Place(t, S, x, p) ==
  /\ p \in Nodes(t) /\ Side(p, x) \in Sides
  /\ Child(t, p, Side(p, x)) = Nil
  /\ \A m \in Nodes(t), s \in Sides : p \in S[Child(t, m, s)] => Before(s, x, m)

LEMMA EndOfPath ==
  ASSUME NEW t, NEW S, Shape(t, S), Tidy(t), NEW x \in Contents, x \notin Nodes(t),
         NEW f, LastStep(t, x, f), NEW n \in Nodes(t)
  PROVE  /\ f[n] \in S[n]
         /\ Child(t, f[n], Side(f[n], x)) = Nil
         /\ \A m \in S[n], s \in Sides : f[n] \in S[Child(t, m, s)] => s = Side(m, x)
<1>1. /\ DOMAIN t.node = Nodes(t) /\ Nil \notin Nodes(t)
      /\ \A m \in Nodes(t) : x # m
  BY TidyNodes, NamesAre DEF Shape
<1>2. \A m \in Nodes(t) : f[m] = IF Child(t, m, Side(m, x)) = Nil THEN m ELSE f[Child(t, m, Side(m, x))]
  BY <1>1 DEF LastStep
<1>3. PICK X : X = {k \in Nodes(t) :
                      ~(/\ f[k] \in S[k]
                        /\ Child(t, f[k], Side(f[k], x)) = Nil
                        /\ \A m \in S[k], s \in Sides : f[k] \in S[Child(t, m, s)] => s = Side(m, x))}
  OBVIOUS
<1>4. ASSUME X # {} PROVE FALSE
  <2>1. PICK k \in X : \A s \in Sides : Child(t, k, s) \notin X
    BY <1>3, <1>4, LowestNode
  <2>2. k \in Nodes(t) /\ NodeOf(t, S, k)
    BY <1>3, <2>1, NodeIs
  <2>3. PICK side \in Sides : side = Side(k, x) /\ Child(t, k, side) \in Nodes(t) \cup {Nil}
    BY <1>1, <2>2, SideHolds
  <2>4. PICK c : c = Child(t, k, side)
    OBVIOUS
  <2>5. CASE c = Nil
    <3>1. f[k] = k /\ k \in S[k]
      BY <1>2, <2>2, <2>3, <2>4, <2>5 DEF NodeOf
    <3>2. ASSUME NEW m \in S[k], NEW s \in Sides, k \in S[Child(t, m, s)] PROVE FALSE
      <4>0. m \in Nodes(t)
        BY <2>2 DEF NodeOf
      <4>1. m \in Nodes(t) /\ NodeOf(t, S, m)
        BY <4>0, NodeIs
      <4>2. k \in S[m]
        BY <3>2, <4>1 DEF NodeOf
      <4>3. S[k] \subseteq S[Child(t, m, s)]
        <5>1. PICK d \in Nodes(t) : d = Child(t, m, s)
          BY <3>2, <4>1 DEF NodeOf
        <5> QED BY <2>2, <3>2, <5>1, Below
      <4> QED BY <4>1, <4>3 DEF NodeOf
    <3>3. Child(t, k, Side(k, x)) = Nil
      BY <2>3, <2>4, <2>5
    <3>4. PICK e : e = f[k] /\ e = k
      BY <3>1
    <3>5. e \in S[k] /\ Child(t, e, Side(e, x)) = Nil
          /\ \A m \in S[k], s \in Sides : e \in S[Child(t, m, s)] => s = Side(m, x)
      BY <3>1, <3>2, <3>3, <3>4
    <3>6. k \notin X
      BY <1>3, <3>4, <3>5
    <3> QED BY <2>1, <3>6
  <2>6. CASE c # Nil
    <3>1. c \in Nodes(t) /\ f[k] = f[c] /\ S[c] \subseteq S[k] /\ c \notin X
      BY <1>2, <2>1, <2>2, <2>3, <2>4, <2>6 DEF NodeOf
    <3>2. /\ f[c] \in S[c]
          /\ Child(t, f[c], Side(f[c], x)) = Nil
          /\ \A m \in S[c], s \in Sides : f[c] \in S[Child(t, m, s)] => s = Side(m, x)
      BY <1>3, <3>1
    <3>3. PICK e : e = f[c]
      OBVIOUS
    <3>4. e \notin S[Child(t, k, Opposite(side))] /\ e # k
      <4>1. Before(side, e, k) /\ e \in Nat /\ k \in Nat
        BY <2>2, <2>4, <3>1, <3>2, <3>3, NamesAre DEF NodeOf, Shape
      <4>2. ~Before(Opposite(side), e, k)
        BY <4>1, SidesAre DEF Before
      <4> QED BY <2>2, <2>4, <3>2, <3>3, <4>2, SidesAre DEF NodeOf
    <3>5. ASSUME NEW m \in S[k], NEW s \in Sides, e \in S[Child(t, m, s)]
          PROVE  s = Side(m, x)
      <4>1. CASE m = k
        BY <2>3, <3>4, <3>5, <4>1, SidesAre
      <4>2. CASE m \in S[c]
        BY <3>2, <3>3, <3>5, <4>2
      <4>3. CASE m \in S[Child(t, k, Opposite(side))]
        <5>1. PICK d \in Nodes(t) : d = Child(t, k, Opposite(side))
          BY <2>2, <4>3, SidesAre DEF NodeOf
        <5>2. m \in Nodes(t) /\ NodeOf(t, S, m) /\ S[m] \subseteq S[d]
          BY <2>2, <4>3, <5>1, NodeIs, Below DEF NodeOf
        <5>3. e \in S[d]
          BY <3>5, <5>2 DEF NodeOf
        <5> QED BY <3>4, <5>1, <5>3
      <4> QED BY <2>2, <2>4, <4>1, <4>2, <4>3, SidesAre DEF NodeOf
    <3> QED BY <1>3, <2>1, <3>1, <3>2, <3>3, <3>5
  <2> QED BY <2>5, <2>6
<1> QED BY <1>3, <1>4

LEMMA FindsPlace ==
  ASSUME NEW t, NEW S, Shape(t, S), Tidy(t), NEW x \in Contents, x \notin Nodes(t)
  PROVE  IF t.root = Nil THEN LastOnPath(t, x) = Nil ELSE Place(t, S, x, LastOnPath(t, x))
<1>1. /\ DOMAIN t.node = Nodes(t) /\ Nil \notin Nodes(t)
      /\ t.root \in Nodes(t) \cup {Nil} /\ S[t.root] = Nodes(t)
      /\ \A m \in Nodes(t) : x # m
  BY TidyNodes, NamesAre DEF Shape, Linked, Sorted
<1>2. CASE t.root = Nil
  BY <1>2, Zenon DEF LastOnPath
<1>3. CASE t.root # Nil
  <2>1. PICK next : next = [n \in Nodes(t) |-> Child(t, n, Side(n, x))]
    OBVIOUS
  <2>2. next \in [Nodes(t) -> Nodes(t) \cup {Nil}]
    BY <1>1, <2>1, SideHolds
  <2>3. PICK w : Follows(Nodes(t), next, w)
    BY <1>1, <2>2, FollowEnds
  <2>4. LastStep(t, x, w)
    <3>1. w = [n \in Nodes(t) |-> IF next[n] = Nil THEN n ELSE w[next[n]]]
      BY <2>3 DEF Follows
    <3>2. \A n \in Nodes(t) : next[n] = Child(t, n, Side(n, x))
      BY <2>1
    <3>3. w = [n \in DOMAIN t.node |-> IF Child(t, n, Side(n, x)) = Nil THEN n ELSE w[Child(t, n, Side(n, x))]]
      BY <1>1, <3>1, <3>2
    <3> QED BY <3>3, Zenon DEF LastStep
  <2>5. PICK f : LastStep(t, x, f) /\ LastOnPath(t, x) = f[t.root]
    BY <1>3, <2>4, LastUnfolds
  <2>6. PICK p : p = f[t.root]
    OBVIOUS
  <2>7. /\ p \in Nodes(t)
        /\ Child(t, p, Side(p, x)) = Nil
        /\ \A m \in Nodes(t), s \in Sides : p \in S[Child(t, m, s)] => s = Side(m, x)
    BY <1>1, <1>3, <2>5, <2>6, EndOfPath
  <2>8. \A m \in Nodes(t) : Side(m, x) \in Sides /\ Before(Side(m, x), x, m)
    BY <1>1, SideIs, NamesAre, ContentsAssumption DEF Shape
  <2> QED BY <1>3, <2>5, <2>6, <2>7, <2>8 DEF Place
<1> QED BY <1>2, <1>3

-----------------------------------------------------------------------------
(* A new node *)

Grown(t, n, r) == [t EXCEPT !.node = [m \in DOMAIN t.node \cup {n} |-> IF m = n THEN r ELSE t.node[m]]]
RedLeaf(p) == Leaf(p, TRUE)
BlackLeaf(p) == Leaf(p, FALSE)

LEMMA Leaves ==
  ASSUME NEW p \in Links
  PROVE  /\ RedLeaf(p) \in Node /\ RedLeaf(p).parent = p /\ RedLeaf(p).red
         /\ \A s \in Sides : RedLeaf(p).child[s] = Nil
         /\ BlackLeaf(p) \in Node /\ BlackLeaf(p).parent = p /\ ~BlackLeaf(p).red
         /\ \A s \in Sides : BlackLeaf(p).child[s] = Nil
<1>1. [s \in Sides |-> Nil] \in [Sides -> Links]
  BY DEF Links
<1>2. RedLeaf(p) \in Node /\ RedLeaf(p).parent = p /\ RedLeaf(p).red /\ RedLeaf(p).child = [s \in Sides |-> Nil]
  BY <1>1 DEF RedLeaf, Leaf, Node
<1>3. BlackLeaf(p) \in Node /\ BlackLeaf(p).parent = p /\ ~BlackLeaf(p).red /\ BlackLeaf(p).child = [s \in Sides |-> Nil]
  BY <1>1 DEF BlackLeaf, Leaf, Node
<1> QED BY <1>2, <1>3

LEMMA Grows ==
  ASSUME NEW t, Typed(t), NEW n \in Names, NEW r \in Node, NEW u, u = Grown(t, n, r)
  PROVE  /\ Typed(u) /\ DOMAIN u.node = DOMAIN t.node \cup {n} /\ u.root = t.root
         /\ u.node[n] = r
         /\ \A m \in DOMAIN t.node : m # n => /\ Parent(u, m) = Parent(t, m)
                                              /\ \A s \in Sides : Child(u, m, s) = Child(t, m, s)
                                              /\ Red(u, m) <=> Red(t, m)
<1>1. PICK f : f = [m \in DOMAIN t.node \cup {n} |-> IF m = n THEN r ELSE t.node[m]]
  OBVIOUS
<1>2. u = [t EXCEPT !.node = f]
  BY <1>1 DEF Grown
<1>3. t \in [root : Links, node : [DOMAIN t.node -> Node]]
  BY DEF Typed
<1>4. \A m \in DOMAIN t.node : t.node[m] \in Node
  BY <1>3
<1>5. f \in [DOMAIN t.node \cup {n} -> Node]
  BY <1>1, <1>4
<1>6. u.node = f /\ u.root = t.root /\ DOMAIN f = DOMAIN t.node \cup {n}
      /\ u \in [root : Links, node : [DOMAIN f -> Node]]
  BY <1>1, <1>2, <1>3, <1>5
<1>7. IsFiniteSet(DOMAIN f) /\ DOMAIN f \subseteq Names
  BY <1>6, FS_AddElement DEF Typed
<1>8. Typed(u)
  BY <1>6, <1>7 DEF Typed
<1>9. u.node[n] = r /\ \A m \in DOMAIN t.node : m # n => u.node[m] = t.node[m]
  BY <1>1, <1>6
<1> QED BY <1>6, <1>8, <1>9 DEF Parent, Child, Red

LEMMA InsertIs ==
  ASSUME NEW t, NEW x, NEW p, p = LastOnPath(t, x), NEW v, v = Grown(t, x, RedLeaf(p))
  PROVE  Insert(t, x) = IF p = Nil THEN [v EXCEPT !.root = x] ELSE SetChild(v, p, Side(p, x), x)
BY Zenon DEF Insert, Grown, RedLeaf, SetChild

SetRoot(t, x) == [t EXCEPT !.root = x]

\* What an insertion does to the nodes: a red leaf hangs at p, on the side s, or is the root.
Inserted(t, u, x, p, s) ==
  /\ Typed(u) /\ DOMAIN u.node = DOMAIN t.node \cup {x}
  /\ u.root = IF p = Nil THEN x ELSE t.root
  /\ Parent(u, x) = p /\ (\A r \in Sides : Child(u, x, r) = Nil) /\ Red(u, x)
  /\ \A m \in DOMAIN t.node :
       /\ Parent(u, m) = Parent(t, m)
       /\ \A r \in Sides : Child(u, m, r) = IF m = p /\ r = s THEN x ELSE Child(t, m, r)
       /\ Red(u, m) <=> Red(t, m)

LEMMA Inserts ==
  ASSUME NEW t, Typed(t), NEW x \in Contents, x \notin DOMAIN t.node, NEW p, p = LastOnPath(t, x),
         p = Nil \/ (p \in DOMAIN t.node /\ Side(p, x) \in Sides), Nil \notin DOMAIN t.node
  PROVE  Inserted(t, Insert(t, x), x, p, Side(p, x))
<1>1. x \in Names /\ p \in Links /\ x \in Links
  BY DEF Names, Links, Typed
<1>2. PICK v : v = Grown(t, x, RedLeaf(p))
  OBVIOUS
<1>3. /\ Typed(v) /\ DOMAIN v.node = DOMAIN t.node \cup {x} /\ v.root = t.root
      /\ v.node[x] = RedLeaf(p)
      /\ \A m \in DOMAIN t.node : m # x => /\ Parent(v, m) = Parent(t, m)
                                           /\ \A s \in Sides : Child(v, m, s) = Child(t, m, s)
                                           /\ Red(v, m) <=> Red(t, m)
  BY <1>1, <1>2, Grows, Leaves
<1>a. ASSUME NEW m \in DOMAIN t.node, m # x
      PROVE  /\ Parent(v, m) = Parent(t, m)
             /\ \A s \in Sides : Child(v, m, s) = Child(t, m, s)
             /\ Red(v, m) <=> Red(t, m)
  BY <1>3, <1>a, Zenon
<1>4. Parent(v, x) = p /\ (\A r \in Sides : Child(v, x, r) = Nil) /\ Red(v, x)
  BY <1>1, <1>3, Leaves DEF Parent, Child, Red
<1>5. PICK u : u = Insert(t, x)
  OBVIOUS
<1>6. CASE p = Nil
  <2>1. u = SetRoot(v, x)
    BY <1>2, <1>5, <1>6, InsertIs DEF SetRoot
  <2>2. u.root = x /\ u.node = v.node /\ Typed(u)
    BY <1>1, <1>3, <2>1 DEF SetRoot, Typed
  <2>3. \A m : Parent(u, m) = Parent(v, m) /\ Red(u, m) = Red(v, m) /\ \A s : Child(u, m, s) = Child(v, m, s)
    BY <2>2 DEF Parent, Child, Red
  <2>4. Inserted(t, u, x, p, Side(p, x))
    <3>1. ASSUME NEW m \in DOMAIN t.node
          PROVE  /\ Parent(u, m) = Parent(t, m)
                 /\ \A r \in Sides : Child(u, m, r) = IF m = p /\ r = Side(p, x) THEN x ELSE Child(t, m, r)
                 /\ Red(u, m) <=> Red(t, m)
      <4>1. m # p /\ m # x
        BY <1>6
      <4>2. /\ Parent(v, m) = Parent(t, m)
            /\ \A r \in Sides : Child(v, m, r) = Child(t, m, r)
            /\ Red(v, m) <=> Red(t, m)
        BY <1>a, <4>1, Zenon
      <4> QED BY <2>3, <4>1, <4>2
    <3>2. Parent(u, x) = p /\ (\A r \in Sides : Child(u, x, r) = Nil) /\ Red(u, x)
      BY <1>4, <2>3
    <3> QED BY <1>3, <1>6, <2>2, <3>1, <3>2 DEF Inserted
  <2> QED BY <1>5, <2>4
<1>7. CASE p # Nil
  <2>1. u = SetChild(v, p, Side(p, x), x)
    BY <1>2, <1>5, <1>7, InsertIs
  <2>2. PICK s \in Sides : s = Side(p, x)
    BY <1>7
  <2>3. /\ SameNodes(v, u) /\ u.root = v.root
        /\ \A m \in DOMAIN v.node :
              /\ Parent(u, m) = Parent(v, m)
              /\ \A r \in Sides : Child(u, m, r) = IF m = p /\ r = s THEN x ELSE Child(v, m, r)
              /\ Red(u, m) = Red(v, m)
    BY <1>1, <1>3, <1>7, <2>1, <2>2, SetsChild
  <2>4. Inserted(t, u, x, p, s)
    <3>1. Typed(u) /\ DOMAIN u.node = DOMAIN t.node \cup {x} /\ u.root = t.root /\ p # x
      BY <1>3, <1>7, <2>3 DEF SameNodes
    <3>2. Parent(u, x) = p /\ (\A r \in Sides : Child(u, x, r) = Nil) /\ Red(u, x)
      BY <1>3, <1>4, <2>3, <3>1
    <3>3. ASSUME NEW m \in DOMAIN t.node
          PROVE  /\ Parent(u, m) = Parent(t, m)
                 /\ \A r \in Sides : Child(u, m, r) = IF m = p /\ r = s THEN x ELSE Child(t, m, r)
                 /\ Red(u, m) <=> Red(t, m)
      <4>1. m # x /\ m \in DOMAIN v.node
        BY <1>3
      <4>2. /\ Parent(v, m) = Parent(t, m)
            /\ \A r \in Sides : Child(v, m, r) = Child(t, m, r)
            /\ Red(v, m) <=> Red(t, m)
        BY <1>a, <4>1, Zenon
      <4> QED BY <2>3, <4>1, <4>2
    <3> QED BY <1>7, <3>1, <3>2, <3>3 DEF Inserted
  <2> QED BY <1>5, <2>2, <2>4
<1> QED BY <1>6, <1>7

\* The new leaf belongs where it is.
LEMMA InsertedShape ==
  ASSUME NEW t, NEW S, Shape(t, S), Tidy(t), NEW x \in Contents, x \notin Nodes(t),
         NEW p, NEW s, NEW u, Inserted(t, u, x, p, s),
         IF t.root = Nil THEN p = Nil ELSE Place(t, S, x, p) /\ s = Side(p, x)
  PROVE  /\ \E S2 : Shape(u, S2)
         /\ Tidy(u) /\ Nodes(u) = Nodes(t) \cup {x}
<1>1. /\ DOMAIN t.node = Nodes(t) /\ Nil \notin Nodes(t) /\ Temp \notin Nodes(t) /\ x # Nil /\ x # Temp
      /\ x \in Nat /\ \A m \in Nodes(t) : x # m
      /\ t.root \in Nodes(t) \cup {Nil} /\ (t.root = Nil <=> Nodes(t) = {})
  BY TidyNodes, NamesAre, ContentsAssumption DEF Shape, Linked
<1>2. /\ Typed(u) /\ DOMAIN u.node = DOMAIN t.node \cup {x}
      /\ u.root = (IF p = Nil THEN x ELSE t.root)
      /\ Parent(u, x) = p /\ (\A r \in Sides : Child(u, x, r) = Nil) /\ Red(u, x)
      /\ \A m \in Nodes(t) :
           /\ Parent(u, m) = Parent(t, m)
           /\ \A r \in Sides : Child(u, m, r) = IF m = p /\ r = s THEN x ELSE Child(t, m, r)
  BY <1>1 DEF Inserted
<1>3. Tidy(u) /\ Nodes(u) = Nodes(t) \cup {x}
  BY <1>1, <1>2 DEF Tidy, Nodes
<1>4. /\ S \in [Nodes(t) \cup {Nil} -> SUBSET Nodes(t)] /\ S[Nil] = {}
      /\ S[t.root] = Nodes(t)
  BY DEF Shape, Sorted
<1>5. PICK T : T = [m \in Nodes(u) \cup {Nil} |->
                      IF m = x THEN {x} ELSE IF p \in S[m] THEN S[m] \cup {x} ELSE S[m]]
  OBVIOUS
<1>6. CASE t.root = Nil
  <2>1. Nodes(t) = {} /\ p = Nil /\ Nodes(u) = {x} /\ u.root = x /\ T = [m \in {x, Nil} |-> IF m = x THEN {x} ELSE {}]
    <3>1. Nodes(t) = {} /\ p = Nil /\ Nodes(u) = {x} /\ u.root = x
      BY <1>1, <1>2, <1>3, <1>6
    <3>2. \A m \in Nodes(u) \cup {Nil} : T[m] = IF m = x THEN {x} ELSE {}
      BY <1>1, <1>4, <1>5, <3>1
    <3> QED BY <1>5, <3>1, <3>2
  <2>2. Linked(u) /\ Loose(u)
    BY <1>1, <1>2, <1>3, <2>1, SidesAre DEF Linked, Loose, Tidy
  <2>3. Sorted(u, T)
    BY <1>1, <1>2, <2>1, SidesAre DEF Sorted
  <2> QED BY <1>2, <1>3, <2>2, <2>3 DEF Shape
<1>7. CASE t.root # Nil
  <2>1. /\ p \in Nodes(t) /\ s \in Sides /\ Child(t, p, s) = Nil
        /\ \A m \in Nodes(t), r \in Sides : p \in S[Child(t, m, r)] => Before(r, x, m)
        /\ s = Side(p, x) /\ p # Nil
    BY <1>1, <1>7 DEF Place
  <2>2. Before(s, x, p)
    BY <1>1, <2>1, SideIs, NamesAre DEF Shape
  <2>3. u.root = t.root /\ x \notin {Nil}
    BY <1>1, <1>2, <2>1
  <2>4. ASSUME NEW m \in Nodes(t), NEW r \in Sides
        PROVE  /\ Child(u, m, r) \in Nodes(u) \cup {Nil}
               /\ Child(u, m, r) # Nil => Parent(u, Child(u, m, r)) = m
               /\ T[Child(u, m, r)] = IF p \in S[Child(t, m, r)] \/ (m = p /\ r = s)
                                        THEN S[Child(t, m, r)] \cup {x} ELSE S[Child(t, m, r)]
    <3>1. PICK d \in Nodes(t) \cup {Nil} : d = Child(t, m, r) /\ (d # Nil => Parent(t, d) = m)
      BY NodeIs DEF NodeOf
    <3>2. CASE m = p /\ r = s
      <4>1. Child(u, m, r) = x /\ d = Nil
        BY <1>2, <2>1, <3>1, <3>2
      <4>2. T[x] = {x} /\ S[d] = {}
        BY <1>3, <1>4, <1>5, <4>1
      <4> QED BY <1>2, <1>3, <3>1, <3>2, <4>1, <4>2
    <3>3. CASE ~(m = p /\ r = s)
      <4>1. Child(u, m, r) = d
        BY <1>2, <3>1, <3>3
      <4>2. T[d] = IF p \in S[d] THEN S[d] \cup {x} ELSE S[d]
        BY <1>1, <1>3, <1>5
      <4> QED BY <1>2, <1>3, <3>1, <3>3, <4>1, <4>2
    <3> QED BY <3>2, <3>3
  <2>5. Linked(u)
    <3>1. ASSUME NEW m \in Nodes(u)
          PROVE  /\ Parent(u, m) \in Nodes(u) \cup {Nil}
                 /\ Parent(u, m) = Nil <=> m = u.root
                 /\ Parent(u, m) # Nil => \E r \in Sides : Child(u, Parent(u, m), r) = m
                 /\ \A r \in Sides :
                      /\ Child(u, m, r) \in Nodes(u) \cup {Nil}
                      /\ Child(u, m, r) # Nil => Parent(u, Child(u, m, r)) = m
      <4>1. CASE m = x
        BY <1>1, <1>2, <1>3, <2>1, <2>3, <4>1
      <4>2. CASE m # x
        <5>1. m \in Nodes(t) /\ Parent(u, m) = Parent(t, m)
          BY <1>2, <1>3, <4>2
        <5>2. Parent(t, m) \in Nodes(t) \cup {Nil} /\ (Parent(t, m) = Nil <=> m = t.root) /\ m # Nil
          BY <5>1, NodeIs DEF NodeOf
        <5>3. Parent(u, m) # Nil => \E r \in Sides : Child(u, Parent(u, m), r) = m
          <6>1. SUFFICES ASSUME NEW q \in Nodes(t), q = Parent(t, m), q # Nil
                         PROVE  \E r \in Sides : Child(u, q, r) = m
            BY <5>1, <5>2
          <6>2. PICK r \in Sides : Child(t, q, r) = m
            BY <5>1, <6>1, ParentFacts, SidesAre
          <6>3. Child(u, q, r) = m
            BY <1>2, <2>1, <5>2, <6>2
          <6> QED BY <6>3
        <5> QED BY <1>3, <2>3, <2>4, <5>1, <5>2, <5>3
      <4> QED BY <4>1, <4>2
    <3> QED BY <1>1, <1>3, <2>1, <2>3, <3>1 DEF Linked
  <2>6. Sorted(u, T)
    <3>1. ASSUME NEW m \in Nodes(u) \cup {Nil} PROVE T[m] \in SUBSET Nodes(u)
      BY <1>3, <1>4, <1>5
    <3>2. T[Nil] = {} /\ T[u.root] = Nodes(u)
      BY <1>1, <1>3, <1>4, <1>5, <1>7, <2>1, <2>3
    <3>3. ASSUME NEW m \in Nodes(u)
          PROVE  /\ T[m] = {m} \cup T[Child(u, m, LEFT)] \cup T[Child(u, m, RIGHT)]
                 /\ \A r \in Sides : \A k \in T[Child(u, m, r)] : Before(r, k, m)
      <4>1. CASE m = x
        BY <1>1, <1>2, <1>3, <1>5, <3>2, <4>1, SidesAre
      <4>2. CASE m # x
        <5>1. m \in Nodes(t) /\ NodeOf(t, S, m)
          BY <1>3, <4>2, NodeIs
        <5>2. ASSUME NEW r \in Sides, NEW k \in T[Child(u, m, r)] PROVE Before(r, k, m)
          <6>1. CASE k \in S[Child(t, m, r)]
            BY <5>1, <6>1 DEF NodeOf
          <6>2. CASE k \notin S[Child(t, m, r)]
            <7>1. k = x /\ (p \in S[Child(t, m, r)] \/ (m = p /\ r = s))
              <8>1. PICK Y : Y = S[Child(t, m, r)]
                OBVIOUS
              <8>2. T[Child(u, m, r)] = IF p \in Y \/ (m = p /\ r = s) THEN Y \cup {x} ELSE Y
                BY <2>4, <5>1, <8>1
              <8>3. k \in T[Child(u, m, r)] /\ k \notin Y
                BY <5>2, <6>2, <8>1
              <8> QED BY <8>1, <8>2, <8>3
            <7> QED BY <2>1, <2>2, <5>1, <7>1
          <6> QED BY <6>1, <6>2
        <5>3. T[m] = IF p \in S[m] THEN S[m] \cup {x} ELSE S[m]
          BY <1>3, <1>5, <4>2, <5>1
        <5>4. S[m] = {m} \cup S[Child(t, m, LEFT)] \cup S[Child(t, m, RIGHT)]
          BY <5>1 DEF NodeOf
        <5>5. s = LEFT \/ s = RIGHT
          BY <2>1, SidesAre
        <5>6. /\ T[Child(u, m, LEFT)] = IF p \in S[Child(t, m, LEFT)] \/ (m = p /\ LEFT = s)
                                           THEN S[Child(t, m, LEFT)] \cup {x} ELSE S[Child(t, m, LEFT)]
              /\ T[Child(u, m, RIGHT)] = IF p \in S[Child(t, m, RIGHT)] \/ (m = p /\ RIGHT = s)
                                           THEN S[Child(t, m, RIGHT)] \cup {x} ELSE S[Child(t, m, RIGHT)]
          BY <2>4, <5>1, SidesAre
        <5>7. T[m] = {m} \cup T[Child(u, m, LEFT)] \cup T[Child(u, m, RIGHT)]
          BY <5>3, <5>4, <5>5, <5>6
        <5> QED BY <5>2, <5>7
      <4> QED BY <4>1, <4>2
    <3>4. T \in [Nodes(u) \cup {Nil} -> SUBSET Nodes(u)]
      BY <1>5, <3>1
    <3> QED BY <3>2, <3>3, <3>4 DEF Sorted
  <2>7. Loose(u)
    BY <1>3 DEF Loose, Tidy
  <2> QED BY <1>2, <1>3, <2>5, <2>6, <2>7 DEF Shape
<1> QED BY <1>3, <1>6, <1>7

\* A red leaf keeps the black nodes in balance.
LEMMA InsertedAdds ==
  ASSUME NEW t, NEW S, NEW B, Sound(t, S, B), Tidy(t), NEW x \in Contents, x \notin Nodes(t),
         NEW p, NEW s, NEW u, Inserted(t, u, x, p, s),
         IF t.root = Nil THEN p = Nil ELSE Place(t, S, x, p) /\ s = Side(p, x)
  PROVE  /\ \E S2, B2 : Adding(u, S2, B2, x)
         /\ Tidy(u) /\ Nodes(u) = Nodes(t) \cup {x}
<1>0. Shape(t, S) /\ Heights(t, B, NoEdge) /\ NoRedPair(t, Nil, Nil) /\ RootBlack(t)
  BY DEF Sound
<1>1. /\ \E S2 : Shape(u, S2)
      /\ Tidy(u) /\ Nodes(u) = Nodes(t) \cup {x}
  BY <1>0, InsertedShape
<1>2. PICK S2 : Shape(u, S2)
  BY <1>1
<1>3. /\ DOMAIN t.node = Nodes(t) /\ Nil \notin Nodes(t) /\ x # Nil
      /\ \A m \in Nodes(t) : x # m
      /\ t.root \in Nodes(t) \cup {Nil} /\ (t.root = Nil <=> Nodes(t) = {})
  BY <1>0, TidyNodes, NamesAre, ContentsAssumption DEF Shape, Linked
<1>4. u.root = (IF p = Nil THEN x ELSE t.root) /\ (\A r \in Sides : Child(u, x, r) = Nil) /\ Red(u, x)
  BY DEF Inserted
<1>5. \A m \in Nodes(t) : \A r \in Sides : Child(u, m, r) = IF m = p /\ r = s THEN x ELSE Child(t, m, r)
  BY <1>3 DEF Inserted
<1>6. \A m \in Nodes(t) : Red(u, m) <=> Red(t, m)
  BY <1>3 DEF Inserted
<1>7. p = Nil \/ (p \in Nodes(t) /\ s \in Sides /\ Child(t, p, s) = Nil /\ t.root # Nil)
  BY <1>3 DEF Place
<1>8. /\ B \in [Nodes(t) \cup {Nil} -> Nat] /\ B[Nil] = 0
      /\ \A m \in Nodes(t), r \in Sides : B[m] = Weight(t, m) + Extra(m, r, NoEdge) + B[Child(t, m, r)]
  BY <1>0 DEF Heights
<1>9. PICK C : C = [m \in Nodes(u) \cup {Nil} |-> IF m = x THEN 0 ELSE B[m]]
  OBVIOUS
<1>10. C \in [Nodes(u) \cup {Nil} -> Nat] /\ C[Nil] = 0
  <2>1. \A m \in Nodes(u) \cup {Nil} : C[m] \in Nat
    BY <1>1, <1>8, <1>9
  <2> QED BY <1>3, <1>8, <1>9, <2>1
<1>11. /\ Weight(u, x) = 0
       /\ \A m \in Nodes(t) : Weight(u, m) = Weight(t, m) /\ Weight(t, m) \in {0, 1}
       /\ \A m \in Nodes(u), r \in Sides : Extra(m, r, NoEdge) = 0
  <2>1. Weight(u, x) = 0
    BY <1>4 DEF Weight
  <2>2. \A m \in Nodes(t) : Weight(u, m) = Weight(t, m) /\ Weight(t, m) \in {0, 1}
    BY <1>6 DEF Weight
  <2>3. Nil \notin Nodes(u)
    BY <1>1, <1>3
  <2>4. \A m \in Nodes(u), r \in Sides : Extra(m, r, NoEdge) = 0
    BY <2>3 DEF Extra, NoEdge
  <2> QED BY <2>1, <2>2, <2>4
<1>12. ASSUME NEW m \in Nodes(u), NEW r \in Sides
       PROVE  C[m] = Weight(u, m) + Extra(m, r, NoEdge) + C[Child(u, m, r)]
  <2>1. CASE m = x
    BY <1>4, <1>9, <1>10, <1>11, <2>1
  <2>2. CASE m # x
    <3>1. m \in Nodes(t) /\ C[m] = B[m]
      BY <1>1, <1>9, <2>2
    <3>2. PICK d \in Nodes(t) \cup {Nil} : d = Child(t, m, r)
      BY <1>0, <3>1, NodeIs DEF NodeOf
    <3>3. B[m] = Weight(t, m) + Extra(m, r, NoEdge) + B[d] /\ Extra(m, r, NoEdge) = 0
          /\ B[d] \in Nat /\ B[m] \in Nat
      BY <1>8, <1>11, <3>1, <3>2
    <3>4. CASE m = p /\ r = s
      <4>1. d = Nil /\ Child(u, m, r) = x
        BY <1>3, <1>5, <1>7, <3>1, <3>2, <3>4
      <4>2. C[x] = 0 /\ B[d] = 0
        BY <1>1, <1>8, <1>9, <4>1
      <4> QED BY <1>11, <3>1, <3>3, <4>1, <4>2
    <3>5. CASE ~(m = p /\ r = s)
      <4>1. Child(u, m, r) = d /\ C[d] = B[d]
        BY <1>1, <1>3, <1>5, <1>9, <3>1, <3>2, <3>5
      <4> QED BY <1>11, <3>1, <3>3, <4>1
    <3> QED BY <3>4, <3>5
  <2> QED BY <2>1, <2>2
<1>13. Heights(u, C, NoEdge)
  BY <1>10, <1>12 DEF Heights
<1>14. NoRedPair(u, Nil, x)
  <2>1. SUFFICES ASSUME NEW m \in Nodes(u), NEW r \in Sides, NEW d, d = Child(u, m, r),
                        Red(u, m), d # Nil, d # x
                 PROVE  ~Red(u, d)
    BY DEF NoRedPair
  <2>2. m # x
    BY <1>4, <2>1
  <2>3. m \in Nodes(t) /\ d = Child(t, m, r)
    BY <1>1, <1>5, <2>1, <2>2
  <2>4. d \in Nodes(t) /\ m # Nil
    BY <1>0, <2>1, <2>3, NodeIs DEF NodeOf
  <2> QED BY <1>0, <1>6, <2>1, <2>3, <2>4 DEF NoRedPair
<1>15. u.root # x => RootBlack(u)
  <2>1. SUFFICES ASSUME u.root # x PROVE RootBlack(u)
    OBVIOUS
  <2>2. u.root = t.root /\ t.root \in Nodes(t)
    BY <1>3, <1>4, <1>7, <2>1
  <2>3. ~Red(t, t.root)
    BY <1>0, <1>3, <2>2 DEF RootBlack
  <2> QED BY <1>6, <2>2, <2>3 DEF RootBlack
<1>16. Adding(u, S2, C, x)
  BY <1>1, <1>2, <1>4, <1>13, <1>14, <1>15 DEF Adding
<1> QED BY <1>1, <1>16

LEMMA InsertAdds ==
  ASSUME NEW t, NEW S, NEW B, Sound(t, S, B), Tidy(t), NEW x \in Contents, x \notin Nodes(t),
         NEW u, u = Insert(t, x)
  PROVE  /\ \E S2, B2 : Adding(u, S2, B2, x)
         /\ Tidy(u) /\ Nodes(u) = Nodes(t) \cup {x}
<1>1. Shape(t, S) /\ Typed(t) /\ DOMAIN t.node = Nodes(t) /\ Nil \notin Nodes(t)
  BY TidyNodes, NamesAre DEF Sound, Shape
<1>2. PICK p : p = LastOnPath(t, x)
  OBVIOUS
<1>3. IF t.root = Nil THEN p = Nil ELSE Place(t, S, x, p)
  BY <1>1, <1>2, FindsPlace
<1>4. p = Nil \/ (p \in DOMAIN t.node /\ Side(p, x) \in Sides)
  BY <1>1, <1>3 DEF Place
<1>5. Inserted(t, u, x, p, Side(p, x))
  BY <1>1, <1>2, <1>4, Inserts
<1>6. IF t.root = Nil THEN p = Nil ELSE Place(t, S, x, p) /\ Side(p, x) = Side(p, x)
  BY <1>3
<1> QED BY <1>5, <1>6, InsertedAdds

-----------------------------------------------------------------------------
(* The least node, and the next one *)

LeastStep(t, f) ==
  f = [m \in Pointers(t) |-> IF m = Nil \/ Child(t, m, LEFT) = Nil THEN m ELSE f[Child(t, m, LEFT)]]

LEMMA LeastUnfolds ==
  ASSUME NEW t, NEW n, NEW w, LeastStep(t, w)
  PROVE  \E f : LeastStep(t, f) /\ TreeMinimum(t, n) = f[n]
<1>1. PICK f : f = CHOOSE g : LeastStep(t, g)
  OBVIOUS
<1>2. LeastStep(t, f)
  BY <1>1, Zenon
<1>3. TreeMinimum(t, n) = f[n]
  BY <1>1, Zenon DEF TreeMinimum, LeastStep
<1> QED BY <1>2, <1>3

LEMMA LeastExists ==
  ASSUME NEW t, NEW S, Shape(t, S), Tidy(t)
  PROVE  \E w : LeastStep(t, w)
<1>1. Pointers(t) = Nodes(t) \cup {Nil} /\ Nil \notin Nodes(t)
  BY TidyNodes, NamesAre DEF Shape
<1>2. \A n \in Nodes(t) : Child(t, n, LEFT) \in Nodes(t) \cup {Nil}
  BY NodeIs, SidesAre DEF NodeOf
<1>3. PICK next : next = [n \in Nodes(t) |-> Child(t, n, LEFT)]
  OBVIOUS
<1>4. next \in [Nodes(t) -> Nodes(t) \cup {Nil}]
  BY <1>2, <1>3
<1>5. PICK v : Follows(Nodes(t), next, v)
  BY <1>1, <1>4, FollowEnds
<1>6. \A n \in Nodes(t) : v[n] = IF Child(t, n, LEFT) = Nil THEN n ELSE v[Child(t, n, LEFT)]
  BY <1>3, <1>5 DEF Follows
<1>7. PICK w : w = [n \in Pointers(t) |-> IF n = Nil THEN Nil ELSE v[n]]
  OBVIOUS
<1>8. ASSUME NEW m \in Pointers(t)
      PROVE  w[m] = IF m = Nil \/ Child(t, m, LEFT) = Nil THEN m ELSE w[Child(t, m, LEFT)]
  BY <1>1, <1>2, <1>6, <1>7
<1>9. w = [m \in Pointers(t) |-> w[m]]
  BY <1>7
<1>10. w = [m \in Pointers(t) |-> IF m = Nil \/ Child(t, m, LEFT) = Nil THEN m ELSE w[Child(t, m, LEFT)]]
  BY <1>8, <1>9
<1> QED BY <1>10 DEF LeastStep

LEMMA Minimum ==
  ASSUME NEW t, NEW S, Shape(t, S), Tidy(t), NEW n \in Nodes(t)
  PROVE  /\ TreeMinimum(t, n) \in S[n]
         /\ Child(t, TreeMinimum(t, n), LEFT) = Nil
         /\ \A a \in S[n] : TreeMinimum(t, n) <= a
<1>1. Pointers(t) = Nodes(t) \cup {Nil} /\ Nil \notin Nodes(t) /\ \A a \in Nodes(t) : a \in Nat
  BY TidyNodes, NamesAre DEF Shape
<1>2. PICK f : LeastStep(t, f) /\ TreeMinimum(t, n) = f[n]
  BY LeastExists, LeastUnfolds
<1>3. \A m \in Nodes(t) : f[m] = IF Child(t, m, LEFT) = Nil THEN m ELSE f[Child(t, m, LEFT)]
  BY <1>1, <1>2 DEF LeastStep
<1>4. PICK X : X = {m \in Nodes(t) : ~(f[m] \in S[m] /\ Child(t, f[m], LEFT) = Nil /\ \A a \in S[m] : f[m] <= a)}
  OBVIOUS
<1>5. ASSUME X # {} PROVE FALSE
  <2>1. PICK m \in X : \A s \in Sides : Child(t, m, s) \notin X
    BY <1>4, <1>5, LowestNode
  <2>2. m \in Nodes(t) /\ NodeOf(t, S, m)
    BY <1>4, <2>1, NodeIs
  <2>3. PICK c \in Nodes(t) \cup {Nil} : c = Child(t, m, LEFT) /\ c \notin X
    BY <2>1, <2>2, SidesAre DEF NodeOf
  <2>4. PICK d : d = Child(t, m, RIGHT)
    OBVIOUS
  <2>5. S[m] = {m} \cup S[c] \cup S[d] /\ S[m] \subseteq Nodes(t)
        /\ (\A a \in S[c] : a < m) /\ (\A a \in S[d] : m < a) /\ S[Nil] = {}
    <3>1. (\A a \in S[c] : Before(LEFT, a, m)) /\ (\A a \in S[d] : Before(RIGHT, a, m))
      BY <2>2, <2>3, <2>4, SidesAre DEF NodeOf
    <3>2. (\A a \in S[c] : a < m) /\ (\A a \in S[d] : m < a)
      BY <3>1, SidesAre DEF Before
    <3> QED BY <2>2, <2>3, <2>4, <3>2 DEF NodeOf
  <2>6. CASE c = Nil
    <3>1. f[m] = m
      BY <1>3, <2>2, <2>3, <2>6
    <3>2. \A a \in S[m] : m <= a
      BY <1>1, <2>2, <2>5, <2>6
    <3>3. PICK e : e = f[m] /\ e = m
      BY <3>1
    <3>4. e \in S[m] /\ Child(t, e, LEFT) = Nil /\ \A a \in S[m] : e <= a
      BY <2>2, <2>3, <2>6, <3>2, <3>3 DEF NodeOf
    <3> QED BY <1>4, <2>1, <3>3, <3>4
  <2>7. CASE c # Nil
    <3>1. f[m] = f[c] /\ c \in Nodes(t)
      BY <1>3, <2>2, <2>3, <2>7
    <3>2. PICK e : e = f[c]
      OBVIOUS
    <3>3. e \in S[c] /\ Child(t, e, LEFT) = Nil /\ \A a \in S[c] : e <= a
      BY <1>4, <2>3, <3>1, <3>2
    <3>4. e \in S[m] /\ \A a \in S[m] : e <= a
      BY <1>1, <2>2, <2>5, <3>3
    <3> QED BY <1>4, <2>1, <3>1, <3>2, <3>3, <3>4
  <2> QED BY <2>6, <2>7
<1> QED BY <1>2, <1>4, <1>5

ClimbStep(t, f) ==
  f = [m \in DOMAIN t.node |-> IF Parent(t, m) # Nil /\ m = Child(t, Parent(t, m), RIGHT)
                                 THEN f[Parent(t, m)] ELSE Parent(t, m)]

LEMMA ClimbUnfolds ==
  ASSUME NEW t, NEW n, NEW w, ClimbStep(t, w), Child(t, n, RIGHT) = Nil
  PROVE  \E f : ClimbStep(t, f) /\ TreeSuccessor(t, n) = f[n]
<1>1. PICK f : f = CHOOSE g : ClimbStep(t, g)
  OBVIOUS
<1>2. ClimbStep(t, f)
  BY <1>1, Zenon
<1>3. TreeSuccessor(t, n) = f[n]
  BY <1>1, Zenon DEF TreeSuccessor, ClimbStep
<1> QED BY <1>2, <1>3

LEMMA ClimbExists ==
  ASSUME NEW t, NEW S, Shape(t, S), Tidy(t)
  PROVE  \E w : ClimbStep(t, w)
<1>1. DOMAIN t.node = Nodes(t) /\ Nil \notin Nodes(t)
  BY TidyNodes, NamesAre DEF Shape
<1>2. \A n \in Nodes(t) : Parent(t, n) \in Nodes(t) \cup {Nil}
  BY NodeIs DEF NodeOf
<1>3. PICK next : next = [n \in Nodes(t) |-> IF Parent(t, n) # Nil /\ n = Child(t, Parent(t, n), RIGHT)
                                               THEN Parent(t, n) ELSE Nil]
  OBVIOUS
<1>4. next \in [Nodes(t) -> Nodes(t) \cup {Nil}]
  BY <1>2, <1>3
<1>5. PICK v : Follows(Nodes(t), next, v)
  BY <1>1, <1>4, FollowEnds
<1>6. \A n \in Nodes(t) : v[n] = IF next[n] = Nil THEN n ELSE v[next[n]]
  BY <1>5 DEF Follows
<1>7. PICK w : w = [n \in Nodes(t) |-> Parent(t, v[n])]
  OBVIOUS
<1>8. ASSUME NEW m \in Nodes(t)
      PROVE  w[m] = IF Parent(t, m) # Nil /\ m = Child(t, Parent(t, m), RIGHT) THEN w[Parent(t, m)] ELSE Parent(t, m)
  BY <1>1, <1>2, <1>3, <1>6, <1>7
<1>9. w = [m \in Nodes(t) |-> w[m]]
  BY <1>7
<1>10. w = [m \in DOMAIN t.node |-> IF Parent(t, m) # Nil /\ m = Child(t, Parent(t, m), RIGHT)
                                      THEN w[Parent(t, m)] ELSE Parent(t, m)]
  BY <1>1, <1>8, <1>9
<1> QED BY <1>10 DEF ClimbStep

\* What is next after all that is below m.
Next1(t, S, m, r) ==
  /\ r = Nil => \A k \in Nodes(t) \ S[m] : ~\A a \in S[m] : a < k
  /\ r # Nil => /\ r \in Nodes(t)
                /\ \A a \in S[m] : a < r
                /\ \A k \in Nodes(t) \ S[m] : (\A a \in S[m] : a < k) => r <= k

LEMMA ClimbIs ==
  ASSUME NEW t, NEW S, Shape(t, S), Tidy(t), NEW f, ClimbStep(t, f), NEW n \in Nodes(t)
  PROVE  Next1(t, S, n, f[n])
<1>1. DOMAIN t.node = Nodes(t) /\ Nil \notin Nodes(t) /\ (\A a \in Nodes(t) : a \in Nat)
      /\ S[t.root] = Nodes(t)
  BY TidyNodes, NamesAre DEF Shape, Sorted
<1>2. \A m \in Nodes(t) : f[m] = IF Parent(t, m) # Nil /\ m = Child(t, Parent(t, m), RIGHT)
                                   THEN f[Parent(t, m)] ELSE Parent(t, m)
  BY <1>1 DEF ClimbStep
<1>3. PICK X : X = {m \in Nodes(t) : ~Next1(t, S, m, f[m])}
  OBVIOUS
<1>4. ASSUME X # {} PROVE FALSE
  <2>1. PICK m \in X : Parent(t, m) \notin X
    BY <1>3, <1>4, HighestNode
  <2>2. m \in Nodes(t) /\ NodeOf(t, S, m) /\ m \in S[m]
    BY <1>3, <2>1, NodeIs DEF NodeOf
  <2>3. PICK p \in Nodes(t) \cup {Nil} : p = Parent(t, m) /\ p \notin X
    BY <2>1, <2>2 DEF NodeOf
  <2>4. CASE p = Nil
    <3>1. m = t.root /\ f[m] = Nil
      BY <1>2, <2>2, <2>3, <2>4 DEF NodeOf
    <3>2. Nodes(t) \ S[m] = {}
      BY <1>1, <3>1
    <3>3. Next1(t, S, m, f[m])
      BY <3>1, <3>2 DEF Next1
    <3> QED BY <1>3, <2>1, <3>3
  <2>5. CASE p # Nil
    <3>1. p \in Nodes(t) /\ NodeOf(t, S, p)
      BY <2>3, <2>5, NodeIs
    <3>2. PICK c, d : c = Child(t, p, LEFT) /\ d = Child(t, p, RIGHT)
      OBVIOUS
    <3>3. S[p] = {p} \cup S[c] \cup S[d] /\ S[p] \subseteq Nodes(t)
          /\ (\A a \in S[c] : a < p) /\ (\A a \in S[d] : p < a)
      <4>1. (\A a \in S[c] : Before(LEFT, a, p)) /\ (\A a \in S[d] : Before(RIGHT, a, p))
        BY <3>1, <3>2, SidesAre DEF NodeOf
      <4>2. (\A a \in S[c] : a < p) /\ (\A a \in S[d] : p < a)
        BY <4>1, SidesAre DEF Before
      <4> QED BY <3>1, <3>2, <4>2 DEF NodeOf
    <3>4. \A k \in Nodes(t) \ S[p] : (\A a \in S[p] : a < k) \/ (\A a \in S[p] : k < a)
      <4>1. SUFFICES ASSUME NEW k \in Nodes(t), k \notin S[p]
                     PROVE  (\A a \in S[p] : a < k) \/ (\A a \in S[p] : k < a)
        OBVIOUS
      <4>2. PICK s \in Sides : \A a \in S[p] : Before(s, k, a)
        BY <3>1, <4>1, Interval
      <4> QED BY <4>2, SidesAre DEF Before
    <3>5. m = c \/ m = d
      BY <2>2, <2>3, <2>5, <3>2, ParentFacts
    <3>6. CASE m = d
      <4>1. f[m] = f[p] /\ Next1(t, S, p, f[p])
        BY <1>2, <1>3, <2>2, <2>3, <2>5, <3>1, <3>2, <3>6
      <4>2. PICK r : r = f[p]
        OBVIOUS
      <4>3. \A k \in S[p] : k \notin S[m] => k < m
        BY <1>1, <2>2, <3>3, <3>6
      <4>4. ASSUME NEW k \in Nodes(t) \ S[m], \A a \in S[m] : a < k
            PROVE  k \notin S[p] /\ \A a \in S[p] : a < k
        <5>1. m < k /\ k \in Nat /\ m \in Nat
          BY <1>1, <2>2, <4>4
        <5>2. k \notin S[p]
          BY <4>3, <4>4, <5>1
        <5>3. m \in S[p]
          BY <2>2, <3>3, <3>6
        <5> QED BY <3>4, <4>4, <5>1, <5>2, <5>3
      <4>5. S[m] \subseteq S[p]
        BY <3>3, <3>6
      <4>6. Next1(t, S, m, r)
        <5>1. CASE r = Nil
          BY <4>1, <4>2, <4>4, <5>1 DEF Next1
        <5>2. CASE r # Nil
          <6>1. r \in Nodes(t) /\ \A a \in S[m] : a < r
            BY <4>1, <4>2, <4>5, <5>2 DEF Next1
          <6>2. ASSUME NEW k \in Nodes(t) \ S[m], \A a \in S[m] : a < k PROVE r <= k
            BY <4>1, <4>2, <4>4, <5>2, <6>2 DEF Next1
          <6> QED BY <5>2, <6>1, <6>2 DEF Next1
        <5> QED BY <5>1, <5>2
      <4> QED BY <1>3, <2>1, <4>1, <4>2, <4>6
    <3>7. CASE m = c /\ m # d
      <4>1. f[m] = p
        BY <1>2, <2>2, <2>3, <2>5, <3>2, <3>7
      <4>2. \A a \in S[m] : a < p
        BY <3>3, <3>7
      <4>3. ASSUME NEW k \in Nodes(t) \ S[m], \A a \in S[m] : a < k PROVE p <= k
        <5>1. m < k /\ k \in Nat /\ m \in Nat /\ p \in Nat
          BY <1>1, <2>2, <3>1, <4>3
        <5>2. CASE k \in S[p]
          <6>1. k = p \/ p < k
            BY <3>3, <3>7, <4>3, <5>2
          <6> QED BY <5>1, <6>1
        <5>3. CASE k \notin S[p]
          <6>1. p \in S[p] /\ m \in S[p]
            BY <2>2, <3>3, <3>7
          <6>2. (\A a \in S[p] : a < k) \/ (\A a \in S[p] : k < a)
            BY <3>4, <4>3, <5>3
          <6>3. ~(k < m)
            BY <5>1
          <6>4. p < k
            BY <6>1, <6>2, <6>3
          <6> QED BY <5>1, <6>4
        <5> QED BY <5>2, <5>3
      <4>4. Next1(t, S, m, p)
        BY <2>5, <3>1, <4>2, <4>3 DEF Next1
      <4> QED BY <1>3, <2>1, <4>1, <4>4
    <3> QED BY <3>5, <3>6, <3>7
  <2> QED BY <2>4, <2>5
<1> QED BY <1>3, <1>4

\* TreeSuccessor is the least node that is larger, if there is one.
LEMMA Successor ==
  ASSUME NEW t, NEW S, Shape(t, S), Tidy(t), NEW n \in Nodes(t), NEW r, r = TreeSuccessor(t, n)
  PROVE  /\ r = Nil => \A k \in Nodes(t) : k <= n
         /\ r # Nil => r \in Nodes(t) /\ n < r /\ \A k \in Nodes(t) : n < k => r <= k
         /\ Child(t, n, RIGHT) # Nil => r \in S[Child(t, n, RIGHT)] /\ Child(t, r, LEFT) = Nil
<1>1. NodeOf(t, S, n) /\ Nil \notin Nodes(t) /\ \A a \in Nodes(t) : a \in Nat
  BY NodeIs, NamesAre DEF Shape
<1>2. PICK c, d : c = Child(t, n, LEFT) /\ d = Child(t, n, RIGHT)
  OBVIOUS
<1>3. S[n] = {n} \cup S[c] \cup S[d] /\ S[n] \subseteq Nodes(t) /\ d \in Nodes(t) \cup {Nil} /\ S[Nil] = {}
      /\ (\A a \in S[c] : a < n) /\ (\A a \in S[d] : n < a)
  <2>1. (\A a \in S[c] : Before(LEFT, a, n)) /\ (\A a \in S[d] : Before(RIGHT, a, n))
    BY <1>1, <1>2, SidesAre DEF NodeOf
  <2>2. (\A a \in S[c] : a < n) /\ (\A a \in S[d] : n < a)
    BY <2>1, SidesAre DEF Before
  <2> QED BY <1>1, <1>2, <2>2, SidesAre DEF NodeOf
<1>4. CASE d = Nil
  <2>1. PICK f : ClimbStep(t, f) /\ r = f[n]
    BY <1>2, <1>4, ClimbExists, ClimbUnfolds
  <2>2. Next1(t, S, n, r)
    BY <2>1, ClimbIs
  <2>3. \A a \in S[n] : a <= n
    BY <1>1, <1>3, <1>4
  <2>4. ASSUME NEW k \in Nodes(t), n < k PROVE k \notin S[n] /\ \A a \in S[n] : a < k
    BY <1>1, <1>3, <2>3, <2>4
  <2>5. CASE r = Nil
    <3>1. \A k \in Nodes(t) : ~(n < k)
      BY <2>2, <2>4, <2>5 DEF Next1
    <3> QED BY <1>1, <1>2, <1>4, <2>5, <3>1
  <2>6. CASE r # Nil
    <3>1. r \in Nodes(t) /\ n < r
      BY <1>3, <2>2, <2>6 DEF Next1
    <3>2. \A k \in Nodes(t) : n < k => r <= k
      BY <2>2, <2>4, <2>6 DEF Next1
    <3> QED BY <1>2, <1>4, <2>6, <3>1, <3>2
  <2> QED BY <2>5, <2>6
<1>5. CASE d # Nil
  <2>1. r = TreeMinimum(t, d)
    BY <1>2, <1>5, Zenon DEF TreeSuccessor
  <2>2. d \in Nodes(t)
    BY <1>3, <1>5
  <2>3. r \in S[d] /\ Child(t, r, LEFT) = Nil /\ \A a \in S[d] : r <= a
    BY <2>1, <2>2, Minimum
  <2>4. r \in Nodes(t) /\ n < r /\ r \in Nat /\ r \in S[n]
    BY <1>1, <1>3, <2>3
  <2>5. ASSUME NEW k \in Nodes(t), n < k PROVE r <= k
    <3>1. CASE k \in S[n]
      <4>1. k \in S[d]
        BY <1>1, <1>3, <2>5, <3>1
      <4> QED BY <2>3, <4>1
    <3>2. CASE k \notin S[n]
      <4>1. PICK s \in Sides : \A a \in S[n] : Before(s, k, a)
        BY <3>2, Interval
      <4>2. (\A a \in S[n] : a < k) \/ (\A a \in S[n] : k < a)
        BY <4>1, SidesAre DEF Before
      <4>3. n \in S[n] /\ ~(k < n)
        BY <1>1, <1>3, <2>5
      <4> QED BY <1>1, <2>4, <4>2, <4>3
    <3> QED BY <3>1, <3>2
  <2> QED BY <1>1, <1>2, <1>5, <2>3, <2>4, <2>5
<1> QED BY <1>4, <1>5

-----------------------------------------------------------------------------
(* A node leaves *)

\* c is the only child of r, or there is none.
OnlyChild(t, r, c) == \E side \in Sides : Child(t, r, side) = c /\ Child(t, r, Opposite(side)) = Nil

Unlinked(t, r, c, p) == ReplaceChild(SetParent(t, c, p), p, r, c)

\* d is t with r taken out: its child c hangs at its parent p.
Spliced(t, d, r, c, p) ==
  /\ Typed(d) /\ DOMAIN d.node = Nodes(t) \ {r}
  /\ d.root = IF p = Nil THEN c ELSE t.root
  /\ \A m \in Nodes(t) \ {r} :
       /\ Parent(d, m) = IF m = c THEN p ELSE Parent(t, m)
       /\ \A s \in Sides : Child(d, m, s) = IF Child(t, m, s) = r THEN c ELSE Child(t, m, s)
       /\ Red(d, m) <=> Red(t, m)

LEMMA Splices ==
  ASSUME NEW t, NEW S, Shape(t, S), Tidy(t), NEW r \in Nodes(t), NEW c, OnlyChild(t, r, c),
         NEW p, p = Parent(t, r), NEW d, d = Drop(Unlinked(t, r, c, p), r)
  PROVE  Spliced(t, d, r, c, p)
<1>1. DOMAIN t.node = Nodes(t) /\ Nil \notin Nodes(t) /\ Typed(t) /\ \A m \in Nodes(t) : m \in Links
  BY TidyNodes, NodeIs, NamesAre DEF Shape, NodeOf
<1>2. NodeOf(t, S, r)
  BY NodeIs
<1>3. c \in Nodes(t) \cup {Nil} /\ p \in Nodes(t) \cup {Nil} /\ c # r /\ p # r
  <2>1. c \in Nodes(t) \cup {Nil} /\ p \in Nodes(t) \cup {Nil} /\ c # r
    BY <1>1, <1>2 DEF OnlyChild, NodeOf
  <2>2. p # r
    BY <1>1, ParentFacts
  <2> QED BY <2>1, <2>2
<1>4. PICK v : v = SetParent(t, c, p)
  OBVIOUS
<1>5. p \in Links /\ c \in Links
  BY <1>1, <1>3 DEF Links
<1>6. /\ SameNodes(t, v) /\ v.root = t.root
      /\ \A m \in Nodes(t) : /\ Parent(v, m) = IF m = c THEN p ELSE Parent(t, m)
                             /\ \A s \in Sides : Child(v, m, s) = Child(t, m, s)
                             /\ Red(v, m) = Red(t, m)
  BY <1>1, <1>3, <1>4, <1>5, SetsParent
<1>7. DOMAIN v.node = Nodes(t) /\ Typed(v)
  BY <1>1, <1>6 DEF SameNodes
<1>8. p # Nil => /\ Child(v, p, LEFT) = r \/ Child(v, p, RIGHT) = r
                 /\ Child(v, p, LEFT) # Child(v, p, RIGHT)
  BY <1>1, <1>3, <1>6, ParentFacts, SidesAre
<1>9. PICK u : u = ReplaceChild(v, p, r, c)
  OBVIOUS
<1>10. /\ SameNodes(v, u)
       /\ u.root = IF p = Nil THEN c ELSE v.root
       /\ \A m \in DOMAIN v.node :
              /\ Parent(u, m) = Parent(v, m)
              /\ \A s \in Sides : Child(u, m, s) = IF m = p /\ Child(v, m, s) = r THEN c ELSE Child(v, m, s)
              /\ Red(u, m) = Red(v, m)
  BY <1>1, <1>3, <1>5, <1>7, <1>8, <1>9, ReplacesChild
<1>11. Typed(u) /\ DOMAIN u.node = Nodes(t)
  BY <1>7, <1>10 DEF SameNodes
<1>12. d = Drop(u, r)
  BY <1>4, <1>9 DEF Unlinked
<1>13. /\ Typed(d) /\ DOMAIN d.node = Nodes(t) \ {r} /\ d.root = u.root
       /\ \A m \in DOMAIN d.node : /\ Parent(d, m) = Parent(u, m)
                                   /\ \A s \in Sides : Child(d, m, s) = Child(u, m, s)
                                   /\ Red(d, m) <=> Red(u, m)
  BY <1>11, <1>12, Drops
<1>14. ASSUME NEW m \in Nodes(t) \ {r}
       PROVE  /\ Parent(d, m) = IF m = c THEN p ELSE Parent(t, m)
              /\ \A s \in Sides : Child(d, m, s) = IF Child(t, m, s) = r THEN c ELSE Child(t, m, s)
              /\ Red(d, m) <=> Red(t, m)
  <2>1. Parent(d, m) = IF m = c THEN p ELSE Parent(t, m)
    BY <1>6, <1>7, <1>10, <1>13
  <2>2. ASSUME NEW s \in Sides
        PROVE  Child(d, m, s) = IF Child(t, m, s) = r THEN c ELSE Child(t, m, s)
    <3>1. Child(t, m, s) = r => m = p
      BY <1>1, NodeIs DEF NodeOf
    <3> QED BY <1>6, <1>7, <1>10, <1>13, <3>1
  <2>3. Red(d, m) <=> Red(t, m)
    BY <1>6, <1>7, <1>10, <1>13
  <2> QED BY <2>1, <2>2, <2>3
<1>15. d.root = IF p = Nil THEN c ELSE t.root
  BY <1>6, <1>10, <1>13
<1> QED BY <1>13, <1>14, <1>15 DEF Spliced

Without(d, S, r) == [m \in Nodes(d) \cup {Nil} |-> S[m] \ {r}]

LEMMA SplicedShape ==
  ASSUME NEW t, NEW S, Shape(t, S), Tidy(t), NEW r \in Nodes(t), NEW c, OnlyChild(t, r, c),
         NEW p, p = Parent(t, r), NEW d, Spliced(t, d, r, c, p),
         NEW T, T = Without(d, S, r)
  PROVE  Shape(d, T) /\ Tidy(d) /\ Nodes(d) = Nodes(t) \ {r}
<1>0. T = [m \in Nodes(d) \cup {Nil} |-> S[m] \ {r}]
  BY DEF Without
<1> USE <1>0
<1>1. DOMAIN t.node = Nodes(t) /\ Nil \notin Nodes(t) /\ Temp \notin Nodes(t)
      /\ t.root \in Nodes(t) \cup {Nil} /\ S[t.root] = Nodes(t) /\ S[Nil] = {}
      /\ S \in [Nodes(t) \cup {Nil} -> SUBSET Nodes(t)]
  BY TidyNodes, NamesAre DEF Shape, Linked, Sorted
<1>2. NodeOf(t, S, r)
  BY NodeIs
<1>3. Nodes(d) = Nodes(t) \ {r} /\ Tidy(d) /\ DOMAIN d.node = Nodes(d)
  BY <1>1 DEF Spliced, Tidy, Nodes
<1>4. /\ Typed(d) /\ d.root = (IF p = Nil THEN c ELSE t.root)
      /\ \A m \in Nodes(d) :
           /\ Parent(d, m) = IF m = c THEN p ELSE Parent(t, m)
           /\ \A s \in Sides : Child(d, m, s) = IF Child(t, m, s) = r THEN c ELSE Child(t, m, s)
  BY <1>3 DEF Spliced
<1>5. /\ c \in Nodes(d) \cup {Nil} /\ S[r] = {r} \cup S[c] /\ r \notin S[c]
      /\ p \in Nodes(d) \cup {Nil} /\ (p = Nil <=> r = t.root)
      /\ c # Nil => Parent(t, c) = r
  <2>1. p # r
    BY <1>1, ParentFacts
  <2>2. PICK side \in Sides : Child(t, r, side) = c /\ Child(t, r, Opposite(side)) = Nil
    BY DEF OnlyChild
  <2>3. S[r] = {r} \cup S[c] /\ c # r /\ r \notin S[c] /\ c \in Nodes(t) \cup {Nil} /\ (c # Nil => Parent(t, c) = r)
    BY <1>1, <1>2, <2>2, SidesAre DEF NodeOf
  <2> QED BY <1>2, <1>3, <2>1, <2>3 DEF NodeOf
<1>6. ASSUME NEW m \in Nodes(d), NEW s \in Sides
      PROVE  /\ Child(d, m, s) \in Nodes(d) \cup {Nil}
             /\ Child(d, m, s) # Nil => Parent(d, Child(d, m, s)) = m
             /\ T[Child(d, m, s)] = S[Child(t, m, s)] \ {r}
  <2>1. m \in Nodes(t) /\ NodeOf(t, S, m) /\ m # r
    BY <1>3, NodeIs
  <2>2. PICK e \in Nodes(t) \cup {Nil} : e = Child(t, m, s) /\ (e # Nil => Parent(t, e) = m)
    BY <2>1 DEF NodeOf
  <2>3. CASE e = r
    <3>1. Child(d, m, s) = c /\ p = m /\ T[c] = S[c] \ {r}
      <4>1. Child(d, m, s) = c
        BY <1>4, <2>2, <2>3
      <4>2. r # Nil
        BY <1>1
      <4>3. p = m
        BY <2>2, <2>3, <4>2
      <4>4. T[c] = S[c] \ {r}
        BY <1>5
      <4> QED BY <4>1, <4>3, <4>4
    <3>2. T[c] = S[e] \ {r}
      BY <1>5, <2>3, <3>1
    <3> QED BY <1>4, <1>5, <2>2, <3>1, <3>2
  <2>4. CASE e # r
    <3>1. Child(d, m, s) = e /\ e \in Nodes(d) \cup {Nil} /\ T[e] = S[e] \ {r}
      BY <1>3, <1>4, <2>2, <2>4
    <3>2. e = c => e = Nil
      BY <1>5, <2>1, <2>2
    <3> QED BY <1>4, <1>5, <2>2, <3>1, <3>2
  <2> QED BY <2>3, <2>4
<1>7. d.root \in Nodes(d) \cup {Nil} /\ (d.root = Nil <=> Nodes(d) = {})
  <2>1. CASE p = Nil
    <3>1. Nodes(d) = S[c] /\ d.root = c
      BY <1>1, <1>3, <1>4, <1>5, <2>1
    <3> QED BY <1>1, <1>5, <3>1
  <2>2. CASE p # Nil
    <3>1. d.root = t.root /\ t.root # r /\ t.root # Nil
      BY <1>1, <1>4, <1>5, <2>2 DEF Shape, Linked
    <3> QED BY <1>1, <1>3, <3>1
  <2> QED BY <2>1, <2>2
<1>8. Linked(d)
  <2>1. ASSUME NEW m \in Nodes(d)
        PROVE  /\ Parent(d, m) \in Nodes(d) \cup {Nil}
               /\ Parent(d, m) = Nil <=> m = d.root
               /\ Parent(d, m) # Nil => \E s \in Sides : Child(d, Parent(d, m), s) = m
    <3>1. m \in Nodes(t) /\ NodeOf(t, S, m) /\ m # r /\ m # Nil
      BY <1>1, <1>3, NodeIs
    <3>2. CASE m = c
      <4>1. Parent(d, m) = p /\ Parent(t, m) = r
        BY <1>4, <1>5, <3>1, <3>2
      <4>2. p = Nil <=> m = d.root
        BY <1>1, <1>4, <1>2, <3>1, <3>2, <4>1 DEF NodeOf
      <4>3. ASSUME p # Nil PROVE \E s \in Sides : Child(d, p, s) = m
        <5>1. PICK s \in Sides : Child(t, p, s) = r
          BY <4>3, ParentFacts, SidesAre
        <5>2. Child(d, p, s) = c
          BY <1>4, <1>5, <4>3, <5>1
        <5> QED BY <3>2, <5>2
      <4> QED BY <1>5, <4>1, <4>2, <4>3
    <3>3. CASE m # c
      <4>1. Parent(d, m) = Parent(t, m)
        BY <1>4, <3>3
      <4>2. Parent(t, m) # r
        <5>1. ASSUME Parent(t, m) = r PROVE FALSE
          <6>1. PICK s \in Sides : Child(t, r, s) = m
            BY <1>1, <3>1, <5>1, ParentFacts, SidesAre
          <6> QED BY <3>1, <3>3, <6>1, SidesAre DEF OnlyChild
        <5> QED BY <5>1
      <4>3. Parent(t, m) \in Nodes(d) \cup {Nil}
        BY <1>3, <3>1, <4>2 DEF NodeOf
      <4>4. Parent(t, m) = Nil <=> m = d.root
        BY <1>1, <1>4, <1>5, <3>1, <3>3 DEF NodeOf
      <4>5. ASSUME NEW q \in Nodes(d), q = Parent(t, m) PROVE \E s \in Sides : Child(d, q, s) = m
        <5>1. PICK s \in Sides : Child(t, q, s) = m
          BY <1>1, <1>3, <3>1, <4>5, ParentFacts, SidesAre
        <5>2. Child(d, q, s) = m
          BY <1>4, <3>1, <5>1
        <5> QED BY <5>2
      <4> QED BY <4>1, <4>3, <4>4, <4>5
    <3> QED BY <3>2, <3>3
  <2> QED BY <1>6, <1>7, <2>1 DEF Linked
<1>9. Sorted(d, T)
  <2>1. T \in [Nodes(d) \cup {Nil} -> SUBSET Nodes(d)]
    <3>1. \A m \in Nodes(d) \cup {Nil} : T[m] \in SUBSET Nodes(d)
      BY <1>1, <1>3
    <3> QED BY <3>1
  <2>2. T[Nil] = {} /\ T[d.root] = Nodes(d)
    <3>1. T[d.root] = S[d.root] \ {r}
      BY <1>7
    <3>2. CASE p = Nil
      BY <1>1, <1>3, <1>4, <1>5, <3>1, <3>2
    <3>3. CASE p # Nil
      <4>1. d.root = t.root
        BY <1>4, <3>3
      <4>2. T[d.root] = Nodes(t) \ {r}
        BY <1>1, <3>1, <4>1
      <4>3. Nodes(d) = Nodes(t) \ {r}
        BY <1>3
      <4>4. T[Nil] = {}
        BY <1>1
      <4> QED BY <4>2, <4>3, <4>4, Zenon
    <3> QED BY <1>1, <3>2, <3>3
  <2>3. ASSUME NEW m \in Nodes(d)
        PROVE  /\ T[m] = {m} \cup T[Child(d, m, LEFT)] \cup T[Child(d, m, RIGHT)]
               /\ \A s \in Sides : \A k \in T[Child(d, m, s)] : Before(s, k, m)
    <3>1. m \in Nodes(t) /\ NodeOf(t, S, m) /\ m # r
      BY <1>3, NodeIs
    <3>2. \A s \in Sides : \A k \in T[Child(d, m, s)] : Before(s, k, m)
      <4>1. SUFFICES ASSUME NEW s \in Sides, NEW k \in T[Child(d, m, s)] PROVE Before(s, k, m)
        OBVIOUS
      <4>2. k \in S[Child(t, m, s)]
        BY <1>6, <4>1
      <4> QED BY <3>1, <4>2 DEF NodeOf
    <3>3. S[m] = {m} \cup S[Child(t, m, LEFT)] \cup S[Child(t, m, RIGHT)]
      BY <3>1 DEF NodeOf
    <3>4. /\ T[Child(d, m, LEFT)] = S[Child(t, m, LEFT)] \ {r}
          /\ T[Child(d, m, RIGHT)] = S[Child(t, m, RIGHT)] \ {r}
      BY <1>6, SidesAre
    <3>5. T[m] = S[m] \ {r}
      OBVIOUS
    <3>6. T[m] = {m} \cup T[Child(d, m, LEFT)] \cup T[Child(d, m, RIGHT)]
      BY <3>1, <3>3, <3>4, <3>5
    <3> QED BY <3>2, <3>6
  <2> QED BY <2>1, <2>2, <2>3 DEF Sorted
<1>10. Loose(d)
  BY <1>3 DEF Loose, Tidy
<1> QED BY <1>3, <1>4, <1>8, <1>9, <1>10 DEF Shape

\* A way down from p has lost a black node, and there is no node on it.
Hole(d, T, B, p, side) ==
  /\ Shape(d, T) /\ Heights(d, B, <<p, side>>) /\ NoRedPair(d, Nil, Nil) /\ RootBlack(d)
  /\ p \in Nodes(d) /\ side \in Sides /\ Child(d, p, side) = Nil

LEMMA SplicedHeights ==
  ASSUME NEW t, NEW S, NEW B, Shape(t, S), Heights(t, B, NoEdge), Tidy(t), NEW r \in Nodes(t), NEW c, OnlyChild(t, r, c),
         NEW p, p = Parent(t, r), NEW d, Spliced(t, d, r, c, p),
         NEW e, \A m \in Nodes(t), s \in Sides : Extra(m, s, e) = IF Child(t, m, s) = r THEN Weight(t, r) ELSE 0
  PROVE  \E B2 : Heights(d, B2, e)
<1>1. Nil \notin Nodes(t) /\ Nodes(d) = Nodes(t) \ {r}
  <2>1. DOMAIN t.node = Nodes(t) /\ Nil \notin Nodes(t) /\ Temp \notin Nodes(t)
    BY TidyNodes, NamesAre DEF Shape
  <2> QED BY <2>1 DEF Spliced, Nodes
<1>2. NodeOf(t, S, r)
  BY NodeIs
<1>3. /\ B \in [Nodes(t) \cup {Nil} -> Nat] /\ B[Nil] = 0
      /\ \A m \in Nodes(t), s \in Sides : B[m] = Weight(t, m) + Extra(m, s, NoEdge) + B[Child(t, m, s)]
  BY DEF Heights
<1>4. \A m \in Nodes(t), s \in Sides : Extra(m, s, NoEdge) = 0
  BY <1>1 DEF Extra, NoEdge
<1>5. \A m \in Nodes(t) : Weight(t, m) \in {0, 1} /\ (m # r => Weight(d, m) = Weight(t, m))
  <2>1. \A m \in Nodes(t) : m # r => (Red(d, m) <=> Red(t, m))
    BY DEF Spliced
  <2> QED BY <2>1 DEF Weight
<1>6. PICK side \in Sides : Child(t, r, side) = c
  BY DEF OnlyChild
<1>7. c \in Nodes(t) \cup {Nil} /\ c # r /\ B[c] \in Nat /\ B[r] = Weight(t, r) + B[c] /\ B[r] \in Nat
  <2>1. c \in Nodes(t) \cup {Nil} /\ c # r
    BY <1>2, <1>6 DEF NodeOf
  <2>2. B[r] = Weight(t, r) + Extra(r, side, NoEdge) + B[c] /\ Extra(r, side, NoEdge) = 0
    BY <1>3, <1>4, <1>6
  <2>3. B[c] \in Nat /\ B[r] \in Nat /\ Weight(t, r) \in {0, 1}
    BY <1>3, <1>5, <2>1
  <2> QED BY <2>1, <2>2, <2>3
<1>8. PICK C : C = [m \in Nodes(d) \cup {Nil} |-> B[m]]
  OBVIOUS
<1>9. C \in [Nodes(d) \cup {Nil} -> Nat] /\ C[Nil] = 0
  BY <1>1, <1>3, <1>8
<1>10. ASSUME NEW m \in Nodes(d), NEW s \in Sides
       PROVE  C[m] = Weight(d, m) + Extra(m, s, e) + C[Child(d, m, s)]
  <2>1. m \in Nodes(t) /\ m # r /\ C[m] = B[m] /\ Weight(d, m) = Weight(t, m) /\ B[m] \in Nat
        /\ Weight(t, m) \in {0, 1}
    BY <1>1, <1>3, <1>5, <1>8
  <2>2. PICK k \in Nodes(t) \cup {Nil} : k = Child(t, m, s)
    BY <2>1, NodeIs DEF NodeOf
  <2>3. B[m] = Weight(t, m) + B[k] /\ B[k] \in Nat
    <3>1. B[m] = Weight(t, m) + Extra(m, s, NoEdge) + B[k] /\ Extra(m, s, NoEdge) = 0 /\ B[k] \in Nat
      BY <1>3, <1>4, <2>1, <2>2
    <3> QED BY <2>1, <3>1
  <2>4. Extra(m, s, e) = IF k = r THEN Weight(t, r) ELSE 0
    BY <2>1, <2>2
  <2>5. Child(d, m, s) = IF k = r THEN c ELSE k
    BY <2>1, <2>2 DEF Spliced
  <2>6. CASE k = r
    <3>1. C[c] = B[c] /\ Weight(t, r) \in {0, 1}
      BY <1>1, <1>5, <1>7, <1>8
    <3> QED BY <1>7, <2>1, <2>3, <2>4, <2>5, <2>6, <3>1
  <2>7. CASE k # r
    <3>1. C[k] = B[k]
      BY <1>1, <1>8, <2>7
    <3> QED BY <2>1, <2>3, <2>4, <2>5, <2>7, <3>1
  <2> QED BY <2>6, <2>7
<1>11. Heights(d, C, e)
  BY <1>9, <1>10 DEF Heights
<1> QED BY <1>11

LEMMA SplicedRemoves ==
  ASSUME NEW t, NEW S, NEW B, Sound(t, S, B), Tidy(t), NEW r \in Nodes(t), NEW c, OnlyChild(t, r, c),
         NEW p, p = Parent(t, r), NEW d, Spliced(t, d, r, c, p),
         NEW T, T = Without(d, S, r)
  PROVE  /\ Red(t, r) \/ (c = Nil /\ p = Nil) => \E B2 : Removing(d, T, B2, Nil, NoEdge)
         /\ ~Red(t, r) /\ c # Nil => \E B2, e : Removing(d, T, B2, c, e)
         /\ ~Red(t, r) /\ c = Nil /\ p # Nil => \E B2, side : Hole(d, T, B2, p, side)
<1>0. Shape(t, S) /\ Heights(t, B, NoEdge) /\ NoRedPair(t, Nil, Nil) /\ RootBlack(t)
  BY DEF Sound
<1>1. Shape(d, T) /\ Tidy(d) /\ Nodes(d) = Nodes(t) \ {r}
  BY <1>0, SplicedShape
<1>2. Nil \notin Nodes(t) /\ Temp \notin Nodes(t) /\ NodeOf(t, S, r)
      /\ t.root \in Nodes(t) \cup {Nil} /\ Nil # Temp
  BY <1>0, NamesAre, NodeIs, ContentsAssumption DEF Shape, Linked
<1>3. /\ d.root = (IF p = Nil THEN c ELSE t.root)
      /\ \A m \in Nodes(d) :
           /\ Parent(d, m) = IF m = c THEN p ELSE Parent(t, m)
           /\ \A s \in Sides : Child(d, m, s) = IF Child(t, m, s) = r THEN c ELSE Child(t, m, s)
           /\ Red(d, m) <=> Red(t, m)
  BY <1>1 DEF Spliced
<1>4. /\ c \in Nodes(d) \cup {Nil} /\ p \in Nodes(d) \cup {Nil} /\ (p = Nil <=> r = t.root)
      /\ (c # Nil => Parent(t, c) = r) /\ (Red(t, r) /\ c # Nil => ~Red(t, c))
  <2>1. PICK side \in Sides : Child(t, r, side) = c
    BY DEF OnlyChild
  <2>2. p # r
    BY <1>0, <1>2, ParentFacts
  <2>3. c # r /\ c \in Nodes(t) \cup {Nil}
    BY <1>2, <2>1 DEF NodeOf
  <2>4. p \in Nodes(t) \cup {Nil} /\ (p = Nil <=> r = t.root) /\ (c # Nil => Parent(t, c) = r)
    BY <1>2, <2>1 DEF NodeOf
  <2>5. Red(t, r) /\ c # Nil => ~Red(t, c)
    BY <1>0, <1>2, <2>1, <2>3 DEF NoRedPair
  <2> QED BY <1>1, <2>2, <2>3, <2>4, <2>5
<1>5. NoRedPair(d, c, c)
  <2>1. SUFFICES ASSUME NEW m \in Nodes(d), NEW s \in Sides, NEW k, k = Child(d, m, s),
                        Red(d, m), k # Nil, k # c
                 PROVE  ~Red(d, k)
    BY DEF NoRedPair
  <2>2. k = Child(t, m, s) /\ m \in Nodes(t) /\ Red(t, m) /\ k # r
    BY <1>1, <1>3, <2>1
  <2>3. k \in Nodes(t) /\ m # Nil
    BY <1>0, <2>1, <2>2, NodeIs DEF NodeOf
  <2>4. ~Red(t, k)
    BY <1>0, <2>1, <2>2, <2>3 DEF NoRedPair
  <2> QED BY <1>1, <1>3, <2>2, <2>3, <2>4
<1>6. Red(t, r) \/ c = Nil => NoRedPair(d, Nil, Nil)
  <2>1. SUFFICES ASSUME Red(t, r) \/ c = Nil,
                        NEW m \in Nodes(d), NEW s \in Sides, NEW k, k = Child(d, m, s),
                        Red(d, m), k # Nil
                 PROVE  ~Red(d, k)
    BY DEF NoRedPair
  <2>2. CASE k = c
    BY <1>3, <1>4, <2>1, <2>2
  <2>3. CASE k # c
    <3>1. CASE m = c
      <4>1. k = Child(t, m, s) /\ m \in Nodes(t) /\ Red(t, m) /\ k # r
        BY <1>1, <1>3, <2>1, <2>3
      <4>2. k \in Nodes(t) /\ m # Nil
        BY <1>0, <2>1, <4>1, NodeIs DEF NodeOf
      <4>3. ~Red(t, k)
        BY <1>0, <2>1, <4>1, <4>2 DEF NoRedPair
      <4> QED BY <1>1, <1>3, <4>1, <4>2, <4>3
    <3>2. CASE m # c
      BY <1>5, <2>1, <2>3, <3>2 DEF NoRedPair
    <3> QED BY <3>1, <3>2
  <2> QED BY <2>2, <2>3
<1>7. p # Nil \/ c = Nil => RootBlack(d)
  <2>1. CASE p # Nil
    <3>1. d.root = t.root /\ t.root # r
      BY <1>3, <1>4, <2>1
    <3> QED BY <1>0, <1>1, <1>2, <1>3, <3>1 DEF RootBlack
  <2>2. CASE p = Nil /\ c = Nil
    BY <1>3, <2>2 DEF RootBlack
  <2> QED BY <2>1, <2>2
<1>8. Red(t, r) => p # Nil
  BY <1>0, <1>2, <1>4 DEF RootBlack
<1>9. p = Nil => \A m \in Nodes(t), s \in Sides : Child(t, m, s) # r
  <2>1. SUFFICES ASSUME p = Nil, NEW m \in Nodes(t), NEW s \in Sides, Child(t, m, s) = r PROVE FALSE
    OBVIOUS
  <2>2. Parent(t, r) = m /\ m # Nil
    BY <1>0, <1>2, <2>1, NodeIs DEF NodeOf
  <2> QED BY <2>1, <2>2
<1>10. Red(t, r) \/ p = Nil => \E B2 : Heights(d, B2, NoEdge)
  <2>1. SUFFICES ASSUME Red(t, r) \/ p = Nil PROVE \E B2 : Heights(d, B2, NoEdge)
    OBVIOUS
  <2>2. \A m \in Nodes(t), s \in Sides : Extra(m, s, NoEdge) = IF Child(t, m, s) = r THEN Weight(t, r) ELSE 0
    <3>1. \A m \in Nodes(t), s \in Sides : Extra(m, s, NoEdge) = 0
      BY <1>2 DEF Extra, NoEdge
    <3>2. CASE p = Nil
      BY <1>9, <3>1, <3>2
    <3>3. CASE Red(t, r)
      <4>1. Weight(t, r) = 0
        BY <3>3 DEF Weight
      <4> QED BY <3>1, <4>1
    <3> QED BY <2>1, <3>2, <3>3
  <2> QED BY <1>0, <2>2, SplicedHeights
<1>11. ASSUME p # Nil PROVE \E side \in Sides : Child(t, p, side) = r
  BY <1>0, <1>11, ParentFacts, SidesAre
<1>12. ASSUME NEW side \in Sides, Child(t, p, side) = r, p # Nil, ~Red(t, r)
       PROVE  \E B2 : Heights(d, B2, <<p, side>>)
  <2>1. ASSUME NEW m \in Nodes(t), NEW s \in Sides
        PROVE  Extra(m, s, <<p, side>>) = IF Child(t, m, s) = r THEN Weight(t, r) ELSE 0
    <3>1. p \in Nodes(t)
      BY <1>1, <1>4, <1>12
    <3>2. Child(t, m, s) = r <=> <<m, s>> = <<p, side>>
      BY <1>0, <1>2, <1>12, <3>1, OneParent
    <3>3. Weight(t, r) = 1
      BY <1>12 DEF Weight
    <3> QED BY <3>2, <3>3 DEF Extra
  <2>2. \A m \in Nodes(t), s \in Sides : Extra(m, s, <<p, side>>) = IF Child(t, m, s) = r THEN Weight(t, r) ELSE 0
    BY <2>1
  <2> QED BY <1>0, <2>2, SplicedHeights
<1>13. Red(t, r) \/ (c = Nil /\ p = Nil) => \E B2 : Removing(d, T, B2, Nil, NoEdge)
  <2>1. SUFFICES ASSUME Red(t, r) \/ (c = Nil /\ p = Nil) PROVE \E B2 : Removing(d, T, B2, Nil, NoEdge)
    OBVIOUS
  <2>2. PICK B2 : Heights(d, B2, NoEdge)
    BY <1>10, <2>1
  <2>3. RootBlack(d) /\ NoRedPair(d, Nil, Nil)
    BY <1>6, <1>7, <1>8, <2>1
  <2>4. Removing(d, T, B2, Nil, NoEdge)
    BY <1>1, <1>2, <2>2, <2>3 DEF Removing
  <2> QED BY <2>4
<1>14. ~Red(t, r) /\ c # Nil => \E B2, e : Removing(d, T, B2, c, e)
  <2>1. SUFFICES ASSUME ~Red(t, r), c # Nil PROVE \E B2, e : Removing(d, T, B2, c, e)
    OBVIOUS
  <2>2. c \in Nodes(d) /\ c # Temp /\ c \in DOMAIN d.node /\ InTree(c) = c
    BY <1>1, <1>2, <1>4, <2>1 DEF Nodes, InTree
  <2>3. CASE p = Nil
    <3>1. PICK B2 : Heights(d, B2, NoEdge)
      BY <1>10, <2>3
    <3>2. c = d.root
      BY <1>3, <2>3
    <3>3. Removing(d, T, B2, c, NoEdge)
      BY <1>1, <1>5, <2>2, <3>1, <3>2 DEF Removing
    <3> QED BY <3>3
  <2>4. CASE p # Nil
    <3>1. PICK side \in Sides : Child(t, p, side) = r
      BY <1>11, <2>4
    <3>2. PICK B2 : Heights(d, B2, <<p, side>>)
      BY <1>12, <2>1, <2>4, <3>1
    <3>3. Parent(d, c) = p /\ p \in Nodes(d) /\ Child(d, p, side) = c
      BY <1>3, <1>4, <2>2, <2>4, <3>1
    <3>4. Hangs(d, c, <<p, side>>)
      BY <2>2, <3>1, <3>3 DEF Hangs
    <3>5. c # d.root
      BY <1>2, <1>3, <1>4, <2>1, <2>4, <1>0, <3>3, <2>2, <1>1, NodeIs DEF NodeOf
    <3>6. Removing(d, T, B2, c, <<p, side>>)
      BY <1>1, <1>5, <1>7, <2>1, <2>2, <2>4, <3>2, <3>4, <3>5 DEF Removing
    <3> QED BY <3>6
  <2> QED BY <2>3, <2>4
<1>15. ~Red(t, r) /\ c = Nil /\ p # Nil => \E B2, side : Hole(d, T, B2, p, side)
  <2>1. SUFFICES ASSUME ~Red(t, r), c = Nil, p # Nil PROVE \E B2, side : Hole(d, T, B2, p, side)
    OBVIOUS
  <2>2. PICK side \in Sides : Child(t, p, side) = r
    BY <1>11, <2>1
  <2>3. PICK B2 : Heights(d, B2, <<p, side>>)
    BY <1>12, <2>1, <2>2
  <2>4. p \in Nodes(d) /\ Child(d, p, side) = Nil
    BY <1>3, <1>4, <2>1, <2>2
  <2>5. Hole(d, T, B2, p, side)
    BY <1>1, <1>6, <1>7, <2>1, <2>3, <2>4 DEF Hole
  <2> QED BY <2>5
<1> QED BY <1>13, <1>14, <1>15

-----------------------------------------------------------------------------
(* A node changes its name *)

To(n, r, m) == IF m = n THEN r ELSE m
From(n, r, m) == IF m = r THEN n ELSE m
MovedTo(n, r, a) == [a EXCEPT !.parent = To(n, r, @), !.child = [s \in Sides |-> To(n, r, @[s])]]

LEMMA Moves ==
  ASSUME NEW n, NEW r \in Links, NEW a \in Node
  PROVE  /\ MovedTo(n, r, a) \in Node
         /\ MovedTo(n, r, a).parent = To(n, r, a.parent)
         /\ \A s \in Sides : MovedTo(n, r, a).child[s] = To(n, r, a.child[s])
         /\ MovedTo(n, r, a).red = a.red
<1>1. PICK f : f = [s \in Sides |-> To(n, r, a.child[s])]
  OBVIOUS
<1>2. PICK p : p = To(n, r, a.parent)
  OBVIOUS
<1>3. MovedTo(n, r, a) = [a EXCEPT !.parent = p, !.child = f]
  BY <1>1, <1>2, Zenon DEF MovedTo
<1>4. a.parent \in Links /\ a.child \in [Sides -> Links] /\ a.red \in BOOLEAN
  BY DEF Node
<1>5. p \in Links /\ f \in [Sides -> Links]
  BY <1>1, <1>2, <1>4 DEF To
<1>6. PICK b : b = MovedTo(n, r, a)
  OBVIOUS
<1>7. b = [[a EXCEPT !.parent = p] EXCEPT !.child = f]
  BY <1>3, <1>6, Zenon
<1>8. PICK c : c = [a EXCEPT !.parent = p]
  OBVIOUS
<1>9. c \in Node /\ c.parent = p /\ c.red = a.red
  BY <1>5, <1>8 DEF Node
<1>10. b = [c EXCEPT !.child = f]
  BY <1>7, <1>8
<1>11. b \in Node /\ b.parent = p /\ b.red = a.red /\ b.child = f
  BY <1>5, <1>9, <1>10 DEF Node
<1>12. \A s \in Sides : f[s] = To(n, r, a.child[s])
  BY <1>1
<1> QED BY <1>2, <1>6, <1>11, <1>12

LEMMA RenameIs ==
  ASSUME NEW d, NEW n, NEW r
  PROVE  Rename(d, n, r) = [root |-> To(n, r, d.root),
                            node |-> [m \in (DOMAIN d.node \ {n}) \cup {r} |->
                                        MovedTo(n, r, d.node[From(n, r, m)])]]
BY Zenon DEF Rename, MovedTo, To, From

\* u is d with r in the place of n.
Renamed(d, u, n, r) ==
  /\ Typed(u) /\ DOMAIN u.node = Nodes(u) /\ u.root = To(n, r, d.root)
  /\ \A m \in Nodes(d) \cup {Nil} : /\ To(n, r, m) \in Nodes(u) \cup {Nil}
                                    /\ From(n, r, To(n, r, m)) = m
                                    /\ To(n, r, m) = Nil <=> m = Nil
  /\ \A k \in Nodes(u) : /\ From(n, r, k) \in Nodes(d)
                         /\ To(n, r, From(n, r, k)) = k
                         /\ Parent(u, k) = To(n, r, Parent(d, From(n, r, k)))
                         /\ \A s \in Sides : Child(u, k, s) = To(n, r, Child(d, From(n, r, k), s))
                         /\ Red(u, k) <=> Red(d, From(n, r, k))
  /\ From(n, r, Nil) = Nil /\ To(n, r, Nil) = Nil /\ Nil \notin Nodes(u)
  /\ Nodes(u) = (Nodes(d) \ {n}) \cup {r}

LEMMA Renames ==
  ASSUME NEW d, Typed(d), Tidy(d), NEW n \in Nodes(d), NEW r \in Contents, r \notin Nodes(d), n # r,
         NEW u, u = Rename(d, n, r)
  PROVE  Renamed(d, u, n, r)
<1>1. DOMAIN d.node = Nodes(d) /\ Nil \notin Nodes(d) /\ Temp \notin Nodes(d) /\ r # Nil /\ r # Temp
      /\ r \in Links /\ r \in Names /\ Nodes(d) \subseteq Names /\ IsFiniteSet(Nodes(d)) /\ n # Nil
  BY TidyNodes, NamesAre, ContentsAssumption DEF Typed, Names, Links
<1>2. d.root \in Links /\ \A m \in Nodes(d) : d.node[m] \in Node
  BY <1>1 DEF Typed
<1>3. PICK f : f = [m \in (DOMAIN d.node \ {n}) \cup {r} |-> MovedTo(n, r, d.node[From(n, r, m)])]
  OBVIOUS
<1>4. u = [root |-> To(n, r, d.root), node |-> f]
  BY <1>3, RenameIs
<1>5. PICK N : N = (Nodes(d) \ {n}) \cup {r}
  OBVIOUS
<1>6. \A k \in N : From(n, r, k) \in Nodes(d) /\ f[k] = MovedTo(n, r, d.node[From(n, r, k)])
  BY <1>1, <1>3, <1>5 DEF From
<1>7. f \in [N -> Node]
  <2>1. ASSUME NEW k \in N PROVE f[k] \in Node
    <3>1. PICK a \in Node : a = d.node[From(n, r, k)]
      BY <1>2, <1>6
    <3>2. f[k] = MovedTo(n, r, a)
      BY <1>6, <3>1
    <3> QED BY <1>1, <3>2, Moves
  <2>2. f = [m \in N |-> f[m]]
    BY <1>1, <1>3, <1>5
  <2> QED BY <2>1, <2>2
<1>8. u.node = f /\ u.root = To(n, r, d.root) /\ DOMAIN f = N
  BY <1>4, <1>7
<1>9. Typed(u)
  <2>1. To(n, r, d.root) \in Links
    BY <1>1, <1>2 DEF To
  <2>2. u \in [root : Links, node : [N -> Node]]
    BY <1>4, <1>7, <2>1
  <2>3. N \subseteq Names
    BY <1>1, <1>5
  <2>4. IsFiniteSet(N)
    <3>1. IsFiniteSet(Nodes(d) \ {n})
      BY <1>1, FS_Subset
    <3> QED BY <1>5, <3>1, FS_AddElement
  <2> QED BY <1>8, <2>2, <2>3, <2>4 DEF Typed
<1>10. Nodes(u) = N /\ DOMAIN u.node = N
  <2>1. Temp \notin N
    BY <1>1, <1>5
  <2> QED BY <1>8, <2>1 DEF Nodes
<1>11. ASSUME NEW k \in N
       PROVE  /\ From(n, r, k) \in Nodes(d)
              /\ To(n, r, From(n, r, k)) = k
              /\ Parent(u, k) = To(n, r, Parent(d, From(n, r, k)))
              /\ \A s \in Sides : Child(u, k, s) = To(n, r, Child(d, From(n, r, k), s))
              /\ Red(u, k) <=> Red(d, From(n, r, k))
  <2>1. PICK j \in Nodes(d) : j = From(n, r, k)
    BY <1>6
  <2>2. To(n, r, j) = k
    BY <1>5, <2>1 DEF To, From
  <2>3. u.node[k] = MovedTo(n, r, d.node[j]) /\ d.node[j] \in Node
    BY <1>2, <1>6, <1>8, <2>1
  <2>4. /\ u.node[k].parent = To(n, r, d.node[j].parent)
        /\ \A s \in Sides : u.node[k].child[s] = To(n, r, d.node[j].child[s])
        /\ u.node[k].red = d.node[j].red
    BY <1>1, <2>3, Moves
  <2> QED BY <2>1, <2>2, <2>4 DEF Parent, Child, Red
<1>12. ASSUME NEW m \in Nodes(d) \cup {Nil}
       PROVE  /\ To(n, r, m) \in N \cup {Nil}
              /\ From(n, r, To(n, r, m)) = m
              /\ To(n, r, m) = Nil <=> m = Nil
  BY <1>1, <1>5 DEF To, From
<1>13. From(n, r, Nil) = Nil /\ To(n, r, Nil) = Nil /\ Nil \notin N
  BY <1>1, <1>5 DEF To, From
<1> QED BY <1>5, <1>8, <1>9, <1>10, <1>11, <1>12, <1>13 DEF Renamed

\* r compares with the other nodes as n does.
Fits(d, n, r) == \A k \in Nodes(d) : k # n => (k < n => k < r) /\ (n < k => r < k)

RenamedSets(u, T, n, r) == [m \in Nodes(u) \cup {Nil} |-> {To(n, r, k) : k \in T[From(n, r, m)]}]

LEMMA RenamedShape ==
  ASSUME NEW d, NEW T, Shape(d, T), Tidy(d), NEW n \in Nodes(d), NEW r \in Contents, r \notin Nodes(d),
         Fits(d, n, r), NEW u, Renamed(d, u, n, r)
  PROVE  Shape(u, RenamedSets(u, T, n, r)) /\ Tidy(u) /\ Nodes(u) = (Nodes(d) \ {n}) \cup {r}
<1>1. /\ Nil \notin Nodes(d) /\ T \in [Nodes(d) \cup {Nil} -> SUBSET Nodes(d)] /\ T[Nil] = {}
      /\ T[d.root] = Nodes(d) /\ d.root \in Nodes(d) \cup {Nil} /\ (d.root = Nil <=> Nodes(d) = {})
      /\ n \in Nat /\ r \in Nat /\ \A k \in Nodes(d) : k \in Nat
  BY NamesAre, ContentsAssumption DEF Shape, Linked, Sorted
<1>2. Typed(u) /\ u.root = To(n, r, d.root) /\ Nodes(u) = (Nodes(d) \ {n}) \cup {r}
      /\ From(n, r, Nil) = Nil /\ To(n, r, Nil) = Nil /\ Nil \notin Nodes(u) /\ DOMAIN u.node = Nodes(u)
  BY DEF Renamed
<1>3. \A m \in Nodes(d) \cup {Nil} : /\ To(n, r, m) \in Nodes(u) \cup {Nil}
                                     /\ From(n, r, To(n, r, m)) = m
                                     /\ To(n, r, m) = Nil <=> m = Nil
  BY DEF Renamed
<1>4. \A k \in Nodes(u) : /\ From(n, r, k) \in Nodes(d)
                          /\ To(n, r, From(n, r, k)) = k
                          /\ Parent(u, k) = To(n, r, Parent(d, From(n, r, k)))
                          /\ \A s \in Sides : Child(u, k, s) = To(n, r, Child(d, From(n, r, k), s))
  BY DEF Renamed
<1>5. Tidy(u)
  BY <1>2 DEF Tidy, Nodes
<1>6. PICK V : V = RenamedSets(u, T, n, r)
  OBVIOUS
<1>7. \A m \in Nodes(u) \cup {Nil} : V[m] = {To(n, r, k) : k \in T[From(n, r, m)]}
  BY <1>6 DEF RenamedSets
<1>8. ASSUME NEW j \in Nodes(d) \cup {Nil}
      PROVE  /\ V[To(n, r, j)] = {To(n, r, k) : k \in T[j]}
             /\ V[To(n, r, j)] \subseteq Nodes(u)
  <2>1. V[To(n, r, j)] = {To(n, r, k) : k \in T[j]}
    BY <1>3, <1>7
  <2>2. \A k \in Nodes(d) : To(n, r, k) \in Nodes(u)
    BY <1>1, <1>3
  <2>3. T[j] \subseteq Nodes(d)
    BY <1>1
  <2> QED BY <2>1, <2>2, <2>3
<1>9. \A m \in Nodes(u) \cup {Nil} : From(n, r, m) \in Nodes(d) \cup {Nil} /\ To(n, r, From(n, r, m)) = m
  BY <1>2, <1>4
<1>10. Sorted(u, V)
  <2>1. V \in [Nodes(u) \cup {Nil} -> SUBSET Nodes(u)]
    <3>1. \A m \in Nodes(u) \cup {Nil} : V[m] \subseteq Nodes(u)
      BY <1>8, <1>9
    <3>2. V = [m \in Nodes(u) \cup {Nil} |-> V[m]]
      BY <1>6 DEF RenamedSets
    <3> QED BY <3>1, <3>2
  <2>2. V[Nil] = {}
    <3>1. V[Nil] = {To(n, r, k) : k \in T[Nil]}
      BY <1>1, <1>2, <1>8
    <3> QED BY <1>1, <3>1
  <2>3. V[u.root] = Nodes(u)
    <3>1. V[u.root] = {To(n, r, k) : k \in Nodes(d)}
      BY <1>1, <1>2, <1>8
    <3>2. \A k \in Nodes(d) : To(n, r, k) \in Nodes(u)
      BY <1>1, <1>3
    <3>3. \A m \in Nodes(u) : \E k \in Nodes(d) : m = To(n, r, k)
      BY <1>4
    <3> QED BY <3>1, <3>2, <3>3
  <2>4. ASSUME NEW m \in Nodes(u)
        PROVE  /\ V[m] = {m} \cup V[Child(u, m, LEFT)] \cup V[Child(u, m, RIGHT)]
               /\ \A s \in Sides : \A k \in V[Child(u, m, s)] : Before(s, k, m)
    <3>1. PICK j \in Nodes(d) : j = From(n, r, m) /\ m = To(n, r, j)
      BY <1>4
    <3>2. NodeOf(d, T, j)
      BY NodeIs
    <3>3. PICK a, b \in Nodes(d) \cup {Nil} : a = Child(d, j, LEFT) /\ b = Child(d, j, RIGHT)
      BY <3>2, SidesAre DEF NodeOf
    <3>4. Child(u, m, LEFT) = To(n, r, a) /\ Child(u, m, RIGHT) = To(n, r, b)
      BY <1>4, <3>1, <3>3, SidesAre
    <3>5. T[j] = {j} \cup T[a] \cup T[b]
      BY <3>2, <3>3 DEF NodeOf
    <3>6. V[m] = {m} \cup V[Child(u, m, LEFT)] \cup V[Child(u, m, RIGHT)]
      <4>1. V[m] = {To(n, r, k) : k \in T[j]}
        BY <1>8, <3>1
      <4>2. V[Child(u, m, LEFT)] = {To(n, r, k) : k \in T[a]}
        BY <1>8, <3>4
      <4>3. V[Child(u, m, RIGHT)] = {To(n, r, k) : k \in T[b]}
        BY <1>8, <3>4
      <4> QED BY <3>1, <3>5, <4>1, <4>2, <4>3
    <3>7. ASSUME NEW s \in Sides, NEW k \in V[Child(u, m, s)] PROVE Before(s, k, m)
      <4>1. PICK e \in Nodes(d) \cup {Nil} : e = Child(d, j, s)
        BY <3>2 DEF NodeOf
      <4>2. Child(u, m, s) = To(n, r, e)
        BY <1>4, <3>1, <4>1
      <4>3. PICK i \in T[e] : k = To(n, r, i)
        BY <1>8, <3>7, <4>2
      <4>4. i \in Nodes(d) /\ Before(s, i, j) /\ i \in Nat /\ j \in Nat
        BY <1>1, <3>2, <4>1, <4>3 DEF NodeOf
      <4>5. i # j
        BY <4>4 DEF Before
      <4> QED BY <1>1, <3>1, <4>3, <4>4, <4>5 DEF Before, Fits, To
    <3> QED BY <3>6, <3>7
  <2> QED BY <2>1, <2>2, <2>3, <2>4 DEF Sorted
<1>11. Linked(u)
  <2>1. u.root \in Nodes(u) \cup {Nil} /\ (u.root = Nil <=> Nodes(u) = {})
    <3>1. d.root \in Nodes(d) /\ d.root # Nil
      BY <1>1
    <3>2. u.root \in Nodes(u)
      BY <1>2, <1>3, <3>1
    <3> QED BY <1>2, <3>2
  <2>2. ASSUME NEW m \in Nodes(u)
        PROVE  /\ Parent(u, m) \in Nodes(u) \cup {Nil}
               /\ Parent(u, m) = Nil <=> m = u.root
               /\ Parent(u, m) # Nil => \E s \in Sides : Child(u, Parent(u, m), s) = m
               /\ \A s \in Sides :
                    /\ Child(u, m, s) \in Nodes(u) \cup {Nil}
                    /\ Child(u, m, s) # Nil => Parent(u, Child(u, m, s)) = m
    <3>1. PICK j \in Nodes(d) : j = From(n, r, m) /\ m = To(n, r, j)
      BY <1>4
    <3>2. NodeOf(d, T, j)
      BY NodeIs
    <3>3. PICK p \in Nodes(d) \cup {Nil} : p = Parent(d, j) /\ Parent(u, m) = To(n, r, p)
      BY <1>4, <3>1, <3>2 DEF NodeOf
    <3>4. Parent(u, m) = Nil <=> m = u.root
      <4>1. p = Nil <=> j = d.root
        BY <3>2, <3>3 DEF NodeOf
      <4>2. j = d.root <=> m = u.root
        BY <1>1, <1>2, <1>3, <3>1
      <4> QED BY <1>3, <3>3, <4>1, <4>2
    <3>5. ASSUME p # Nil PROVE \E s \in Sides : Child(u, To(n, r, p), s) = m
      <4>1. PICK s \in Sides : Child(d, p, s) = j
        BY <3>3, <3>5, ParentFacts, SidesAre
      <4>2. To(n, r, p) \in Nodes(u) /\ From(n, r, To(n, r, p)) = p
        BY <1>3, <3>3, <3>5
      <4>3. Child(u, To(n, r, p), s) = m
        BY <1>4, <3>1, <4>1, <4>2
      <4> QED BY <4>3
    <3>6. ASSUME NEW s \in Sides
          PROVE  /\ Child(u, m, s) \in Nodes(u) \cup {Nil}
                 /\ Child(u, m, s) # Nil => Parent(u, Child(u, m, s)) = m
      <4>1. PICK e \in Nodes(d) \cup {Nil} : e = Child(d, j, s) /\ (e # Nil => Parent(d, e) = j)
        BY <3>2 DEF NodeOf
      <4>2. Child(u, m, s) = To(n, r, e)
        BY <1>4, <3>1, <4>1
      <4>3. To(n, r, e) \in Nodes(u) \cup {Nil} /\ From(n, r, To(n, r, e)) = e /\ (To(n, r, e) = Nil <=> e = Nil)
        BY <1>3
      <4>4. e # Nil => Parent(u, To(n, r, e)) = m
        BY <1>4, <3>1, <4>1, <4>3
      <4> QED BY <4>2, <4>3, <4>4
    <3> QED BY <1>3, <3>3, <3>4, <3>5, <3>6
  <2> QED BY <2>1, <2>2 DEF Linked
<1>12. Loose(u)
  BY <1>5 DEF Loose, Tidy
<1> QED BY <1>2, <1>5, <1>6, <1>10, <1>11, <1>12 DEF Shape

LEMMA RenamedHeights ==
  ASSUME NEW d, NEW T, NEW B, Shape(d, T), NEW n, NEW r, NEW u, Renamed(d, u, n, r),
         NEW a \in Nodes(d) \cup {Nil}, NEW side, Heights(d, B, <<a, side>>)
  PROVE  \E B2 : Heights(u, B2, <<To(n, r, a), side>>)
<1>1. \A m \in Nodes(d) \cup {Nil} : /\ To(n, r, m) \in Nodes(u) \cup {Nil}
                                     /\ From(n, r, To(n, r, m)) = m
  BY DEF Renamed
<1>2. /\ From(n, r, Nil) = Nil
      /\ \A k \in Nodes(u) : /\ From(n, r, k) \in Nodes(d)
                             /\ To(n, r, From(n, r, k)) = k
                             /\ \A s \in Sides : Child(u, k, s) = To(n, r, Child(d, From(n, r, k), s))
                             /\ Red(u, k) <=> Red(d, From(n, r, k))
  BY DEF Renamed
<1>3. /\ B \in [Nodes(d) \cup {Nil} -> Nat] /\ B[Nil] = 0
      /\ \A m \in Nodes(d), s \in Sides : B[m] = Weight(d, m) + Extra(m, s, <<a, side>>) + B[Child(d, m, s)]
  BY DEF Heights
<1>4. PICK C : C = [m \in Nodes(u) \cup {Nil} |-> B[From(n, r, m)]]
  OBVIOUS
<1>5. C \in [Nodes(u) \cup {Nil} -> Nat] /\ C[Nil] = 0
  <2>1. \A m \in Nodes(u) \cup {Nil} : From(n, r, m) \in Nodes(d) \cup {Nil}
    BY <1>2
  <2> QED BY <1>2, <1>3, <1>4, <2>1
<1>6. ASSUME NEW m \in Nodes(u), NEW s \in Sides
      PROVE  C[m] = Weight(u, m) + Extra(m, s, <<To(n, r, a), side>>) + C[Child(u, m, s)]
  <2>1. PICK j \in Nodes(d) : j = From(n, r, m) /\ m = To(n, r, j)
    BY <1>2
  <2>2. PICK k \in Nodes(d) \cup {Nil} : k = Child(d, j, s)
    BY NodeIs DEF NodeOf
  <2>3. Child(u, m, s) = To(n, r, k)
    BY <1>2, <2>1, <2>2
  <2>4. To(n, r, k) \in Nodes(u) \cup {Nil} /\ From(n, r, To(n, r, k)) = k
    BY <1>1
  <2>5. C[To(n, r, k)] = B[k] /\ C[m] = B[j]
    BY <1>4, <2>1, <2>4
  <2>6. Weight(u, m) = Weight(d, j)
    BY <1>2, <2>1 DEF Weight
  <2>7. m = To(n, r, a) <=> j = a
    BY <1>1, <2>1
  <2>8. Extra(m, s, <<To(n, r, a), side>>) = Extra(j, s, <<a, side>>)
    BY <2>7 DEF Extra
  <2>9. B[j] = Weight(d, j) + Extra(j, s, <<a, side>>) + B[k]
    BY <1>3, <2>2
  <2> QED BY <2>3, <2>5, <2>6, <2>8, <2>9
<1>7. Heights(u, C, <<To(n, r, a), side>>)
  BY <1>5, <1>6 DEF Heights
<1> QED BY <1>7

LEMMA RenamedColours ==
  ASSUME NEW d, NEW T, Shape(d, T), NEW n, NEW r, NEW u, Renamed(d, u, n, r),
         NEW c \in Nodes(d) \cup {Nil}
  PROVE  /\ NoRedPair(d, c, c) => NoRedPair(u, To(n, r, c), To(n, r, c))
         /\ RootBlack(d) => RootBlack(u)
         /\ To(n, r, c) = u.root <=> c = d.root
<1>1. \A m \in Nodes(d) \cup {Nil} : /\ To(n, r, m) \in Nodes(u) \cup {Nil}
                                     /\ From(n, r, To(n, r, m)) = m
                                     /\ To(n, r, m) = Nil <=> m = Nil
  BY DEF Renamed
<1>2. /\ u.root = To(n, r, d.root)
      /\ \A k \in Nodes(u) : /\ From(n, r, k) \in Nodes(d)
                             /\ To(n, r, From(n, r, k)) = k
                             /\ \A s \in Sides : Child(u, k, s) = To(n, r, Child(d, From(n, r, k), s))
                             /\ Red(u, k) <=> Red(d, From(n, r, k))
  BY DEF Renamed
<1>3. d.root \in Nodes(d) \cup {Nil}
  BY DEF Shape, Linked
<1>4. ASSUME NoRedPair(d, c, c) PROVE NoRedPair(u, To(n, r, c), To(n, r, c))
  <2>1. SUFFICES ASSUME NEW m \in Nodes(u), NEW s \in Sides, NEW k, k = Child(u, m, s),
                        Red(u, m), k # Nil, m # To(n, r, c), k # To(n, r, c)
                 PROVE  ~Red(u, k)
    BY DEF NoRedPair
  <2>2. PICK j \in Nodes(d) : j = From(n, r, m) /\ m = To(n, r, j)
    BY <1>2
  <2>3. PICK i \in Nodes(d) \cup {Nil} : i = Child(d, j, s)
    BY NodeIs DEF NodeOf
  <2>4. k = To(n, r, i)
    BY <1>2, <2>1, <2>2, <2>3
  <2>5. i # Nil /\ i # c /\ j # c /\ k \in Nodes(u) /\ From(n, r, k) = i
    BY <1>1, <2>1, <2>2, <2>4
  <2>6. Red(d, j) /\ (Red(u, k) <=> Red(d, i))
    BY <1>2, <2>1, <2>2, <2>5
  <2> QED BY <1>4, <2>3, <2>5, <2>6 DEF NoRedPair
<1>5. ASSUME RootBlack(d) PROVE RootBlack(u)
  <2>1. SUFFICES ASSUME u.root # Nil PROVE ~Red(u, u.root)
    BY DEF RootBlack
  <2>2. d.root # Nil /\ u.root \in Nodes(u) /\ From(n, r, u.root) = d.root
    BY <1>1, <1>2, <1>3, <2>1
  <2> QED BY <1>2, <1>5, <2>2 DEF RootBlack
<1>6. To(n, r, c) = u.root <=> c = d.root
  BY <1>1, <1>2, <1>3
<1> QED BY <1>4, <1>5, <1>6

LEMMA RenamedRemoving ==
  ASSUME NEW d, NEW T, NEW B, NEW c \in Nodes(d) \cup {Nil}, NEW edge, Removing(d, T, B, c, edge), Tidy(d),
         NEW n \in Nodes(d), NEW r \in Contents, r \notin Nodes(d), Fits(d, n, r),
         NEW u, Renamed(d, u, n, r)
  PROVE  \E T2, B2, e : Removing(u, T2, B2, To(n, r, c), e)
<1>1. /\ Shape(d, T) /\ Heights(d, B, edge) /\ NoRedPair(d, c, c) /\ (c # d.root => RootBlack(d))
      /\ (IF c \in {Nil, d.root} THEN edge = NoEdge ELSE Hangs(d, c, edge))
  BY DEF Removing
<1>2. PICK T2 : Shape(u, T2)
  BY <1>1, RenamedShape
<1>3. /\ \A m \in Nodes(d) \cup {Nil} : /\ To(n, r, m) \in Nodes(u) \cup {Nil}
                                        /\ From(n, r, To(n, r, m)) = m
                                        /\ To(n, r, m) = Nil <=> m = Nil
      /\ DOMAIN u.node = Nodes(u) /\ Temp \notin Nodes(u) /\ Nil # Temp /\ To(n, r, Nil) = Nil
  BY ContentsAssumption DEF Renamed, Nodes
<1>4. \A k \in Nodes(u) : /\ Parent(u, k) = To(n, r, Parent(d, From(n, r, k)))
                          /\ \A s \in Sides : Child(u, k, s) = To(n, r, Child(d, From(n, r, k), s))
  BY DEF Renamed
<1>5. PICK b : b = To(n, r, c)
  OBVIOUS
<1>6. /\ NoRedPair(u, b, b)
      /\ b # u.root => RootBlack(u)
      /\ b \in {Nil, u.root} <=> c \in {Nil, d.root}
      /\ b \in DOMAIN u.node \cup {Nil} /\ b # Temp
  BY <1>1, <1>3, <1>5, RenamedColours
<1>7. \E B2, e : Heights(u, B2, e) /\ IF b \in {Nil, u.root} THEN e = NoEdge ELSE Hangs(u, b, e)
  <2>1. CASE c \in {Nil, d.root}
    <3>1. Heights(d, B, <<Nil, LEFT>>)
      BY <1>1, <2>1 DEF NoEdge
    <3>2. \E B2 : Heights(u, B2, <<To(n, r, Nil), LEFT>>)
      BY <1>1, <3>1, RenamedHeights
    <3>3. \E B2 : Heights(u, B2, NoEdge)
      BY <1>3, <3>2 DEF NoEdge
    <3> QED BY <1>6, <2>1, <3>3
  <2>2. CASE c \notin {Nil, d.root}
    <3>1. PICK p \in Nodes(d), s \in Sides : p = Parent(d, c) /\ edge = <<p, s>> /\ Child(d, p, s) = InTree(c)
      BY <1>1, <2>2 DEF Hangs
    <3>2. InTree(c) = c /\ c \in Nodes(d)
      BY <2>2, NamesAre, <1>1 DEF InTree, Shape
    <3>3. PICK B2 : Heights(u, B2, <<To(n, r, p), s>>)
      BY <1>1, <3>1, RenamedHeights
    <3>4. To(n, r, p) \in Nodes(u) /\ From(n, r, To(n, r, p)) = p /\ b \in Nodes(u) /\ From(n, r, b) = c
          /\ InTree(b) = b
      <4>1. p # Nil /\ c # Nil
        BY <1>1, <3>2, NamesAre DEF Shape
      <4>2. To(n, r, p) \in Nodes(u) /\ From(n, r, To(n, r, p)) = p /\ b \in Nodes(u) /\ From(n, r, b) = c
        BY <1>3, <1>5, <3>2, <4>1
      <4> QED BY <1>6, <4>2 DEF InTree
    <3>5. Parent(u, b) = To(n, r, p) /\ Child(u, To(n, r, p), s) = b
      BY <1>4, <1>5, <3>1, <3>2, <3>4
    <3>6. Hangs(u, b, <<To(n, r, p), s>>)
      BY <3>1, <3>4, <3>5 DEF Hangs
    <3> QED BY <1>6, <2>2, <3>3, <3>6
  <2> QED BY <2>1, <2>2
<1>8. PICK B2, e : Heights(u, B2, e) /\ IF b \in {Nil, u.root} THEN e = NoEdge ELSE Hangs(u, b, e)
  BY <1>7
<1>9. Removing(u, T2, B2, b, e)
  BY <1>2, <1>6, <1>8 DEF Removing
<1> QED BY <1>5, <1>9

LEMMA RenamedHole ==
  ASSUME NEW d, NEW T, NEW B, NEW p, NEW side, Hole(d, T, B, p, side), Tidy(d),
         NEW n \in Nodes(d), NEW r \in Contents, r \notin Nodes(d), Fits(d, n, r),
         NEW u, Renamed(d, u, n, r)
  PROVE  \E T2, B2 : Hole(u, T2, B2, To(n, r, p), side)
<1>1. /\ Shape(d, T) /\ Heights(d, B, <<p, side>>) /\ NoRedPair(d, Nil, Nil) /\ RootBlack(d)
      /\ p \in Nodes(d) /\ side \in Sides /\ Child(d, p, side) = Nil
  BY DEF Hole
<1>2. PICK T2 : Shape(u, T2)
  BY <1>1, RenamedShape
<1>3. PICK B2 : Heights(u, B2, <<To(n, r, p), side>>)
  BY <1>1, RenamedHeights
<1>4. NoRedPair(u, To(n, r, Nil), To(n, r, Nil)) /\ RootBlack(u)
  BY <1>1, RenamedColours
<1>5. /\ To(n, r, Nil) = Nil
      /\ To(n, r, p) \in Nodes(u) \cup {Nil} /\ From(n, r, To(n, r, p)) = p /\ (To(n, r, p) = Nil <=> p = Nil)
  BY <1>1 DEF Renamed
<1>6. p # Nil
  BY <1>1, NamesAre DEF Shape
<1>7. To(n, r, p) \in Nodes(u)
  BY <1>5, <1>6
<1>8. Child(u, To(n, r, p), side) = Nil
  BY <1>1, <1>5, <1>7 DEF Renamed
<1>9. NoRedPair(u, Nil, Nil)
  BY <1>4, <1>5
<1>10. Hole(u, T2, B2, To(n, r, p), side)
  BY <1>1, <1>2, <1>3, <1>4, <1>7, <1>8, <1>9 DEF Hole
<1> QED BY <1>10

\* The node on the stack takes the place of the one that left.
LEMMA HoleFilled ==
  ASSUME NEW d, NEW T, NEW B, NEW p, NEW side, Hole(d, T, B, p, side), Tidy(d),
         NEW u, u = Grown(d, Temp, BlackLeaf(p))
  PROVE  /\ Nodes(u) = Nodes(d)
         /\ Removing(u, T, B, Temp, <<p, side>>)
<1>1. /\ Shape(d, T) /\ Heights(d, B, <<p, side>>) /\ NoRedPair(d, Nil, Nil) /\ RootBlack(d)
      /\ p \in Nodes(d) /\ side \in Sides /\ Child(d, p, side) = Nil
  BY DEF Hole
<1>2. /\ DOMAIN d.node = Nodes(d) /\ Nil \notin Nodes(d) /\ Temp \notin Nodes(d) /\ Nil # Temp
      /\ d.root \in Nodes(d) \cup {Nil} /\ Typed(d) /\ p \in Links /\ Temp \in Names
  BY <1>1, TidyNodes, NamesAre, ContentsAssumption DEF Shape, Linked, Links, Names, Typed
<1>3. /\ Typed(u) /\ DOMAIN u.node = DOMAIN d.node \cup {Temp} /\ u.root = d.root
      /\ u.node[Temp] = BlackLeaf(p)
      /\ \A m \in DOMAIN d.node : m # Temp => /\ Parent(u, m) = Parent(d, m)
                                              /\ \A s \in Sides : Child(u, m, s) = Child(d, m, s)
                                              /\ Red(u, m) <=> Red(d, m)
  BY <1>2, Leaves, Grows
<1>4. Nodes(u) = Nodes(d)
  BY <1>2, <1>3 DEF Nodes
<1>5. /\ u.root = d.root
      /\ \A m \in Nodes(d) : /\ Parent(u, m) = Parent(d, m)
                             /\ \A s \in Sides : Child(u, m, s) = Child(d, m, s)
                             /\ Red(u, m) <=> Red(d, m)
  BY <1>2, <1>3
<1>6. Parent(u, Temp) = p /\ (\A s \in Sides : Child(u, Temp, s) = Nil) /\ ~Red(u, Temp)
  BY <1>2, <1>3, Leaves DEF Parent, Child, Red
<1>7. Sorted(u, T)
  <2>1. ASSUME NEW m \in Nodes(u)
        PROVE  /\ T[m] = {m} \cup T[Child(u, m, LEFT)] \cup T[Child(u, m, RIGHT)]
               /\ \A s \in Sides : \A k \in T[Child(u, m, s)] : Before(s, k, m)
    BY <1>1, <1>4, <1>5, SidesAre DEF Shape, Sorted
  <2> QED BY <1>1, <1>3, <1>4, <2>1 DEF Shape, Sorted
<1>8. Linked(u)
  <2>1. ASSUME NEW m \in Nodes(u)
        PROVE /\ Parent(u, m) \in Nodes(u) \cup {Nil}
              /\ Parent(u, m) = Nil <=> m = u.root
              /\ Parent(u, m) # Nil => \E s \in Sides : Child(u, Parent(u, m), s) = m
              /\ \A s \in Sides :
                   /\ Child(u, m, s) \in Nodes(u) \cup {Nil}
                   /\ Child(u, m, s) # Nil => Parent(u, Child(u, m, s)) = m
    BY <1>1, <1>4, <1>5 DEF Shape, Linked
  <2> QED BY <1>1, <1>3, <1>4, <2>1 DEF Shape, Linked
<1>9. Loose(u)
  BY <1>1, <1>4, <1>6 DEF Loose
<1>10. Shape(u, T)
  BY <1>3, <1>7, <1>8, <1>9 DEF Shape
<1>11. Heights(u, B, <<p, side>>)
  BY <1>1, <1>4, <1>5 DEF Heights, Weight
<1>12. NoRedPair(u, Temp, Temp)
  <2>1. SUFFICES ASSUME NEW m \in Nodes(d), NEW s \in Sides, NEW k, k = Child(d, m, s),
                        Red(u, m), k # Nil
                 PROVE  ~Red(u, k)
    BY <1>4, <1>5 DEF NoRedPair
  <2>2. k \in Nodes(d) /\ m # Nil
    BY <1>1, <2>1, NodeIs DEF NodeOf
  <2> QED BY <1>1, <1>5, <2>1, <2>2 DEF NoRedPair
<1>13. RootBlack(u)
  BY <1>1, <1>2, <1>5 DEF RootBlack
<1>14. Hangs(u, Temp, <<p, side>>)
  BY <1>1, <1>4, <1>5, <1>6 DEF Hangs, InTree
<1>15. Temp \in DOMAIN u.node /\ Temp # u.root
  BY <1>2, <1>3
<1> QED BY <1>2, <1>4, <1>6, <1>10, <1>11, <1>12, <1>13, <1>14, <1>15 DEF Removing

-----------------------------------------------------------------------------
(* A removal, up to where the balancing starts *)

ChildOf(t, r) == IF Child(t, r, LEFT) # Nil THEN Child(t, r, LEFT) ELSE Child(t, r, RIGHT)
MovedUp(t, n, r, c, p) ==
  IF r = n THEN Drop(Unlinked(t, r, c, p), n) ELSE Rename(Drop(Unlinked(t, r, c, p), r), n, r)

LEMMA RemoveIs ==
  ASSUME NEW t, NEW n, NEW r, r = Redundant(t, n), NEW c, c = ChildOf(t, r), NEW p, p = Parent(t, r),
         NEW v, v = MovedUp(t, n, r, c, p),
         NEW u, u = Grown(v, Temp, BlackLeaf(IF p = n THEN r ELSE p))
  PROVE  Remove(t, n) = IF isRed(t, r) \/ (c = Nil /\ p = Nil) THEN [tree |-> v, cur |-> Nil]
                        ELSE IF c = Nil THEN [tree |-> u, cur |-> Temp]
                        ELSE [tree |-> v, cur |-> c]
<1>1. Remove(t, n) =
        LET r1 == Redundant(t, n)
            c1 == ChildOf(t, r1)
            p1 == Parent(t, r1)
            v1 == MovedUp(t, n, r1, c1, p1)
            u1 == Grown(v1, Temp, BlackLeaf(IF p1 = n THEN r1 ELSE p1))
        IN IF isRed(t, r1) \/ (c1 = Nil /\ p1 = Nil) THEN [tree |-> v1, cur |-> Nil]
           ELSE IF c1 = Nil THEN [tree |-> u1, cur |-> Temp]
           ELSE [tree |-> v1, cur |-> c1]
  BY Zenon DEF Remove, ChildOf, MovedUp, Unlinked, Grown, BlackLeaf
<1> QED BY <1>1

\* The node that leaves has at most one child, and is next to the one that is removed.
LEMMA Leaving ==
  ASSUME NEW t, NEW S, Shape(t, S), Tidy(t), NEW n \in Nodes(t), NEW r, r = Redundant(t, n)
  PROVE  /\ r \in Nodes(t) /\ OnlyChild(t, r, ChildOf(t, r))
         /\ r # n => /\ n < r /\ \A k \in Nodes(t) : n < k => r <= k
                     /\ ChildOf(t, r) # n
<1>1. NodeOf(t, S, n) /\ Nil \notin Nodes(t) /\ \A k \in Nodes(t) : k \in Nat
  BY NodeIs, NamesAre DEF Shape
<1>2. CASE \A s \in Sides : Child(t, n, s) # Nil
  <2>1. r = TreeSuccessor(t, n)
    BY <1>2, Zenon DEF Redundant
  <2>2. PICK k \in Nodes(t) : k = Child(t, n, RIGHT)
    BY <1>1, <1>2, SidesAre DEF NodeOf
  <2>3. k # Nil
    BY <1>1
  <2>4. r \in S[k] /\ Child(t, r, LEFT) = Nil
    BY <2>1, <2>2, <2>3, Successor
  <2>5. NodeOf(t, S, k) /\ r \in Nodes(t)
    BY <2>2, <2>4, NodeIs DEF NodeOf
  <2>6. r # Nil
    BY <1>1, <2>5
  <2>7. n < r /\ \A j \in Nodes(t) : n < j => r <= j
    BY <2>1, <2>6, Successor
  <2>8. PICK c : c = Child(t, r, RIGHT) /\ c = ChildOf(t, r)
    BY <2>4 DEF ChildOf
  <2>9. OnlyChild(t, r, c)
    BY <2>4, <2>8, SidesAre DEF OnlyChild
  <2>10. c # n
    <3>1. NodeOf(t, S, r) /\ S[r] \subseteq S[k]
      BY <2>4, <2>5, NodeIs, Below
    <3>2. c \in S[r] \/ c = Nil
      <4>1. RIGHT \in Sides
        BY SidesAre
      <4>2. c # Nil => c \in S[c] /\ S[c] \subseteq S[r]
        BY <2>8, <3>1, <4>1 DEF NodeOf
      <4> QED BY <4>2
    <3>3. n \notin S[k] /\ n # Nil
      BY <1>1, <2>2, SidesAre DEF NodeOf
    <3> QED BY <3>1, <3>2, <3>3
  <2> QED BY <2>5, <2>7, <2>8, <2>9, <2>10
<1>3. CASE ~\A s \in Sides : Child(t, n, s) # Nil
  <2>1. r = n
    BY <1>3, Zenon DEF Redundant
  <2>2. OnlyChild(t, n, ChildOf(t, n))
    <3>1. Child(t, n, LEFT) = Nil \/ Child(t, n, RIGHT) = Nil
      BY <1>3, SidesAre
    <3>2. CASE Child(t, n, LEFT) # Nil
      BY <3>1, <3>2, SidesAre DEF OnlyChild, ChildOf
    <3>3. CASE Child(t, n, LEFT) = Nil
      BY <3>3, SidesAre DEF OnlyChild, ChildOf
    <3> QED BY <3>2, <3>3
  <2> QED BY <2>1, <2>2
<1> QED BY <1>2, <1>3

LEMMA RemoveRemoves ==
  ASSUME NEW t, NEW S, NEW B, Sound(t, S, B), Tidy(t), NEW n \in Nodes(t), NEW x, x = Remove(t, n)
  PROVE  /\ Nodes(x.tree) = Nodes(t) \ {n}
         /\ \E S2, B2, e : Removing(x.tree, S2, B2, x.cur, e)
<1>0. Shape(t, S) /\ NoRedPair(t, Nil, Nil) /\ RootBlack(t)
  BY DEF Sound
<1>1. PICK r : r = Redundant(t, n)
  OBVIOUS
<1>2. PICK c : c = ChildOf(t, r)
  OBVIOUS
<1>3. /\ r \in Nodes(t) /\ OnlyChild(t, r, c)
      /\ r # n => n < r /\ (\A k \in Nodes(t) : n < k => r <= k) /\ c # n
  BY <1>0, <1>1, <1>2, Leaving
<1>4. PICK p : p = Parent(t, r)
  OBVIOUS
<1>5. PICK d : d = Drop(Unlinked(t, r, c, p), r)
  OBVIOUS
<1>6. Spliced(t, d, r, c, p)
  BY <1>0, <1>3, <1>4, <1>5, Splices
<1>7. PICK T : T = Without(d, S, r)
  OBVIOUS
<1>8. Shape(d, T) /\ Tidy(d) /\ Nodes(d) = Nodes(t) \ {r}
  BY <1>0, <1>3, <1>4, <1>6, <1>7, SplicedShape
<1>9. /\ Red(t, r) \/ (c = Nil /\ p = Nil) => \E B2 : Removing(d, T, B2, Nil, NoEdge)
      /\ ~Red(t, r) /\ c # Nil => \E B2, e : Removing(d, T, B2, c, e)
      /\ ~Red(t, r) /\ c = Nil /\ p # Nil => \E B2, side : Hole(d, T, B2, p, side)
  BY <1>3, <1>4, <1>6, <1>7, SplicedRemoves
<1>10. PICK v : v = MovedUp(t, n, r, c, p)
  OBVIOUS
<1>11. PICK place : place = IF p = n THEN r ELSE p
  OBVIOUS
<1>12. PICK u : u = Grown(v, Temp, BlackLeaf(place))
  OBVIOUS
<1>13. x = IF isRed(t, r) \/ (c = Nil /\ p = Nil) THEN [tree |-> v, cur |-> Nil]
           ELSE IF c = Nil THEN [tree |-> u, cur |-> Temp]
           ELSE [tree |-> v, cur |-> c]
  BY <1>1, <1>2, <1>4, <1>10, <1>11, <1>12, RemoveIs
<1>14. isRed(t, r) <=> Red(t, r)
  BY <1>0, <1>3, RedIs, NamesAre DEF Shape
<1>15. c \in Nodes(d) \cup {Nil} /\ p # r /\ Nil \notin Nodes(t)
  <2>1. Nil \notin Nodes(t) /\ NodeOf(t, S, r)
    BY <1>0, <1>3, NamesAre, NodeIs DEF Shape
  <2>2. p # r
    BY <1>0, <1>3, <1>4, <2>1, ParentFacts
  <2>3. c # r /\ c \in Nodes(t) \cup {Nil}
    BY <2>1, <1>3 DEF NodeOf, OnlyChild
  <2> QED BY <1>8, <2>1, <2>2, <2>3
<1>16. /\ Tidy(v) /\ Nodes(v) = Nodes(t) \ {n}
       /\ Red(t, r) \/ (c = Nil /\ p = Nil) => \E S2, B2, e : Removing(v, S2, B2, Nil, e)
       /\ ~Red(t, r) /\ c # Nil => \E S2, B2, e : Removing(v, S2, B2, c, e)
       /\ ~Red(t, r) /\ c = Nil /\ p # Nil => \E S2, B2, side : Hole(v, S2, B2, place, side)
  <2>1. CASE r = n
    <3>1. v = d /\ place = p
      BY <1>5, <1>10, <1>11, <1>15, <2>1 DEF MovedUp
    <3> QED BY <1>8, <1>9, <2>1, <3>1
  <2>2. CASE r # n
    <3>1. v = Rename(d, n, r)
      BY <1>5, <1>10, <2>2 DEF MovedUp
    <3>2. n \in Nodes(d) /\ r \in Contents /\ r \notin Nodes(d) /\ Typed(d)
      BY <1>0, <1>3, <1>8, <2>2, NamesAre DEF Shape
    <3>3. Renamed(d, v, n, r)
      BY <1>8, <2>2, <3>1, <3>2, Renames
    <3>4. Fits(d, n, r)
      <4>1. SUFFICES ASSUME NEW k \in Nodes(d), k # n PROVE (k < n => k < r) /\ (n < k => r < k)
        BY DEF Fits
      <4>2. k \in Nodes(t) /\ k # r /\ k \in Nat /\ n \in Nat /\ r \in Nat
        BY <1>0, <1>3, <1>8, NamesAre DEF Shape
      <4> QED BY <1>3, <2>2, <4>1, <4>2
    <3>5. Tidy(v) /\ Nodes(v) = Nodes(t) \ {n}
      <4>1. Tidy(v) /\ Nodes(v) = (Nodes(d) \ {n}) \cup {r}
        BY <1>8, <3>2, <3>3, <3>4, RenamedShape
      <4> QED BY <1>3, <1>8, <2>2, <4>1
    <3>6. To(n, r, Nil) = Nil /\ To(n, r, c) = c /\ To(n, r, p) = place
      <4>1. Nil # n /\ c # n
        BY <1>3, <1>15, <2>2
      <4> QED BY <1>11, <4>1 DEF To
    <3>7. ASSUME Red(t, r) \/ (c = Nil /\ p = Nil) PROVE \E S2, B2, e : Removing(v, S2, B2, Nil, e)
      <4>1. PICK B2 : Removing(d, T, B2, Nil, NoEdge)
        BY <1>9, <3>7
      <4>2. \E S2, B3, e : Removing(v, S2, B3, To(n, r, Nil), e)
        BY <1>8, <3>2, <3>3, <3>4, <4>1, RenamedRemoving
      <4> QED BY <3>6, <4>2
    <3>8. ASSUME ~Red(t, r), c # Nil PROVE \E S2, B2, e : Removing(v, S2, B2, c, e)
      <4>1. PICK B2, e : Removing(d, T, B2, c, e)
        BY <1>9, <3>8
      <4>2. \E S2, B3, f : Removing(v, S2, B3, To(n, r, c), f)
        BY <1>8, <1>15, <3>2, <3>3, <3>4, <4>1, RenamedRemoving
      <4> QED BY <3>6, <4>2
    <3>9. ASSUME ~Red(t, r), c = Nil, p # Nil PROVE \E S2, B2, side : Hole(v, S2, B2, place, side)
      <4>1. PICK B2, side : Hole(d, T, B2, p, side)
        BY <1>9, <3>9
      <4>2. \E S2, B3 : Hole(v, S2, B3, To(n, r, p), side)
        BY <1>8, <3>2, <3>3, <3>4, <4>1, RenamedHole
      <4> QED BY <3>6, <4>2
    <3> QED BY <3>5, <3>7, <3>8, <3>9
  <2> QED BY <2>1, <2>2
<1>17. CASE Red(t, r) \/ (c = Nil /\ p = Nil)
  <2>1. x.tree = v /\ x.cur = Nil
    BY <1>13, <1>14, <1>17
  <2> QED BY <1>16, <1>17, <2>1
<1>18. CASE ~Red(t, r) /\ c # Nil
  <2>1. x.tree = v /\ x.cur = c
    BY <1>13, <1>14, <1>18
  <2> QED BY <1>16, <1>18, <2>1
<1>19. CASE ~Red(t, r) /\ c = Nil /\ p # Nil
  <2>1. x.tree = u /\ x.cur = Temp
    BY <1>13, <1>14, <1>19
  <2>2. PICK S2, B2, side : Hole(v, S2, B2, place, side)
    BY <1>16, <1>19
  <2>3. Nodes(u) = Nodes(v) /\ Removing(u, S2, B2, Temp, <<place, side>>)
    BY <1>12, <1>16, <2>2, HoleFilled
  <2> QED BY <1>16, <2>1, <2>3
<1> QED BY <1>17, <1>18, <1>19

-----------------------------------------------------------------------------
(* How far down a node is *)

DepthStep(t, f) == f = [m \in Pointers(t) |-> IF m = Nil THEN 0 ELSE 1 + f[Parent(t, m)]]
DepthIn(t, n) == LET D[m \in Pointers(t)] == IF m = Nil THEN 0 ELSE 1 + D[Parent(t, m)] IN D[n]

LEMMA DepthUnfolds ==
  ASSUME NEW t, NEW n, NEW w, DepthStep(t, w)
  PROVE  \E f : DepthStep(t, f) /\ DepthIn(t, n) = f[n]
<1>1. PICK f : f = CHOOSE g : DepthStep(t, g)
  OBVIOUS
<1>2. DepthStep(t, f)
  BY <1>1, Zenon
<1>3. DepthIn(t, n) = f[n]
  BY <1>1, Zenon DEF DepthIn, DepthStep
<1> QED BY <1>2, <1>3

\* The nodes on the way up from m, m included.
Above(t, S, m) == {k \in Nodes(t) : m \in S[k]}

LEMMA AboveIs ==
  ASSUME NEW t, NEW S, Shape(t, S), NEW m \in Nodes(t)
  PROVE  /\ Cardinality(Above(t, S, m)) \in Nat
         /\ Cardinality(Above(t, S, m)) =
              1 + (IF Parent(t, m) = Nil THEN 0 ELSE Cardinality(Above(t, S, Parent(t, m))))
<1>1. NodeOf(t, S, m) /\ IsFiniteSet(Nodes(t)) /\ Nil \notin Nodes(t)
  BY NodeIs, NamesAre DEF Shape
<1>2. \A k : IsFiniteSet(Above(t, S, k)) /\ Cardinality(Above(t, S, k)) \in Nat
  BY <1>1, FS_Subset, FS_CardinalityType DEF Above
<1>3. CASE Parent(t, m) = Nil
  <2>1. ASSUME NEW k \in Nodes(t) PROVE m \in S[k] <=> k = m
    BY <1>1, <1>3, BelowParent DEF NodeOf
  <2>2. Above(t, S, m) = {m}
    BY <2>1 DEF Above
  <2> QED BY <1>3, <2>2, FS_Singleton
<1>4. CASE Parent(t, m) # Nil
  <2>1. PICK p \in Nodes(t) : p = Parent(t, m)
    BY <1>1, <1>4 DEF NodeOf
  <2>2. ASSUME NEW k \in Nodes(t) PROVE m \in S[k] <=> (k = m \/ p \in S[k])
    <3>1. CASE k = m
      BY <1>1, <3>1 DEF NodeOf
    <3>2. CASE k # m
      BY <1>4, <2>1, <3>2, BelowParent
    <3> QED BY <3>1, <3>2
  <2>3. p \notin S[m]
    <3>1. PICK s \in Sides : Child(t, p, s) = m
      BY <1>4, <2>1, ParentFacts, SidesAre
    <3> QED BY <3>1, NodeIs DEF NodeOf
  <2>4. Above(t, S, m) = Above(t, S, p) \cup {m} /\ m \notin Above(t, S, p)
    BY <2>2, <2>3 DEF Above
  <2>5. Cardinality(Above(t, S, m)) = Cardinality(Above(t, S, p)) + 1
    BY <1>2, <2>4, FS_AddElement
  <2> QED BY <1>2, <1>4, <2>1, <2>5
<1> QED BY <1>2, <1>3, <1>4

\* The depth of a node, and of the one on the stack.
HowDeep(t, S, m) == IF m = Nil THEN 0
                    ELSE IF m = Temp THEN 1 + Cardinality(Above(t, S, Parent(t, Temp)))
                    ELSE Cardinality(Above(t, S, m))

LEMMA DepthIs ==
  ASSUME NEW t, NEW S, Shape(t, S), NEW n \in Pointers(t)
  PROVE  DepthIn(t, n) = HowDeep(t, S, n)
<1>1. /\ Pointers(t) \subseteq Nodes(t) \cup {Nil, Temp} /\ Nil \notin Nodes(t) /\ Temp \notin Nodes(t) /\ Nil # Temp
      /\ Nodes(t) \subseteq Pointers(t) /\ (Temp \in Pointers(t) => Parent(t, Temp) \in Nodes(t)) /\ Nil \in Pointers(t)
  BY NamesAre, ContentsAssumption DEF Pointers, Nodes, Shape, Loose
<1>2. PICK w : w = [m \in Pointers(t) |-> HowDeep(t, S, m)]
  OBVIOUS
<1>3. \A m \in Nodes(t) : Parent(t, m) \in Nodes(t) \cup {Nil}
  BY NodeIs DEF NodeOf
<1>4. ASSUME NEW m \in Pointers(t)
      PROVE  w[m] = IF m = Nil THEN 0 ELSE 1 + w[Parent(t, m)]
  <2>1. CASE m = Nil
    BY <1>2, <2>1 DEF HowDeep
  <2>2. CASE m = Temp
    <3>1. Parent(t, Temp) \in Nodes(t) /\ Parent(t, Temp) # Nil /\ Parent(t, Temp) # Temp
      BY <1>1, <2>2
    <3>2. w[Temp] = 1 + Cardinality(Above(t, S, Parent(t, Temp)))
      BY <1>1, <1>2, <2>2 DEF HowDeep
    <3>3. w[Parent(t, Temp)] = Cardinality(Above(t, S, Parent(t, Temp)))
      BY <1>1, <1>2, <3>1 DEF HowDeep
    <3> QED BY <1>1, <2>2, <3>2, <3>3
  <2>3. CASE m \in Nodes(t)
    <3>1. PICK p \in Nodes(t) \cup {Nil} : p = Parent(t, m)
      BY <1>3, <2>3
    <3>2. w[m] = Cardinality(Above(t, S, m))
      BY <1>1, <1>2, <2>3 DEF HowDeep
    <3>3. w[p] = IF p = Nil THEN 0 ELSE Cardinality(Above(t, S, p))
      BY <1>1, <1>2 DEF HowDeep
    <3> QED BY <1>1, <2>3, <3>1, <3>2, <3>3, AboveIs
  <2> QED BY <1>1, <2>1, <2>2, <2>3
<1>5. DepthStep(t, w)
  <2>1. w = [m \in Pointers(t) |-> w[m]]
    BY <1>2
  <2>2. w = [m \in Pointers(t) |-> IF m = Nil THEN 0 ELSE 1 + w[Parent(t, m)]]
    BY <1>4, <2>1
  <2> QED BY <2>2 DEF DepthStep
<1>6. PICK f : DepthStep(t, f) /\ DepthIn(t, n) = f[n]
  BY <1>5, DepthUnfolds
<1>7. \A m \in Pointers(t) : f[m] = IF m = Nil THEN 0 ELSE 1 + f[Parent(t, m)]
  BY <1>6 DEF DepthStep
<1>8. PICK X : X = {m \in Nodes(t) : f[m] # w[m]}
  OBVIOUS
<1>9. ASSUME X # {} PROVE FALSE
  <2>1. PICK m \in X : Parent(t, m) \notin X
    BY <1>8, <1>9, HighestNode
  <2>2. m \in Nodes(t) /\ f[m] # w[m] /\ m \in Pointers(t) /\ m # Nil
    BY <1>1, <1>8, <2>1
  <2>3. PICK p \in Nodes(t) \cup {Nil} : p = Parent(t, m)
    BY <1>3, <2>2
  <2>4. f[p] = w[p]
    <3>1. CASE p = Nil
      BY <1>1, <1>4, <1>7, <3>1
    <3>2. CASE p # Nil
      BY <1>8, <2>1, <2>3, <3>2
    <3> QED BY <3>1, <3>2
  <2> QED BY <1>4, <1>7, <2>2, <2>3, <2>4
<1>10. f[n] = w[n]
  <2>1. CASE n = Nil
    BY <1>1, <1>4, <1>7, <2>1
  <2>2. CASE n \in Nodes(t)
    BY <1>8, <1>9, <2>2
  <2>3. CASE n = Temp
    <3>1. Parent(t, n) \in Nodes(t) /\ n # Nil
      BY <1>1, <2>3
    <3>2. f[Parent(t, n)] = w[Parent(t, n)]
      BY <1>8, <1>9, <3>1
    <3> QED BY <1>4, <1>7, <3>1, <3>2
  <2> QED BY <1>1, <2>1, <2>2, <2>3
<1> QED BY <1>2, <1>6, <1>10

\* Up is less deep, in trees with the same links.
LEMMA UpIsLess ==
  ASSUME NEW t, NEW S, Shape(t, S), NEW u, SameLinks(t, u), NEW n \in DOMAIN t.node
  PROVE  /\ DepthIn(u, Parent(t, n)) < DepthIn(t, n)
         /\ DepthIn(u, Parent(t, n)) = DepthIn(t, Parent(t, n))
<1>1. Shape(u, S) /\ Nodes(u) = Nodes(t)
  BY ShapeOfLinks
<1>2. DOMAIN u.node = DOMAIN t.node /\ \A m \in DOMAIN t.node : Parent(u, m) = Parent(t, m)
  BY DEF SameLinks, SameNodes
<1>3. Pointers(u) = Pointers(t) /\ n \in Pointers(t) /\ n \in Nodes(t) \cup {Temp}
      /\ Nil \notin Nodes(t) /\ Temp \notin Nodes(t) /\ Nil # Temp /\ n # Nil
      /\ Nodes(t) \subseteq DOMAIN t.node
  BY <1>2, NamesAre, ContentsAssumption DEF Pointers, Nodes, Shape
<1>4. Parent(t, n) \in Nodes(t) \cup {Nil} /\ (n = Temp => Parent(t, n) \in Nodes(t))
  <2>1. CASE n = Temp
    BY <2>1 DEF Shape, Loose
  <2>2. CASE n # Temp
    BY <1>3, <2>2, NodeIs DEF NodeOf
  <2> QED BY <2>1, <2>2
<1>5. PICK p : p = Parent(t, n)
  OBVIOUS
<1>6. p \in Nodes(t) \cup {Nil} /\ p \in Pointers(t) /\ p # Temp
  BY <1>3, <1>4, <1>5 DEF Pointers
<1>7. Above(u, S, p) = Above(t, S, p)
  BY <1>1 DEF Above
<1>8. DepthIn(u, p) = HowDeep(t, S, p) /\ DepthIn(t, p) = HowDeep(t, S, p) /\ DepthIn(t, n) = HowDeep(t, S, n)
  <2>1. DepthIn(u, p) = HowDeep(u, S, p) /\ DepthIn(t, p) = HowDeep(t, S, p) /\ DepthIn(t, n) = HowDeep(t, S, n)
    BY <1>1, <1>3, <1>6, DepthIs
  <2>2. HowDeep(u, S, p) = HowDeep(t, S, p)
    BY <1>6, <1>7 DEF HowDeep
  <2> QED BY <2>1, <2>2
<1>9. HowDeep(t, S, p) \in Nat
  BY <1>6, AboveIs DEF HowDeep
<1>10. HowDeep(t, S, n) = 1 + HowDeep(t, S, p)
  <2>1. CASE n = Temp
    BY <1>3, <1>4, <1>5, <1>6, <2>1 DEF HowDeep
  <2>2. CASE n # Temp
    <3>1. n \in Nodes(t)
      BY <1>3, <2>2
    <3> QED BY <1>3, <1>5, <1>6, <2>2, <3>1, AboveIs DEF HowDeep
  <2> QED BY <2>1, <2>2
<1> QED BY <1>5, <1>8, <1>9, <1>10

-----------------------------------------------------------------------------
(* The trees there are between and within calls *)

Ready(t) == Tidy(t) /\ \E S, B : Sound(t, S, B)
Entering(t, c) == Tidy(t) /\ \E S, B : Adding(t, S, B, c)
Departing(t, c) == \E S, B, e : Removing(t, S, B, c, e)

LEMMA ReadyFinds ==
  ASSUME NEW t, Ready(t), NEW x \in Contents
  PROVE  TreeFind(t, x) = IF x \in Nodes(t) THEN x ELSE Nil
<1>1. PICK S, B : Sound(t, S, B)
  BY DEF Ready
<1>2. Shape(t, S) /\ Tidy(t)
  BY <1>1 DEF Ready, Sound
<1> QED BY <1>2, Finds

LEMMA ReadyEnters ==
  ASSUME NEW t, Ready(t), NEW x \in Contents, x \notin Nodes(t), NEW u, u = Insert(t, x)
  PROVE  Entering(u, x) /\ Nodes(u) = Nodes(t) \cup {x}
<1>1. PICK S, B : Sound(t, S, B)
  BY DEF Ready
<1>2. Tidy(t)
  BY DEF Ready
<1> QED BY <1>1, <1>2, InsertAdds DEF Entering

LEMMA ReadyDeparts ==
  ASSUME NEW t, Ready(t), NEW n \in Nodes(t), NEW x, x = Remove(t, n)
  PROVE  Departing(x.tree, x.cur) /\ Nodes(x.tree) = Nodes(t) \ {n}
<1>1. PICK S, B : Sound(t, S, B)
  BY DEF Ready
<1>2. Tidy(t)
  BY DEF Ready
<1> QED BY <1>1, <1>2, RemoveRemoves DEF Departing

\* A round of the loop after an insertion.
LEMMA EnteringRound ==
  ASSUME NEW t, NEW c, Entering(t, c), isRed(t, Parent(t, c)), Parent(t, Parent(t, c)) # Nil,
         NEW which,
         which = (IF Parent(t, c) = Child(t, Parent(t, Parent(t, c)), LEFT) THEN RIGHT ELSE LEFT),
         NEW r, r = TreeBAASub(t, c, which)
  PROVE  /\ Entering(r.tree, r.cur) /\ Nodes(r.tree) = Nodes(t)
         /\ isRed(r.tree, Parent(r.tree, r.cur)) => DepthIn(r.tree, r.cur) < DepthIn(t, c)
<1>1. PICK S, B : Adding(t, S, B, c)
  BY DEF Entering
<1>2. Shape(t, S) /\ c \in Nodes(t)
  BY <1>1 DEF Adding
<1>3. PICK p : p = Parent(t, c)
  OBVIOUS
<1>4. PICK g : g = Parent(t, p)
  OBVIOUS
<1>5. p \in Nodes(t) \cup {Nil} /\ p # Nil /\ Red(t, p)
  <2>1. NodeOf(t, S, c)
    BY <1>2, NodeIs
  <2>2. isRed(t, p)
    BY <1>3
  <2> QED BY <1>3, <2>1, <2>2 DEF NodeOf, isRed, Red
<1>6. g \in Nodes(t) /\ (Child(t, g, LEFT) = p \/ Child(t, g, RIGHT) = p)
  BY <1>2, <1>3, <1>4, <1>5, ParentFacts
<1>7. which \in Sides /\ p = Child(t, g, Opposite(which))
  <2>1. which = IF p = Child(t, g, LEFT) THEN RIGHT ELSE LEFT
    BY <1>3, <1>4
  <2>2. CASE p = Child(t, g, LEFT)
    <3>1. which = RIGHT
      BY <2>1, <2>2
    <3> QED BY <2>2, <3>1 DEF Opposite, Sides, LEFT, RIGHT
  <2>3. CASE p # Child(t, g, LEFT)
    <3>1. which = LEFT /\ Child(t, g, RIGHT) = p
      BY <1>6, <2>1, <2>3
    <3> QED BY <3>1 DEF Opposite, Sides, LEFT, RIGHT
  <2> QED BY <2>2, <2>3
<1>8. Climbs(t, S, B, c, which, p, g)
  BY <1>1, <1>3, <1>4, <1>5, <1>6, <1>7 DEF Climbs
<1>9. /\ SameNodes(t, r.tree)
      /\ \E S2, B2 : Adding(r.tree, S2, B2, r.cur)
      /\ (SameLinks(t, r.tree) /\ r.cur = g) \/ ~isRed(r.tree, Parent(r.tree, r.cur))
  BY <1>8, AddingRound
<1>10. Tidy(r.tree) /\ Nodes(r.tree) = Nodes(t)
  BY <1>9 DEF SameNodes, Tidy, Entering, Nodes
<1>11. ASSUME SameLinks(t, r.tree), r.cur = g PROVE DepthIn(r.tree, r.cur) < DepthIn(t, c)
  <2>1. c \in DOMAIN t.node /\ p \in DOMAIN t.node
    BY <1>2, <1>5 DEF Nodes
  <2>2. DepthIn(r.tree, p) < DepthIn(t, c) /\ DepthIn(r.tree, p) = DepthIn(t, p)
    BY <1>2, <1>3, <1>11, <2>1, UpIsLess
  <2>3. DepthIn(r.tree, g) < DepthIn(t, p)
    BY <1>2, <1>4, <1>11, <2>1, UpIsLess
  <2>4. DepthIn(t, c) \in Nat /\ DepthIn(t, p) \in Nat /\ DepthIn(r.tree, g) \in Nat
    <3>1. Pointers(t) = DOMAIN t.node \cup {Nil} /\ Shape(r.tree, S) /\ r.tree.node = r.tree.node
      BY <1>2, <1>11, ShapeOfLinks DEF Pointers
    <3>2. g \in Nodes(r.tree)
      BY <1>6, <1>10
    <3>3. \A u : Shape(u, S) => \A n \in Nodes(u) : DepthIn(u, n) \in Nat
      BY DepthIs, AboveIs, NamesAre DEF HowDeep, Pointers, Nodes, Shape
    <3> QED BY <1>2, <1>5, <3>1, <3>2, <3>3
  <2> QED BY <1>11, <2>2, <2>3, <2>4
<1> QED BY <1>9, <1>10, <1>11 DEF Entering

\* A round of the loop after a removal.
LEMMA DepartingRound ==
  ASSUME NEW t, NEW c, Departing(t, c), c # Nil, c # t.root, ~isRed(t, c),
         NEW which, which = (IF InTree(c) = Child(t, Parent(t, c), LEFT) THEN RIGHT ELSE LEFT),
         NEW r, r = TreeBARSub(t, c, which)
  PROVE  /\ Departing(r.tree, r.cur) /\ Nodes(r.tree) = Nodes(t)
         /\ r.cur # r.tree.root /\ ~isRed(r.tree, r.cur) => DepthIn(r.tree, r.cur) < DepthIn(t, c)
<1>1. PICK S, B, e : Removing(t, S, B, c, e)
  BY DEF Departing
<1>2. Shape(t, S) /\ c \in DOMAIN t.node
  BY <1>1 DEF Removing
<1>3. /\ SameNodes(t, r.tree)
      /\ \E S2, B2, e2 : Removing(r.tree, S2, B2, r.cur, e2)
      /\ \/ SameLinks(t, r.tree) /\ r.cur = Parent(t, c)
         \/ r.cur = r.tree.root
         \/ isRed(r.tree, r.cur)
  BY <1>1, RemovingRound
<1>4. SameLinks(t, r.tree) => DepthIn(r.tree, Parent(t, c)) < DepthIn(t, c)
  BY <1>2, UpIsLess
<1> QED BY <1>3, <1>4 DEF Departing, SameNodes, Nodes

\* What the loop after an insertion, and the one after a removal, leave.
LEMMA EnteringEnds ==
  ASSUME NEW t, NEW c, Entering(t, c), ~(isRed(t, Parent(t, c)) /\ Parent(t, Parent(t, c)) # Nil),
         NEW u, u = Blackened(t, t.root)
  PROVE  Ready(u) /\ Nodes(u) = Nodes(t)
<1>1. PICK S, B : Adding(t, S, B, c)
  BY DEF Entering
<1>2. SameLinks(t, u) /\ \E B2 : Sound(u, S, B2)
  BY <1>1, AddingEnds
<1> QED BY <1>2 DEF Entering, Ready, SameLinks, SameNodes, Nodes, Tidy

LEMMA DepartingEnds ==
  ASSUME NEW t, NEW c, Departing(t, c), ~(c # Nil /\ c # t.root /\ ~isRed(t, c)),
         NEW u, u = Drop(Ended(t, c), Temp)
  PROVE  Ready(u) /\ Nodes(u) = Nodes(t)
<1>1. PICK S, B, e : Removing(t, S, B, c, e)
  BY DEF Departing
<1>2. /\ Nodes(u) = Nodes(t) /\ Tidy(u)
      /\ \E B2 : Sound(u, S, B2)
  BY <1>1, RemovingEnds
<1> QED BY <1>2 DEF Ready

-----------------------------------------------------------------------------
(* What the calls keep *)

\* Memory ran out during a call, which left the mutex locked.
Stuck == op = NoOp /\ heap_mutex

OpKept ==
  /\ op \in Op \cup {NoOp}
  /\ op # NoOp => heap_mutex
  /\ op # NoOp /\ op.call = "realloc" => op.request \in Rounded

TreeKept ==
  /\ op = NoOp => Ready(heap)
  /\ Phase("add") => Entering(heap, cur)
  /\ Phase("remove") => Departing(heap, cur)

\* The block whose node has left the tree and whose record has not.
InHand == IF Phase("remove") THEN {op.ptr} ELSE {}

BlocksKept ==
  /\ Nodes(heap) \subseteq memory
  /\ DOMAIN size = Nodes(heap) \cup InHand
  /\ InHand \cap Nodes(heap) = {}

HeapKept == OpKept /\ TreeKept /\ (~Stuck => BlocksKept)

LEMMA OpIs == ASSUME NEW o \in Op PROVE o # NoOp
BY DEF Op, NoOp

LEMMA NoPhase ==
  ASSUME op = NoOp
  PROVE  ~Phase("add") /\ ~Phase("remove") /\ InHand = {}
BY DEF Phase, InHand

LEMMA Begins ==
  ASSUME NEW call \in {"malloc", "free", "unlink", "realloc"}, NEW phase \in {"add", "remove"},
         NEW ptr \in Contents, NEW request \in Rounded \cup {0}, call = "realloc" => request \in Rounded,
         Begin(call, phase, ptr, request)
  PROVE  /\ OpKept' /\ op' # NoOp /\ ~Stuck'
         /\ op'.call = call /\ op'.phase = phase /\ op'.ptr = ptr /\ op'.request = request
<1>1. op' \in Op /\ op'.call = call /\ op'.phase = phase /\ op'.ptr = ptr /\ op'.request = request
  BY DEF Begin, Op, Addresses
<1>2. op' # NoOp
  BY <1>1, OpIs
<1>3. heap_mutex'
  BY Zenon DEF Begin
<1>4. op'.call = "realloc" => op'.request \in Rounded
  BY <1>1
<1> QED BY <1>1, <1>2, <1>3, <1>4, Zenon DEF OpKept, Stuck

LEMMA BeginsAdd ==
  ASSUME NEW call \in {"malloc", "free", "unlink", "realloc"},
         NEW ptr \in Contents, NEW request \in Rounded \cup {0}, call = "realloc" => request \in Rounded,
         Begin(call, "add", ptr, request)
  PROVE  /\ OpKept' /\ ~Stuck' /\ op'.ptr = ptr
         /\ Phase("add")' /\ ~Phase("remove")' /\ op' # NoOp /\ InHand' = {}
BY Begins DEF Phase, InHand

LEMMA BeginsRemove ==
  ASSUME NEW call \in {"malloc", "free", "unlink", "realloc"},
         NEW ptr \in Contents, NEW request \in Rounded \cup {0}, call = "realloc" => request \in Rounded,
         Begin(call, "remove", ptr, request)
  PROVE  /\ OpKept' /\ ~Stuck' /\ op'.ptr = ptr
         /\ ~Phase("add")' /\ Phase("remove")' /\ op' # NoOp /\ InHand' = {ptr}
BY Begins DEF Phase, InHand

LEMMA Returns ==
  ASSUME Return
  PROVE  OpKept' /\ op' = NoOp /\ ~Stuck' /\ ~Phase("add")' /\ ~Phase("remove")' /\ InHand' = {}
<1>1. op' = NoOp /\ ~heap_mutex'
  BY Zenon DEF Return
<1> QED BY <1>1, Zenon DEF OpKept, Stuck, Phase, InHand

LEMMA ReturnsLocked ==
  ASSUME ReturnLocked
  PROVE  OpKept' /\ op' = NoOp /\ Stuck' /\ ~Phase("add")' /\ ~Phase("remove")' /\ InHand' = {}
<1>1. op' = NoOp /\ heap_mutex'
  BY Zenon DEF ReturnLocked
<1> QED BY <1>1, Zenon DEF OpKept, Stuck, Phase, InHand

\* Between calls, and in each phase.
LEMMA Idle ==
  ASSUME HeapKept, ~heap_mutex
  PROVE  /\ op = NoOp /\ Ready(heap) /\ BlocksKept /\ InHand = {}
         /\ DOMAIN size = Nodes(heap) /\ Nodes(heap) \subseteq memory
<1>1. op = NoOp /\ ~Stuck
  BY Zenon DEF HeapKept, OpKept, Stuck
<1>2. InHand = {}
  BY <1>1, NoPhase
<1>3. BlocksKept /\ Ready(heap)
  BY <1>1, Zenon DEF HeapKept, TreeKept
<1> QED BY <1>1, <1>2, <1>3 DEF BlocksKept

LEMMA Busy ==
  ASSUME HeapKept, op # NoOp
  PROVE  op \in Op /\ ~Stuck /\ BlocksKept /\ heap_mutex /\ (op.call = "realloc" => op.request \in Rounded)
BY Zenon DEF HeapKept, OpKept, Stuck

LEMMA Roundup ==
  ASSUME NEW request \in Requests
  PROVE  Heap_roundup(request) \in Rounded
BY DEF Rounded

LEMMA RecordedIs == Recorded = Nodes(heap)
BY DEF Recorded, Nodes

LEMMA SettledIs == Settled = Drop(Ended(heap, cur), Temp)
BY Zenon DEF Settled, Ended, Blackened

LEMMA SettledKeeps ==
  ASSUME HeapKept, Phase("remove"), ~OneBlackShort
  PROVE  Ready(Settled) /\ Nodes(Settled) = Nodes(heap)
<1>1. Departing(heap, cur)
  BY DEF HeapKept, TreeKept
<1>2. ~(cur # Nil /\ cur # heap.root /\ ~isRed(heap, cur))
  BY Zenon DEF OneBlackShort, isBlack
<1> QED BY <1>1, <1>2, SettledIs, DepartingEnds

WithRecord(z, ptr, n) == [p \in DOMAIN z \cup {ptr} |-> IF p = ptr THEN n ELSE z[p]]
WithoutRecord(z, ptr) == [p \in DOMAIN z \ {ptr} |-> z[p]]

LEMMA mymallocKeeps ==
  ASSUME HeapKept, NEW request \in Requests, mymalloc(request)
  PROVE  /\ HeapKept'
         /\ op # op'
         /\ \E ptr \in Contents :
              /\ ptr \notin Nodes(heap) /\ Nodes(heap') = Nodes(heap) \cup {ptr}
              /\ size' = WithRecord(size, ptr, Heap_roundup(request))
              /\ found' = found /\ Count(0, Heap_roundup(request))
              /\ ~Phase("remove")'
<1>1. /\ op = NoOp /\ Ready(heap) /\ BlocksKept /\ InHand = {}
      /\ DOMAIN size = Nodes(heap) /\ Nodes(heap) \subseteq memory
  BY Idle, Zenon DEF mymalloc
<1>2. PICK n : n = Heap_roundup(request)
  OBVIOUS
<1>3. n \in Rounded
  BY <1>2, Roundup
<1>4. PICK ptr \in Room(n) : AddRecord("malloc", ptr, n) /\ memory' = memory \cup {ptr}
  BY <1>2, Zenon DEF mymalloc
<1>5. ptr \in Contents /\ ptr \notin memory
  BY <1>4 DEF Room, Addresses
<1>6. /\ heap' = Insert(heap, ptr) /\ cur' = ptr /\ size' = WithRecord(size, ptr, n)
      /\ Begin("malloc", "add", ptr, n)
  BY <1>4, Zenon DEF AddRecord, WithRecord
<1>7. /\ OpKept' /\ ~Stuck'
      /\ Phase("add")' /\ ~Phase("remove")' /\ op' # NoOp /\ InHand' = {}
  BY <1>3, <1>5, <1>6, BeginsAdd
<1>8. Entering(heap', ptr) /\ Nodes(heap') = Nodes(heap) \cup {ptr}
  BY <1>1, <1>5, <1>6, ReadyEnters
<1>9. BlocksKept'
  BY <1>1, <1>4, <1>6, <1>7, <1>8 DEF BlocksKept, WithRecord
<1>10. TreeKept'
  BY <1>6, <1>7, <1>8, Zenon DEF TreeKept
<1>11. found' = found /\ Count(0, n)
  BY <1>2, Zenon DEF mymalloc
<1>12. HeapKept' /\ op # op'
  BY <1>1, <1>7, <1>9, <1>10, Zenon DEF HeapKept
<1> QED BY <1>1, <1>2, <1>5, <1>6, <1>7, <1>8, <1>11, <1>12

LEMMA mymallocFailsKeeps ==
  ASSUME HeapKept, mymallocFails
  PROVE  HeapKept' /\ op' = NoOp /\ heap' = heap /\ size' = size /\ found' = found /\ Stuck'
<1>1. op = NoOp /\ Ready(heap)
  BY Idle, Zenon DEF mymallocFails
<1>2. OpKept' /\ op' = NoOp /\ Stuck' /\ ~Phase("add")' /\ ~Phase("remove")' /\ InHand' = {}
  BY ReturnsLocked, Zenon DEF mymallocFails
<1>3. heap' = heap /\ size' = size /\ found' = found
  BY Zenon DEF mymallocFails, record
<1>4. TreeKept'
  BY <1>1, <1>2, <1>3, Zenon DEF TreeKept
<1> QED BY <1>2, <1>3, <1>4, Zenon DEF HeapKept

LEMMA NotFoundKeeps ==
  ASSUME HeapKept, ~heap_mutex, NEW ptr \in Contents, NotFound(ptr)
  PROVE  HeapKept' /\ UNCHANGED <<heap, record, heap_mutex, op, cur, memory>> /\ ptr \notin Nodes(heap)
         /\ found' = FALSE
<1>1. Ready(heap)
  BY Idle
<1>2. ptr # Nil /\ TreeFind(heap, ptr) = Nil
  BY ContentsAssumption DEF NotFound
<1>3. ptr \notin Nodes(heap)
  BY <1>1, <1>2, ReadyFinds
<1>4. UNCHANGED <<heap, record, heap_mutex, op, cur, memory>> /\ found' = FALSE
  BY Zenon DEF NotFound
<1>5. heap' = heap /\ size' = size /\ heap_mutex' = heap_mutex /\ op' = op /\ cur' = cur /\ memory' = memory
  BY <1>4, Zenon DEF record
<1>6. HeapKept'
  BY <1>5, Zenon DEF HeapKept, OpKept, TreeKept, Stuck, BlocksKept, InHand, Phase, Nodes
<1> QED BY <1>3, <1>4, <1>6, Zenon

LEMMA RemoveRecordKeeps ==
  ASSUME HeapKept, ~heap_mutex, NEW ptr \in Contents, TreeFind(heap, ptr) # Nil,
         NEW call \in {"malloc", "free", "unlink", "realloc"}, NEW request \in Rounded \cup {0},
         call = "realloc" => request \in Rounded, RemoveRecord(call, ptr, request), UNCHANGED <<size, memory>>
  PROVE  /\ HeapKept' /\ op # op' /\ Phase("remove")' /\ op'.call = call /\ op'.ptr = ptr
         /\ ptr \in Nodes(heap) /\ Nodes(heap') = Nodes(heap) \ {ptr}
<1>1. /\ op = NoOp /\ Ready(heap) /\ BlocksKept /\ InHand = {}
      /\ DOMAIN size = Nodes(heap) /\ Nodes(heap) \subseteq memory
  BY Idle
<1>2. ptr \in Nodes(heap) /\ TreeFind(heap, ptr) = ptr
  BY <1>1, ReadyFinds
<1>3. PICK t : t = Remove(heap, ptr)
  OBVIOUS
<1>4. Begin(call, "remove", ptr, request) /\ heap' = t.tree /\ cur' = t.cur
  BY <1>2, <1>3, Zenon DEF RemoveRecord
<1>5. Departing(heap', cur') /\ Nodes(heap') = Nodes(heap) \ {ptr}
  BY <1>1, <1>2, <1>3, <1>4, ReadyDeparts
<1>6. /\ OpKept' /\ ~Stuck' /\ op'.ptr = ptr
      /\ ~Phase("add")' /\ Phase("remove")' /\ op' # NoOp /\ InHand' = {ptr}
  BY <1>4, BeginsRemove
<1>7. op'.call = call
  BY <1>4, Begins
<1>8. BlocksKept'
  BY <1>1, <1>2, <1>5, <1>6 DEF BlocksKept
<1>9. TreeKept'
  BY <1>5, <1>6, Zenon DEF TreeKept
<1> QED BY <1>1, <1>2, <1>5, <1>6, <1>7, <1>8, <1>9, Zenon DEF HeapKept

LEMMA unlinkKeeps ==
  ASSUME HeapKept, NEW ptr \in Contents, NEW call \in {"free", "unlink"}, unlink(call, ptr)
  PROVE  /\ HeapKept' /\ op = NoOp
         /\ \/ NotFound(ptr) /\ ptr \notin Nodes(heap)
            \/ /\ found' = TRUE /\ size' = size /\ op' # NoOp
               /\ ptr \in Nodes(heap) /\ Nodes(heap') = Nodes(heap) \ {ptr}
               /\ Count(size[ptr], 0) /\ op'.call # "realloc" /\ Phase("remove")'
<1>1. ~heap_mutex /\ op = NoOp
  BY Idle, Zenon DEF unlink
<1>2. CASE NotFound(ptr)
  BY <1>1, <1>2, NotFoundKeeps
<1>3. CASE Found(ptr) /\ RemoveRecord(call, ptr, 0) /\ Count(size[ptr], 0) /\ UNCHANGED <<size, memory>>
  <2>1. TreeFind(heap, ptr) # Nil /\ found' = TRUE /\ size' = size
    BY <1>3, Zenon DEF Found
  <2>2. /\ HeapKept' /\ op # op' /\ Phase("remove")' /\ op'.call = call /\ op'.ptr = ptr
        /\ ptr \in Nodes(heap) /\ Nodes(heap') = Nodes(heap) \ {ptr}
    <3>1. call # "realloc"
      OBVIOUS
    <3> QED BY <1>1, <1>3, <2>1, <3>1, RemoveRecordKeeps
  <2>3. op'.call # "realloc"
    BY <2>2
  <2> QED BY <1>1, <1>3, <2>1, <2>2, <2>3, Zenon
<1> QED BY <1>2, <1>3, Zenon DEF unlink

LEMMA myreallocKeeps ==
  ASSUME HeapKept, NEW ptr \in Contents, NEW request \in Requests, myrealloc(ptr, request)
  PROVE  /\ HeapKept' /\ op = NoOp
         /\ \/ NotFound(ptr) /\ ptr \notin Nodes(heap)
            \/ /\ found' = TRUE /\ size' = size /\ op' # NoOp
               /\ ptr \in Nodes(heap) /\ Nodes(heap') = Nodes(heap) \ {ptr}
               /\ record' = record /\ op'.call = "realloc" /\ Phase("remove")'
<1>1. ~heap_mutex /\ op = NoOp
  BY Idle, Zenon DEF myrealloc
<1>2. CASE NotFound(ptr)
  BY <1>1, <1>2, NotFoundKeeps
<1>3. CASE Found(ptr) /\ RemoveRecord("realloc", ptr, Heap_roundup(request)) /\ UNCHANGED <<record, memory>>
  <2>1. TreeFind(heap, ptr) # Nil /\ found' = TRUE /\ record' = record /\ UNCHANGED <<size, memory>>
    BY <1>3, Zenon DEF Found, record
  <2>2. Heap_roundup(request) \in Rounded \cup {0} /\ Heap_roundup(request) \in Rounded
    BY Roundup
  <2>3. /\ HeapKept' /\ op # op' /\ Phase("remove")' /\ op'.call = "realloc" /\ op'.ptr = ptr
        /\ ptr \in Nodes(heap) /\ Nodes(heap') = Nodes(heap) \ {ptr}
    BY <1>1, <1>3, <2>1, <2>2, RemoveRecordKeeps
  <2> QED BY <1>1, <2>1, <2>3, Zenon
<1> QED BY <1>2, <1>3, Zenon DEF myrealloc

LEMMA findItemKeeps ==
  ASSUME HeapKept, NEW ptr \in Contents, Heap_findItem(ptr)
  PROVE  /\ HeapKept' /\ UNCHANGED <<heap, record, heap_mutex, op, cur, memory>> /\ op = NoOp
         /\ found' = (ptr \in Nodes(heap))
<1>1. ~heap_mutex /\ op = NoOp /\ Ready(heap)
  BY Idle, Zenon DEF Heap_findItem
<1>2. CASE NotFound(ptr)
  <2>1. /\ HeapKept' /\ UNCHANGED <<heap, record, heap_mutex, op, cur, memory>>
        /\ ptr \notin Nodes(heap) /\ found' = FALSE
    BY <1>1, <1>2, NotFoundKeeps
  <2>2. (ptr \in Nodes(heap)) = FALSE
    BY <2>1
  <2>3. found' = (ptr \in Nodes(heap))
    BY <2>1, <2>2, Zenon
  <2> QED BY <1>1, <2>1, <2>3, Zenon
<1>3. CASE Found(ptr) /\ UNCHANGED <<heap, record, heap_mutex, op, cur, memory>>
  <2>1. TreeFind(heap, ptr) # Nil /\ found' = TRUE
    BY <1>3, Zenon DEF Found
  <2>2. ptr \in Nodes(heap)
    BY <1>1, <2>1, ReadyFinds
  <2>3. heap' = heap /\ size' = size /\ heap_mutex' = heap_mutex /\ op' = op /\ cur' = cur /\ memory' = memory
    BY <1>3, Zenon DEF record
  <2>4. HeapKept'
    BY <2>3, Zenon DEF HeapKept, OpKept, TreeKept, Stuck, BlocksKept, InHand, Phase, Nodes
  <2>5. (ptr \in Nodes(heap)) = TRUE
    BY <2>2
  <2>6. found' = (ptr \in Nodes(heap))
    BY <2>1, <2>5, Zenon
  <2> QED BY <1>1, <1>3, <2>4, <2>6, Zenon
<1> QED BY <1>2, <1>3, Zenon DEF Heap_findItem

\* A round changes the tree and where the loop is, and nothing else.
LEMMA RoundKeeps ==
  ASSUME HeapKept, op # NoOp, NEW t, Rebalance(t), Nodes(t.tree) = Nodes(heap),
         Phase("add") => Entering(t.tree, t.cur), Phase("remove") => Departing(t.tree, t.cur)
  PROVE  HeapKept' /\ Nodes(heap') = Nodes(heap) /\ UNCHANGED <<record, heap_mutex, op, found, memory>>
<1>1. op \in Op /\ ~Stuck /\ BlocksKept /\ heap_mutex
  BY Busy
<1>2. UNCHANGED <<record, heap_mutex, op, found, memory>> /\ heap' = t.tree /\ cur' = t.cur
  BY Zenon DEF Rebalance
<1>3. size' = size /\ heap_mutex' = heap_mutex /\ op' = op /\ memory' = memory
  BY <1>2, Zenon DEF record
<1>4. OpKept' /\ ~Stuck'
  BY <1>1, <1>3, Zenon DEF OpKept, Stuck, HeapKept
<1>5. TreeKept'
  BY <1>2, <1>3, Zenon DEF TreeKept, Phase
<1>6. InHand' = InHand /\ Nodes(heap') = Nodes(heap)
  BY <1>2, <1>3, Zenon DEF InHand, Phase
<1>7. BlocksKept'
  BY <1>1, <1>3, <1>6 DEF BlocksKept
<1> QED BY <1>2, <1>4, <1>5, <1>6, <1>7, Zenon DEF HeapKept

LEMMA balanceAfterAddKeeps ==
  ASSUME HeapKept, balanceAfterAdd
  PROVE  /\ HeapKept' /\ Nodes(heap') = Nodes(heap) /\ UNCHANGED <<record, heap_mutex, op, found, memory>>
         /\ Phase("add") /\ op # NoOp
         /\ RedUnderRed' => DepthIn(heap', cur') < DepthIn(heap, cur)
<1>1. Phase("add") /\ op # NoOp /\ op.phase = "add"
  BY Zenon DEF balanceAfterAdd, Phase
<1>2. ~Phase("remove")
  BY <1>1 DEF Phase
<1>3. isRed(heap, Parent(heap, cur)) /\ Parent(heap, Parent(heap, cur)) # Nil
  BY Zenon DEF balanceAfterAdd, RedUnderRed
<1>4. PICK which : which = OtherSide(Parent(heap, cur), Parent(heap, Parent(heap, cur)))
  OBVIOUS
<1>5. which = IF Parent(heap, cur) = Child(heap, Parent(heap, Parent(heap, cur)), LEFT) THEN RIGHT ELSE LEFT
  BY <1>4, Zenon DEF OtherSide
<1>6. PICK r : r = TreeBAASub(heap, cur, which)
  OBVIOUS
<1>7. Rebalance(r)
  BY <1>4, <1>6, Zenon DEF balanceAfterAdd
<1>8. Entering(heap, cur)
  BY <1>1, Zenon DEF HeapKept, TreeKept
<1>9. /\ Entering(r.tree, r.cur) /\ Nodes(r.tree) = Nodes(heap)
      /\ isRed(r.tree, Parent(r.tree, r.cur)) => DepthIn(r.tree, r.cur) < DepthIn(heap, cur)
  BY <1>3, <1>5, <1>6, <1>8, EnteringRound
<1>10. HeapKept' /\ Nodes(heap') = Nodes(heap) /\ UNCHANGED <<record, heap_mutex, op, found, memory>>
  BY <1>1, <1>2, <1>7, <1>9, RoundKeeps
<1>11. heap' = r.tree /\ cur' = r.cur
  BY <1>7, Zenon DEF Rebalance
<1>12. RedUnderRed' => DepthIn(heap', cur') < DepthIn(heap, cur)
  BY <1>9, <1>11, Zenon DEF RedUnderRed
<1> QED BY <1>1, <1>10, <1>12

LEMMA balanceAfterRemoveKeeps ==
  ASSUME HeapKept, balanceAfterRemove
  PROVE  /\ HeapKept' /\ Nodes(heap') = Nodes(heap) /\ UNCHANGED <<record, heap_mutex, op, found, memory>>
         /\ Phase("remove") /\ op # NoOp
         /\ OneBlackShort' => DepthIn(heap', cur') < DepthIn(heap, cur)
<1>1. Phase("remove") /\ op # NoOp /\ op.phase = "remove"
  BY Zenon DEF balanceAfterRemove, Phase
<1>2. ~Phase("add")
  BY <1>1 DEF Phase
<1>3. cur # Nil /\ cur # heap.root /\ ~isRed(heap, cur)
  BY Zenon DEF balanceAfterRemove, OneBlackShort, isBlack
<1>4. PICK which : which = OtherSide(InTree(cur), Parent(heap, cur))
  OBVIOUS
<1>5. which = IF InTree(cur) = Child(heap, Parent(heap, cur), LEFT) THEN RIGHT ELSE LEFT
  BY <1>4, Zenon DEF OtherSide
<1>6. PICK r : r = TreeBARSub(heap, cur, which)
  OBVIOUS
<1>7. Rebalance(r)
  BY <1>4, <1>6, Zenon DEF balanceAfterRemove
<1>8. Departing(heap, cur)
  BY <1>1, Zenon DEF HeapKept, TreeKept
<1>9. /\ Departing(r.tree, r.cur) /\ Nodes(r.tree) = Nodes(heap)
      /\ r.cur # r.tree.root /\ ~isRed(r.tree, r.cur) => DepthIn(r.tree, r.cur) < DepthIn(heap, cur)
  BY <1>3, <1>5, <1>6, <1>8, DepartingRound
<1>10. HeapKept' /\ Nodes(heap') = Nodes(heap) /\ UNCHANGED <<record, heap_mutex, op, found, memory>>
  BY <1>1, <1>2, <1>7, <1>9, RoundKeeps
<1>11. heap' = r.tree /\ cur' = r.cur
  BY <1>7, Zenon DEF Rebalance
<1>12. OneBlackShort' => DepthIn(heap', cur') < DepthIn(heap, cur)
  BY <1>9, <1>11, Zenon DEF OneBlackShort, isBlack
<1> QED BY <1>1, <1>10, <1>12

LEMMA addedKeeps ==
  ASSUME HeapKept, added
  PROVE  HeapKept' /\ op # NoOp /\ op' = NoOp /\ Nodes(heap') = Nodes(heap) /\ Phase("add")
         /\ record' = record /\ found' = found
<1>1. Phase("add") /\ op # NoOp /\ op.phase = "add" /\ Return /\ heap' = Blackened(heap, heap.root)
      /\ record' = record /\ found' = found /\ size' = size /\ memory' = memory
  BY Zenon DEF added, Phase, Blackened, record
<1>2. ~Phase("remove")
  BY <1>1 DEF Phase
<1>3. ~(isRed(heap, Parent(heap, cur)) /\ Parent(heap, Parent(heap, cur)) # Nil)
  BY Zenon DEF added, RedUnderRed
<1>4. Entering(heap, cur)
  BY <1>1, Zenon DEF HeapKept, TreeKept
<1>5. Ready(heap') /\ Nodes(heap') = Nodes(heap)
  BY <1>1, <1>3, <1>4, EnteringEnds
<1>6. OpKept' /\ op' = NoOp /\ ~Stuck' /\ ~Phase("add")' /\ ~Phase("remove")' /\ InHand' = {}
  BY <1>1, Returns
<1>7. BlocksKept /\ InHand = {}
  BY <1>1, <1>2, Busy DEF InHand
<1>8. BlocksKept'
  BY <1>1, <1>5, <1>6, <1>7 DEF BlocksKept
<1>9. TreeKept'
  BY <1>5, <1>6, Zenon DEF TreeKept
<1> QED BY <1>1, <1>5, <1>6, <1>8, <1>9, Zenon DEF HeapKept

LEMMA removedKeeps ==
  ASSUME HeapKept, removed
  PROVE  /\ HeapKept' /\ op # NoOp /\ op' = NoOp /\ Nodes(heap') = Nodes(heap) /\ Phase("remove")
         /\ op.call # "realloc" /\ op.ptr \notin Nodes(heap) /\ size' = WithoutRecord(size, op.ptr)
         /\ UNCHANGED <<current_size, max_size, found>>
<1>1. /\ Phase("remove") /\ op # NoOp /\ op.phase = "remove" /\ op.call # "realloc" /\ ~OneBlackShort
      /\ heap' = Settled /\ size' = WithoutRecord(size, op.ptr) /\ Return
      /\ UNCHANGED <<current_size, max_size, found>>
      /\ memory' = IF op.call = "free" THEN memory \ {op.ptr} ELSE memory
  BY Zenon DEF removed, Phase, WithoutRecord
<1>2. Ready(heap') /\ Nodes(heap') = Nodes(heap)
  BY <1>1, SettledKeeps
<1>3. OpKept' /\ op' = NoOp /\ ~Stuck' /\ ~Phase("add")' /\ ~Phase("remove")' /\ InHand' = {}
  BY <1>1, Returns
<1>4. BlocksKept /\ InHand = {op.ptr}
  BY <1>1, Busy DEF InHand
<1>5. op.ptr \notin Nodes(heap) /\ DOMAIN size = Nodes(heap) \cup {op.ptr} /\ Nodes(heap) \subseteq memory
  BY <1>4 DEF BlocksKept
<1>6. BlocksKept'
  BY <1>1, <1>2, <1>3, <1>5 DEF BlocksKept, WithoutRecord
<1>7. TreeKept'
  BY <1>2, <1>3, Zenon DEF TreeKept
<1>8. HeapKept'
  BY <1>3, <1>6, <1>7, Zenon DEF HeapKept
<1> QED BY <1>1, <1>2, <1>3, <1>5, <1>8, Zenon

Exchanged(z, ptr, new, n) == WithRecord(WithoutRecord(z, ptr), new, n)

LEMMA reallocatedKeeps ==
  ASSUME HeapKept, reallocated
  PROVE  /\ HeapKept' /\ op # NoOp /\ Phase("remove") /\ op \in Op /\ op # op'
         /\ op.call = "realloc" /\ op.ptr \notin Nodes(heap) /\ found' = found
         /\ \/ Stuck' /\ Nodes(heap') = Nodes(heap) /\ size' = size
            \/ \E ptr \in Contents :
                 /\ ptr \notin Nodes(heap) /\ Nodes(heap') = Nodes(heap) \cup {ptr}
                 /\ size' = Exchanged(size, op.ptr, ptr, op.request)
                 /\ Count(size[op.ptr], op.request) /\ ~Phase("remove")' /\ op.request \in Rounded
<1>1. /\ Phase("remove") /\ op # NoOp /\ op.phase = "remove" /\ op.call = "realloc" /\ ~OneBlackShort
      /\ Count(size[op.ptr], op.request) /\ found' = found
  BY Zenon DEF reallocated, Phase
<1>2. Ready(Settled) /\ Nodes(Settled) = Nodes(heap)
  BY <1>1, SettledKeeps
<1>3. BlocksKept /\ InHand = {op.ptr} /\ op \in Op /\ op.request \in Rounded
  BY <1>1, Busy DEF InHand
<1>4. op.ptr \notin Nodes(heap) /\ DOMAIN size = Nodes(heap) \cup {op.ptr} /\ Nodes(heap) \subseteq memory
  BY <1>3 DEF BlocksKept
<1>5. op.ptr \in Contents /\ op.request \in Rounded \cup {0}
  BY <1>3 DEF Op, Addresses
<1>6. CASE heap' = Settled /\ ReturnLocked /\ UNCHANGED <<size, memory>>
  <2>1. OpKept' /\ op' = NoOp /\ Stuck' /\ ~Phase("add")' /\ ~Phase("remove")' /\ InHand' = {}
    BY <1>6, ReturnsLocked
  <2>2. TreeKept'
    BY <1>2, <1>6, <2>1, Zenon DEF TreeKept
  <2>3. HeapKept'
    BY <2>1, <2>2, Zenon DEF HeapKept
  <2>4. size' = size /\ Nodes(heap') = Nodes(heap) /\ op # op'
    BY <1>1, <1>2, <1>6, <2>1
  <2> QED BY <1>1, <1>3, <1>4, <2>1, <2>3, <2>4, Zenon
<1>7. ASSUME NEW ptr \in Room(op.request) \cup {p \in {op.ptr} : size[p] = op.request},
             memory' = (memory \ {op.ptr}) \cup {ptr},
             Begin("realloc", "add", ptr, op.request),
             heap' = Insert(Settled, ptr), cur' = ptr,
             size' = Exchanged(size, op.ptr, ptr, op.request)
      PROVE  /\ HeapKept' /\ ~Phase("remove")' /\ op # op'
             /\ ptr \in Contents /\ ptr \notin Nodes(heap) /\ Nodes(heap') = Nodes(heap) \cup {ptr}
  <2>1. ptr \in Contents /\ ptr \notin Nodes(heap)
    BY <1>4, <1>5, <1>7 DEF Room, Addresses
  <2>2. /\ OpKept' /\ ~Stuck' /\ op'.ptr = ptr
        /\ Phase("add")' /\ ~Phase("remove")' /\ op' # NoOp /\ InHand' = {}
    BY <1>3, <1>5, <1>7, <2>1, BeginsAdd
  <2>3. Entering(heap', ptr) /\ Nodes(heap') = Nodes(heap) \cup {ptr}
    BY <1>2, <1>7, <2>1, ReadyEnters
  <2>4. DOMAIN size' = Nodes(heap) \cup {ptr}
    BY <1>4, <1>7 DEF Exchanged, WithRecord, WithoutRecord
  <2>5. BlocksKept'
    BY <1>4, <1>7, <2>2, <2>3, <2>4 DEF BlocksKept
  <2>6. TreeKept'
    BY <1>7, <2>2, <2>3, Zenon DEF TreeKept
  <2>7. HeapKept'
    BY <2>2, <2>5, <2>6, Zenon DEF HeapKept
  <2>8. op # op'
    BY <1>1, <2>2, Zenon DEF Phase
  <2> QED BY <2>1, <2>2, <2>3, <2>7, <2>8
<1>8. ASSUME NEW ptr \in Room(op.request) \cup {p \in {op.ptr} : size[p] = op.request},
             memory' = (memory \ {op.ptr}) \cup {ptr} /\ Begin("realloc", "add", ptr, op.request)
             /\ heap' = Insert(Settled, ptr) /\ cur' = ptr /\ size' = Exchanged(size, op.ptr, ptr, op.request)
      PROVE  HeapKept' /\ op # op'
             /\ \E p \in Contents :
                  /\ p \notin Nodes(heap) /\ Nodes(heap') = Nodes(heap) \cup {p}
                  /\ size' = Exchanged(size, op.ptr, p, op.request)
                  /\ Count(size[op.ptr], op.request) /\ ~Phase("remove")' /\ op.request \in Rounded
  BY <1>1, <1>3, <1>7, <1>8, Zenon
<1>9. \/ heap' = Settled /\ ReturnLocked /\ UNCHANGED <<size, memory>>
      \/ \E ptr \in Room(op.request) \cup {p \in {op.ptr} : size[p] = op.request} :
           memory' = (memory \ {op.ptr}) \cup {ptr} /\ Begin("realloc", "add", ptr, op.request)
             /\ heap' = Insert(Settled, ptr) /\ cur' = ptr /\ size' = Exchanged(size, op.ptr, ptr, op.request)
  <2>1. \A p : Exchanged(size, op.ptr, p, op.request) =
               [q \in (DOMAIN size \ {op.ptr}) \cup {p} |-> IF q = p THEN op.request ELSE size[q]]
    BY DEF Exchanged, WithRecord, WithoutRecord
  <2> QED BY <2>1, Zenon DEF reallocated
<1> QED BY <1>1, <1>3, <1>4, <1>6, <1>8, <1>9, Zenon

-----------------------------------------------------------------------------
(* The trees of the specification *)

LEMMA EmptyIsReady == Ready(Empty)
<1>1. PICK t : t = Empty
  OBVIOUS
<1>2. t.root = Nil /\ t.node = <<>> /\ DOMAIN t.node = {} /\ Nodes(t) = {} /\ t = [root |-> Nil, node |-> <<>>]
  BY <1>1 DEF Empty, Nodes
<1>3. Typed(t)
  <2>1. t.node \in [DOMAIN t.node -> Node]
    BY <1>2
  <2>2. IsFiniteSet(DOMAIN t.node)
    BY <1>2, FS_EmptySet
  <2> QED BY <1>2, <2>1, <2>2 DEF Typed, Links
<1>4. Linked(t) /\ Loose(t) /\ Tidy(t) /\ RootBlack(t) /\ NoRedPair(t, Nil, Nil)
  BY <1>2 DEF Linked, Loose, Tidy, RootBlack, NoRedPair
<1>5. PICK S : S = [n \in {Nil} |-> {}]
  BY Zenon
<1>6. PICK B : B = [n \in {Nil} |-> 0]
  BY Zenon
<1>7. Sorted(t, S)
  BY <1>2, <1>5 DEF Sorted
<1>8. Heights(t, B, NoEdge)
  BY <1>2, <1>6 DEF Heights
<1>9. Sound(t, S, B)
  BY <1>3, <1>4, <1>7, <1>8 DEF Sound, Shape
<1> QED BY <1>1, <1>4, <1>9 DEF Ready

LEMMA StartsKept == ASSUME Init PROVE HeapKept
<1>1. heap = Empty /\ size = <<>> /\ op = NoOp /\ memory = {}
  BY Zenon DEF Init
<1>2. Ready(heap)
  BY <1>1, EmptyIsReady
<1>3. ~Phase("add") /\ ~Phase("remove") /\ InHand = {}
  BY <1>1, NoPhase
<1>4. OpKept
  BY <1>1, Zenon DEF OpKept
<1>5. TreeKept
  BY <1>1, <1>2, <1>3, Zenon DEF TreeKept
<1>6. Nodes(heap) = {} /\ DOMAIN size = {}
  BY <1>1 DEF Empty, Nodes
<1>7. BlocksKept
  BY <1>3, <1>6 DEF BlocksKept
<1> QED BY <1>4, <1>5, <1>7, Zenon DEF HeapKept

LEMMA StepsKept == ASSUME HeapKept, [Next]_vars PROVE HeapKept'
<1>1. CASE UNCHANGED vars
  <2>1. /\ heap' = heap /\ size' = size /\ heap_mutex' = heap_mutex /\ op' = op /\ cur' = cur
        /\ memory' = memory
    BY <1>1, Zenon DEF vars, record
  <2> QED BY <2>1, Zenon DEF HeapKept, OpKept, TreeKept, Stuck, BlocksKept, InHand, Phase, Nodes
<1>2. ASSUME NEW request \in Requests, mymalloc(request) PROVE HeapKept'
  BY <1>2, mymallocKeeps
<1>3. CASE mymallocFails
  BY <1>3, mymallocFailsKeeps
<1>4. ASSUME NEW ptr \in Addresses, NEW call \in {"free", "unlink"}, unlink(call, ptr) PROVE HeapKept'
  BY <1>4, unlinkKeeps DEF Addresses
<1>5. ASSUME NEW ptr \in Addresses, NEW request \in Requests, myrealloc(ptr, request) PROVE HeapKept'
  BY <1>5, myreallocKeeps DEF Addresses
<1>6. ASSUME NEW ptr \in Addresses, Heap_findItem(ptr) PROVE HeapKept'
  BY <1>6, findItemKeeps DEF Addresses
<1>7. CASE balance
  BY <1>7, balanceAfterAddKeeps, addedKeeps, balanceAfterRemoveKeeps, removedKeeps, reallocatedKeeps, Zenon
     DEF balance
<1> QED BY <1>1, <1>2, <1>3, <1>4, <1>5, <1>6, <1>7, Zenon DEF Next

\* Between calls the tree is a red-black tree of the blocks on record, and in
\* each loop it is one but for the place the loop is at.
THEOREM HeapIsKept == Spec => []HeapKept
<1>1. Init => HeapKept
  BY StartsKept
<1>2. HeapKept /\ [Next]_vars => HeapKept'
  BY StepsKept
<1> QED BY <1>1, <1>2, PTL DEF Spec

\* A round that is followed by another of the same loop has climbed: the
\* rounds of TreeBalanceAfterAdd go to the grandparent in a tree whose links
\* are the same, those of TreeBalanceAfterRemove to the parent.
THEOREM RoundsAlwaysClimb == Spec => RoundsClimb
<1>1. HeapKept /\ [Next]_vars => [op # NoOp /\ op' = op /\ LoopGoesOn' => Depth(cur)' < Depth(cur)]_vars
  <2> SUFFICES ASSUME HeapKept, Next, op # NoOp, op' = op, LoopGoesOn' PROVE Depth(cur)' < Depth(cur)
    BY Zenon
  <2>1. balance
    <3>1. ASSUME NEW request \in Requests, mymalloc(request) PROVE FALSE
      BY <3>1, mymallocKeeps
    <3>2. ~mymallocFails
      BY mymallocFailsKeeps
    <3>3. ASSUME NEW ptr \in Addresses, NEW call \in {"free", "unlink"}, unlink(call, ptr) PROVE FALSE
      BY <3>3, unlinkKeeps DEF Addresses
    <3>4. ASSUME NEW ptr \in Addresses, NEW request \in Requests, myrealloc(ptr, request) PROVE FALSE
      BY <3>4, myreallocKeeps DEF Addresses
    <3>5. ASSUME NEW ptr \in Addresses, Heap_findItem(ptr) PROVE FALSE
      BY <3>5, findItemKeeps DEF Addresses
    <3> QED BY <3>1, <3>2, <3>3, <3>4, <3>5, Zenon DEF Next
  <2>2. Depth(cur) = DepthIn(heap, cur) /\ Depth(cur)' = DepthIn(heap', cur')
    BY Zenon DEF Depth, DepthIn, Pointers
  <2>3. ~added /\ ~removed /\ ~reallocated
    BY addedKeeps, removedKeeps, reallocatedKeeps
  <2>4. CASE balanceAfterAdd
    <3>1. op.phase = "add"
      BY <2>4, Zenon DEF balanceAfterAdd, Phase
    <3>2. RedUnderRed'
      BY <3>1 DEF LoopGoesOn, Phase
    <3> QED BY <2>2, <2>4, <3>2, balanceAfterAddKeeps
  <2>5. CASE balanceAfterRemove
    <3>1. op.phase = "remove"
      BY <2>5, Zenon DEF balanceAfterRemove, Phase
    <3>2. OneBlackShort'
      BY <3>1 DEF LoopGoesOn, Phase
    <3> QED BY <2>2, <2>5, <3>2, balanceAfterRemoveKeeps
  <2> QED BY <2>1, <2>3, <2>4, <2>5, Zenon DEF balance
<1> QED BY <1>1, HeapIsKept, PTL DEF Spec, RoundsClimb

-----------------------------------------------------------------------------
(* Balance *)

HeightStep(t, f) ==
  f = [n \in Nodes(t) \cup {Nil} |->
         IF n = Nil THEN {0}
         ELSE {h + (IF isBlack(t, n) THEN 1 ELSE 0) : h \in UNION {f[Child(t, n, s)] : s \in Sides}}]

Raised(H, k) == {h + k : h \in H}

LEMMA HeightStepIs ==
  ASSUME NEW t, Nil \notin Nodes(t), NEW f
  PROVE  HeightStep(t, f) <=>
           f = [n \in Nodes(t) \cup {Nil} |->
                  IF n = Nil THEN {0}
                  ELSE Raised(UNION {f[Child(t, n, s)] : s \in Sides}, Weight(t, n))]
<1>1. \A n \in Nodes(t) : (IF isBlack(t, n) THEN 1 ELSE 0) = Weight(t, n)
  BY Zenon DEF isBlack, isRed, Weight, Red
<1>2. PICK b : b = [n \in Nodes(t) |-> IF isBlack(t, n) THEN 1 ELSE 0]
  BY Zenon
<1>3. PICK w : w = [n \in Nodes(t) |-> Weight(t, n)]
  BY Zenon
<1>4. b = w
  BY <1>1, <1>2, <1>3, Zenon
<1>5. HeightStep(t, f) <=>
        f = [n \in Nodes(t) \cup {Nil} |->
               IF n = Nil THEN {0} ELSE Raised(UNION {f[Child(t, n, s)] : s \in Sides}, b[n])]
  <2>1. \A n \in Nodes(t) : {h + (IF isBlack(t, n) THEN 1 ELSE 0) : h \in UNION {f[Child(t, n, s)] : s \in Sides}}
                              = Raised(UNION {f[Child(t, n, s)] : s \in Sides}, b[n])
    BY <1>2, Zenon DEF Raised
  <2> QED BY <2>1, Zenon DEF HeightStep
<1>6. \A n \in Nodes(t) : b[n] = Weight(t, n)
  BY <1>3, <1>4, Zenon
<1> QED BY <1>5, <1>6, Zenon

LEMMA HeightsUnfold ==
  ASSUME NEW w, HeightStep(heap, w)
  PROVE  \E f : HeightStep(heap, f) /\ BlackHeights = f[heap.root]
<1>1. PICK f : f = CHOOSE g : HeightStep(heap, g)
  OBVIOUS
<1>2. HeightStep(heap, f)
  BY <1>1, Zenon
<1>3. BlackHeights = f[heap.root]
  BY <1>1, Zenon DEF BlackHeights, HeightStep, Recorded, Nodes
<1> QED BY <1>2, <1>3

\* Every way down from the root has as many black nodes.
LEMMA OneHeight ==
  ASSUME Ready(heap)
  PROVE  Cardinality(BlackHeights) = 1
<1>1. PICK t : t = heap
  OBVIOUS
<1>2. PICK S, B : Sound(t, S, B)
  BY <1>1 DEF Ready
<1>3. Shape(t, S) /\ Heights(t, B, NoEdge) /\ Nil \notin Nodes(t)
  BY <1>2, NamesAre DEF Sound, Shape
<1>4. PICK X : X = Nodes(t) \cup {Nil}
  OBVIOUS
<1>5. PICK w : w = [n \in X |-> {B[n]}]
  OBVIOUS
<1>6. B \in [X -> Nat] /\ B[Nil] = 0
  BY <1>3, <1>4 DEF Heights
<1>7. ASSUME NEW n \in Nodes(t)
      PROVE  /\ Child(t, n, LEFT) \in X /\ Child(t, n, RIGHT) \in X
             /\ B[n] = Weight(t, n) + B[Child(t, n, LEFT)]
             /\ B[n] = Weight(t, n) + B[Child(t, n, RIGHT)]
             /\ Weight(t, n) \in Nat
  <2>1. NodeOf(t, S, n)
    BY <1>3, NodeIs
  <2>2. Extra(n, LEFT, NoEdge) = 0 /\ Extra(n, RIGHT, NoEdge) = 0
    BY <1>3 DEF Extra, NoEdge
  <2>3. Weight(t, n) \in Nat
    BY DEF Weight
  <2>4. B[n] = Weight(t, n) + Extra(n, LEFT, NoEdge) + B[Child(t, n, LEFT)]
    BY <1>3 DEF Heights, Sides
  <2>5. B[n] = Weight(t, n) + Extra(n, RIGHT, NoEdge) + B[Child(t, n, RIGHT)]
    BY <1>3 DEF Heights, Sides
  <2>6. Child(t, n, LEFT) \in X /\ Child(t, n, RIGHT) \in X
    BY <1>4, <2>1 DEF NodeOf, Sides
  <2> QED BY <1>6, <2>2, <2>3, <2>4, <2>5, <2>6
<1>8. ASSUME NEW f, NEW n
      PROVE  UNION {f[Child(t, n, s)] : s \in Sides} = f[Child(t, n, LEFT)] \cup f[Child(t, n, RIGHT)]
  BY DEF Sides
<1>9. ASSUME NEW n \in Nodes(t)
       PROVE  Raised(w[Child(t, n, LEFT)] \cup w[Child(t, n, RIGHT)], Weight(t, n)) = w[n]
  <2>1. PICK a, b, k : a = B[Child(t, n, LEFT)] /\ b = B[Child(t, n, RIGHT)] /\ k = Weight(t, n)
    OBVIOUS
  <2>2. a \in Nat /\ b \in Nat /\ k \in Nat /\ B[n] = k + a /\ a = b
    BY <1>6, <1>7, <2>1
  <2>3. w[Child(t, n, LEFT)] \cup w[Child(t, n, RIGHT)] = {a} /\ w[n] = {k + a}
    BY <1>4, <1>5, <1>7, <2>1, <2>2
  <2>4. Raised({a}, k) = {k + a}
    BY <2>2 DEF Raised
  <2> QED BY <2>1, <2>3, <2>4
<1>10. HeightStep(t, w)
  <2>1. \A n \in Nodes(t) : Raised(UNION {w[Child(t, n, s)] : s \in Sides}, Weight(t, n)) = w[n]
    BY <1>8, <1>9
  <2>2. w[Nil] = {0}
    BY <1>4, <1>5, <1>6
  <2>3. w = [n \in X |-> IF n = Nil THEN {0} ELSE Raised(UNION {w[Child(t, n, s)] : s \in Sides}, Weight(t, n))]
    BY <1>3, <1>4, <1>5, <2>1, <2>2
  <2> QED BY <1>3, <1>4, <2>3, HeightStepIs
<1>12. PICK f : HeightStep(t, f) /\ BlackHeights = f[t.root]
  BY <1>1, <1>10, HeightsUnfold
<1>13. f = [n \in X |-> IF n = Nil THEN {0} ELSE Raised(UNION {f[Child(t, n, s)] : s \in Sides}, Weight(t, n))]
  BY <1>3, <1>4, <1>12, HeightStepIs
<1>14. f[Nil] = {0} /\ w[Nil] = {0}
  BY <1>4, <1>5, <1>6, <1>13
<1>15. ASSUME NEW n \in Nodes(t) PROVE f[n] = w[n]
  <2>1. PICK Y : Y = {m \in Nodes(t) : f[m] # w[m]}
    OBVIOUS
  <2>2. ASSUME Y # {} PROVE FALSE
    <3>1. PICK m \in Y : Child(t, m, LEFT) \notin Y /\ Child(t, m, RIGHT) \notin Y
      <4>1. PICK m \in Y : \A s \in Sides : Child(t, m, s) \notin Y
        BY <1>3, <2>1, <2>2, LowestNode
      <4> QED BY <4>1 DEF Sides
    <3>2. m \in Nodes(t) /\ f[m] # w[m]
      BY <2>1
    <3>3. f[Child(t, m, LEFT)] = w[Child(t, m, LEFT)] /\ f[Child(t, m, RIGHT)] = w[Child(t, m, RIGHT)]
      BY <1>4, <1>7, <1>14, <2>1, <3>1, <3>2
    <3>4. f[m] = Raised(f[Child(t, m, LEFT)] \cup f[Child(t, m, RIGHT)], Weight(t, m))
      BY <1>3, <1>4, <1>8, <1>13, <3>2
    <3> QED BY <1>9, <3>2, <3>3, <3>4
  <2> QED BY <2>1, <2>2
<1>16. t.root \in X
  BY <1>3, <1>4 DEF Shape, Linked
<1>17. BlackHeights = {B[t.root]}
  BY <1>4, <1>5, <1>12, <1>14, <1>15, <1>16
<1> QED BY <1>17, FS_Singleton

LEMMA ReadyIsBalanced ==
  ASSUME Ready(heap)
  PROVE  /\ isBlack(heap, heap.root)
         /\ \A n \in Recorded, s \in Sides : isRed(heap, n) => isBlack(heap, Child(heap, n, s))
<1>1. PICK S, B : Sound(heap, S, B)
  BY DEF Ready
<1>2. RootBlack(heap) /\ NoRedPair(heap, Nil, Nil) /\ Nil \notin Nodes(heap) /\ Recorded = Nodes(heap)
  BY <1>1, NamesAre, RecordedIs DEF Sound, Shape
<1>3. isBlack(heap, heap.root)
  BY <1>2, Zenon DEF isBlack, isRed, RootBlack, Red
<1>4. ASSUME NEW n \in Nodes(heap), NEW s \in Sides, isRed(heap, n) PROVE isBlack(heap, Child(heap, n, s))
  <2>1. Red(heap, n) /\ n # Nil
    BY <1>4, Zenon DEF isRed, Red
  <2>2. Child(heap, n, s) # Nil => ~Red(heap, Child(heap, n, s))
    BY <1>2, <2>1, Zenon DEF NoRedPair
  <2> QED BY <2>2, Zenon DEF isBlack, isRed, Red
<1> QED BY <1>2, <1>3, <1>4, Zenon

\* Whenever no call is in progress no red node has a red child, the root is
\* black and every way down has as many black nodes: the two balancing loops
\* of Tree.c restore what an insertion and a removal disturb.
THEOREM AlwaysBalanced == Spec => []Balanced
<1>1. HeapKept => Balanced
  <2> SUFFICES ASSUME HeapKept, ~heap_mutex
               PROVE  /\ isBlack(heap, heap.root)
                      /\ \A n \in Recorded, s \in Sides : isRed(heap, n) => isBlack(heap, Child(heap, n, s))
                      /\ Cardinality(BlackHeights) = 1
    BY Zenon DEF Balanced
  <2>1. Ready(heap)
    BY Idle
  <2> QED BY <2>1, ReadyIsBalanced, OneHeight, Zenon
<1> QED BY <1>1, HeapIsKept, PTL

-----------------------------------------------------------------------------
(* Sums *)

LEMMA SmallestSet ==
  ASSUME NEW X, IsFiniteSet(X), NEW Y, Y \subseteq SUBSET X, Y # {}
  PROVE  \E s \in Y : \A x \in s : s \ {x} \notin Y
<1>1. \A s \in Y : IsFiniteSet(s) /\ Cardinality(s) \in Nat
  BY FS_Subset, FS_CardinalityType
<1>2. PICK A : A = {Cardinality(s) : s \in Y}
  OBVIOUS
<1>3. A \in SUBSET Nat /\ A # {}
  BY <1>1, <1>2
<1>4. PICK a \in A : \A b \in A : a <= b
  BY <1>3, LeastNumber
<1>5. PICK s \in Y : Cardinality(s) = a
  BY <1>2, <1>4
<1>6. ASSUME NEW x \in s, s \ {x} \in Y PROVE FALSE
  <2>1. Cardinality(s \ {x}) = Cardinality(s) - 1
    BY <1>1, <1>6, FS_RemoveElement
  <2>2. Cardinality(s \ {x}) \in A
    BY <1>2, <1>6
  <2> QED BY <1>1, <1>4, <1>5, <2>1, <2>2
<1> QED BY <1>5, <1>6

\* A pair for each unit of each size.
Units(z, X) == UNION {{p} \X (1..z[p]) : p \in X}

LEMMA UnitsOfOne ==
  ASSUME NEW p, NEW k \in Nat
  PROVE  IsFiniteSet({p} \X (1..k)) /\ Cardinality({p} \X (1..k)) = k
<1>1. IsFiniteSet({p}) /\ Cardinality({p}) = 1
  BY FS_Singleton
<1>2. IsFiniteSet(1..k) /\ Cardinality(1..k) = k
  BY FS_Interval
<1>3. PICK S, T : S = {p} /\ T = 1..k
  OBVIOUS
<1>4. IsFiniteSet(S \X T) /\ Cardinality(S \X T) = Cardinality(S) * Cardinality(T)
  BY <1>1, <1>2, <1>3, FS_Product, Zenon
<1>5. 1 * k = k
  OBVIOUS
<1> QED BY <1>1, <1>2, <1>3, <1>4, <1>5, Zenon

LEMMA UnitsAdd ==
  ASSUME NEW z, NEW X, NEW p, p \notin X, z[p] \in Nat, IsFiniteSet(Units(z, X))
  PROVE  /\ IsFiniteSet(Units(z, X \cup {p}))
         /\ Cardinality(Units(z, X \cup {p})) = Cardinality(Units(z, X)) + z[p]
<1>1. PICK U : U = Units(z, X)
  OBVIOUS
<1>2. PICK V : V = {p} \X (1..z[p])
  OBVIOUS
<1>3. IsFiniteSet(V) /\ Cardinality(V) = z[p]
  BY <1>2, UnitsOfOne
<1>4. Units(z, X \cup {p}) = U \cup V
  BY <1>1, <1>2 DEF Units
<1>5. U \cap V = {}
  BY <1>1, <1>2 DEF Units
<1>6. Cardinality(U \cap V) = 0 /\ Cardinality(U) \in Nat
  BY <1>1, <1>5, FS_EmptySet, FS_CardinalityType
<1>7. IsFiniteSet(U \cup V) /\ Cardinality(U \cup V) = Cardinality(U) + Cardinality(V) - Cardinality(U \cap V)
  BY <1>1, <1>3, FS_Union, Zenon
<1>8. Cardinality(U \cup V) = Cardinality(U) + z[p]
  BY <1>3, <1>6, <1>7
<1> QED BY <1>1, <1>4, <1>7, <1>8, Zenon

LEMMA UnitsFinite ==
  ASSUME NEW X, IsFiniteSet(X), NEW z, \A p \in X : z[p] \in Nat, NEW s \in SUBSET X
  PROVE  IsFiniteSet(Units(z, s)) /\ Cardinality(Units(z, s)) \in Nat
<1>1. PICK Y : Y = {r \in SUBSET X : ~IsFiniteSet(Units(z, r))}
  OBVIOUS
<1>2. ASSUME Y # {} PROVE FALSE
  <2>1. PICK r \in Y : \A x \in r : r \ {x} \notin Y
    <3>1. Y \subseteq SUBSET X
      BY <1>1
    <3> QED BY <1>2, <3>1, SmallestSet
  <2>2. r \subseteq X /\ ~IsFiniteSet(Units(z, r))
    BY <1>1, <2>1
  <2>3. CASE r = {}
    <3>1. Units(z, r) = {}
      BY <2>3 DEF Units
    <3> QED BY <2>2, <3>1, FS_EmptySet
  <2>4. CASE r # {}
    <3>1. PICK x \in r : TRUE
      BY <2>4
    <3>2. IsFiniteSet(Units(z, r \ {x}))
      BY <1>1, <2>1, <2>2, <3>1
    <3>3. (r \ {x}) \cup {x} = r /\ x \notin r \ {x} /\ z[x] \in Nat
      BY <2>2, <3>1
    <3>4. IsFiniteSet(Units(z, (r \ {x}) \cup {x}))
      BY <3>2, <3>3, UnitsAdd
    <3> QED BY <2>2, <3>3, <3>4
  <2> QED BY <2>3, <2>4
<1>3. IsFiniteSet(Units(z, s))
  BY <1>1, <1>2
<1> QED BY <1>3, FS_CardinalityType

SumStep(z, X, f) ==
  f = [s \in SUBSET X |-> IF s = {} THEN 0
                          ELSE z[CHOOSE x \in s : TRUE] + f[s \ {CHOOSE x \in s : TRUE}]]
SumOf(z, X) == MapThenSumSet(LAMBDA p : z[p], X)

LEMMA SumUnfolds ==
  ASSUME NEW z, NEW X, NEW w, SumStep(z, X, w)
  PROVE  \E f : SumStep(z, X, f) /\ SumOf(z, X) = f[X]
<1>1. PICK f : f = CHOOSE g : SumStep(z, X, g)
  OBVIOUS
<1>2. SumStep(z, X, f)
  BY <1>1, Zenon
<1>3. SumOf(z, X) = f[X]
  BY <1>1, Zenon DEF SumOf, SumStep, MapThenSumSet, MapThenFoldSet
<1> QED BY <1>2, <1>3

\* The sum over X, whatever the order, is the number of units.
LEMMA SumIs ==
  ASSUME NEW X, IsFiniteSet(X), NEW z, \A p \in X : z[p] \in Nat
  PROVE  SumOf(z, X) = Cardinality(Units(z, X))
<1>1. PICK w : w = [s \in SUBSET X |-> Cardinality(Units(z, s))]
  OBVIOUS
<1>2. PICK first : first = [s \in SUBSET X |-> CHOOSE x \in s : TRUE]
  OBVIOUS
<1>3. ASSUME NEW s \in SUBSET X, s # {}
      PROVE  /\ first[s] \in s /\ first[s] = CHOOSE x \in s : TRUE
             /\ s \ {first[s]} \in SUBSET X
             /\ w[s] = z[first[s]] + w[s \ {first[s]}]
  <2>1. first[s] \in s /\ first[s] = CHOOSE x \in s : TRUE
    BY <1>2, <1>3
  <2>2. PICK x \in s : x = first[s]
    BY <2>1
  <2>3. PICK r : r = s \ {x}
    OBVIOUS
  <2>4. r \in SUBSET X /\ x \notin r /\ r \cup {x} = s /\ z[x] \in Nat
    BY <2>2, <2>3
  <2>5. IsFiniteSet(Units(z, r)) /\ Cardinality(Units(z, r)) \in Nat
    BY <2>4, UnitsFinite
  <2>6. Cardinality(Units(z, r \cup {x})) = Cardinality(Units(z, r)) + z[x]
    BY <2>4, <2>5, UnitsAdd
  <2>7. w[s] = z[x] + w[r]
    <3>1. w[s] = Cardinality(Units(z, r \cup {x})) /\ w[r] = Cardinality(Units(z, r))
      BY <1>1, <2>4, Zenon
    <3> QED BY <2>4, <2>5, <2>6, <3>1
  <2> QED BY <2>1, <2>2, <2>3, <2>4, <2>7
<1>4. w[{}] = 0
  <2>1. Units(z, {}) = {}
    BY DEF Units
  <2> QED BY <1>1, <2>1, FS_EmptySet
<1>5. SumStep(z, X, w)
  <2>1. \A s \in SUBSET X : w[s] = IF s = {} THEN 0
                          ELSE z[CHOOSE x \in s : TRUE] + w[s \ {CHOOSE x \in s : TRUE}]
    BY <1>3, <1>4, Zenon
  <2>2. w = [s \in SUBSET X |-> w[s]]
    BY <1>1
  <2> QED BY <2>1, <2>2, Zenon DEF SumStep
<1>6. PICK f : SumStep(z, X, f) /\ SumOf(z, X) = f[X]
  BY <1>5, SumUnfolds
<1>7. f = [s \in SUBSET X |-> IF s = {} THEN 0 ELSE z[CHOOSE x \in s : TRUE] + f[s \ {CHOOSE x \in s : TRUE}]]
  BY <1>6 DEF SumStep
<1>8. \A s \in SUBSET X : f[s] = IF s = {} THEN 0 ELSE z[CHOOSE x \in s : TRUE] + f[s \ {CHOOSE x \in s : TRUE}]
  BY <1>7, Zenon
<1>9. \A s \in SUBSET X : s # {} => f[s] = z[first[s]] + f[s \ {first[s]}]
  BY <1>3, <1>8, Zenon
<1>10. PICK Y : Y = {s \in SUBSET X : f[s] # w[s]}
  OBVIOUS
<1>11. ASSUME Y # {} PROVE FALSE
  <2>1. PICK s \in Y : \A x \in s : s \ {x} \notin Y
    <3>1. Y \subseteq SUBSET X
      BY <1>10
    <3> QED BY <1>11, <3>1, SmallestSet
  <2>2. s \in SUBSET X /\ f[s] # w[s]
    BY <1>10, <2>1
  <2>3. s # {}
    BY <1>4, <1>8, <2>2
  <2>4. f[s \ {first[s]}] = w[s \ {first[s]}]
    BY <1>3, <1>10, <2>1, <2>2, <2>3
  <2> QED BY <1>3, <1>9, <2>2, <2>3, <2>4
<1>12. f[X] = w[X]
  BY <1>10, <1>11
<1> QED BY <1>1, <1>6, <1>12

LEMMA SumFacts ==
  ASSUME NEW X, IsFiniteSet(X), NEW z, \A p \in X : z[p] \in Nat
  PROVE  /\ SumOf(z, X) \in Nat
         /\ \A p : p \notin X /\ z[p] \in Nat => SumOf(z, X \cup {p}) = SumOf(z, X) + z[p]
         /\ \A y : (\A p \in X : y[p] = z[p]) => SumOf(y, X) = SumOf(z, X)
<1>1. IsFiniteSet(Units(z, X)) /\ Cardinality(Units(z, X)) \in Nat
  BY UnitsFinite
<1>2. SumOf(z, X) = Cardinality(Units(z, X))
  BY SumIs
<1>3. ASSUME NEW p, p \notin X, z[p] \in Nat PROVE SumOf(z, X \cup {p}) = SumOf(z, X) + z[p]
  <2>1. Cardinality(Units(z, X \cup {p})) = Cardinality(Units(z, X)) + z[p]
    BY <1>1, <1>3, UnitsAdd
  <2>2. PICK W : W = X \cup {p}
    OBVIOUS
  <2>3. IsFiniteSet(W) /\ \A q \in W : z[q] \in Nat
    BY <1>3, <2>2, FS_AddElement
  <2>4. SumOf(z, W) = Cardinality(Units(z, W))
    BY <2>3, SumIs
  <2> QED BY <1>2, <2>1, <2>2, <2>4
<1>4. ASSUME NEW y, \A p \in X : y[p] = z[p] PROVE SumOf(y, X) = SumOf(z, X)
  <2>1. Units(y, X) = Units(z, X)
    BY <1>4, Zenon DEF Units
  <2>2. SumOf(y, X) = Cardinality(Units(y, X))
    BY <1>4, SumIs
  <2> QED BY <1>2, <2>1, <2>2
<1> QED BY <1>1, <1>2, <1>3, <1>4

LEMMA SumOfNone == ASSUME NEW z PROVE SumOf(z, {}) = 0
<1>1. IsFiniteSet({}) /\ Units(z, {}) = {}
  BY FS_EmptySet DEF Units
<1> QED BY <1>1, SumIs, FS_EmptySet

-----------------------------------------------------------------------------
(* The account *)

\* What is counted: myrealloc counts the old block until it has a new one.
Counted == IF Phase("remove") /\ op.call = "realloc" THEN DOMAIN size ELSE Nodes(heap)

Accounted ==
  /\ size \in [DOMAIN size -> Nat]
  /\ current_size \in Nat /\ max_size \in Nat /\ current_size <= max_size
  /\ current_size = SumOf(size, Counted)

HeapAccounted == HeapKept /\ (~Stuck => Accounted)

LEMMA Rounds == \A n \in Rounded : n \in Nat
<1>1. ASSUME NEW n \in Requests PROVE Heap_roundup(n) \in Nat
  <2>1. n \in Nat
    BY RequestsAssumption
  <2>2. n % 16 \in 0..15
    BY <2>1
  <2> QED BY <2>1, <2>2 DEF Heap_roundup, AlignedTo
<1> QED BY <1>1 DEF Rounded

LEMMA NodesFinite == ASSUME HeapKept PROVE IsFiniteSet(Nodes(heap))
<1>1. op = NoOp \/ Phase("add") \/ Phase("remove")
  <2>1. op = NoOp \/ (op # NoOp /\ op \in Op)
    BY DEF HeapKept, OpKept
  <2> QED BY <2>1 DEF Op, Phase
<1>2. \E S : Shape(heap, S)
  BY <1>1 DEF HeapKept, TreeKept, Ready, Entering, Departing, Sound, Adding, Removing
<1> QED BY <1>2, NamesAre DEF Shape

LEMMA SizesFinite == ASSUME HeapKept, ~Stuck PROVE IsFiniteSet(DOMAIN size)
<1>1. BlocksKept /\ IsFiniteSet(Nodes(heap))
  BY NodesFinite DEF HeapKept
<1>2. InHand = {} \/ InHand = {op.ptr}
  BY DEF InHand
<1>3. DOMAIN size = Nodes(heap) \cup InHand
  BY <1>1 DEF BlocksKept
<1> QED BY <1>1, <1>2, <1>3, FS_AddElement

LEMMA CountIs ==
  ASSUME NEW old \in Nat, NEW n \in Nat, current_size \in Nat, max_size \in Nat, old <= current_size, Count(old, n)
  PROVE  current_size' = current_size + n - old /\ current_size' \in Nat /\ max_size' \in Nat
         /\ current_size' <= max_size'
BY DEF Count, Highest

LEMMA AccountIdle ==
  ASSUME HeapAccounted, op = NoOp, ~Stuck
  PROVE  /\ Accounted /\ current_size = SumOf(size, Nodes(heap)) /\ DOMAIN size = Nodes(heap)
         /\ IsFiniteSet(Nodes(heap)) /\ \A p \in Nodes(heap) : size[p] \in Nat
<1>1. HeapKept /\ Accounted /\ BlocksKept
  BY DEF HeapAccounted, HeapKept
<1>2. InHand = {} /\ ~Phase("remove")
  BY NoPhase
<1>3. DOMAIN size = Nodes(heap)
  BY <1>1, <1>2 DEF BlocksKept
<1>4. \A p \in Nodes(heap) : size[p] \in Nat
  BY <1>1, <1>3 DEF Accounted
<1> QED BY <1>1, <1>2, <1>3, <1>4, NodesFinite DEF Accounted, Counted

LEMMA mymallocAccounts ==
  ASSUME HeapAccounted, NEW request \in Requests, mymalloc(request)
  PROVE  Accounted'
<1>1. HeapKept /\ ~heap_mutex
  BY Zenon DEF HeapAccounted, mymalloc
<1>2. op = NoOp /\ ~Stuck
  BY <1>1, Idle, Zenon DEF Stuck
<1>3. PICK n : n = Heap_roundup(request)
  OBVIOUS
<1>4. n \in Nat
  BY <1>3, Roundup, Rounds
<1>5. PICK ptr \in Contents :
        /\ ptr \notin Nodes(heap) /\ Nodes(heap') = Nodes(heap) \cup {ptr}
        /\ size' = WithRecord(size, ptr, n) /\ Count(0, n) /\ ~Phase("remove")'
  BY <1>1, <1>3, mymallocKeeps
<1>6. /\ Accounted /\ current_size = SumOf(size, Nodes(heap)) /\ DOMAIN size = Nodes(heap)
      /\ IsFiniteSet(Nodes(heap)) /\ \A p \in Nodes(heap) : size[p] \in Nat
  BY <1>2, AccountIdle
<1>7. size' \in [DOMAIN size' -> Nat] /\ size'[ptr] = n /\ \A p \in Nodes(heap) : size'[p] = size[p]
  BY <1>4, <1>5, <1>6 DEF WithRecord
<1>8. SumOf(size', Nodes(heap)) = SumOf(size, Nodes(heap)) /\ \A p \in Nodes(heap) : size'[p] \in Nat
  BY <1>6, <1>7, SumFacts
<1>9. SumOf(size', Nodes(heap) \cup {ptr}) = SumOf(size', Nodes(heap)) + n
  BY <1>4, <1>5, <1>6, <1>7, <1>8, SumFacts
<1>10. current_size' = current_size + n - 0 /\ current_size' \in Nat /\ max_size' \in Nat /\ current_size' <= max_size'
  BY <1>4, <1>5, <1>6, CountIs DEF Accounted
<1>11. Counted' = Nodes(heap')
  BY <1>5 DEF Counted
<1>12. current_size' = SumOf(size', Counted')
  BY <1>4, <1>5, <1>6, <1>8, <1>9, <1>10, <1>11 DEF Accounted
<1> QED BY <1>7, <1>10, <1>12 DEF Accounted

LEMMA unlinkAccounts ==
  ASSUME HeapAccounted, op = NoOp, ~Stuck, NEW ptr \in Contents,
         size' = size, ptr \in Nodes(heap), Nodes(heap') = Nodes(heap) \ {ptr},
         Count(size[ptr], 0), op'.call # "realloc"
  PROVE  Accounted'
<1>1. /\ Accounted /\ current_size = SumOf(size, Nodes(heap)) /\ DOMAIN size = Nodes(heap)
      /\ IsFiniteSet(Nodes(heap)) /\ \A p \in Nodes(heap) : size[p] \in Nat
  BY AccountIdle
<1>2. PICK M : M = Nodes(heap) \ {ptr}
  OBVIOUS
<1>3. IsFiniteSet(M) /\ M \cup {ptr} = Nodes(heap) /\ ptr \notin M /\ size[ptr] \in Nat /\ \A p \in M : size[p] \in Nat
  BY <1>1, <1>2, FS_RemoveElement
<1>4. SumOf(size, M) \in Nat /\ SumOf(size, M \cup {ptr}) = SumOf(size, M) + size[ptr]
  BY <1>3, SumFacts
<1>5. SumOf(size, M \cup {ptr}) = current_size
  BY <1>1, <1>3
<1>6. current_size \in Nat /\ max_size \in Nat
  BY <1>1 DEF Accounted
<1>7. size[ptr] <= current_size
  BY <1>3, <1>4, <1>5, <1>6
<1>8. current_size' = current_size + 0 - size[ptr] /\ current_size' \in Nat /\ max_size' \in Nat
      /\ current_size' <= max_size'
  BY <1>3, <1>6, <1>7, CountIs
<1>9. current_size' = SumOf(size, M)
  BY <1>3, <1>4, <1>5, <1>8
<1>10. Counted' = M
  BY <1>2 DEF Counted
<1>11. current_size' = SumOf(size', Counted')
  BY <1>9, <1>10
<1>12. size' \in [DOMAIN size' -> Nat]
  BY <1>1 DEF Accounted
<1> QED BY <1>8, <1>11, <1>12 DEF Accounted

LEMMA reallocatedAccounts ==
  ASSUME HeapAccounted, reallocated, ~Stuck'
  PROVE  Accounted'
<1>1. HeapKept
  BY DEF HeapAccounted
<1>2. /\ op # NoOp /\ Phase("remove") /\ op.call = "realloc" /\ op.ptr \notin Nodes(heap)
  BY <1>1, reallocatedKeeps
<1>3. PICK ptr \in Contents :
        /\ ptr \notin Nodes(heap) /\ Nodes(heap') = Nodes(heap) \cup {ptr}
        /\ size' = Exchanged(size, op.ptr, ptr, op.request)
        /\ Count(size[op.ptr], op.request) /\ ~Phase("remove")' /\ op.request \in Rounded
  BY <1>1, reallocatedKeeps
<1>4. ~Stuck /\ BlocksKept /\ Accounted
  BY <1>1, <1>2, Busy DEF HeapAccounted
<1>5. InHand = {op.ptr}
  BY <1>2 DEF InHand
<1>6. DOMAIN size = Nodes(heap) \cup {op.ptr}
  BY <1>4, <1>5 DEF BlocksKept
<1>7. Counted = Nodes(heap) \cup {op.ptr}
  BY <1>2, <1>6 DEF Counted
<1>8. PICK M : M = Nodes(heap)
  OBVIOUS
<1>9. PICK old, n : old = size[op.ptr] /\ n = op.request
  OBVIOUS
<1>10. IsFiniteSet(M) /\ old \in Nat /\ n \in Nat /\ \A p \in M : size[p] \in Nat
  BY <1>1, <1>3, <1>4, <1>6, <1>8, <1>9, NodesFinite, Rounds DEF Accounted
<1>11. SumOf(size, M) \in Nat /\ SumOf(size, M \cup {op.ptr}) = SumOf(size, M) + old
  BY <1>2, <1>8, <1>9, <1>10, SumFacts
<1>12. current_size = SumOf(size, M) + old /\ current_size \in Nat /\ max_size \in Nat
  BY <1>4, <1>7, <1>8, <1>11 DEF Accounted
<1>13. old <= current_size
  BY <1>10, <1>11, <1>12
<1>14. current_size' = current_size + n - old /\ current_size' \in Nat /\ max_size' \in Nat
       /\ current_size' <= max_size'
  BY <1>3, <1>9, <1>10, <1>12, <1>13, CountIs
<1>15. /\ size' \in [DOMAIN size' -> Nat] /\ size'[ptr] = n /\ \A p \in M : size'[p] = size[p]
  <2>1. DOMAIN size' = M \cup {ptr}
    BY <1>2, <1>3, <1>6, <1>8 DEF Exchanged, WithRecord, WithoutRecord
  <2>2. size'[ptr] = n
    BY <1>3, <1>9 DEF Exchanged, WithRecord, WithoutRecord
  <2>3. \A p \in M : size'[p] = size[p]
    BY <1>2, <1>3, <1>6, <1>8 DEF Exchanged, WithRecord, WithoutRecord
  <2>4. \A p \in DOMAIN size' : size'[p] \in Nat
    BY <1>10, <2>1, <2>2, <2>3
  <2>5. size' = [p \in DOMAIN size' |-> size'[p]]
    BY <1>3 DEF Exchanged, WithRecord
  <2> QED BY <2>2, <2>3, <2>4, <2>5
<1>16. SumOf(size', M) = SumOf(size, M) /\ \A p \in M : size'[p] \in Nat
  BY <1>10, <1>15, SumFacts
<1>17. SumOf(size', M \cup {ptr}) = SumOf(size', M) + n
  BY <1>3, <1>8, <1>10, <1>15, <1>16, SumFacts
<1>18. Counted' = M \cup {ptr}
  BY <1>3, <1>8 DEF Counted
<1>19. current_size' = SumOf(size', Counted')
  BY <1>10, <1>11, <1>12, <1>14, <1>16, <1>17, <1>18
<1> QED BY <1>14, <1>15, <1>19 DEF Accounted

LEMMA AccountSame ==
  ASSUME Accounted, record' = record, Counted' = Counted
  PROVE  Accounted'
<1>1. size' = size /\ current_size' = current_size /\ max_size' = max_size
  BY DEF record
<1> QED BY <1>1 DEF Accounted

LEMMA AccountSearched ==
  ASSUME HeapAccounted, ~Stuck', UNCHANGED <<heap, record, heap_mutex, op, cur, memory>>
  PROVE  Accounted'
<1>1. heap' = heap /\ record' = record /\ op' = op /\ heap_mutex' = heap_mutex
  BY Zenon
<1>2. size' = size /\ ~Stuck
  <2>1. ~(op' = NoOp /\ heap_mutex')
    BY Zenon DEF Stuck
  <2>2. ~(op = NoOp /\ heap_mutex)
    BY <1>1, <2>1
  <2> QED BY <1>1, <2>2, Zenon DEF record, Stuck
<1>3. Counted' = Counted
  BY <1>1, <1>2, Zenon DEF Counted, Phase, Nodes
<1>4. Accounted
  BY <1>2, Zenon DEF HeapAccounted
<1> QED BY <1>1, <1>3, <1>4, AccountSame

LEMMA myreallocAccounts ==
  ASSUME HeapAccounted, op = NoOp, ~Stuck, record' = record, op'.call = "realloc", Phase("remove")'
  PROVE  Accounted'
<1>1. /\ Accounted /\ DOMAIN size = Nodes(heap)
  BY AccountIdle
<1>2. Counted = Nodes(heap)
  BY NoPhase DEF Counted
<1>3. Counted' = DOMAIN size'
  BY DEF Counted
<1>4. size' = size
  BY DEF record
<1> QED BY <1>1, <1>2, <1>3, <1>4, AccountSame

LEMMA roundAccounts ==
  ASSUME HeapAccounted, op # NoOp, Nodes(heap') = Nodes(heap),
         UNCHANGED <<record, heap_mutex, op, found, memory>>
  PROVE  Accounted'
<1>1. record' = record /\ op' = op
  BY Zenon
<1>2. size' = size
  BY <1>1, Zenon DEF record
<1>3. Counted' = Counted
  BY <1>1, <1>2, Zenon DEF Counted, Phase
<1>4. Accounted
  BY Zenon DEF HeapAccounted, Stuck
<1> QED BY <1>1, <1>3, <1>4, AccountSame

LEMMA addedAccounts ==
  ASSUME HeapAccounted, added
  PROVE  Accounted'
<1>1. /\ op # NoOp /\ op' = NoOp /\ Nodes(heap') = Nodes(heap) /\ Phase("add") /\ record' = record
  BY addedKeeps, Zenon DEF HeapAccounted
<1>2. Counted = Nodes(heap)
  BY <1>1 DEF Counted, Phase
<1>3. Counted' = Nodes(heap')
  BY <1>1 DEF Counted, Phase
<1>4. Accounted
  BY <1>1, Zenon DEF HeapAccounted, Stuck
<1> QED BY <1>1, <1>2, <1>3, <1>4, AccountSame

LEMMA removedAccounts ==
  ASSUME HeapAccounted, removed
  PROVE  Accounted'
<1>1. HeapKept
  BY DEF HeapAccounted
<1>2. /\ op # NoOp /\ op' = NoOp /\ Nodes(heap') = Nodes(heap)
      /\ op.call # "realloc" /\ op.ptr \notin Nodes(heap) /\ size' = WithoutRecord(size, op.ptr)
      /\ current_size' = current_size /\ max_size' = max_size /\ Phase("remove")
  BY <1>1, removedKeeps
<1>3. Accounted /\ BlocksKept
  BY <1>1, <1>2, Busy DEF HeapAccounted
<1>4. Counted = Nodes(heap) /\ Counted' = Nodes(heap)
  BY <1>2 DEF Counted, Phase
<1>5. DOMAIN size = Nodes(heap) \cup {op.ptr}
  BY <1>2, <1>3 DEF BlocksKept, InHand
<1>6. DOMAIN size' = Nodes(heap) /\ \A p \in Nodes(heap) : size'[p] = size[p] /\ size[p] \in Nat
  BY <1>2, <1>3, <1>5 DEF WithoutRecord, Accounted
<1>7. SumOf(size', Nodes(heap)) = SumOf(size, Nodes(heap))
  BY <1>1, <1>6, NodesFinite, SumFacts
<1>8. size' \in [DOMAIN size' -> Nat]
  <2>1. size' = [p \in DOMAIN size' |-> size'[p]]
    BY <1>2 DEF WithoutRecord
  <2> QED BY <1>6, <2>1
<1> QED BY <1>2, <1>3, <1>4, <1>7, <1>8 DEF Accounted

LEMMA AccountStarts == ASSUME Init PROVE HeapAccounted
<1>1. heap = Empty /\ size = <<>> /\ current_size = 0 /\ max_size = 0 /\ op = NoOp
  BY Zenon DEF Init
<1>2. Counted = {}
  BY <1>1, NoPhase DEF Counted, Nodes, Empty
<1>3. Accounted
  <2>1. size \in [DOMAIN size -> Nat]
    BY <1>1
  <2> QED BY <1>1, <1>2, <2>1, SumOfNone DEF Accounted
<1> QED BY <1>3, StartsKept DEF HeapAccounted

LEMMA AccountSteps == ASSUME HeapAccounted, [Next]_vars PROVE HeapAccounted'
<1>1. HeapKept /\ HeapKept'
  BY StepsKept DEF HeapAccounted
<1> SUFFICES ASSUME ~Stuck' PROVE Accounted'
  BY <1>1, Zenon DEF HeapAccounted
<1>2. CASE UNCHANGED vars
  <2>1. UNCHANGED <<heap, record, heap_mutex, op, cur, memory>>
    BY <1>2, Zenon DEF vars
  <2> QED BY <2>1, AccountSearched
<1>3. ASSUME NEW request \in Requests, mymalloc(request) PROVE Accounted'
  BY <1>3, mymallocAccounts
<1>4. CASE mymallocFails
  BY <1>1, <1>4, mymallocFailsKeeps
<1>5. ASSUME NEW ptr \in Contents, NotFound(ptr) PROVE Accounted'
  <2>1. UNCHANGED <<heap, record, heap_mutex, op, cur, memory>>
    BY <1>5, Zenon DEF NotFound
  <2> QED BY <2>1, AccountSearched
<1>6. ASSUME NEW ptr \in Contents, NEW call \in {"free", "unlink"}, unlink(call, ptr) PROVE Accounted'
  <2>1. op = NoOp /\ ~Stuck
    BY <1>1, <1>6, Idle, Zenon DEF unlink, Stuck
  <2>2. \/ NotFound(ptr)
        \/ /\ size' = size /\ ptr \in Nodes(heap) /\ Nodes(heap') = Nodes(heap) \ {ptr}
           /\ Count(size[ptr], 0) /\ op'.call # "realloc"
    BY <1>1, <1>6, unlinkKeeps
  <2> QED BY <1>5, <2>1, <2>2, unlinkAccounts
<1>7. ASSUME NEW ptr \in Contents, NEW request \in Requests, myrealloc(ptr, request) PROVE Accounted'
  <2>1. op = NoOp /\ ~Stuck
    BY <1>1, <1>7, Idle, Zenon DEF myrealloc, Stuck
  <2>2. NotFound(ptr) \/ (record' = record /\ op'.call = "realloc" /\ Phase("remove")')
    BY <1>1, <1>7, myreallocKeeps
  <2> QED BY <1>5, <2>1, <2>2, myreallocAccounts
<1>8. ASSUME NEW ptr \in Contents, Heap_findItem(ptr) PROVE Accounted'
  <2>1. UNCHANGED <<heap, record, heap_mutex, op, cur, memory>>
    BY <1>1, <1>8, findItemKeeps, Zenon
  <2> QED BY <2>1, AccountSearched
<1>9. CASE balanceAfterAdd
  BY <1>1, <1>9, balanceAfterAddKeeps, roundAccounts
<1>10. CASE balanceAfterRemove
  BY <1>1, <1>10, balanceAfterRemoveKeeps, roundAccounts
<1> QED BY <1>2, <1>3, <1>4, <1>6, <1>7, <1>8, <1>9, <1>10, addedAccounts, removedAccounts, reallocatedAccounts, Zenon
        DEF Next, balance, Addresses

\* Whenever no call is in progress current_size is the sum of the sizes on
\* record, which max_size has not missed, and each record is of a block that
\* the C library has given out and not taken back.
THEOREM AccountIsKept == Spec => []AccountKept
<1>1. Init => HeapAccounted
  BY AccountStarts
<1>2. HeapAccounted /\ [Next]_vars => HeapAccounted'
  BY AccountSteps
<1>3. HeapAccounted => AccountKept
  <2> SUFFICES ASSUME HeapAccounted, ~heap_mutex
               PROVE  /\ current_size = MapThenSumSet(LAMBDA p : size[p], Recorded)
                      /\ Recorded \subseteq memory
                      /\ current_size <= max_size
    BY Zenon DEF AccountKept
  <2>1. HeapKept
    BY DEF HeapAccounted
  <2>2. op = NoOp /\ ~Stuck /\ Nodes(heap) \subseteq memory
    BY <2>1, Idle, Zenon DEF Stuck
  <2>3. Accounted /\ current_size = SumOf(size, Nodes(heap))
    BY <2>2, AccountIdle
  <2>4. current_size = MapThenSumSet(LAMBDA p : size[p], Recorded)
    BY <2>3, RecordedIs, Zenon DEF SumOf
  <2>5. current_size <= max_size
    BY <2>3 DEF Accounted
  <2> QED BY <2>2, <2>4, <2>5, RecordedIs
<1> QED BY <1>1, <1>2, <1>3, PTL DEF Spec

-----------------------------------------------------------------------------
(* The table *)

Entered == [p \in Nodes(heap) |-> size[p]]

LEMMA EnteredIs == Entered = [p \in Recorded |-> size[p]]
BY RecordedIs, Zenon DEF Entered

LEMMA EnteredIsNext == Entered' = [p \in Recorded' |-> size'[p]]
<1>1. Recorded' = Nodes(heap')
  BY Zenon DEF Recorded, Nodes
<1>2. Entered' = [p \in Nodes(heap') |-> size'[p]]
  BY Zenon DEF Entered, Nodes
<1> QED BY <1>1, <1>2, Zenon

LEMMA EnteredSame ==
  ASSUME Nodes(heap') = Nodes(heap), \A p \in Nodes(heap) : size'[p] = size[p]
  PROVE  Entered' = Entered
BY DEF Entered, Nodes

LEMMA EntersOne ==
  ASSUME NEW ptr, ptr \notin Nodes(heap), Nodes(heap') = Nodes(heap) \cup {ptr},
         NEW n, size'[ptr] = n, \A p \in Nodes(heap) : size'[p] = size[p]
  PROVE  ptr \notin DOMAIN Entered /\ Entered' = [q \in DOMAIN Entered \cup {ptr} |-> IF q = ptr THEN n ELSE Entered[q]]
<1>1. DOMAIN Entered = Nodes(heap) /\ \A q \in Nodes(heap) : Entered[q] = size[q]
  BY DEF Entered
<1>2. Entered' = [q \in Nodes(heap') |-> size'[q]]
  BY Zenon DEF Entered, Nodes
<1> QED BY <1>1, <1>2

LEMMA TakesOutOne ==
  ASSUME NEW ptr, ptr \in Nodes(heap), Nodes(heap') = Nodes(heap) \ {ptr}, size' = size
  PROVE  ptr \in DOMAIN Entered /\ Entered' = [q \in DOMAIN Entered \ {ptr} |-> Entered[q]]
<1>1. DOMAIN Entered = Nodes(heap) /\ \A q \in Nodes(heap) : Entered[q] = size[q]
  BY DEF Entered
<1>2. Entered' = [q \in Nodes(heap') |-> size'[q]]
  BY Zenon DEF Entered, Nodes
<1> QED BY <1>1, <1>2

\* What a step does to the table.
Looked(p) == found' = (p \in DOMAIN Entered) /\ Entered' = Entered
Took(p) == /\ p \in DOMAIN Entered /\ found' = TRUE
           /\ Entered' = [q \in DOMAIN Entered \ {p} |-> Entered[q]]
PutIn(p, n) == /\ p \notin DOMAIN Entered /\ found' = found
             /\ Entered' = [q \in DOMAIN Entered \cup {p} |-> IF q = p THEN n ELSE Entered[q]]
Stays == Entered' = Entered /\ found' = found

LEMMA TableActions ==
  /\ \A p : Looked(p) <=> Table!Lookup(p)
  /\ \A p : Took(p) <=> Table!TakeOut(p)
  /\ \A p, n : PutIn(p, n) <=> Table!Enter(p, n)
  /\ Stays <=> UNCHANGED <<[p \in Recorded |-> size[p]], found>>
<1>1. Entered = [p \in Recorded |-> size[p]] /\ Entered' = [p \in Recorded' |-> size'[p]]
  BY EnteredIs, EnteredIsNext
<1>2. \A p : Looked(p) <=> Table!Lookup(p)
  BY <1>1, Zenon DEF Looked, Table!Lookup
<1>3. \A p : Took(p) <=> Table!TakeOut(p)
  BY <1>1, Zenon DEF Took, Table!TakeOut
<1>4. \A p, n : PutIn(p, n) <=> Table!Enter(p, n)
  BY <1>1, Zenon DEF PutIn, Table!Enter
<1>5. Stays <=> UNCHANGED <<[p \in Recorded |-> size[p]], found>>
  BY <1>1, Zenon DEF Stays
<1> QED BY <1>2, <1>3, <1>4, <1>5, Zenon

LEMMA EntryStaysOut ==
  ASSUME HeapKept, op # NoOp, Phase("remove")
  PROVE  op.ptr \notin Nodes(heap) /\ DOMAIN size = Nodes(heap) \cup {op.ptr}
<1>1. BlocksKept
  BY Busy
<1> QED BY <1>1 DEF BlocksKept, InHand

LEMMA mymallocEnters ==
  ASSUME HeapKept, NEW request \in Requests, mymalloc(request)
  PROVE  \E p \in Contents, n \in Rounded : PutIn(p, n)
<1>1. PICK n : n = Heap_roundup(request)
  OBVIOUS
<1>2. n \in Rounded
  BY <1>1, Roundup
<1>3. PICK ptr \in Contents :
         /\ ptr \notin Nodes(heap) /\ Nodes(heap') = Nodes(heap) \cup {ptr}
         /\ size' = WithRecord(size, ptr, n) /\ found' = found
  BY <1>1, mymallocKeeps
<1>4. DOMAIN size = Nodes(heap)
  BY Idle, Zenon DEF mymalloc
<1>5. size'[ptr] = n /\ \A p \in Nodes(heap) : size'[p] = size[p]
  BY <1>3, <1>4 DEF WithRecord
<1>6. ptr \notin DOMAIN Entered /\ Entered' = [q \in DOMAIN Entered \cup {ptr} |-> IF q = ptr THEN n ELSE Entered[q]]
  <2>1. ptr \notin Nodes(heap) /\ Nodes(heap') = Nodes(heap) \cup {ptr}
    BY <1>3, Zenon
  <2> QED BY <1>5, <2>1, EntersOne
<1>7. PutIn(ptr, n)
  BY <1>3, <1>6, Zenon DEF PutIn
<1> QED BY <1>2, <1>3, <1>7

LEMMA searchLooks ==
  ASSUME HeapKept, UNCHANGED <<heap, record, heap_mutex, op, cur, memory>>, NEW p, found' = (p \in Nodes(heap))
  PROVE  Looked(p)
<1>1. Nodes(heap') = Nodes(heap) /\ size' = size
  BY Zenon DEF record
<1>2. Entered' = Entered
  BY <1>1, EnteredSame
<1>3. DOMAIN Entered = Nodes(heap)
  BY DEF Entered
<1> QED BY <1>2, <1>3, Zenon DEF Looked

LEMMA missLooks ==
  ASSUME HeapKept, NEW p, NotFound(p), p \notin Nodes(heap)
  PROVE  Looked(p)
<1>1. UNCHANGED <<heap, record, heap_mutex, op, cur, memory>> /\ found' = FALSE
  BY Zenon DEF NotFound
<1>2. (p \in Nodes(heap)) = FALSE
  OBVIOUS
<1>3. found' = (p \in Nodes(heap))
  BY <1>1, <1>2, Zenon
<1> QED BY <1>1, <1>3, searchLooks

LEMMA departureTakes ==
  ASSUME NEW ptr, found' = TRUE, size' = size, ptr \in Nodes(heap), Nodes(heap') = Nodes(heap) \ {ptr}
  PROVE  Took(ptr)
<1>1. ptr \in DOMAIN Entered /\ Entered' = [q \in DOMAIN Entered \ {ptr} |-> Entered[q]]
  BY TakesOutOne
<1> QED BY <1>1, Zenon DEF Took

LEMMA quietStays ==
  ASSUME Nodes(heap') = Nodes(heap), record' = record, found' = found
  PROVE  Stays
<1>1. size' = size
  BY Zenon DEF record
<1> QED BY <1>1, EnteredSame, Zenon DEF Stays

LEMMA removedStays ==
  ASSUME HeapKept, removed
  PROVE  Stays
<1>1. /\ op # NoOp /\ Phase("remove") /\ Nodes(heap') = Nodes(heap) /\ size' = WithoutRecord(size, op.ptr)
      /\ found' = found
  BY removedKeeps
<1>2. \A p \in Nodes(heap) : size'[p] = size[p]
  BY <1>1, EntryStaysOut DEF WithoutRecord
<1> QED BY <1>1, <1>2, EnteredSame, Zenon DEF Stays

LEMMA reallocatedEnters ==
  ASSUME HeapKept, reallocated
  PROVE  Stays \/ \E p \in Contents, n \in Rounded : PutIn(p, n)
<1>1. op # NoOp /\ Phase("remove") /\ found' = found
  BY reallocatedKeeps
<1>2. CASE Nodes(heap') = Nodes(heap) /\ size' = size
  BY <1>1, <1>2, EnteredSame, Zenon DEF Stays
<1>3. ASSUME NEW ptr \in Contents,
             ptr \notin Nodes(heap), Nodes(heap') = Nodes(heap) \cup {ptr},
             size' = Exchanged(size, op.ptr, ptr, op.request), op.request \in Rounded
      PROVE  PutIn(ptr, op.request)
  <2>1. size'[ptr] = op.request /\ \A p \in Nodes(heap) : size'[p] = size[p]
    BY <1>1, <1>3, EntryStaysOut DEF Exchanged, WithRecord, WithoutRecord
  <2> QED BY <1>1, <1>3, <2>1, EntersOne DEF PutIn
<1> QED BY <1>2, <1>3, reallocatedKeeps

LEMMA TableSteps ==
  ASSUME HeapKept, [Next]_vars
  PROVE  \/ Stays
         \/ \E p \in Contents : Looked(p) \/ Took(p) \/ \E n \in Rounded : PutIn(p, n)
<1>1. CASE UNCHANGED vars
  <2>1. Nodes(heap') = Nodes(heap) /\ record' = record /\ found' = found
    BY <1>1, Zenon DEF vars
  <2> QED BY <2>1, quietStays
<1>2. ASSUME NEW request \in Requests, mymalloc(request)
      PROVE  \E p \in Contents : \E n \in Rounded : PutIn(p, n)
  BY <1>2, mymallocEnters
<1>3. CASE mymallocFails
  <2>1. Nodes(heap') = Nodes(heap) /\ record' = record /\ found' = found
    BY <1>3, Zenon DEF mymallocFails
  <2> QED BY <2>1, quietStays
<1>4. ASSUME NEW p \in Contents, NEW call \in {"free", "unlink"}, unlink(call, p)
      PROVE  Looked(p) \/ Took(p)
  BY <1>4, unlinkKeeps, missLooks, departureTakes
<1>5. ASSUME NEW p \in Contents, NEW request \in Requests, myrealloc(p, request)
      PROVE  Looked(p) \/ Took(p)
  BY <1>5, myreallocKeeps, missLooks, departureTakes
<1>6. ASSUME NEW p \in Contents, Heap_findItem(p) PROVE Looked(p)
  <2>1. UNCHANGED <<heap, record, heap_mutex, op, cur, memory>> /\ found' = (p \in Nodes(heap))
    BY <1>6, findItemKeeps, Zenon
  <2> QED BY <2>1, searchLooks
<1>7. CASE balanceAfterAdd
  <2>1. Nodes(heap') = Nodes(heap) /\ record' = record /\ found' = found
    BY <1>7, balanceAfterAddKeeps, Zenon
  <2> QED BY <2>1, quietStays
<1>8. CASE balanceAfterRemove
  <2>1. Nodes(heap') = Nodes(heap) /\ record' = record /\ found' = found
    BY <1>8, balanceAfterRemoveKeeps, Zenon
  <2> QED BY <2>1, quietStays
<1>9. CASE added
  <2>1. Nodes(heap') = Nodes(heap) /\ record' = record /\ found' = found
    BY <1>9, addedKeeps, Zenon
  <2> QED BY <2>1, quietStays
<1> QED BY <1>1, <1>2, <1>3, <1>4, <1>5, <1>6, <1>7, <1>8, <1>9, removedStays, reallocatedEnters, Zenon
        DEF Next, balance, Addresses

\* The heap tracker implements the table: each call enters, finds or takes
\* out the block it is asked for, and a round of a balancing loop, which
\* changes most of the tree, changes nothing of the table.
THEOREM HeapImplementsTable == Spec => TableKept
<1>1. Init => Table!Init
  <2> SUFFICES ASSUME Init PROVE Table!Init
    OBVIOUS
  <2>1. Recorded = {} /\ found = FALSE
    <3>1. heap = Empty /\ found = FALSE
      BY Zenon DEF Init
    <3>2. Recorded = {}
      BY <3>1 DEF Recorded, Empty
    <3> QED BY <3>1, <3>2, Zenon
  <2>2. [p \in Recorded |-> size[p]] = <<>>
    BY <2>1
  <2> QED BY <2>1, <2>2, Zenon DEF Table!Init
<1>2. HeapKept /\ [Next]_vars => [Table!Next]_<<[p \in Recorded |-> size[p]], found>>
  <2> SUFFICES ASSUME HeapKept, [Next]_vars
               PROVE  Table!Next \/ UNCHANGED <<[p \in Recorded |-> size[p]], found>>
    BY Zenon
  <2> QED BY TableSteps, TableActions, Zenon DEF Table!Next, Addresses
<1> QED BY <1>1, <1>2, HeapIsKept, PTL DEF Spec, TableKept, Table!Spec

-----------------------------------------------------------------------------
(* Walking *)

\* The first k steps from Nil along next.
Steps(E, next, g, k) ==
  /\ g \in [0..k -> E]
  /\ g[0] = Nil
  /\ \A i \in 1..k : g[i] = next[g[i - 1]]

LEMMA StepsExist ==
  ASSUME NEW E, Nil \in E, NEW next \in [E -> E], NEW k \in Nat
  PROVE  \E g : Steps(E, next, g, k)
<1>1. PICK Y : Y = {j \in Nat : ~\E g : Steps(E, next, g, j)}
  OBVIOUS
<1>2. ASSUME Y # {} PROVE FALSE
  <2>1. PICK j \in Y : \A i \in Y : j <= i
    BY <1>1, <1>2, LeastNumber
  <2>2. j \in Nat /\ ~\E g : Steps(E, next, g, j)
    BY <1>1, <2>1
  <2>3. CASE j = 0
    <3>1. PICK g : g = [i \in 0..0 |-> Nil]
      BY Zenon
    <3>2. Steps(E, next, g, 0)
      BY <3>1 DEF Steps
    <3> QED BY <2>2, <2>3, <3>2
  <2>4. CASE j # 0
    <3>1. j - 1 \in Nat /\ j - 1 \notin Y
      BY <2>1, <2>2, <2>4
    <3>2. PICK g : Steps(E, next, g, j - 1)
      BY <1>1, <3>1
    <3>3. PICK h : h = [i \in 0..j |-> IF i = j THEN next[g[j - 1]] ELSE g[i]]
      OBVIOUS
    <3>4. Steps(E, next, h, j)
      BY <2>2, <2>4, <3>1, <3>2, <3>3 DEF Steps
    <3> QED BY <2>2, <3>4
  <2> QED BY <2>3, <2>4
<1> QED BY <1>1, <1>2

LEMMA StepsAgree ==
  ASSUME NEW E, NEW next, NEW g, NEW h, NEW k \in Nat, Steps(E, next, g, k), Steps(E, next, h, k + 1),
         NEW n \in 0..k
  PROVE  g[n] = h[n]
<1>1. PICK Y : Y = {i \in 0..k : g[i] # h[i]}
  OBVIOUS
<1>2. ASSUME Y # {} PROVE FALSE
  <2>1. PICK i \in Y : \A j \in Y : i <= j
    <3>1. Y \in SUBSET Nat
      BY <1>1
    <3> QED BY <1>2, <3>1, LeastNumber
  <2>2. i \in 0..k /\ g[i] # h[i]
    BY <1>1, <2>1
  <2>3. i # 0
    BY <2>2 DEF Steps
  <2>4. i - 1 \in 0..k /\ i - 1 \notin Y
    BY <2>1, <2>2, <2>3
  <2>5. g[i - 1] = h[i - 1]
    BY <1>1, <2>4
  <2> QED BY <2>2, <2>3, <2>5 DEF Steps
<1> QED BY <1>1, <1>2

LEMMA WalkExists ==
  ASSUME NEW E, Nil \in E, NEW next \in [E -> E]
  PROVE  \E w : w = [i \in Nat |-> IF i = 0 THEN Nil ELSE next[w[i - 1]]]
<1>1. PICK G : G = [k \in Nat |-> CHOOSE g : Steps(E, next, g, k)]
  OBVIOUS
<1>2. \A k \in Nat : Steps(E, next, G[k], k)
  BY <1>1, StepsExist
<1>3. PICK w : w = [k \in Nat |-> G[k][k]]
  OBVIOUS
<1>4. w[0] = Nil
  BY <1>2, <1>3 DEF Steps
<1>5. ASSUME NEW k \in Nat, k # 0 PROVE w[k] = next[w[k - 1]]
  <2>1. k - 1 \in Nat /\ (k - 1) + 1 = k
    BY <1>5
  <2>2. Steps(E, next, G[k], k) /\ Steps(E, next, G[k - 1], k - 1)
    BY <1>2, <2>1
  <2>3. G[k - 1][k - 1] = G[k][k - 1]
    BY <2>1, <2>2, StepsAgree
  <2>4. G[k][k] = next[G[k][k - 1]]
    BY <1>5, <2>2 DEF Steps
  <2> QED BY <1>3, <2>1, <2>3, <2>4
<1>6. \A k \in Nat : w[k] = IF k = 0 THEN Nil ELSE next[w[k - 1]]
  BY <1>4, <1>5
<1>7. w = [k \in Nat |-> w[k]]
  BY <1>3
<1> QED BY <1>6, <1>7

WalkStep(t, f) == f = [i \in Nat |-> IF i = 0 THEN Nil ELSE TreeNextElement(t, f[i - 1])]

LEMMA WalkUnfolds ==
  ASSUME NEW t, NEW w, WalkStep(t, w)
  PROVE  WalkStep(t, TreeWalk(t))
<1>1. PICK f : f = CHOOSE g : WalkStep(t, g)
  OBVIOUS
<1>2. WalkStep(t, f)
  BY <1>1, Zenon
<1>3. TreeWalk(t) = f
  BY <1>1, Zenon DEF TreeWalk, WalkStep
<1> QED BY <1>2, <1>3, Zenon

LEMMA NoMinimum ==
  ASSUME NEW t, NEW S, Shape(t, S), Tidy(t)
  PROVE  TreeMinimum(t, Nil) = Nil
<1>1. PICK w : LeastStep(t, w)
  BY LeastExists
<1>2. PICK f : LeastStep(t, f) /\ TreeMinimum(t, Nil) = f[Nil]
  BY <1>1, LeastUnfolds
<1>3. Nil \in Pointers(t)
  BY DEF Pointers
<1>4. f[Nil] = Nil
  BY <1>2, <1>3 DEF LeastStep
<1> QED BY <1>2, <1>4

\* The nodes before n.
Earlier(t, n) == {k \in Nodes(t) : k < n}

LEMMA NextElementIs ==
  ASSUME NEW t, NEW S, Shape(t, S), Tidy(t), NEW r, r = TreeNextElement(t, Nil)
  PROVE  /\ Nodes(t) = {} => r = Nil
         /\ Nodes(t) # {} => r \in Nodes(t) /\ \A k \in Nodes(t) : r <= k
<1>1. r = TreeMinimum(t, t.root)
  BY Zenon DEF TreeNextElement
<1>2. CASE Nodes(t) = {}
  <2>1. t.root = Nil
    BY <1>2 DEF Shape, Linked
  <2> QED BY <1>1, <1>2, <2>1, NoMinimum
<1>3. CASE Nodes(t) # {}
  <2>1. t.root \in Nodes(t) /\ S[t.root] = Nodes(t)
    BY <1>3 DEF Shape, Linked, Sorted
  <2>2. TreeMinimum(t, t.root) \in S[t.root] /\ \A a \in S[t.root] : TreeMinimum(t, t.root) <= a
    BY <2>1, Minimum
  <2> QED BY <1>1, <1>3, <2>1, <2>2
<1> QED BY <1>2, <1>3

LEMMA NextElementAfter ==
  ASSUME NEW t, NEW S, Shape(t, S), Tidy(t), NEW n \in Nodes(t), NEW r, r = TreeNextElement(t, n)
  PROVE  /\ r = Nil => \A k \in Nodes(t) : k <= n
         /\ r # Nil => r \in Nodes(t) /\ n < r /\ \A k \in Nodes(t) : n < k => r <= k
<1>1. n # Nil
  BY NamesAre DEF Shape
<1>2. r = TreeSuccessor(t, n)
  BY <1>1, Zenon DEF TreeNextElement
<1> QED BY <1>2, Successor

\* The steps of a walk.
Walks(t, v) ==
  /\ v[0] = Nil
  /\ \A i \in Nat : v[i] \in Nodes(t) \cup {Nil} /\ v[i + 1] = TreeNextElement(t, v[i])

LEMMA WalkIs ==
  ASSUME NEW t, NEW S, Shape(t, S), Tidy(t)
  PROVE  Walks(t, TreeWalk(t))
<1>1. PICK E : E = Nodes(t) \cup {Nil}
  OBVIOUS
<1>2. PICK next : next = [n \in E |-> TreeNextElement(t, n)]
  OBVIOUS
<1>3. \A n \in E : TreeNextElement(t, n) \in E
  BY <1>1, NextElementIs, NextElementAfter
<1>4. next \in [E -> E] /\ Nil \in E /\ \A n \in E : next[n] = TreeNextElement(t, n)
  BY <1>1, <1>2, <1>3
<1>5. ASSUME NEW w, w[0] = Nil, \A i \in Nat : i # 0 => w[i] = next[w[i - 1]], NEW n \in Nat
      PROVE  w[n] \in E
  <2>1. PICK Y : Y = {i \in Nat : w[i] \notin E}
    OBVIOUS
  <2>2. ASSUME Y # {} PROVE FALSE
    <3>1. PICK i \in Y : \A j \in Y : i <= j
      BY <2>1, <2>2, LeastNumber
    <3>2. i \in Nat /\ w[i] \notin E
      BY <2>1, <3>1
    <3>3. i # 0
      BY <1>4, <1>5, <3>2
    <3>4. i - 1 \in Nat /\ i - 1 \notin Y
      BY <3>1, <3>2, <3>3
    <3>5. w[i - 1] \in E
      BY <2>1, <3>4
    <3> QED BY <1>4, <1>5, <3>2, <3>3, <3>5
  <2> QED BY <2>1, <2>2
<1>6. PICK w : w = [i \in Nat |-> IF i = 0 THEN Nil ELSE next[w[i - 1]]]
  BY <1>4, WalkExists
<1>7. WalkStep(t, w)
  <2>1. w[0] = Nil /\ \A i \in Nat : i # 0 => w[i] = next[w[i - 1]]
    BY <1>6
  <2>2. \A i \in Nat : w[i] \in E
    BY <1>5, <2>1
  <2>3. \A i \in Nat : i # 0 => w[i] = TreeNextElement(t, w[i - 1])
    BY <1>4, <2>1, <2>2
  <2>4. w = [i \in Nat |-> w[i]]
    BY <1>6
  <2>5. w = [i \in Nat |-> IF i = 0 THEN Nil ELSE TreeNextElement(t, w[i - 1])]
    BY <2>1, <2>3, <2>4
  <2> QED BY <2>5 DEF WalkStep
<1>8. PICK v : v = TreeWalk(t)
  OBVIOUS
<1>9. v = [i \in Nat |-> IF i = 0 THEN Nil ELSE TreeNextElement(t, v[i - 1])]
  BY <1>7, <1>8, WalkUnfolds, Zenon DEF WalkStep
<1>10. v[0] = Nil /\ \A i \in Nat : i # 0 => v[i] = TreeNextElement(t, v[i - 1])
  BY <1>9
<1>11. PICK Y : Y = {i \in Nat : v[i] \notin E}
  OBVIOUS
<1>12. ASSUME Y # {} PROVE FALSE
  <2>1. PICK i \in Y : \A j \in Y : i <= j
    BY <1>11, <1>12, LeastNumber
  <2>2. i \in Nat /\ v[i] \notin E
    BY <1>11, <2>1
  <2>3. i # 0
    BY <1>4, <1>10, <2>2
  <2>4. i - 1 \in Nat /\ i - 1 \notin Y
    BY <2>1, <2>2, <2>3
  <2>5. v[i - 1] \in E
    BY <1>11, <2>4
  <2> QED BY <1>3, <1>10, <2>2, <2>3, <2>5
<1>13. \A i \in Nat : v[i + 1] = TreeNextElement(t, v[i])
  <2>1. ASSUME NEW i \in Nat PROVE v[i + 1] = TreeNextElement(t, v[i])
    <3>1. i + 1 \in Nat /\ i + 1 # 0 /\ (i + 1) - 1 = i
      BY <2>1
    <3> QED BY <1>10, <3>1
  <2> QED BY <2>1
<1>14. \A i \in Nat : v[i] \in E
  BY <1>11, <1>12
<1> QED BY <1>1, <1>8, <1>10, <1>13, <1>14, Zenon DEF Walks

\* How many nodes there are before the one that follows n.
LEMMA EarlierIs ==
  ASSUME NEW t, NEW S, Shape(t, S), Tidy(t), NEW n \in Nodes(t), NEW r, r = TreeNextElement(t, n)
  PROVE  /\ r = Nil => Cardinality(Nodes(t)) = Cardinality(Earlier(t, n)) + 1
         /\ r # Nil => Cardinality(Earlier(t, r)) = Cardinality(Earlier(t, n)) + 1
         /\ Cardinality(Earlier(t, n)) \in Nat
<1>1. IsFiniteSet(Nodes(t)) /\ \A k \in Nodes(t) : k \in Nat
  BY NamesAre DEF Shape
<1>2. IsFiniteSet(Earlier(t, n)) /\ n \notin Earlier(t, n)
  BY <1>1, FS_Subset DEF Earlier
<1>3. Cardinality(Earlier(t, n) \cup {n}) = Cardinality(Earlier(t, n)) + 1 /\ Cardinality(Earlier(t, n)) \in Nat
  BY <1>2, FS_AddElement, FS_CardinalityType
<1>4. CASE r = Nil
  <2>1. \A k \in Nodes(t) : k <= n
    BY <1>4, NextElementAfter
  <2>2. Nodes(t) = Earlier(t, n) \cup {n}
    BY <1>1, <2>1 DEF Earlier
  <2> QED BY <1>3, <1>4, <2>2
<1>5. CASE r # Nil
  <2>1. r \in Nodes(t) /\ n < r /\ \A k \in Nodes(t) : n < k => r <= k
    BY <1>5, NextElementAfter
  <2>2. Earlier(t, r) = Earlier(t, n) \cup {n}
    BY <1>1, <2>1 DEF Earlier
  <2> QED BY <1>3, <1>5, <2>2
<1> QED BY <1>3, <1>4, <1>5

LEMMA WalkPlaces ==
  ASSUME NEW t, NEW S, Shape(t, S), Tidy(t), NEW v, Walks(t, v), NEW n \in 1..Cardinality(Nodes(t))
  PROVE  v[n] \in Nodes(t) /\ Cardinality(Earlier(t, v[n])) = n - 1
<1>1. PICK N : N = Cardinality(Nodes(t))
  OBVIOUS
<1>2. N \in Nat /\ Nil \notin Nodes(t)
  BY <1>1, NamesAre, FS_CardinalityType DEF Shape
<1>3. v[0] = Nil /\ \A i \in Nat : v[i] \in Nodes(t) \cup {Nil} /\ v[i + 1] = TreeNextElement(t, v[i])
  BY DEF Walks
<1>4. PICK Y : Y = {i \in 1..N : ~(v[i] \in Nodes(t) /\ Cardinality(Earlier(t, v[i])) = i - 1)}
  OBVIOUS
<1>5. ASSUME Y # {} PROVE FALSE
  <2>1. PICK i \in Y : \A j \in Y : i <= j
    <3>1. Y \in SUBSET Nat
      BY <1>2, <1>4
    <3> QED BY <1>5, <3>1, LeastNumber
  <2>2. i \in 1..N /\ ~(v[i] \in Nodes(t) /\ Cardinality(Earlier(t, v[i])) = i - 1)
    BY <1>4, <2>1
  <2>3. CASE i = 1
    <3>1. v[1] = TreeNextElement(t, Nil)
      <4>1. v[0 + 1] = TreeNextElement(t, v[0])
        BY <1>3
      <4> QED BY <1>3, <4>1
    <3>2. Nodes(t) # {}
      <4>1. N # 0
        BY <1>2, <2>2
      <4> QED BY <1>1, <4>1, FS_EmptySet
    <3>3. v[1] \in Nodes(t) /\ \A k \in Nodes(t) : v[1] <= k
      BY <3>1, <3>2, NextElementIs
    <3>4. Earlier(t, v[1]) = {}
      <4>1. \A k \in Nodes(t) : k \in Nat
        BY NamesAre DEF Shape
      <4> QED BY <3>3, <4>1 DEF Earlier
    <3>5. Cardinality(Earlier(t, v[1])) = 0
      BY <3>4, FS_EmptySet
    <3> QED BY <2>2, <2>3, <3>3, <3>5
  <2>4. CASE i # 1
    <3>1. i - 1 \in 1..N /\ i - 1 \notin Y /\ (i - 1) + 1 = i /\ i - 1 \in Nat
      BY <1>2, <2>1, <2>2, <2>4
    <3>2. PICK m : m = v[i - 1]
      OBVIOUS
    <3>3. m \in Nodes(t) /\ Cardinality(Earlier(t, m)) = (i - 1) - 1
      BY <1>4, <3>1, <3>2
    <3>4. v[i] = TreeNextElement(t, m) /\ v[i] \in Nodes(t) \cup {Nil}
      <4>1. v[(i - 1) + 1] = TreeNextElement(t, v[i - 1])
        BY <1>3, <3>1
      <4> QED BY <1>2, <1>3, <2>2, <3>1, <3>2, <4>1
    <3>5. v[i] # Nil
      <4>1. ASSUME v[i] = Nil PROVE N = ((i - 1) - 1) + 1
        BY <1>1, <3>3, <3>4, <4>1, EarlierIs
      <4> QED BY <1>2, <2>2, <4>1
    <3>6. Cardinality(Earlier(t, v[i])) = ((i - 1) - 1) + 1
      BY <3>3, <3>4, <3>5, EarlierIs
    <3> QED BY <2>2, <3>1, <3>4, <3>5, <3>6
  <2> QED BY <2>3, <2>4
<1> QED BY <1>1, <1>4, <1>5

LEMMA WalkEnds ==
  ASSUME NEW t, NEW S, Shape(t, S), Tidy(t), NEW v, Walks(t, v)
  PROVE  v[Cardinality(Nodes(t)) + 1] = Nil
<1>1. PICK N : N = Cardinality(Nodes(t))
  OBVIOUS
<1>2. N \in Nat /\ Nil \notin Nodes(t) /\ IsFiniteSet(Nodes(t)) /\ \A k \in Nodes(t) : k \in Nat
  BY <1>1, NamesAre, FS_CardinalityType DEF Shape
<1>3. v[N + 1] = TreeNextElement(t, v[N]) /\ v[0] = Nil
  BY <1>2 DEF Walks
<1>4. CASE N = 0
  <2>1. Nodes(t) = {}
    BY <1>1, <1>2, <1>4, FS_EmptySet
  <2>2. TreeNextElement(t, Nil) = Nil
    BY <2>1, NextElementIs
  <2> QED BY <1>1, <1>3, <1>4, <2>2
<1>5. CASE N # 0
  <2>1. PICK m : m = v[N]
    OBVIOUS
  <2>2. m \in Nodes(t) /\ Cardinality(Earlier(t, m)) = N - 1
    <3>1. N \in 1..N
      BY <1>2, <1>5
    <3> QED BY <1>1, <2>1, <3>1, WalkPlaces
  <2>3. PICK r : r = TreeNextElement(t, m)
    OBVIOUS
  <2>4. ASSUME r # Nil PROVE FALSE
    <3>1. r \in Nodes(t)
      BY <2>2, <2>3, <2>4, NextElementAfter
    <3>2. Cardinality(Earlier(t, r)) = (N - 1) + 1
      BY <2>2, <2>3, <2>4, EarlierIs
    <3>3. Earlier(t, r) \subseteq Nodes(t) /\ r \notin Earlier(t, r)
      BY <1>2, <3>1 DEF Earlier
    <3>4. Cardinality(Earlier(t, r)) = Cardinality(Nodes(t))
      BY <1>1, <1>2, <3>2
    <3>5. Earlier(t, r) = Nodes(t)
      BY <1>2, <3>3, <3>4, FS_Subset
    <3> QED BY <3>1, <3>3, <3>5
  <2> QED BY <1>1, <1>3, <2>1, <2>3, <2>4
<1> QED BY <1>4, <1>5

LEMMA WalkRises ==
  ASSUME NEW t, NEW S, Shape(t, S), Tidy(t), NEW v, Walks(t, v), NEW n \in 1..(Cardinality(Nodes(t)) - 1)
  PROVE  v[n] < v[n + 1]
<1>1. Cardinality(Nodes(t)) \in Nat
  BY NamesAre, FS_CardinalityType DEF Shape
<1>2. n \in 1..Cardinality(Nodes(t)) /\ n + 1 \in 1..Cardinality(Nodes(t)) /\ n \in Nat
  BY <1>1
<1>3. v[n] \in Nodes(t) /\ v[n + 1] \in Nodes(t)
  BY <1>2, WalkPlaces
<1>4. v[n + 1] = TreeNextElement(t, v[n]) /\ v[n + 1] # Nil
  BY <1>2, <1>3, NamesAre DEF Walks, Shape
<1> QED BY <1>3, <1>4, NextElementAfter

LEMMA WalkVisits ==
  ASSUME NEW t, NEW S, Shape(t, S), Tidy(t), NEW v, Walks(t, v), NEW k \in Nodes(t)
  PROVE  \E i \in 1..Cardinality(Nodes(t)) : v[i] = k
<1>1. PICK N : N = Cardinality(Nodes(t))
  OBVIOUS
<1>2. N \in Nat /\ Nil \notin Nodes(t) /\ IsFiniteSet(Nodes(t)) /\ (\A m \in Nodes(t) : m \in Nat) /\ N # 0
  BY <1>1, NamesAre, FS_CardinalityType, FS_EmptySet DEF Shape
<1>3. v[0] = Nil /\ \A i \in Nat : v[i + 1] = TreeNextElement(t, v[i])
  BY DEF Walks
<1>4. \A i \in 1..N : v[i] \in Nodes(t)
  BY <1>1, WalkPlaces
<1>5. v[N + 1] = Nil
  BY <1>1, WalkEnds
<1>6. ASSUME \A i \in 1..N : v[i] # k PROVE FALSE
  <2>1. PICK Y : Y = {i \in 1..N : ~(v[i] < k)}
    OBVIOUS
  <2>2. ASSUME Y # {} PROVE FALSE
    <3>1. PICK i \in Y : \A j \in Y : i <= j
      <4>1. Y \in SUBSET Nat
        BY <1>2, <2>1
      <4> QED BY <2>2, <4>1, LeastNumber
    <3>2. i \in 1..N /\ ~(v[i] < k)
      BY <2>1, <3>1
    <3>3. v[i] \in Nodes(t) /\ v[i] # k /\ v[i] # Nil /\ v[i] \in Nat /\ k \in Nat
      BY <1>2, <1>4, <1>6, <3>2
    <3>4. CASE i = 1
      <4>1. v[0 + 1] = TreeNextElement(t, v[0])
        BY <1>3
      <4>2. v[1] = TreeNextElement(t, Nil)
        BY <1>3, <4>1
      <4>3. v[1] <= k
        BY <4>2, NextElementIs
      <4> QED BY <3>2, <3>3, <3>4, <4>3
    <3>5. CASE i # 1
      <4>1. i - 1 \in 1..N /\ i - 1 \notin Y /\ (i - 1) + 1 = i /\ i - 1 \in Nat
        BY <1>2, <3>1, <3>2, <3>5
      <4>2. PICK m : m = v[i - 1]
        OBVIOUS
      <4>3. m \in Nodes(t) /\ m < k
        BY <1>4, <2>1, <4>1, <4>2
      <4>4. v[i] = TreeNextElement(t, m)
        <5>1. v[(i - 1) + 1] = TreeNextElement(t, v[i - 1])
          BY <1>3, <4>1
        <5> QED BY <4>1, <4>2, <5>1
      <4>5. v[i] <= k
        BY <3>3, <4>3, <4>4, NextElementAfter
      <4> QED BY <3>2, <3>3, <4>5
    <3> QED BY <3>4, <3>5
  <2>3. N \in 1..N /\ N \notin Y
    BY <1>2, <2>2
  <2>4. v[N] \in Nodes(t) /\ v[N] < k
    BY <1>4, <2>1, <2>3
  <2>5. TreeNextElement(t, v[N]) = Nil
    BY <1>2, <1>3, <1>5
  <2>6. k <= v[N]
    BY <2>4, <2>5, NextElementAfter
  <2> QED BY <1>2, <2>4, <2>6
<1> QED BY <1>1, <1>6

\* Whenever no call is in progress a walk from the first block by
\* TreeNextElement, as HeapScan makes it, comes by every block on record, in
\* order of address, and ends.
THEOREM WalkAlwaysComplete == Spec => []WalkIsComplete
<1>1. HeapKept => WalkIsComplete
  <2> SUFFICES ASSUME HeapKept, ~heap_mutex PROVE WalkIsComplete
    BY Zenon DEF WalkIsComplete
  <2>1. Ready(heap)
    BY Idle
  <2>2. PICK S, B : Sound(heap, S, B)
    BY <2>1 DEF Ready
  <2>3. Shape(heap, S) /\ Tidy(heap)
    BY <2>1, <2>2 DEF Ready, Sound
  <2>4. PICK v : v = TreeWalk(heap)
    OBVIOUS
  <2>5. Walks(heap, v)
    BY <2>3, <2>4, WalkIs
  <2>6. PICK n : n = Cardinality(Nodes(heap))
    OBVIOUS
  <2>7. {v[i] : i \in 1..n} = Nodes(heap)
    <3>1. \A i \in 1..n : v[i] \in Nodes(heap)
      BY <2>3, <2>5, <2>6, WalkPlaces
    <3>2. \A k \in Nodes(heap) : \E i \in 1..n : v[i] = k
      BY <2>3, <2>5, <2>6, WalkVisits
    <3> QED BY <3>1, <3>2
  <2>8. \A i \in 1..(n - 1) : v[i] < v[i + 1]
    BY <2>3, <2>5, <2>6, WalkRises
  <2>9. v[n + 1] = Nil
    BY <2>3, <2>5, <2>6, WalkEnds
  <2>10. n = Cardinality(Recorded) /\ {v[i] : i \in 1..n} = Recorded
    BY <2>6, <2>7, RecordedIs
  <2> QED BY <2>4, <2>8, <2>9, <2>10, Zenon DEF WalkIsComplete
<1> QED BY <1>1, HeapIsKept, PTL
=============================================================================
