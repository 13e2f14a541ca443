-------------------------------- MODULE Utf8 ----------------------------------
(***************************************************************************)
(* The check of topics, client ids, user names and passwords (utf-8.c) as  *)
(* operators over sequences of bytes.  A C string ends with a NUL, which   *)
(* the check may read, and nothing behind it.                              *)
(***************************************************************************)
EXTENDS Integers, Sequences

Byte == 0..255
CString == Seq(1..255)

\* What a char of that byte compares as, where char is signed or is not.
AsChar(signed, b) == IF signed /\ b > 127 THEN b - 256 ELSE b

\* One byte range of valid_ranges, written there as chars.
In(signed, b, lower, upper) == /\ AsChar(signed, b) >= AsChar(signed, lower)
                               /\ AsChar(signed, b) <= AsChar(signed, upper)

Continues(signed, b) == In(signed, b, 128, 191)

\* The bytes b1 to bn match a row of valid_ranges.
valid_ranges(signed, n, b1, b2, b3, b4) ==
  \/ n = 1 /\ In(signed, b1, 0, 127)
  \/ n = 2 /\ In(signed, b1, 194, 223) /\ Continues(signed, b2)
  \/ /\ n = 3
     /\ \/ In(signed, b1, 224, 224) /\ In(signed, b2, 160, 191)
        \/ In(signed, b1, 225, 236) /\ Continues(signed, b2)
        \/ In(signed, b1, 237, 237) /\ In(signed, b2, 128, 159)
        \/ In(signed, b1, 238, 239) /\ Continues(signed, b2)
     /\ Continues(signed, b3)
  \/ /\ n = 4
     /\ \/ In(signed, b1, 240, 240) /\ In(signed, b2, 144, 191)
        \/ In(signed, b1, 241, 243) /\ Continues(signed, b2)
        \/ In(signed, b1, 244, 244) /\ In(signed, b2, 128, 143)
     /\ Continues(signed, b3) /\ Continues(signed, b4)

\* The length the first byte announces: its top bits.
charlen(b) == IF b < 128 THEN 1 ELSE IF b >= 240 THEN 4 ELSE IF b >= 224 THEN 3 ELSE 2

\* UTF8_char_validate at position i; n is the length of the whole string, not
\* of what is left of it, so it is the NUL that ends a character cut short.
Char(s, i) == IF i <= Len(s) THEN s[i] ELSE 0
UTF8_char_validate(signed, n, s, i) ==
  /\ charlen(s[i]) <= n
  /\ valid_ranges(signed, charlen(s[i]), s[i], Char(s, i + 1), Char(s, i + 2), Char(s, i + 3))

\* UTF8_validate: character after character, until one is not valid or the
\* next would begin at the end of the string or behind it.
UTF8_validateString(signed, s) ==
  LET n == Len(s)
      good[i \in 1..(n + 4)] ==
        i > n \/ (UTF8_char_validate(signed, n, s, i) /\ good[i + charlen(s[i])])
  IN good[1]

-----------------------------------------------------------------------------
(* The reference: what the standard (RFC 3629) calls UTF-8 *)

\* The Unicode scalar values, and the bytes that stand for one.
IsScalar(c) == c \in Nat /\ (c <= 55295 \/ (57344 <= c /\ c <= 1114111))
Encoding(c) ==
  LET low == 128 + (c % 64)
      middle == 128 + ((c \div 64) % 64)
      high == 128 + ((c \div 4096) % 64)
  IN IF c < 128 THEN <<c>>
     ELSE IF c < 2048 THEN <<192 + (c \div 64), low>>
     ELSE IF c < 65536 THEN <<224 + (c \div 4096), middle, low>>
     ELSE <<240 + (c \div 262144), high, middle, low>>

\* The encoding of c lies in s at position i.
HasAt(s, i, c) ==
  LET e == Encoding(c)
  IN /\ i + Len(e) - 1 <= Len(s)
     /\ \A j \in 1..Len(e) : s[i + j - 1] = e[j]

\* s is a sequence of these encodings.
IsText(encodings, s) ==
  LET n == Len(s)
      text[i \in 1..(n + 1)] ==
        \/ i > n
        \/ \E k \in 1..4 : /\ i + k - 1 <= n
                           /\ SubSeq(s, i, i + k - 1) \in encodings
                           /\ text[i + k]
  IN text[1]

\* The check accepts exactly the strings that are UTF-8, whether char is signed
\* or not: evaluated for the strings of at most two bytes, and of three or four that
\* begin with one that announces as many, over bytes at the
\* limits of the table.
Sample == {65, 128, 144, 159, 160, 191, 194, 224, 237, 240, 244, 245}
Strings == UNION {[1..n -> Sample] : n \in 0..2}
             \cup {<<b>> \o t : b \in {194, 224, 237}, t \in [1..2 -> Sample]}
             \cup {<<b>> \o t : b \in {240, 244}, t \in [1..3 -> Sample]}
Encodings ==
  LET last == {64 * (a - 128) + b - 128 : a, b \in Sample}
      two == {64 * (a - 192) + b - 128 : a, b \in Sample}
      three == {4096 * (a - 224) + c : a \in Sample, c \in last}
      four == {262144 * (a - 240) + 4096 * (b - 128) + c : a, b \in Sample, c \in last}
      scalars == {c \in {65} \cup two \cup three \cup four : IsScalar(c)}
  IN {e \in {Encoding(c) : c \in scalars} : \A j \in DOMAIN e : e[j] \in Sample}
ASSUME StringCheck ==
  \A encodings \in {Encodings}, s \in Strings, signed \in BOOLEAN :
    UTF8_validateString(signed, s) <=> IsText(encodings, s)
=============================================================================
