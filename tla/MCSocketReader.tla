---------------------------- MODULE MCSocketReader ----------------------------
(***************************************************************************)
(* A small instance of SocketReader: two sockets, lengths of one and two   *)
(* bytes, an empty packet, and bodies that look like headers.              *)
(***************************************************************************)
EXTENDS SocketReader

CONSTANTS s1, s2

Packets == [s \in {s1, s2} |->
  IF s = s1 THEN <<[type |-> 3, body |-> <<1, 2>>], [type |-> 1, body |-> <<>>]>>
            ELSE <<[type |-> 2, body |-> <<3>>]>>]
=============================================================================
