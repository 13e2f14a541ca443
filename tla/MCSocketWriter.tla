---------------------------- MODULE MCSocketWriter ----------------------------
(***************************************************************************)
(* Small instances of SocketWriter: the numbers of the sockets, and one    *)
(* thread that publishes with QoS 0, one with QoS 1.                       *)
(***************************************************************************)
EXTENDS SocketWriter

CONSTANTS a1, a2

Either == [a \in {a1, a2} |-> IF a = a1 THEN 0 ELSE 1]
FreshNumbers == <<5, 6>>
SameNumber == <<5, 5>>
=============================================================================
