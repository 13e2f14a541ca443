---------------------------- MODULE MCUartGateway -----------------------------
(***************************************************************************)
(* A small instance of UartGateway: two commands that are answered, which  *)
(* begin alike, and one that is not, which is a part of them; noise that   *)
(* may look like a part of a command.                                      *)
(***************************************************************************)
EXTENDS UartGateway

CONSTANTS zero, one, two, head, tail, nul

Answered == {<<zero, one>>, <<zero, two>>}
Ignored == {<<one>>}
=============================================================================
