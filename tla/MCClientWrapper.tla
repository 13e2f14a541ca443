--------------------------- MODULE MCClientWrapper ----------------------------
(***************************************************************************)
(* A small instance of ClientWrapper.                                      *)
(***************************************************************************)
EXTENDS ClientWrapper

OneLoss == {[kind \in Kinds |-> IF kind = "loss" THEN 1 ELSE 0]}
=============================================================================
