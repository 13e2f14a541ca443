--------------------------- MODULE MCInboundSession ---------------------------
(***************************************************************************)
(* Small instances of InboundSession: the disturbances each run allows.    *)
(***************************************************************************)
EXTENDS InboundSession

Limits(loss, restart, refuse) ==
  [kind \in Kinds |-> CASE kind = "loss" -> loss [] kind = "restart" -> restart
                        [] kind = "refuse" -> refuse]

LimitLossy == Limits(2, 0, 1)
LimitRestarts == Limits(1, 2, 0)
=============================================================================
