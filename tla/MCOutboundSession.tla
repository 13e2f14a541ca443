-------------------------- MODULE MCOutboundSession --------------------------
(***************************************************************************)
(* Small instances of OutboundSession: the disturbances each run allows,   *)
(* and the refinement of Delivery.  A client is created, connects and      *)
(* publishes with strings that Utf8 checks first.                          *)
(***************************************************************************)
EXTENDS OutboundSession, Utf8

Limits(loss, restart, early, subs) ==
  [kind \in Kinds |-> CASE kind = "loss" -> loss [] kind = "restart" -> restart
                        [] kind = "early" -> early [] kind = "subscribe" -> subs]

\* A restart or an early retry, not both: README, known limits.
EarlyOrRestart == {Limits(2, 1, 0, 1), Limits(1, 0, 1, 1)}

\* Each publication keeps what its quality of service promises.
MayDrop == ~Persistent \/ TRUE \in CleanSessions
Promise == INSTANCE Delivery WITH
  publications <- [k \in DOMAIN ledger |->
                     [qos |-> ledger[k].qos, fate |-> ledger[k].fate, got |-> ledger[k].got]]

\* Every publication is at every step what its quality of service promises:
\* at most once, at least once or exactly once before it counts as completed,
\* and not given up unless the session may be discarded.
PromiseKept == Promise!Spec
=============================================================================
