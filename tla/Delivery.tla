------------------------------ MODULE Delivery -------------------------------
(***************************************************************************)
(* What MQTTClient.h:1007-1033 promises an application of each publication *)
(* that MQTTClient_publish accepted, with nothing of how it is done:       *)
(* QoS 0 reaches the broker at most once, QoS 1 at least once, QoS 2       *)
(* exactly once before it counts as completed; and none is given up        *)
(* unless the session may be discarded (a clean session, or no persistent  *)
(* store and a restart).                                                   *)
(***************************************************************************)
EXTENDS Naturals, Sequences

CONSTANT MayDrop          \* whether accepted publications may be discarded

VARIABLE publications     \* the accepted publications, in the order of the calls

Publication(qos, fate, got) == [qos |-> qos, fate |-> fate, got |-> got]
InFlight == {k \in DOMAIN publications : publications[k].fate = "inflight"}
Settled(s, P, fate) ==
  [k \in DOMAIN s |-> IF k \in P THEN [s[k] EXCEPT !.fate = fate] ELSE s[k]]

Init == publications = <<>>

Accept ==
  \/ publications' = Append(publications, Publication(0, "qos0", 0))
  \/ \E qos \in 1..2 : publications' = Append(publications, Publication(qos, "inflight", 0))

\* One more delivery: a second one only of QoS 1, and QoS 2 not once it is completed.
Deliver(k) ==
  /\ \/ publications[k].qos = 1
     \/ publications[k].got = 0 /\ publications[k].fate # "completed"
  /\ publications' = [publications EXCEPT ![k].got = @ + 1]

Complete(k) ==
  /\ k \in InFlight
  /\ publications[k].got > 0
  /\ publications' = Settled(publications, {k}, "completed")

Drop(P) ==
  /\ MayDrop
  /\ P \subseteq InFlight
  /\ publications' = Settled(publications, P, "dropped")

\* The send of a new publication fails and takes the session with it.
AcceptAndDrop(qos) ==
  /\ MayDrop
  /\ publications' = Append(Settled(publications, InFlight, "dropped"),
                            Publication(qos, "dropped", 0))

Next == \/ Accept
        \/ \E k \in DOMAIN publications : Deliver(k) \/ Complete(k)
        \/ \E P \in SUBSET InFlight : Drop(P)
        \/ \E qos \in 1..2 : AcceptAndDrop(qos)

Spec == Init /\ [][Next]_publications
=============================================================================
