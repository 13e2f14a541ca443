--------------------------- MODULE MCClientThreads ----------------------------
(***************************************************************************)
(* Small instances of ClientThreads: the disturbances each run allows.     *)
(***************************************************************************)
EXTENDS ClientThreads

Limits(break, silence, refuse, late, message) ==
  [kind \in Kinds |-> CASE kind = "break" -> break [] kind = "silence" -> silence
                        [] kind = "refuse" -> refuse [] kind = "late" -> late
                        [] kind = "message" -> message]

Calls == {Limits(1, 0, 1, 0, 0), Limits(1, 0, 0, 0, 1), Limits(0, 1, 1, 0, 1)}
Silence == {Limits(0, 1, 0, 0, 0)}
=============================================================================
