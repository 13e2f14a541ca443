----------------------------- MODULE MCFileStore ------------------------------
(***************************************************************************)
(* Small instances of FileStore: the disturbances each run allows.         *)
(***************************************************************************)
EXTENDS FileStore

Limits(ended, torn, full, clean) ==
  [kind \in Kinds |-> CASE kind = "crash" -> ended [] kind = "torn" -> torn
                        [] kind = "full" -> full [] kind = "clean" -> clean]

LimitCrashes == Limits(2, 1, 1, 1)
LimitClean == Limits(0, 0, 0, 1)
=============================================================================
