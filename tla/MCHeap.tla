-------------------------------- MODULE MCHeap --------------------------------
(***************************************************************************)
(* A small instance of Heap.                                               *)
(***************************************************************************)
EXTENDS Heap

\* The C library keeps two sizes of block apart.
TwoSizes == [ptr \in Contents |-> IF ptr \in {3, 6} THEN 32 ELSE 16]
=============================================================================
