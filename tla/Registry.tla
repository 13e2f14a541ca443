------------------------------- MODULE Registry -------------------------------
(***************************************************************************)
(* What the heap tracker promises its callers: a table of the blocks in    *)
(* use.  A block is entered once, found as long as it is in the table and  *)
(* only then, and taken out once.                                          *)
(***************************************************************************)
EXTENDS Integers

CONSTANTS Addresses,  \* where a block may lie
          BlockSizes  \* the sizes a block may have

VARIABLES blocks,  \* the table: address |-> size
          found    \* whether the last search found its block

Init == blocks = <<>> /\ found = FALSE

\* A search for the block at p.
Lookup(p) == /\ found' = (p \in DOMAIN blocks)
             /\ UNCHANGED blocks

Enter(p, s) ==
  /\ p \notin DOMAIN blocks
  /\ blocks' = [q \in DOMAIN blocks \cup {p} |-> IF q = p THEN s ELSE blocks[q]]
  /\ UNCHANGED found

\* The block at p is found and leaves the table.
TakeOut(p) ==
  /\ p \in DOMAIN blocks
  /\ blocks' = [q \in DOMAIN blocks \ {p} |-> blocks[q]]
  /\ found' = TRUE

Next == \E p \in Addresses : Lookup(p) \/ TakeOut(p) \/ \E s \in BlockSizes : Enter(p, s)

Spec == Init /\ [][Next]_<<blocks, found>>
=============================================================================
