--------------------------------- MODULE Heap ---------------------------------
(***************************************************************************)
(* The heap tracker of Heap.c: malloc, realloc and free in the library are *)
(* macros for mymalloc, myrealloc and myfree, which keep a record of each  *)
(* block in a red-black tree, by address.  A call holds heap_mutex from    *)
(* its first statement to its last, so calls do not overlap; a round of a  *)
(* balancing loop is one step.                                             *)
(*                                                                         *)
(* External: malloc, realloc and free of the C library, and who calls.     *)
(***************************************************************************)
EXTENDS Tree, FiniteSetsExt

CONSTANTS Requests,    \* sizes that are asked for
          SizeClass,   \* external: the size of the block that may lie at an address
          MaxUnlinked  \* bound: blocks in use that are no longer recorded

ASSUME RequestsAssumption == Requests \subseteq Nat \ {0}
ASSUME SizeClassAssumption == SizeClass \in [Contents -> Nat]
ASSUME MaxUnlinkedAssumption == MaxUnlinked \in Nat

VARIABLES heap,          \* the tree of records
          size,          \* the records' sizes: address |-> size
          current_size,  \* state.current_size
          max_size,      \* state.max_size
          heap_mutex,    \* held
          op,            \* the call in progress
          cur,           \* curnode of the balancing loop
          found,         \* whether the last search found its node
          memory         \* external: the addresses the C library has given out

Addresses == Contents
Recorded == DOMAIN heap.node \ {Temp}

record == <<size, current_size, max_size>>
vars == <<heap, record, heap_mutex, op, cur, found, memory>>

NoOp == [call |-> "none"]

AlignedTo == 16  \* 4*sizeof(int)

Heap_roundup(n) == IF n % AlignedTo # 0 THEN n + AlignedTo - (n % AlignedTo) ELSE n
Rounded == {Heap_roundup(n) : n \in Requests}

\* A call, and which of the balancing loops it is in.
Op == [call : {"malloc", "free", "unlink", "realloc"}, phase : {"add", "remove"},
       ptr : Addresses, request : Rounded \cup {0}]

Highest(a, b) == IF a > b THEN a ELSE b

\* Mutant: the size of what is replaced or freed is not taken off.
CountOnlyGrows(old, n) == /\ current_size' = current_size + n
                          /\ max_size' = Highest(max_size, current_size')

\* state.current_size and max_size when a block of size old gets size n.
Count(old, n) == /\ current_size' = current_size + n - old
                 /\ max_size' = Highest(max_size, current_size')

Return == op' = NoOp /\ heap_mutex' = FALSE

\* Memory runs out: a call returns NULL and leaves the mutex locked.
ReturnLocked == op' = NoOp /\ heap_mutex' = TRUE

Begin(call, phase, ptr, request) ==
  /\ op' = [call |-> call, phase |-> phase, ptr |-> ptr, request |-> request]
  /\ heap_mutex' = TRUE

\* TreeAdd of the record of a block of size n that the C library put at ptr.
AddRecord(call, ptr, n) ==
  /\ Begin(call, "add", ptr, n)
  /\ heap' = Insert(heap, ptr)
  /\ cur' = ptr
  /\ size' = [p \in DOMAIN size \cup {ptr} |-> IF p = ptr THEN n ELSE size[p]]

\* External: where the C library may put a block of size n.
Room(n) == {ptr \in Addresses \ memory : SizeClass[ptr] = n}

mymalloc(request) ==
  /\ ~heap_mutex
  /\ \E ptr \in Room(Heap_roundup(request)) :
       /\ AddRecord("malloc", ptr, Heap_roundup(request))
       /\ memory' = memory \cup {ptr}
  /\ Count(0, Heap_roundup(request))
  /\ UNCHANGED found

mymallocFails ==
  /\ ~heap_mutex
  /\ ReturnLocked
  /\ UNCHANGED <<heap, record, cur, found, memory>>

\* The node of the block at ptr leaves the tree.
RemoveRecord(call, ptr, request) ==
  LET t == Remove(heap, TreeFind(heap, ptr))
  IN /\ Begin(call, "remove", ptr, request)
     /\ heap' = t.tree
     /\ cur' = t.cur

\* A search that finds nothing: the call only logs it.
NotFound(ptr) == /\ TreeFind(heap, ptr) = Nil
                 /\ found' = FALSE
                 /\ UNCHANGED <<heap, record, heap_mutex, op, cur, memory>>

Found(ptr) == TreeFind(heap, ptr) # Nil /\ found' = TRUE

\* Internal_heap_unlink, of myfree and of Heap_unlink.
unlink(call, ptr) ==
  /\ ~heap_mutex
  /\ call = "unlink" => Cardinality(memory \ Recorded) < MaxUnlinked
  /\ \/ NotFound(ptr)
     \/ /\ Found(ptr)
        /\ RemoveRecord(call, ptr, 0)
        /\ Count(size[ptr], 0)
        /\ UNCHANGED <<size, memory>>

\* myrealloc, up to the end of TreeRemoveKey.
myrealloc(ptr, request) ==
  /\ ~heap_mutex
  /\ \/ NotFound(ptr)
     \/ /\ Found(ptr)
        /\ RemoveRecord("realloc", ptr, Heap_roundup(request))
        /\ UNCHANGED <<record, memory>>

Heap_findItem(ptr) ==
  /\ ~heap_mutex
  /\ NotFound(ptr) \/ (Found(ptr) /\ UNCHANGED <<heap, record, heap_mutex, op, cur, memory>>)

-----------------------------------------------------------------------------
(* The balancing loops and what follows them *)

Phase(phase) == op # NoOp /\ op.phase = phase

\* The condition of the loop of TreeBalanceAfterAdd.
RedUnderRed == /\ isRed(heap, Parent(heap, cur))
               /\ Parent(heap, Parent(heap, cur)) # Nil

\* The side of the uncle, or of the sibling.
OtherSide(n, p) == IF n = Child(heap, p, LEFT) THEN RIGHT ELSE LEFT

Rebalance(t) == /\ heap' = t.tree
                /\ cur' = t.cur
                /\ UNCHANGED <<record, heap_mutex, op, found, memory>>

balanceAfterAdd ==
  /\ Phase("add")
  /\ RedUnderRed
  /\ LET p == Parent(heap, cur) IN Rebalance(TreeBAASub(heap, cur, OtherSide(p, Parent(heap, p))))

\* The root is black; mymalloc and myrealloc unlock and return.
added ==
  /\ Phase("add")
  /\ ~RedUnderRed
  /\ heap' = Paint(heap, heap.root, FALSE)
  /\ cur' = Nil
  /\ Return
  /\ UNCHANGED <<record, found, memory>>

\* The condition of the loop of TreeBalanceAfterRemove.
OneBlackShort == cur # Nil /\ cur # heap.root /\ isBlack(heap, cur)

\* The node on the stack is not a child of its parent.
InTree(n) == IF n = Temp THEN Nil ELSE n

balanceAfterRemove ==
  /\ Phase("remove")
  /\ OneBlackShort
  /\ Rebalance(TreeBARSub(heap, cur, OtherSide(InTree(cur), Parent(heap, cur))))

\* Mutant: the node the loop ends at keeps its colour.
SettledRed == Drop(heap, Temp)

\* The tree once the loop has ended.
Settled == Drop(IF cur = Nil THEN heap ELSE Paint(heap, cur, FALSE), Temp)

\* myfree gives the block back, Heap_unlink does not.
removed ==
  /\ Phase("remove")
  /\ ~OneBlackShort
  /\ op.call # "realloc"
  /\ heap' = Settled
  /\ cur' = Nil
  /\ size' = [p \in DOMAIN size \ {op.ptr} |-> size[p]]
  /\ memory' = IF op.call = "free" THEN memory \ {op.ptr} ELSE memory
  /\ Return
  /\ UNCHANGED <<current_size, max_size, found>>

\* myrealloc goes on: the C library may move the block, or have no memory.
reallocated ==
  /\ Phase("remove")
  /\ ~OneBlackShort
  /\ op.call = "realloc"
  /\ Count(size[op.ptr], op.request)
  /\ \/ \E ptr \in Room(op.request) \cup {p \in {op.ptr} : size[p] = op.request} :
           /\ memory' = (memory \ {op.ptr}) \cup {ptr}
           /\ Begin("realloc", "add", ptr, op.request)
           /\ heap' = Insert(Settled, ptr)
           /\ cur' = ptr
           /\ size' = [p \in (DOMAIN size \ {op.ptr}) \cup {ptr} |->
                         IF p = ptr THEN op.request ELSE size[p]]
     \/ /\ heap' = Settled
        /\ cur' = Nil
        /\ ReturnLocked
        /\ UNCHANGED <<size, memory>>
  /\ UNCHANGED found

-----------------------------------------------------------------------------
Init ==
  /\ heap = Empty /\ size = <<>> /\ current_size = 0 /\ max_size = 0
  /\ heap_mutex = FALSE /\ op = NoOp /\ cur = Nil /\ found = FALSE
  /\ memory = {}

balance == balanceAfterAdd \/ added \/ balanceAfterRemove \/ removed \/ reallocated

Next ==
  \/ \E request \in Requests : mymalloc(request)
  \/ mymallocFails
  \/ \E ptr \in Addresses :
       \/ \E call \in {"free", "unlink"} : unlink(call, ptr)
       \/ \E request \in Requests : myrealloc(ptr, request)
       \/ Heap_findItem(ptr)
  \/ balance

Spec == Init /\ [][Next]_vars

-----------------------------------------------------------------------------
TypeOK ==
  /\ heap.root \in Contents \cup {Nil}
  /\ heap.node \in [DOMAIN heap.node -> Node] /\ DOMAIN heap.node \subseteq Names
  /\ size \in [DOMAIN size -> Rounded] /\ DOMAIN size \subseteq Addresses
  /\ current_size \in Nat /\ max_size \in Nat
  /\ heap_mutex \in BOOLEAN /\ found \in BOOLEAN
  /\ op \in Op \cup {NoOp}
  /\ cur \in Links
  /\ memory \subseteq Addresses

\* How many black nodes there are on each way down from n.
BlackHeights ==
  LET H[n \in Recorded \cup {Nil}] ==
        IF n = Nil THEN {0}
        ELSE {h + (IF isBlack(heap, n) THEN 1 ELSE 0) : h \in UNION {H[Child(heap, n, s)] : s \in Sides}}
  IN H[heap.root]

\* Whenever no call is in progress the tree is balanced: no red node has a red
\* child, the root is black and every way down has as many black nodes, so that
\* no search takes more than twice the steps it must (TreeBalanceAfterAdd,
\* TreeBalanceAfterRemove).
Balanced ==
  ~heap_mutex =>
    /\ isBlack(heap, heap.root)
    /\ \A n \in Recorded, s \in Sides : isRed(heap, n) => isBlack(heap, Child(heap, n, s))
    /\ Cardinality(BlackHeights) = 1

\* A walk with TreeNextElement, as HeapScan makes it, visits every block
\* in use once and in order of address; it goes by the parent links, which
\* every rotation and removal must mend.
WalkIsComplete ==
  ~heap_mutex =>
    LET walk == TreeWalk(heap)
        blocks == Cardinality(Recorded)
    IN /\ {walk[i] : i \in 1..blocks} = Recorded
       /\ \A i \in 1..(blocks - 1) : walk[i] < walk[i + 1]
       /\ walk[blocks + 1] = Nil

\* Whenever no call is in progress the account agrees with the records, and
\* a record stands for a block that the C library has given out and not taken
\* back: whatever is freed twice, or moved, is freed once.  Once memory ran out
\* and the mutex stays locked, it says nothing.
AccountKept ==
  ~heap_mutex =>
    /\ current_size = MapThenSumSet(LAMBDA p : size[p], Recorded)
    /\ Recorded \subseteq memory
    /\ current_size <= max_size

\* What a caller may know of the heap: which blocks are on record, and their sizes.
Table == INSTANCE Registry WITH
  BlockSizes <- Rounded,
  blocks <- [p \in Recorded |-> size[p]]

\* Every call finds, enters and takes out the block it should, whatever the
\* shape of the tree.
TableKept == Table!Spec

LoopGoesOn == \/ Phase("add") /\ RedUnderRed
              \/ Phase("remove") /\ OneBlackShort

\* How far down n is.
Depth(n) == LET D[m \in Pointers(heap)] == IF m = Nil THEN 0 ELSE 1 + D[Parent(heap, m)] IN D[n]

\* The balancing loops end, so a call does not keep the mutex for ever: a
\* round that is followed by another of the same loop has climbed.
RoundsClimb ==
  [][op # NoOp /\ op' = op /\ LoopGoesOn' => Depth(cur)' < Depth(cur)]_vars
=============================================================================
