--------------------------------- MODULE Tree ---------------------------------
(***************************************************************************)
(* The red-black tree of Tree.c, as pointers.  A tree is its root and its  *)
(* nodes; a node has a colour, a parent and two children.  A node is named *)
(* by its content, of which there are no two equal ones: where the code    *)
(* moves a content to another node, here the node changes its name.        *)
(* Temp is the node the code keeps on the stack to balance from where      *)
(* a leaf was.                                                             *)
(*                                                                         *)
(* One round of a balancing loop is one operator; the loops themselves are *)
(* in the module that uses the tree.                                       *)
(***************************************************************************)
EXTENDS Integers, Sequences, FiniteSets

CONSTANTS Contents,  \* what the tree may hold: numbers, compared as ptrCompare does
          Nil, Temp  \* the null pointer; the node on the stack

ASSUME ContentsAssumption ==
  /\ Contents \subseteq Nat
  /\ Nil \notin Contents /\ Temp \notin Contents /\ Nil # Temp

LEFT  == "left"
RIGHT == "right"
Sides == {LEFT, RIGHT}
Opposite(side) == IF side = LEFT THEN RIGHT ELSE LEFT

Names == Contents \cup {Temp}
Links == Names \cup {Nil}
Node  == [red : BOOLEAN, parent : Links, child : [Sides -> Links]]

\* The nodes of t, and the null pointer at which every way down or up ends.
Pointers(t) == DOMAIN t.node \cup {Nil}

Empty == [root |-> Nil, node |-> <<>>]
Leaf(parent, red) == [red |-> red, parent |-> parent, child |-> [s \in Sides |-> Nil]]

Parent(t, n) == t.node[n].parent
Child(t, n, side) == t.node[n].child[side]
isRed(t, n) == n # Nil /\ t.node[n].red
isBlack(t, n) == ~isRed(t, n)
Paint(t, n, red) == [t EXCEPT !.node[n].red = red]

\* What pointed at old as a child, or as the root, points at new.
ReplaceChild(t, p, old, new) ==
  IF p = Nil THEN [t EXCEPT !.root = new]
  ELSE [t EXCEPT !.node[p].child[IF Child(t, p, LEFT) = old THEN LEFT ELSE RIGHT] = new]

SetParent(t, n, p) == IF n = Nil THEN t ELSE [t EXCEPT !.node[n].parent = p]

-----------------------------------------------------------------------------
(* Searching and walking *)

\* Where a search for content goes on from node n.
Side(n, content) == IF n < content THEN RIGHT ELSE LEFT

\* TreeFindIndex1: the node with this content, or Nil.
TreeFind(t, content) ==
  LET Find[n \in Pointers(t)] ==
        IF n \in {Nil, content} THEN n ELSE Find[Child(t, n, Side(n, content))]
  IN Find[t.root]

\* The last node on the way to where content would be; Nil in an empty tree.
LastOnPath(t, content) ==
  LET Last[n \in DOMAIN t.node] ==
        LET next == Child(t, n, Side(n, content)) IN IF next = Nil THEN n ELSE Last[next]
  IN IF t.root = Nil THEN Nil ELSE Last[t.root]

TreeMinimum(t, n) ==
  LET Least[m \in Pointers(t)] == IF m = Nil \/ Child(t, m, LEFT) = Nil THEN m ELSE Least[Child(t, m, LEFT)]
  IN Least[n]

TreeSuccessor(t, n) ==
  LET Climb[m \in DOMAIN t.node] == IF Parent(t, m) # Nil /\ m = Child(t, Parent(t, m), RIGHT)
                              THEN Climb[Parent(t, m)] ELSE Parent(t, m)
  IN IF Child(t, n, RIGHT) # Nil THEN TreeMinimum(t, Child(t, n, RIGHT)) ELSE Climb[n]

\* The node after n, or the first one when there is no n.
TreeNextElement(t, n) == IF n = Nil THEN TreeMinimum(t, t.root) ELSE TreeSuccessor(t, n)

\* A walk with TreeNextElement: Nil before the first step and after the last node.
TreeWalk(t) ==
  LET Visited[i \in Nat] == IF i = 0 THEN Nil ELSE TreeNextElement(t, Visited[i - 1])
  IN Visited

-----------------------------------------------------------------------------
(* Balancing *)

\* Mutant: the subtree that changes sides keeps its old parent.
TreeRotateKeepsParent(t, n, side) ==
  LET other == Child(t, n, Opposite(side))
      moved == [t EXCEPT !.node[n].child[Opposite(side)] = Child(t, other, side)]
      above == ReplaceChild(SetParent(moved, other, Parent(t, n)), Parent(t, n), n, other)
  IN SetParent([above EXCEPT !.node[other].child[side] = n], n, other)

\* Mutant: the subtree that changes sides is lost.
TreeRotateLoses(t, n, side) ==
  LET other == Child(t, n, Opposite(side))
      moved == [t EXCEPT !.node[n].child[Opposite(side)] = Nil]
      above == ReplaceChild(SetParent(moved, other, Parent(t, n)), Parent(t, n), n, other)
  IN SetParent([above EXCEPT !.node[other].child[side] = n], n, other)

\* TreeRotate: n goes down on this side, its child on the other side comes up.
TreeRotate(t, n, side) ==
  LET other == Child(t, n, Opposite(side))
      inner == Child(t, other, side)
      moved == SetParent([t EXCEPT !.node[n].child[Opposite(side)] = inner], inner, n)
      above == ReplaceChild(SetParent(moved, other, Parent(t, n)), Parent(t, n), n, other)
  IN SetParent([above EXCEPT !.node[other].child[side] = n], n, other)

\* TreeBAASub: one round of the loop after an insertion, for a red node n
\* whose parent is red; which is the side of the uncle.
TreeBAASub(t, n, which) ==
  LET p == Parent(t, n)
      g == Parent(t, p)
      uncle == Child(t, g, which)
      bent == n = Child(t, p, which)
      low == IF bent THEN p ELSE n
      straight == IF bent THEN TreeRotate(t, p, Opposite(which)) ELSE t
      top == Parent(straight, low)
  IN IF isRed(t, uncle)
       THEN [tree |-> Paint(Paint(Paint(t, p, FALSE), uncle, FALSE), g, TRUE), cur |-> g]
       ELSE [tree |-> TreeRotate(Paint(Paint(straight, top, FALSE), g, TRUE), g, which),
             cur |-> low]

\* The first case of TreeBARSub: a red sibling comes up, so that n has a black one.
BlackenSibling(t, n, which) ==
  LET p == Parent(t, n)
      sibling == Child(t, p, which)
  IN IF isRed(t, sibling)
       THEN TreeRotate(Paint(Paint(t, sibling, FALSE), p, TRUE), p, Opposite(which))
       ELSE t

\* Mutant: the loop stays where it is.
LowerSiblingStays(t, n, which) == [tree |-> t, cur |-> n]

\* The sibling has no red child: it turns red, and the parent is one short.
LowerSibling(t, n, which) ==
  [tree |-> Paint(t, Child(t, Parent(t, n), which), TRUE), cur |-> Parent(t, n)]

\* The sibling has a red child, which comes up on the far side: that ends the loop.
RaiseNephew(t, n, which) ==
  LET p == Parent(t, n)
      near == Opposite(which)
      old == Child(t, p, which)
      t1 == IF isBlack(t, Child(t, old, which))
              THEN TreeRotate(Paint(Paint(t, Child(t, old, near), FALSE), old, TRUE), old, which)
              ELSE t
      sibling == Child(t1, p, which)
      t2 == Paint(Paint(Paint(t1, sibling, isRed(t1, p)), p, FALSE), Child(t1, sibling, which), FALSE)
      t3 == TreeRotate(t2, p, near)
  IN [tree |-> t3, cur |-> t3.root]

\* TreeBARSub: one round of the loop after a removal, for a black node n
\* with one black node too few below; which is the side of its sibling.
TreeBARSub(t, n, which) ==
  LET t1 == BlackenSibling(t, n, which)
      sibling == Child(t1, Parent(t1, n), which)
  IN IF sibling = Nil THEN [tree |-> t1, cur |-> Parent(t1, n)]
     ELSE IF \A s \in Sides : isBlack(t1, Child(t1, sibling, s)) THEN LowerSibling(t1, n, which)
     ELSE RaiseNephew(t1, n, which)

-----------------------------------------------------------------------------
(* Insertion and removal, up to where the balancing starts *)

\* TreeAddByIndex, for a content that is not there: a red leaf.
Insert(t, content) ==
  LET p == LastOnPath(t, content)
      grown == [t EXCEPT !.node = [m \in DOMAIN @ \cup {content} |->
                                     IF m = content THEN Leaf(p, TRUE) ELSE @[m]]]
  IN IF p = Nil THEN [grown EXCEPT !.root = content]
     ELSE [grown EXCEPT !.node[p].child[Side(p, content)] = content]

\* The node new takes the place of old: its links, its colour.
Rename(t, old, new) ==
  LET Name(m) == IF m = old THEN new ELSE m
      Moved(r) == [r EXCEPT !.parent = Name(@), !.child = [s \in Sides |-> Name(@[s])]]
  IN [root |-> Name(t.root),
      node |-> [m \in (DOMAIN t.node \ {old}) \cup {new} |->
                  Moved(t.node[IF m = new THEN old ELSE m])]]

Drop(t, n) == [t EXCEPT !.node = [m \in DOMAIN @ \ {n} |-> @[m]]]

\* The node that leaves the tree when the content of n does: one that has
\* at most one child.
Redundant(t, n) == IF \A s \in Sides : Child(t, n, s) # Nil THEN TreeSuccessor(t, n) ELSE n

\* TreeRemoveNodeIndex.  cur is the node to balance from, if there is one.
Remove(t, n) ==
  LET redundant == Redundant(t, n)
      child == IF Child(t, redundant, LEFT) # Nil THEN Child(t, redundant, LEFT)
                                                  ELSE Child(t, redundant, RIGHT)
      p == Parent(t, redundant)
      unlinked == ReplaceChild(SetParent(t, child, p), p, redundant, child)
      moved == IF redundant = n THEN Drop(unlinked, n)
                                ELSE Rename(Drop(unlinked, redundant), n, redundant)
      place == IF p = n THEN redundant ELSE p
      hole == [moved EXCEPT !.node = [m \in DOMAIN @ \cup {Temp} |->
                                        IF m = Temp THEN Leaf(place, FALSE) ELSE @[m]]]
  IN IF isRed(t, redundant) \/ (child = Nil /\ p = Nil) THEN [tree |-> moved, cur |-> Nil]
     ELSE IF child = Nil THEN [tree |-> hole, cur |-> Temp]
     ELSE [tree |-> moved, cur |-> child]
=============================================================================
