------------------------------ MODULE LocHeap ------------------------------
(***************************************************************************)
(* The heap that holds the running timers (gps/utils/LocHeap.cpp).         *)
(*                                                                         *)
(* A binary tree in which no node outranks its parent.  push() adds to the *)
(* smaller of two subtrees and never restructures, pop() and remove() pull *)
(* data up from below; only sizes tell the subtrees apart.  LocTimer takes *)
(* the heap for a set of which it sees a highest element.                  *)
(*                                                                         *)
(* A node is named by the way to it from the top.  What the recursion of   *)
(* the code does from call to call happens along the way to the one node   *)
(* that is attached or detached in the end.                                *)
(***************************************************************************)
EXTENDS Integers, Sequences, FiniteSets

CONSTANTS
  Rankable,      \* the objects in the heap
  Rank           \* their ranks, a higher one is served first

ASSUME RankAssumption == Rank \subseteq Int

VARIABLES
  heapRank,      \* ranks(): the rank of each object
  mTree,         \* mTree: the data and the size of each node of the tree
  pushed         \* history: the objects pushed and not taken out again

heapVars == <<heapRank, mTree, pushed>>
-----------------------------------------------------------------------------
Node == DOMAIN mTree
Side == {"left", "right"}
Top == <<>>

\* p is on the way to e, and the next node on that way.
OnWay(p, e) == Len(p) < Len(e) /\ \A i \in 1..Len(p) : p[i] = e[i]
Toward(p, e) == Append(p, e[Len(p) + 1])

Child(p, side) == Append(p, side)
HasChild(p, side) == Child(p, side) \in Node
SizeAt(p) == IF p \in Node THEN mTree[p].size ELSE 0

OutRanks(d, e) == heapRank[d] > heapRank[e]
Higher(d, e) == IF OutRanks(d, e) THEN d ELSE e
Lower(d, e) == IF OutRanks(d, e) THEN e ELSE d

\* Where a node can be attached.
Free == ({Top} \cup {Child(p, side) : p \in Node, side \in Side}) \ Node

\* push: to the left unless only the right is free or smaller.
PushSide(p) ==
  IF \/ ~HasChild(p, "left")
     \/ HasChild(p, "right") /\ SizeAt(Child(p, "left")) <= SizeAt(Child(p, "right"))
  THEN "left" ELSE "right"

\* pop: from the higher of two children.
PopSide(p) ==
  IF \/ ~HasChild(p, "right")
     \/ /\ HasChild(p, "left")
        /\ OutRanks(mTree[Child(p, "left")].data, mTree[Child(p, "right")].data)
  THEN "left" ELSE "right"

\* LocHeapNode::push: d comes with a node that ends up at e.  At each node above
\* the higher of the two data stays, the other is carried on.
PushNode(d, e) ==
  \E carried \in [{p \in Node : OnWay(p, e)} \cup {e} -> pushed \cup {d}] :
    /\ carried[Top] = d
    /\ \A p \in Node : OnWay(p, e) =>
         /\ Toward(p, e) = Child(p, PushSide(p))
         /\ carried[Toward(p, e)] = Lower(carried[p], mTree[p].data)
    /\ mTree' = [p \in Node \cup {e} |->
         IF p = e THEN [data |-> carried[e], size |-> 1]
         ELSE IF OnWay(p, e) THEN [data |-> Higher(carried[p], mTree[p].data),
                                   size |-> mTree[p].size + 1]
         ELSE mTree[p]]

\* LocHeapNode::pop of the node at t, within its tree: the data above the leaf e
\* move up by one node, and the leaf is detached.
PopNode(t, e) ==
  /\ t = e \/ OnWay(t, e)
  /\ \A side \in Side : ~HasChild(e, side)
  /\ \A p \in Node : OnWay(p, e) /\ ~OnWay(p, t) => Toward(p, e) = Child(p, PopSide(p))
  /\ mTree' = [p \in Node \ {e} |->
       IF OnWay(p, e) THEN
         [data |-> IF OnWay(p, t) THEN mTree[p].data ELSE mTree[Toward(p, e)].data,
          size |-> mTree[p].size - 1]
       ELSE mTree[p]]

\* (mutant) an object below others of its rank is not looked for
RanksBelow(p, d) == OutRanks(mTree[p].data, d)
\* d may be in a subtree of the node at p.
MayBeBelow(p, d) == ~OutRanks(d, mTree[p].data)

\* Where LocHeapNode::remove finds d.  It looks to the left first, which makes no
\* difference, for d is in the tree once.
Holders(d) ==
  {t \in Node : /\ mTree[t].data = d
                /\ \A p \in Node : OnWay(p, t) => mTree[p].data # d /\ MayBeBelow(p, d)}
-----------------------------------------------------------------------------
HeapInit == heapRank \in [Rankable -> Rank] /\ mTree = <<>> /\ pushed = {}

HeapPush(d) ==
  /\ d \notin pushed
  /\ \E e \in Free : PushNode(d, e)
  /\ pushed' = pushed \cup {d}
  /\ UNCHANGED heapRank

HeapPop ==
  /\ Top \in Node
  /\ \E e \in Node : PopNode(Top, e)
  /\ pushed' = pushed \ {mTree[Top].data}
  /\ UNCHANGED heapRank

\* An object that is not in the heap may be removed, too.
HeapRemove(d) ==
  /\ IF Holders(d) = {} THEN UNCHANGED mTree
     ELSE \E t \in Holders(d), e \in Node : PopNode(t, e)
  /\ pushed' = pushed \ {d}
  /\ UNCHANGED heapRank

HeapNext == HeapPop \/ \E d \in Rankable : HeapPush(d) \/ HeapRemove(d)
-----------------------------------------------------------------------------
\* checkNodes(), and what LocTimer relies on: the heap holds what was pushed and
\* not taken out, each object once, every subtree knows its size, and the top
\* is outranked by no other object (gps/utils/LocHeap.cpp).
HeapServesHighest ==
  /\ {mTree[p].data : p \in Node} = pushed /\ SizeAt(Top) = Cardinality(pushed)
  /\ \A p \in Node :
       /\ mTree[p].size = 1 + SizeAt(Child(p, "left")) + SizeAt(Child(p, "right"))
       /\ \A below \in Node : OnWay(p, below) => ~OutRanks(mTree[below].data, mTree[p].data)
=============================================================================
