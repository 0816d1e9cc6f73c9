------------------------------- MODULE TreeMath -------------------------------
(***************************************************************************)
(* mlspp's array-based binary trees (tree_math.cpp): nodes are numbers,    *)
(* the leaves the even ones, and a tree of n leaves has the nodes from 0   *)
(* to 2n-2.  Shifts and masks are written as division and powers of two.   *)
(***************************************************************************)
EXTENDS Integers, Sequences

NodeCount(n) == IF n > 0 THEN 2 * (n - 1) + 1 ELSE 0
LeafNode(l) == 2 * l
IsLeaf(n) == n % 2 = 0

(* log2: the largest power of two that is not more than x > 0.             *)
Log2(x) == CHOOSE k \in 0 .. x : 2 ^ k <= x /\ x < 2 ^ (k + 1)

(* The number of trailing ones.                                            *)
Level(n) == CHOOSE k \in 0 .. n : (n + 1) % 2 ^ k = 0 /\ (n + 1) % 2 ^ (k + 1) # 0

Root(n) == 2 ^ Log2(NodeCount(n)) - 1

IsBelow(x, y) ==
  /\ Level(x) <= Level(y)
  /\ x \div 2 ^ (Level(y) + 1) = y \div 2 ^ (Level(y) + 1)

LeftOf(n) == IF IsLeaf(n) THEN n ELSE n - 2 ^ (Level(n) - 1)
RightOf(n) == IF IsLeaf(n) THEN n ELSE n + 2 ^ (Level(n) - 1)

Parent(n) ==
  LET k == Level(n) IN
    IF (n \div 2 ^ (k + 1)) % 2 = 1 THEN n - 2 ^ k ELSE n + 2 ^ k

(* The child of an ancestor that the node is not below.                    *)
SiblingUnder(n, ancestor) ==
  IF IsBelow(n, LeftOf(ancestor)) THEN RightOf(ancestor) ELSE LeftOf(ancestor)

(* LeafIndex::ancestor: shift both until they are the same.                *)
Ancestor(l, m) ==
  IF l = m THEN LeafNode(l)
  ELSE LET k == CHOOSE i \in 1 .. LeafNode(l + m) :
                  /\ LeafNode(l) \div 2 ^ i = LeafNode(m) \div 2 ^ i
                  /\ LeafNode(l) \div 2 ^ (i - 1) # LeafNode(m) \div 2 ^ (i - 1)
       IN (LeafNode(l) \div 2 ^ k) * 2 ^ k + 2 ^ (k - 1) - 1

(* Parents up to the root, and their other children from below.            *)
Dirpath(n, size) ==
  LET up[i \in Nat] == IF i = 0 THEN n ELSE Parent(up[i - 1])
  IN [i \in 1 .. Level(Root(size)) - Level(n) |-> up[i]]

Copath(n, size) ==
  LET path == Dirpath(n, size) IN
    [i \in DOMAIN path |-> SiblingUnder(n, path[i])]
=============================================================================
