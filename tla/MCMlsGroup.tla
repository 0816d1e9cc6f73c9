------------------------------ MODULE MCMlsGroup ------------------------------
EXTENDS MlsGroup, TLC

Symmetry == Permutations(Clients)

-----------------------------------------------------------------------------
(* The arithmetic of TreeMath against the trees it stands for, up to 16    *)
(* leaves: a subtree is a node with the subtrees of its children.          *)
Subtree[n \in 0 .. 30] ==
  IF IsLeaf(n) THEN {n} ELSE {n} \cup Subtree[LeftOf(n)] \cup Subtree[RightOf(n)]

LowestCommon(x, y, size) ==
  CHOOSE n \in 0 .. NodeCount(size) - 1 :
    /\ {x, y} \subseteq Subtree[n]
    /\ \A m \in 0 .. NodeCount(size) - 1 : {x, y} \subseteq Subtree[m] => n \in Subtree[m]

Steps(s) == {s[i] : i \in DOMAIN s}

ASSUME TreeMathAssumption ==
  \A size \in {1, 2, 4, 8, 16} :
    LET nodes == 0 .. NodeCount(size) - 1 IN
    /\ Subtree[Root(size)] = nodes
    /\ \A x, y \in nodes : IsBelow(x, y) <=> x \in Subtree[y]
    /\ \A x \in nodes \ {Root(size)} : x \in {LeftOf(Parent(x)), RightOf(Parent(x))}
    /\ \A l, m \in 0 .. size - 1 :
         Ancestor(l, m) = LowestCommon(LeafNode(l), LeafNode(m), size)
    /\ \A x \in nodes :
         /\ Steps(Dirpath(x, size)) = {y \in nodes \ {x} : x \in Subtree[y]}
         /\ \A i \in DOMAIN Copath(x, size) :
              {LeftOf(Dirpath(x, size)[i]), RightOf(Dirpath(x, size)[i])} =
                {Copath(x, size)[i], IF i = 1 THEN x ELSE Dirpath(x, size)[i - 1]}
=============================================================================
