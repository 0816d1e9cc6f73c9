------------------------------- MODULE TreeKEM -------------------------------
(***************************************************************************)
(* mlspp's ratchet trees (treekem.cpp): the public tree every member of a  *)
(* group has, and the private keys a member knows of it, as operators on   *)
(* records.  Cryptography is symbolic.  A secret is a seed and the number  *)
(* of times the next secret of its path was derived from it; a key pair is *)
(* named by the secret it comes from.  A node's parent hash and, as far as *)
(* it counts, all its content are determined by its key, because both are  *)
(* set together; so a tree hash is the keys below with their unmerged      *)
(* leaves.                                                                 *)
(***************************************************************************)
EXTENDS TreeMath, FiniteSets
LOCAL INSTANCE SequencesExt
LOCAL INSTANCE FiniteSetsExt
LOCAL INSTANCE Functions
LOCAL INSTANCE TLC

Secret(seed) == [seed |-> seed, derived |-> 0]
Derive(secret, k) == [secret EXCEPT !.derived = @ + k]
NoHash == {}

Blank == [kind |-> "blank"]
LeafOf(client, key, hash) == [kind |-> "leaf", client |-> client, key |-> key, hash |-> hash]
ParentOf(key, hash) == [kind |-> "parent", key |-> key, hash |-> hash, unmerged |-> {}]

EmptyTree == [size |-> 0, nodes |-> <<>>]

IsBlank(t, n) == t.nodes[n] = Blank
Leaves(t) == {l \in 0 .. t.size - 1 : ~IsBlank(t, LeafNode(l))}
KeyOf(t, n) == t.nodes[n].key

-----------------------------------------------------------------------------
(* Resolution and filtered direct path.                                    *)
Ascending(t, leaves) ==
  SelectSeq([i \in 1 .. t.size |-> LeafNode(i - 1)], LAMBDA n : n \div 2 \in leaves)

Resolve(t, index) ==
  LET res[n \in DOMAIN t.nodes] ==
        IF t.nodes[n].kind = "leaf" THEN <<n>>
        ELSE IF t.nodes[n].kind = "parent" THEN <<n>> \o Ascending(t, t.nodes[n].unmerged)
        ELSE IF IsLeaf(n) THEN <<>>
        ELSE res[LeftOf(n)] \o res[RightOf(n)]
  IN res[index]

FilteredDirectPath(t, n) ==
  LET entry(c) == [node |-> Parent(c), res |-> Resolve(t, c)]
      extend(fdp, e) == IF e.res = <<>> THEN fdp ELSE Append(fdp, e)
  IN FoldLeft(LAMBDA fdp, c : extend(fdp, entry(c)), <<>>, Copath(n, t.size))

-----------------------------------------------------------------------------
(* The public tree: leaves come, go and are updated.                       *)
(* The leftmost blank leaf; a full tree doubles.                           *)
AllocateLeaf(t) == Min({t.size} \cup {l \in 0 .. t.size - 1 : IsBlank(t, LeafNode(l))})

Extended(t) ==
  LET size == IF t.size = 0 THEN 1 ELSE 2 * t.size IN
    [size |-> size,
     nodes |-> t.nodes @@ [n \in 0 .. NodeCount(size) - 1 |-> Blank]]

AddLeafMerged(t, leaf) ==  \* mutant: no parent learns of the new leaf
  LET l == AllocateLeaf(t)
      grown == IF l >= t.size THEN Extended(t) ELSE t
  IN [grown EXCEPT !.nodes = [@ EXCEPT ![LeafNode(l)] = leaf]]

AddLeaf(t, leaf) ==
  LET l == AllocateLeaf(t)
      grown == IF l >= t.size THEN Extended(t) ELSE t
      path == Range(Dirpath(LeafNode(l), grown.size))
  IN [grown EXCEPT !.nodes =
        [n \in DOMAIN @ |->
           IF n = LeafNode(l) THEN leaf
           ELSE IF n \in path /\ @[n] # Blank
                THEN [@[n] EXCEPT !.unmerged = @ \cup {l}]
                ELSE @[n]]]

BlankLeaf(t, l) ==  \* mutant: the path above stays
  [t EXCEPT !.nodes = [@ EXCEPT ![LeafNode(l)] = Blank]]

BlankPath(t, l) ==
  LET gone == {LeafNode(l)} \cup Range(Dirpath(LeafNode(l), t.size)) IN
    [t EXCEPT !.nodes = [n \in DOMAIN @ |-> IF n \in gone THEN Blank ELSE @[n]]]

UpdateLeaf(t, l, leaf) ==
  LET blanked == BlankPath(t, l) IN
    [blanked EXCEPT !.nodes = [@ EXCEPT ![LeafNode(l)] = leaf]]

(* Halve until the last leaf that is not blank is in the right half.       *)
Truncate(t) ==
  LET last == Max({0} \cup Leaves(t))
      size == Min({s \in {t.size \div 2 ^ k : k \in 0 .. Log2(t.size)} : s > last})
  IN [size |-> size, nodes |-> Restrict(t.nodes, 0 .. NodeCount(size) - 1)]

-----------------------------------------------------------------------------
(* Parent hashes.  OriginalTreeHash leaves out the leaves that were        *)
(* unmerged when the parent hash was made, which for a tree as it is now   *)
(* are none.                                                               *)
OriginalTreeHash(t, index, except) ==
  {[node |-> n, key |-> KeyOf(t, n),
    unmerged |-> IF IsLeaf(n) THEN {} ELSE t.nodes[n].unmerged \ except] :
     n \in {m \in DOMAIN t.nodes : /\ IsBelow(m, index) /\ ~IsBlank(t, m)
                                   /\ ~(IsLeaf(m) /\ m \div 2 \in except)}}

ParentHash(key, sibling) == {[key |-> key, sibling |-> sibling]}

(* For each node of the filtered direct path, the hash that the node       *)
(* before it will carry, the leaf first.                                   *)
ParentHashes(t, from, fdp, keys) ==
  [i \in DOMAIN fdp |->
     LET below == IF i = 1 THEN LeafNode(from) ELSE fdp[i - 1].node IN
       ParentHash(keys[i], OriginalTreeHash(t, SiblingUnder(below, fdp[i].node), {}))]

HasParentHash(t, child, hash) ==
  \E n \in Range(Resolve(t, child)) : t.nodes[n].hash = hash

ParentHashValid(t) ==
  \A p \in DOMAIN t.nodes :
    LET original(sibling) ==
          ParentHash(KeyOf(t, p), OriginalTreeHash(t, sibling, t.nodes[p].unmerged))
    IN ~IsLeaf(p) /\ ~IsBlank(t, p) =>
         \/ HasParentHash(t, LeftOf(p), original(RightOf(p)))
         \/ HasParentHash(t, RightOf(p), original(LeftOf(p)))

Keys(path) == [i \in DOMAIN path.nodes |-> path.nodes[i].key]

(* parent_hash_valid of an update path, before it is merged.               *)
PathHashValid(t, from, path) ==
  LET fdp == FilteredDirectPath(t, LeafNode(from))
      hashes == ParentHashes(t, from, fdp, Keys(path))
  IN Len(fdp) = Len(path.nodes) /\ hashes # <<>> /\ path.leaf.hash = hashes[1]

(* merge: the nodes of an update path replace those of the direct path.    *)
MergeInto(updated, from, path) ==
  LET fdp == FilteredDirectPath(updated, LeafNode(from))
      hashes == ParentHashes(updated, from, fdp, Keys(path))
      hash(i) == IF i < Len(path.nodes) THEN hashes[i + 1] ELSE NoHash
      merged(n, at) ==
        IF n \in Range(at)
        THEN LET i == CHOOSE j \in DOMAIN at : at[j] = n IN ParentOf(path.nodes[i].key, hash(i))
        ELSE updated.nodes[n]
  IN [updated EXCEPT !.nodes =
        [n \in DOMAIN @ |-> merged(n, [i \in DOMAIN fdp |-> fdp[i].node])]]

Merge(t, from, path) == MergeInto(UpdateLeaf(t, from, path.leaf), from, path)

-----------------------------------------------------------------------------
(* A member's private keys: path_secrets and private_key_cache in one,     *)
(* because a key pair is named by its secret.                              *)
Implanted(priv, path, secret) ==
  [priv EXCEPT
     !.keys = [n \in Range(path) |->
                 Derive(secret, (CHOOSE i \in DOMAIN path : path[i] = n) - 1)] @@ @,
     !.update = Derive(secret, Len(path))]

NoKeys(l) == [index |-> l, keys |-> <<>>, update |-> Secret(<<>>)]

Solo(l, key) == [NoKeys(l) EXCEPT !.keys = LeafNode(l) :> key]

Create(from, fdp, secret) ==
  Implanted(NoKeys(from), <<LeafNode(from)>> \o [i \in DOMAIN fdp |-> fdp[i].node], secret)

ImplantMatching(priv, t, start, secret) ==
  Implanted(priv, <<start>> \o SelectSeq(Dirpath(start, t.size), LAMBDA n : ~IsBlank(t, n)),
            secret)

Joiner(t, l, key, intersect, pathSecret) ==
  IF pathSecret = {} THEN Solo(l, key)
  ELSE ImplantMatching(Solo(l, key), t, intersect, CHOOSE s \in pathSecret : TRUE)

SharedPathSecret(priv, to) ==
  {priv.keys[n] : n \in {Ancestor(priv.index, to)} \cap DOMAIN priv.keys}

TruncateKeys(priv, size) ==
  [priv EXCEPT !.keys = Restrict(@, {n \in DOMAIN @ : n <= LeafNode(size - 1)})]

(* Keys of nodes that are blank do not matter.                             *)
Consistent(priv, t) ==
  \A n \in DOMAIN priv.keys : ~IsBlank(t, n) => priv.keys[n] = KeyOf(t, n)

-----------------------------------------------------------------------------
(* A committer's update of its path, and its encryption to everybody else  *)
(* but those who join.                                                     *)
UpdateAlong(t, from, fdp, priv) ==
  LET keys == [i \in DOMAIN fdp |-> priv.keys[fdp[i].node]]
      hashes == ParentHashes(t, from, fdp, keys)
      leaf == LeafOf(t.nodes[LeafNode(from)].client, priv.keys[LeafNode(from)],
                     IF hashes = <<>> THEN NoHash ELSE hashes[1])
      path == [leaf |-> leaf, nodes |-> [i \in DOMAIN fdp |-> [key |-> keys[i]]]]
  IN [tree |-> Merge(t, from, path), priv |-> priv]

Update(t, from, secret) ==
  LET fdp == FilteredDirectPath(t, LeafNode(from)) IN
    UpdateAlong(t, from, fdp, Create(from, fdp, secret))

RemoveLeaves(res, except) == SelectSeq(res, LAMBDA n : ~(IsLeaf(n) /\ n \div 2 \in except))

EncapToJoiners(t, priv, except) ==  \* mutant: joiners are encrypted to as well
  LET fdp == FilteredDirectPath(t, LeafNode(priv.index)) IN
    [leaf |-> t.nodes[LeafNode(priv.index)],
     nodes |-> [i \in DOMAIN fdp |->
       [key |-> priv.keys[fdp[i].node],
        encrypted |-> [j \in DOMAIN fdp[i].res |->
                         [to |-> KeyOf(t, fdp[i].res[j]), secret |-> priv.keys[fdp[i].node]]]]]]

Encap(t, priv, except) ==
  LET fdp == FilteredDirectPath(t, LeafNode(priv.index))
      to(i) == RemoveLeaves(fdp[i].res, except)
  IN [leaf |-> t.nodes[LeafNode(priv.index)],
      nodes |-> [i \in DOMAIN fdp |->
        [key |-> priv.keys[fdp[i].node],
         encrypted |-> [j \in DOMAIN to(i) |->
                          [to |-> KeyOf(t, to(i)[j]), secret |-> priv.keys[fdp[i].node]]]]]]

(* Which secret of the path is for a leaf, and the node whose key opens it:*)
(* the first of the resolution that is above the leaf.                     *)
CoordsIn(res, to, i) ==
  LET j == Min({k \in DOMAIN res : IsBelow(LeafNode(to), res[k])}) IN
    [ancestor |-> i, ciphertext |-> j, node |-> res[j]]

DecapCoords(t, to, from, joiners) ==
  LET fdp == FilteredDirectPath(t, LeafNode(from))
      i == CHOOSE k \in DOMAIN fdp : fdp[k].node = Ancestor(to, from)
  IN CoordsIn(RemoveLeaves(fdp[i].res, joiners), to, i)

(* decap throws when it has no such key, when decryption fails or when the *)
(* result does not fit the tree.                                           *)
Decap(priv, t, from, path, coords) ==
  LET encrypted == path.nodes[coords.ancestor].encrypted[coords.ciphertext]
      opened == ImplantMatching(priv, t, Ancestor(from, priv.index), encrypted.secret)
      ok == /\ coords.node \in DOMAIN priv.keys /\ encrypted.to = priv.keys[coords.node]
            /\ Consistent(opened, t)
  IN IF ok THEN {opened} ELSE {}
=============================================================================
