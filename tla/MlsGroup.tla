------------------------------- MODULE MlsGroup -------------------------------
(***************************************************************************)
(* A group of mlspp States (state.cpp) that the delivery service keeps in  *)
(* step: one member commits removals and additions, the other members      *)
(* handle the commit, the clients it adds join by its Welcome, and nobody  *)
(* commits before they all have.  This is how the sessions of libdave use  *)
(* mlspp: only the external sender proposes, and it proposes only to add   *)
(* and to remove.                                                          *)
(***************************************************************************)
EXTENDS Integers, Sequences, FiniteSets, TreeKEM
LOCAL INSTANCE SequencesExt
LOCAL INSTANCE Functions

CONSTANTS
  Clients,
  MaxEpoch,       \* bound: epochs after the first
  MaxAdds,        \* bound: clients one commit adds
  MaxRemoves      \* bound: members one commit removes

VARIABLES
  state,          \* a client's State, or Out
  epoch,          \* the last epoch that was committed
  commit,         \* the commit that led to it
  waiting,        \* the clients that have yet to handle it, in turn
  failed,         \* the clients that could not
  leaked          \* every secret a client has had when it was removed

vars == <<state, epoch, commit, waiting, failed, leaked>>

Out == [in |-> FALSE]
NoCommit == [epoch |-> 0]

\* The leaf and the signed key package a client makes to join in an epoch.
LeafSecret(c, e) == Secret(<<"leaf", c, e>>)
KeyPackage(c, e) == LeafOf(c, LeafSecret(c, e), NoHash)

In == {c \in Clients : state[c].in}
LeafIndexOf(t, c) == CHOOSE l \in Leaves(t) : t.nodes[LeafNode(l)].client = c

\* The key schedule and the transcript: the commits and their secrets.
Successor(s, t, priv, hasPath) ==
  [in |-> TRUE, epoch |-> s.epoch + 1, tree |-> t, priv |-> priv,
   schedule |-> Append(s.schedule, IF hasPath THEN priv.update ELSE Secret(<<>>))]

\* The confirmation tag is a MAC of the transcript under the new epoch's
\* key, which depends on the tree too.
ConfirmationTag(s) == <<s.schedule, s.tree>>

-----------------------------------------------------------------------------
(* apply: removals, then additions, then the tree is cut to size.          *)
WithoutLeaves(t, removes) == FoldLeft(BlankPath, t, SetToSeq(removes))

WithLeaves(t, leaves) == FoldLeft(AddLeaf, t, leaves)

Apply(t, removes, leaves) == Truncate(WithLeaves(WithoutLeaves(t, removes), leaves))

JoinerLocations(t, adds) == {LeafIndexOf(t, c) : c \in Range(adds)}

PathRequired(removes, adds) == removes # {} \/ adds = <<>>

\* No self-removal; no client twice in the tree.
ValidProposals(s, removes, adds) ==
  /\ removes \subseteq Leaves(s.tree) \ {s.priv.index}
  /\ \A l \in Leaves(s.tree) \ removes :
       s.tree.nodes[LeafNode(l)].client \notin Range(adds)
  /\ IsInjective(adds)

-----------------------------------------------------------------------------
NewGroup(c) ==
  LET leaf == KeyPackage(c, 0) IN
    [in |-> TRUE, epoch |-> 0, tree |-> AddLeaf(EmptyTree, leaf),
     priv |-> Solo(0, leaf.key), schedule |-> <<>>]

Init ==
  /\ \E c \in Clients : state = [d \in Clients |-> IF d = c THEN NewGroup(c) ELSE Out]
  /\ epoch = 0
  /\ commit = NoCommit
  /\ waiting = <<>>
  /\ failed = {}
  /\ leaked = {}

\* The members take their turns from left to right and then the joiners:
\* any order would do, because they share nothing but the commit.
Others(t, c) ==
  LET members == [i \in 1 .. t.size |-> t.nodes[LeafNode(i - 1)]]
      others == SelectSeq(members, LAMBDA n : n # Blank /\ n.client # c)
  IN [i \in DOMAIN others |-> others[i].client]

Turn(c) == waiting # <<>> /\ c = Head(waiting)

(* State::commit and prepare_commit: the next State, and the commit with  *)
(* its Welcome.                                                            *)
Committed(s, tree, updated, removes, adds) ==
  LET hasPath == PathRequired(removes, adds)
      next == IF hasPath
              THEN Successor(s, updated.tree, updated.priv, TRUE)
              ELSE Successor(s, tree, s.priv, FALSE)
      pathSecret(d) ==
        IF hasPath THEN SharedPathSecret(updated.priv, LeafIndexOf(tree, d)) ELSE {}
  IN [state |-> next,
      commit |->
        [epoch |-> next.epoch, from |-> s.priv.index, removes |-> removes, adds |-> adds,
         path |-> IF hasPath
                  THEN {Encap(updated.tree, updated.priv, JoinerLocations(tree, adds))} ELSE {},
         tag |-> ConfirmationTag(next),
         welcome |-> [tree |-> next.tree, schedule |-> next.schedule,
                      secrets |-> [d \in Range(adds) |-> pathSecret(d)]]]]

Packages(adds, e) == [i \in DOMAIN adds |-> KeyPackage(adds[i], e)]

Commit(c, removes, adds) ==
  LET s == state[c]
      tree == Apply(s.tree, removes, Packages(adds, epoch + 1))
      made == Committed(s, tree, Update(tree, s.priv.index, Secret(<<"path", c, epoch + 1>>)),
                        removes, adds)
  IN
  /\ epoch < MaxEpoch /\ waiting = <<>> /\ failed = {}
  /\ ValidProposals(s, removes, adds)
  /\ state' = [state EXCEPT ![c] = made.state]
  /\ epoch' = epoch + 1
  /\ commit' = made.commit
  /\ waiting' = Others(s.tree, c) \o adds
  /\ UNCHANGED <<failed, leaked>>

-----------------------------------------------------------------------------
(* handle_commit and ratchet, as the set of the States they can return:    *)
(* one, or none when they throw.                                           *)
Followed(s, tree, priv, path) ==
  LET merged == Merge(tree, commit.from, path)
      coords == DecapCoords(merged, priv.index, commit.from,
                            JoinerLocations(tree, commit.adds))
  IN IF PathHashValid(tree, commit.from, path)
     THEN {Successor(s, merged, opened, TRUE) :
             opened \in Decap(priv, merged, commit.from, path, coords)}
     ELSE {}

Ratcheted(s, tree) ==
  LET priv == TruncateKeys(s.priv, tree.size)
      next == IF commit.path = {}
              THEN {Successor(s, tree, priv, FALSE)}
              ELSE UNION {Followed(s, tree, priv, path) : path \in commit.path}
  IN {n \in next : ConfirmationTag(n) = commit.tag}

Handled(s) ==
  Ratcheted(s, Apply(s.tree, commit.removes, Packages(commit.adds, commit.epoch)))

HandleCommit(c) ==
  /\ Turn(c) /\ c \in In /\ state[c].priv.index \notin commit.removes
  /\ LET next == Handled(state[c]) IN
       /\ state' = [state EXCEPT ![c] = IF next = {} THEN Out ELSE CHOOSE s \in next : TRUE]
       /\ failed' = IF next = {} THEN failed \cup {c} ELSE failed
  /\ waiting' = Tail(waiting)
  /\ UNCHANGED <<epoch, commit, leaked>>

(* A removed member finds no leaf of its own in the new tree.              *)
HandleRemoval(c) ==
  /\ Turn(c) /\ c \in In /\ state[c].priv.index \in commit.removes
  /\ state' = [state EXCEPT ![c] = Out]
  /\ leaked' = leaked \cup {state[c].priv.keys[n] : n \in DOMAIN state[c].priv.keys}
  /\ waiting' = Tail(waiting)
  /\ UNCHANGED <<epoch, commit, failed>>

(* The State that a Welcome gives, with the tree of the GroupInfo.         *)
Joined(c) ==
  LET tree == commit.welcome.tree
      mine == {l \in Leaves(tree) : tree.nodes[LeafNode(l)] = KeyPackage(c, commit.epoch)}
      keys == {KeyOf(tree, LeafNode(l)) : l \in Leaves(tree)}
      valid == ParentHashValid(tree) /\ Cardinality(keys) = Cardinality(Leaves(tree))
      joined(l) == [in |-> TRUE, epoch |-> commit.epoch, tree |-> tree,
                    priv |-> Joiner(tree, l, LeafSecret(c, commit.epoch),
                                    Ancestor(l, commit.from), commit.welcome.secrets[c]),
                    schedule |-> commit.welcome.schedule]
  IN {joined(l) : l \in {m \in mine : valid /\ ConfirmationTag(joined(m)) = commit.tag}}

Join(c) ==
  /\ Turn(c) /\ c \notin In
  /\ LET next == Joined(c) IN
       /\ state' = [state EXCEPT ![c] = IF next = {} THEN Out ELSE CHOOSE s \in next : TRUE]
       /\ failed' = IF next = {} THEN failed \cup {c} ELSE failed
  /\ waiting' = Tail(waiting)
  /\ UNCHANGED <<epoch, commit, leaked>>

-----------------------------------------------------------------------------
Removals(c) == {r \in SUBSET Leaves(state[c].tree) : Cardinality(r) <= MaxRemoves}
Additions == UNION {[1 .. k -> Clients] : k \in 0 .. MaxAdds}

Next ==
  \E c \in Clients :
    \/ c \in In /\ \E removes \in Removals(c), adds \in Additions : Commit(c, removes, adds)
    \/ HandleCommit(c)
    \/ HandleRemoval(c)
    \/ Join(c)

Spec == Init /\ [][Next]_vars

-----------------------------------------------------------------------------
TypeOK ==
  /\ \A c \in Clients : state[c].in =>
       /\ state[c].epoch \in 0 .. epoch
       /\ state[c].tree.size \in 1 .. 2 * Cardinality(Clients)
       /\ state[c].priv.index \in Leaves(state[c].tree)
  /\ epoch \in 0 .. MaxEpoch
  /\ waiting \in Seq(Clients)
  /\ failed \in SUBSET Clients

(* Every member handles every valid commit and every invited client joins: *)
(* decap_coords and encap agree on the node a path secret is encrypted to, *)
(* the decrypted secret fits the merged tree, and the joiner finds the     *)
(* parent hashes valid.                                                    *)
AllFollow == failed = {}

(* A member that is up to date has the private key of a parent node above  *)
(* it exactly if it is not one of the leaves unmerged there, so the keys   *)
(* that a path secret is encrypted to reach all its members and no other.  *)
Knows(s, n) == n \in DOMAIN s.priv.keys /\ s.priv.keys[n] = KeyOf(s.tree, n)

KeysBelow ==
  \A c \in In \ Range(waiting) :
    LET s == state[c] IN
      \A n \in DOMAIN s.tree.nodes : ~IsLeaf(n) /\ ~IsBlank(s.tree, n) =>
        (Knows(s, n) <=> /\ IsBelow(LeafNode(s.priv.index), n)
                         /\ s.priv.index \notin s.tree.nodes[n].unmerged)

(* No key of the tree and not the last commit's secret can be derived from *)
(* what removed members knew: blanking their paths, and the new path that  *)
(* a removal requires, locks them out.                                     *)
Derivable(secret) ==
  \E l \in leaked : l.seed = secret.seed /\ l.derived <= secret.derived

RemovedLockedOut ==
  waiting = <<>> =>
    \A c \in In : \A n \in DOMAIN state[c].tree.nodes :
      ~IsBlank(state[c].tree, n) => ~Derivable(KeyOf(state[c].tree, n))
=============================================================================
