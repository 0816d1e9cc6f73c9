--------------------------- MODULE DaveSessionProofs ---------------------------
(***************************************************************************)
(* For any users, batches and disturbances, and whatever order messages    *)
(* are handled in: every State a user goes by is one the server accepted,  *)
(* if the server takes the last commit its sender has made.  The argument  *)
(* is about the commit of one's own: a client keeps one cached State and   *)
(* adopts it, so it must be the State of the commit that was accepted.     *)
(* And who handles its messages in order does not fall behind the server,  *)
(* or has a way back to it.                                                *)
(***************************************************************************)
EXTENDS DaveSession, TLAPS
LOCAL INSTANCE SequencesExt
LOCAL INSTANCE Functions
Order == INSTANCE WellFoundedInduction

(* A sequence, of whatever it holds.                                       *)
IsSeq(s) == s \in Seq(Range(s))

Mail(u) == Range(inbox[u])

(* A State of a client of u.                                               *)
StateOK(u, s) ==
  /\ {"history", "self", "roster", "proposals"} \subseteq DOMAIN s
  /\ IsSeq(s.history) /\ Len(s.history) >= 1 /\ s.self.user = u

AtMostOne(S) == \A a, b \in S : a = b

(* A Session: its leaf, its package and its States are the user's own, the *)
(* working State is the base with proposals, and these are of its epoch.   *)
SessionFields ==
  {"leaf", "package", "pending", "current", "working", "queue", "cached", "sender", "groupId"}

OwnOK(u, s) ==
  /\ SessionFields \subseteq DOMAIN s
  /\ AtMostOne(s.leaf) /\ AtMostOne(s.current)
  /\ \A l \in s.leaf : l.user = u
  /\ \A p \in s.package : p.leaf.user = u
  /\ s.pending \subseteq {Solo(l) : l \in s.leaf}
  /\ \A b \in s.current \cup s.cached : StateOK(u, b)

WorkingOK(u, s) ==
  /\ \A w \in s.working :
       /\ StateOK(u, w)
       /\ \E b \in Base(s) : w.history = b.history /\ w.self = b.self
       /\ \A p \in Range(s.queue) : p.epoch = Epoch(w.history)
  /\ IsSeq(s.queue) /\ (s.working = {} => s.queue = <<>>)

SessionOK(u, s) == OwnOK(u, s) /\ WorkingOK(u, s)

(* The server's side: a commit on its way is to the group there is, what   *)
(* is open is of its epoch, and its history grows from two entries on.     *)
CommitOK(c) ==
  /\ IsSeq(c.base) /\ c.from.user \in Users
  /\ c.id.no \in Nat /\ c.id.no <= made[c.from.user]
  /\ Len(c.base) >= 1 /\ Epoch(c.base) = ServerEpoch
  /\ group.history = <<>> \/ c.base = group.history

ServerOK ==
  /\ DOMAIN group = {"history", "roster"}
  /\ IsSeq(group.history) /\ (group.history = <<>> \/ Len(group.history) >= 2)
  /\ \A p \in open : p.epoch = ServerEpoch
  /\ \A c \in commits : CommitOK(c)

(* Messages speak of what the server has accepted.                         *)
Follows(u, m) ==
  /\ m.kind = "welcome" => /\ IsSeq(m.history) /\ Len(m.history) >= 2
                           /\ IsPrefix(m.history, group.history)
  /\ m.kind = "commit" => /\ IsSeq(m.commit.base) /\ Len(m.commit.base) >= 1
                          /\ IsPrefix(Append(m.commit.base, m.commit.id), group.history)
  /\ m.kind = "proposals" => IsSeq(m.proposals) /\ m.proposals # <<>>

(* The State a client has cached is that of its last commit, on its way or *)
(* accepted; and it handles no more proposals of the epoch before it has   *)
(* handled that commit.                                                    *)
CachedOnTheWay ==
  \A c \in commits : \A n \in session[c.from.user].cached :
    n.self = c.from => n.history = Append(c.base, c.id)

CachedAccepted(u) ==
  \A m \in Mail(u) : m.kind = "commit" =>
    \A n \in session[u].cached :
      n.self = m.commit.from /\ Len(n.history) = Len(m.commit.base) + 1
      => n.history = Append(m.commit.base, m.commit.id)

NoMoreProposals(u) ==
  \A m, o \in Mail(u) :
    m.kind = "commit" /\ m.commit.from.user = u /\ o.kind = "proposals"
    => \A p \in Range(o.proposals) : p.epoch # Epoch(m.commit.base)

TypesOK ==
  /\ DOMAIN session = Users /\ DOMAIN inbox = Users /\ made \in [Users -> Nat]
  /\ \A u \in Users : IsSeq(inbox[u])

UserOK(u) ==
  /\ SessionOK(u, session[u]) /\ CachedAccepted(u) /\ NoMoreProposals(u)
  /\ \A m \in Mail(u) : Follows(u, m)

AcceptedInv ==
  TypesOK /\ ServerOK /\ CachedOnTheWay /\ OnlyAccepted /\ \A u \in Users : UserOK(u)

-----------------------------------------------------------------------------
(* A set of natural numbers that is not empty has a least element.         *)
LEMMA Least ==
  ASSUME NEW T, T \subseteq Nat, T # {} PROVE \E x \in T : \A y \in T : x <= y
<1> DEFINE R == {ss \in Nat \X Nat : ss[1] < ss[2]}
<1>1. Order!IsWellFoundedOn(R, Nat)
  BY Order!NatLessThanWellFounded DEF Order!OpToRel
<1> HIDE DEF R
<1>2. PICK x \in T : \A y \in T : ~(<<y, x>> \in R)
  BY <1>1, Order!WFMin, Zenon
<1>3. \A y \in T : ~(y < x)
  BY <1>2 DEF R
<1> QED
  BY <1>3

(* Sequences.                                                              *)

LEMMA SeqFacts ==
  ASSUME NEW s, IsSeq(s)
  PROVE  Len(s) \in Nat /\ DOMAIN s = 1 .. Len(s) /\ \A i \in 1 .. Len(s) : s[i] \in Range(s)
BY DEF IsSeq, Range

LEMMA SeqOver ==
  ASSUME NEW s, NEW T, s \in Seq(T) PROVE IsSeq(s) /\ Range(s) \subseteq T
<1>1. s \in [1 .. Len(s) -> Range(s)] /\ Len(s) \in Nat
  BY DEF Range
<1> QED
  BY <1>1 DEF IsSeq, Range

LEMMA EmptySequence == ASSUME NEW s, s = <<>> PROVE IsSeq(s)
<1>1. s \in Seq({})
  OBVIOUS
<1> QED
  BY <1>1, SeqOver

LEMMA Widened == ASSUME NEW s, IsSeq(s), NEW T, Range(s) \subseteq T PROVE s \in Seq(T)
<1>1. s \in [1 .. Len(s) -> T] /\ Len(s) \in Nat
  BY SeqFacts DEF IsSeq
<1> QED
  BY <1>1

LEMMA Appending ==
  ASSUME NEW s, IsSeq(s), NEW m
  PROVE  /\ IsSeq(Append(s, m)) /\ Range(Append(s, m)) = Range(s) \cup {m}
         /\ Len(Append(s, m)) = Len(s) + 1
<1> DEFINE T == Range(s) \cup {m}
<1>1. s \in Seq(T) /\ m \in T
  BY Widened
<1>2. Append(s, m) \in Seq(T) /\ Len(Append(s, m)) = Len(s) + 1
  BY <1>1
<1>3. \A i \in 1 .. Len(s) : Append(s, m)[i] = s[i]
  BY <1>1
<1>4. Append(s, m)[Len(s) + 1] = m
  BY <1>1
<1>5. T \subseteq Range(Append(s, m))
  BY <1>1, <1>2, <1>3, <1>4, SeqFacts DEF Range
<1> QED
  BY <1>2, <1>5, SeqOver

LEMMA Part ==
  ASSUME NEW s, IsSeq(s), NEW i \in 1 .. Len(s) + 1, NEW j \in 0 .. Len(s)
  PROVE  /\ IsSeq(SubSeq(s, i, j)) /\ Range(SubSeq(s, i, j)) \subseteq Range(s)
         /\ \A p \in Range(SubSeq(s, i, j)) : \E k \in i .. j : p = s[k]
<1>1. s \in Seq(Range(s)) /\ Len(s) \in Nat
  BY DEF IsSeq
<1>2. SubSeq(s, i, j) \in Seq(Range(s))
  BY <1>1, SeqFacts
<1>3. DOMAIN SubSeq(s, i, j) = 1 .. Len(SubSeq(s, i, j))
      /\ Len(SubSeq(s, i, j)) = IF i <= j THEN j - i + 1 ELSE 0
  BY <1>1
<1>4. \A k \in 1 .. Len(SubSeq(s, i, j)) : SubSeq(s, i, j)[k] = s[i + k - 1] /\ i + k - 1 \in i .. j
  BY <1>1, <1>3
<1> QED
  BY <1>2, <1>3, <1>4, SeqOver DEF Range

LEMMA Joined ==
  ASSUME NEW s, IsSeq(s), NEW t, IsSeq(t)
  PROVE  IsSeq(s \o t) /\ Range(s \o t) \subseteq Range(s) \cup Range(t)
<1> DEFINE T == Range(s) \cup Range(t)
<1>1. s \in Seq(T) /\ t \in Seq(T)
  BY Widened
<1>2. s \o t \in Seq(T)
  BY <1>1
<1> QED
  BY <1>2, SeqOver

LEMMA Removing ==
  ASSUME NEW s, IsSeq(s), NEW i \in DOMAIN s
  PROVE  IsSeq(RemoveAt(s, i)) /\ Range(RemoveAt(s, i)) \subseteq Range(s)
<1>1. i \in 1 .. Len(s) /\ Len(s) \in Nat
  BY SeqFacts
<1>2. i - 1 \in 0 .. Len(s) /\ i + 1 \in 1 .. Len(s) + 1 /\ 1 \in 1 .. Len(s) + 1 /\ Len(s) \in 0 .. Len(s)
  BY <1>1
<1> DEFINE a == SubSeq(s, 1, i - 1)
           b == SubSeq(s, i + 1, Len(s))
<1>3. IsSeq(a) /\ Range(a) \subseteq Range(s) /\ IsSeq(b) /\ Range(b) \subseteq Range(s)
  BY <1>2, Part
<1>4. RemoveAt(s, i) = a \o b
  BY DEF RemoveAt
<1> QED
  BY <1>3, <1>4, Joined

(* Prefixes.                                                               *)
LEMMA PrefixIs ==
  ASSUME NEW s, IsSeq(s), NEW t, IsSeq(t)
  PROVE  IsPrefix(s, t) <=> Len(s) <= Len(t) /\ \A i \in 1 .. Len(s) : s[i] = t[i]
<1>1. s \in Seq(Range(s) \cup Range(t)) /\ t \in Seq(Range(s) \cup Range(t))
  BY Widened
<1>2. SubSeq(s, 1, Len(s)) = s
  BY <1>1
<1>3. ASSUME Len(s) <= Len(t)
      PROVE  /\ SubSeq(t, 1, Len(s)) \in Seq(Range(s) \cup Range(t))
             /\ Len(SubSeq(t, 1, Len(s))) = Len(s)
             /\ \A i \in 1 .. Len(s) : SubSeq(t, 1, Len(s))[i] = t[i]
  BY <1>1, <1>3
<1>4. ASSUME Len(s) <= Len(t), \A i \in 1 .. Len(s) : s[i] = t[i]
      PROVE  s = SubSeq(t, 1, Len(s))
  BY <1>1, <1>3, <1>4
<1> QED
  BY <1>2, <1>3, <1>4 DEF IsPrefix

LEMMA PrefixOfLonger ==
  ASSUME NEW s, IsSeq(s), NEW t, IsSeq(t), NEW x, IsPrefix(s, t)
  PROVE  IsPrefix(s, Append(t, x))
<1>1. IsSeq(Append(t, x)) /\ Len(Append(t, x)) = Len(t) + 1
  BY Appending
<1>2. \A i \in 1 .. Len(t) : Append(t, x)[i] = t[i]
  BY DEF IsSeq
<1>3. Len(s) \in Nat /\ Len(t) \in Nat /\ Len(s) <= Len(t)
      /\ \A i \in 1 .. Len(s) : s[i] = t[i]
  BY PrefixIs, SeqFacts
<1>4. Len(s) <= Len(Append(t, x)) /\ \A i \in 1 .. Len(s) : s[i] = Append(t, x)[i]
  BY <1>1, <1>2, <1>3
<1> QED
  BY <1>1, <1>4, PrefixIs

LEMMA PrefixOfItself == ASSUME NEW s, IsSeq(s) PROVE IsPrefix(s, s)
BY PrefixIs, SeqFacts

LEMMA PrefixSameLength ==
  ASSUME NEW s, IsSeq(s), NEW t, IsSeq(t), IsPrefix(s, t), Len(s) = Len(t) PROVE s = t
<1>1. s \in Seq(Range(s) \cup Range(t)) /\ t \in Seq(Range(s) \cup Range(t))
  BY Widened
<1>2. \A i \in 1 .. Len(s) : s[i] = t[i]
  BY PrefixIs
<1> QED
  BY <1>1, <1>2

-----------------------------------------------------------------------------
(* What is done to a State.                                                *)

LEMMA OneEntry == ASSUME NEW l PROVE IsSeq(<<l>>) /\ Len(<<l>>) = 1
<1>1. <<l>> \in Seq({l})
  OBVIOUS
<1> QED
  BY <1>1, SeqOver

LEMMA SoloOK ==
  ASSUME NEW u, NEW l, l.user = u
  PROVE  StateOK(u, Solo(l)) /\ Len(Solo(l).history) = 1
BY OneEntry DEF Solo, StateOK

LEMMA HandledProposals ==
  ASSUME NEW u, NEW s, StateOK(u, s), NEW ps
  PROVE  /\ StateOK(u, HandleProposals(s, ps))
         /\ HandleProposals(s, ps).history = s.history /\ HandleProposals(s, ps).self = s.self
BY DEF StateOK, HandleProposals

LEMMA SuccessorOK ==
  ASSUME NEW u, NEW s, StateOK(u, s), NEW id, NEW ps
  PROVE  /\ StateOK(u, Successor(s, id, ps))
         /\ Successor(s, id, ps).history = Append(s.history, id)
         /\ Successor(s, id, ps).self = s.self
<1>1. IsSeq(Append(s.history, id)) /\ Len(Append(s.history, id)) = Len(s.history) + 1 /\ Len(s.history) \in Nat
  BY Appending, SeqFacts DEF StateOK
<1>2. /\ Successor(s, id, ps).history = Append(s.history, id)
      /\ Successor(s, id, ps).self = s.self
      /\ {"history", "self", "roster", "proposals"} \subseteq DOMAIN Successor(s, id, ps)
  BY DEF StateOK, Successor
<1> QED
  BY <1>1, <1>2 DEF StateOK

(* A commit leads to the history it says, one's own by the cached State.   *)
LEMMA HandledCommit ==
  ASSUME NEW u, NEW s, StateOK(u, s), NEW c, NEW cached, NEW n \in HandleCommit(s, c, cached),
         \A m \in cached : StateOK(u, m),
         \A m \in cached : m.self = c.from /\ Len(m.history) = Len(c.base) + 1
                           => m.history = Append(c.base, c.id)
  PROVE  StateOK(u, n) /\ n.history = Append(c.base, c.id)
<1>1. c.base = s.history
  BY DEF HandleCommit
<1>2. CASE c.from = s.self
  BY <1>1, <1>2 DEF HandleCommit
<1>3. CASE c.from # s.self
  <2>1. n = Successor(s, c.id, c.proposals)
    BY <1>1, <1>3 DEF HandleCommit
  <2> QED
    BY <1>1, <2>1, SuccessorOK
<1> QED
  BY <1>2, <1>3

-----------------------------------------------------------------------------
(* What is done to a Session.                                              *)

LEMMA Cleared ==
  ASSUME NEW u, NEW s, OwnOK(u, s)
  PROVE  /\ SessionOK(u, ClearPendingState(s))
         /\ ClearPendingState(s).cached = s.cached /\ ClearPendingState(s).current = s.current
<1> DEFINE t == ClearPendingState(s)
<1>1. /\ SessionFields \subseteq DOMAIN t /\ t.cached = s.cached /\ t.current = s.current
      /\ t.leaf = {} /\ t.package = {} /\ t.pending = {} /\ t.working = {} /\ t.queue = <<>>
  BY DEF OwnOK, SessionFields, ClearPendingState
<1>2. IsSeq(t.queue)
  BY <1>1, EmptySequence
<1>3. OwnOK(u, t)
  BY <1>1 DEF OwnOK, AtMostOne
<1>4. WorkingOK(u, t)
  BY <1>1, <1>2 DEF WorkingOK
<1> QED
  BY <1>1, <1>3, <1>4 DEF SessionOK

LEMMA PendingCreated ==
  ASSUME NEW u, NEW s, SessionOK(u, s), s.current = {} \/ s.working = {}
  PROVE  /\ SessionOK(u, CreatePendingGroup(s))
         /\ CreatePendingGroup(s).cached = s.cached /\ CreatePendingGroup(s).current = s.current
<1> DEFINE t == [s EXCEPT !.pending = {Solo(l) : l \in s.leaf}]
<1>1. CASE ~(s.groupId /\ s.sender)
  BY <1>1 DEF CreatePendingGroup
<1>2. CASE s.groupId /\ s.sender
  <2>1. CreatePendingGroup(s) = t
    BY <1>2 DEF CreatePendingGroup
  <2>2. /\ SessionFields \subseteq DOMAIN t /\ t.pending = {Solo(l) : l \in s.leaf}
        /\ t.cached = s.cached /\ t.current = s.current /\ t.leaf = s.leaf
        /\ t.package = s.package /\ t.working = s.working /\ t.queue = s.queue
    BY DEF SessionOK, OwnOK, SessionFields
  <2>3. OwnOK(u, t)
    BY <2>2 DEF SessionOK, OwnOK
  <2>4. ASSUME NEW w \in s.working
        PROVE  \E b \in Base(t) : w.history = b.history /\ w.self = b.self
    <3>1. PICK b \in Base(s) : w.history = b.history /\ w.self = b.self
      BY DEF SessionOK, WorkingOK
    <3>2. b \in s.pending
      BY <3>1 DEF Base
    <3>3. b \in t.pending
      BY <2>2, <3>2 DEF SessionOK, OwnOK
    <3> QED
      BY <3>1, <3>3 DEF Base
  <2>5. WorkingOK(u, t)
    BY <2>2, <2>4 DEF SessionOK, WorkingOK
  <2> QED
    BY <2>1, <2>2, <2>3, <2>5 DEF SessionOK
<1> QED
  BY <1>1, <1>2

LEMMA Initialised ==
  ASSUME NEW u, NEW s, OwnOK(u, s), NEW leaf, leaf.user = u
  PROVE  /\ SessionOK(u, InitSession(s, leaf))
         /\ InitSession(s, leaf).cached = {} /\ InitSession(s, leaf).current = {}
<1> DEFINE c == ClearPendingState(s)
           t == [Reset(s) EXCEPT !.groupId = TRUE, !.leaf = {leaf}]
<1>1. SessionFields \subseteq DOMAIN c /\ c.working = {} /\ c.queue = <<>> /\ c.package = {} /\ c.pending = {}
  BY DEF OwnOK, SessionFields, ClearPendingState
<1>2. /\ SessionFields \subseteq DOMAIN t /\ t.leaf = {leaf} /\ t.working = {} /\ t.queue = <<>>
      /\ t.package = {} /\ t.pending = {} /\ t.current = {} /\ t.cached = {}
  BY <1>1 DEF Reset, SessionFields
<1>3. SessionOK(u, t)
  <2>1. IsSeq(t.queue)
    BY <1>2, EmptySequence
  <2>2. OwnOK(u, t)
    BY <1>2 DEF OwnOK, AtMostOne
  <2> QED
    BY <1>2, <2>1, <2>2 DEF SessionOK, WorkingOK
<1> QED
  BY <1>2, <1>3, PendingCreated DEF InitSession

LEMMA SenderSet ==
  ASSUME NEW u, NEW s, SessionOK(u, s)
  PROVE  /\ SessionOK(u, SetExternalSender(s))
         /\ SetExternalSender(s).cached = s.cached /\ SetExternalSender(s).current = s.current
<1> DEFINE t == [s EXCEPT !.sender = TRUE]
<1>1. /\ SessionFields \subseteq DOMAIN t /\ t.pending = s.pending
      /\ t.cached = s.cached /\ t.current = s.current /\ t.leaf = s.leaf
      /\ t.package = s.package /\ t.working = s.working /\ t.queue = s.queue
  BY DEF SessionOK, OwnOK, SessionFields
<1>2. SessionOK(u, t)
  BY <1>1 DEF SessionOK, OwnOK, WorkingOK, Base
<1> QED
  BY <1>1, <1>2, PendingCreated DEF SetExternalSender

LEMMA PackageReset ==
  ASSUME NEW u, NEW s, SessionOK(u, s), NEW no
  PROVE  /\ SessionOK(u, ResetJoinKeyPackage(s, no))
         /\ ResetJoinKeyPackage(s, no).cached = s.cached
         /\ ResetJoinKeyPackage(s, no).current = s.current
<1> DEFINE t == ResetJoinKeyPackage(s, no)
<1>1. /\ SessionFields \subseteq DOMAIN t /\ t.pending = s.pending
      /\ t.cached = s.cached /\ t.current = s.current /\ t.leaf = s.leaf
      /\ t.working = s.working /\ t.queue = s.queue
      /\ t.package = IF s.leaf = {} THEN s.package ELSE {[leaf |-> l, no |-> no] : l \in s.leaf}
  BY DEF SessionOK, OwnOK, SessionFields, ResetJoinKeyPackage
<1>2. \A p \in t.package : p.leaf.user = u
  BY <1>1 DEF SessionOK, OwnOK
<1>3. OwnOK(u, t)
  BY <1>1, <1>2 DEF SessionOK, OwnOK
<1>4. WorkingOK(u, t)
  BY <1>1 DEF SessionOK, WorkingOK, Base
<1> QED
  BY <1>1, <1>3, <1>4 DEF SessionOK

LEMMA NewSessionOK ==
  ASSUME NEW u PROVE SessionOK(u, NewSession) /\ NewSession.cached = {} /\ NewSession.current = {}
<1>1. IsSeq(NewSession.queue)
  BY EmptySequence DEF NewSession
<1> QED
  BY <1>1 DEF NewSession, SessionOK, OwnOK, WorkingOK, SessionFields, AtMostOne

(* A State takes the place of the current one.                             *)
LEMMA Replaced ==
  ASSUME NEW u, NEW s, OwnOK(u, s), NEW next, StateOK(u, next)
  PROVE  /\ SessionOK(u, ClearPendingState(ReplaceState(s, next)))
         /\ ClearPendingState(ReplaceState(s, next)).cached = s.cached
         /\ ClearPendingState(ReplaceState(s, next)).current = {next}
<1> DEFINE t == ReplaceState(s, next)
<1>1. /\ SessionFields \subseteq DOMAIN t /\ t.pending = s.pending
      /\ t.cached = s.cached /\ t.current = {next} /\ t.leaf = s.leaf /\ t.package = s.package
  BY DEF OwnOK, SessionFields, ReplaceState
<1>2. OwnOK(u, t)
  BY <1>1 DEF OwnOK, AtMostOne
<1> QED
  BY <1>1, <1>2, Cleared

-----------------------------------------------------------------------------
(* ProcessProposals.                                                       *)

LEMMA BaseOK ==
  ASSUME NEW u, NEW s, SessionOK(u, s)
  PROVE  AtMostOne(Base(s)) /\ \A b \in Base(s) : StateOK(u, b)
<1>1. AtMostOne(s.pending) /\ \A b \in s.pending : StateOK(u, b)
  <2>1. \A b \in s.pending : \E l \in s.leaf : b = Solo(l) /\ l.user = u
    BY DEF SessionOK, OwnOK
  <2> QED
    BY <2>1, SoloOK DEF SessionOK, OwnOK, AtMostOne
<1> QED
  BY <1>1 DEF Base, SessionOK, OwnOK

(* What is taken is of the epoch of the working State, which stays based   *)
(* on the same State.                                                      *)
WellTaken(u, s, m, r) ==
  /\ r.working # {} /\ IsSeq(r.queue)
  /\ \A w \in r.working :
       /\ StateOK(u, w)
       /\ \E b \in Base(s) : w.history = b.history /\ w.self = b.self
       /\ \A p \in Range(r.queue) : p.epoch = Epoch(w.history)
       /\ r.ok => \E p \in Range(m.proposals) : p.epoch = Epoch(w.history)

LEMMA AppendedOK ==
  ASSUME NEW u, NEW s, SessionOK(u, s), NEW m, IsSeq(m.proposals), m.proposals # <<>>, NEW known,
         NEW w, StateOK(u, w), \E b \in Base(s) : w.history = b.history /\ w.self = b.self,
         \A p \in Range(s.queue) : p.epoch = Epoch(w.history)
  PROVE  WellTaken(u, s, m, AppendProposals(s, w, m.proposals, known))
<1> DEFINE ps == m.proposals
           k == CHOOSE n \in 0 .. Len(ps) :
             /\ \A i \in 1 .. n : Acceptable(w, ps[i], known)
             /\ n < Len(ps) => ~Acceptable(w, ps[n + 1], known)
           taken == SubSeq(ps, 1, k)
           r == AppendProposals(s, w, ps, known)
<1>1. r = [ok |-> k = Len(ps), queue |-> s.queue \o taken, working |-> {HandleProposals(w, taken)}]
  BY DEF AppendProposals
<1>2. Len(ps) \in Nat /\ DOMAIN ps = 1 .. Len(ps) /\ Len(ps) # 0
  BY SeqFacts DEF IsSeq
<1>3. \E n \in 0 .. Len(ps) :
        /\ \A i \in 1 .. n : Acceptable(w, ps[i], known)
        /\ n < Len(ps) => ~Acceptable(w, ps[n + 1], known)
  <2> DEFINE T == {i \in 1 .. Len(ps) : ~Acceptable(w, ps[i], known)}
  <2>1. CASE T = {}
    BY <1>2, <2>1
  <2>2. CASE T # {}
    <3>0. T \subseteq Nat
      BY <1>2
    <3>1. PICK x \in T : \A y \in T : x <= y
      BY <2>2, <3>0, Least
    <3>2. x - 1 \in 0 .. Len(ps) /\ (x - 1) + 1 = x
      BY <1>2, <3>1
    <3>3. \A i \in 1 .. x - 1 : Acceptable(w, ps[i], known)
      BY <1>2, <3>1
    <3> QED
      BY <3>1, <3>2, <3>3
  <2> QED
    BY <2>1, <2>2
<1>4. k \in 0 .. Len(ps) /\ \A i \in 1 .. k : Acceptable(w, ps[i], known)
  BY <1>3
<1> HIDE DEF k
<1>5. IsSeq(taken) /\ \A p \in Range(taken) : p.epoch = Epoch(w.history)
  <2>1. IsSeq(taken) /\ \A p \in Range(taken) : \E i \in 1 .. k : p = ps[i]
    BY <1>2, <1>4, Part
  <2> QED
    BY <1>4, <2>1 DEF Acceptable
<1>6. IsSeq(s.queue \o taken) /\ \A p \in Range(s.queue \o taken) : p.epoch = Epoch(w.history)
  BY <1>5, Joined DEF SessionOK, WorkingOK
<1>7. k = Len(ps) => \E p \in Range(ps) : p.epoch = Epoch(w.history)
  BY <1>2, <1>4, SeqFacts DEF Acceptable
<1>8. /\ StateOK(u, HandleProposals(w, taken))
      /\ HandleProposals(w, taken).history = w.history /\ HandleProposals(w, taken).self = w.self
  BY HandledProposals
<1> HIDE DEF taken
<1>9. r.ok = (k = Len(ps)) /\ r.queue = s.queue \o taken /\ r.working = {HandleProposals(w, taken)}
  BY <1>1
<1> HIDE DEF r
<1>10. WellTaken(u, s, m, r)
  BY <1>6, <1>7, <1>8, <1>9 DEF WellTaken
<1> QED
  BY <1>10 DEF r

LEMMA ErasedOK ==
  ASSUME NEW u, NEW s, SessionOK(u, s), NEW m, IsSeq(m.proposals), m.proposals # <<>>,
         NEW w, StateOK(u, w), \E b \in Base(s) : w.history = b.history /\ w.self = b.self,
         \A p \in Range(s.queue) : p.epoch = Epoch(w.history)
  PROVE  WellTaken(u, s, m, EraseProposal(s, w, m.proposals[1]))
<1> DEFINE p == m.proposals[1]
           first == CHOOSE i \in DOMAIN s.queue : s.queue[i] = p /\ \A j \in 1 .. i - 1 : s.queue[j] # p
           left == RemoveAt(s.queue, first)
           r == EraseProposal(s, w, p)
<1>1. p \in Range(m.proposals)
  BY SeqFacts DEF IsSeq
<1>2. IsSeq(s.queue) /\ DOMAIN s.queue = 1 .. Len(s.queue) /\ Len(s.queue) \in Nat
  BY SeqFacts DEF SessionOK, WorkingOK
<1>3. CASE p \in Range(s.queue)
  <2>1. r = [ok |-> TRUE, queue |-> left, working |-> {HandleProposals(b, left) : b \in Base(s)}]
    BY <1>3 DEF EraseProposal
  <2>2. \E i \in DOMAIN s.queue : s.queue[i] = p /\ \A j \in 1 .. i - 1 : s.queue[j] # p
    <3> DEFINE T == {i \in DOMAIN s.queue : s.queue[i] = p}
    <3>1. T # {} /\ T \subseteq Nat
      BY <1>2, <1>3 DEF Range
    <3>2. PICK i \in T : \A j \in T : i <= j
      BY <3>1, Least
    <3> QED
      BY <1>2, <3>2
  <2>3. first \in DOMAIN s.queue
    BY <2>2
  <2> HIDE DEF first
  <2>4. IsSeq(left) /\ Range(left) \subseteq Range(s.queue)
    BY <1>2, <2>3, Removing
  <2> HIDE DEF left
  <2>5. \A b \in Base(s) : /\ StateOK(u, HandleProposals(b, left))
                          /\ HandleProposals(b, left).history = b.history
                          /\ HandleProposals(b, left).self = b.self
                          /\ b.history = w.history
    BY BaseOK, HandledProposals DEF AtMostOne
  <2> QED
    BY <1>1, <1>3, <2>1, <2>4, <2>5 DEF WellTaken
<1>4. CASE p \notin Range(s.queue)
  <2>1. r = [ok |-> FALSE, queue |-> s.queue, working |-> {w}]
    BY <1>4 DEF EraseProposal
  <2> QED
    BY <1>2, <2>1 DEF WellTaken
<1> QED
  BY <1>3, <1>4

LEMMA TakenOK ==
  ASSUME NEW u, NEW s, SessionOK(u, s), NEW m, IsSeq(m.proposals), m.proposals # <<>>, NEW known,
         Base(s) # {}
  PROVE  WellTaken(u, s, m, Taken(s, m, known))
<1> DEFINE W == IF s.working = {} THEN Base(s) ELSE s.working
           w == CHOOSE x \in W : TRUE
<1>1. w \in W
  <2>1. W # {}
    OBVIOUS
  <2> QED
    BY <2>1
<1>2. /\ StateOK(u, w) /\ \E b \in Base(s) : w.history = b.history /\ w.self = b.self
      /\ \A p \in Range(s.queue) : p.epoch = Epoch(w.history)
  <2>1. CASE s.working = {}
    <3>1. Range(s.queue) = {}
      BY <2>1 DEF SessionOK, WorkingOK, Range
    <3> QED
      BY <1>1, <2>1, <3>1, BaseOK
  <2>2. CASE s.working # {}
    BY <1>1, <2>2 DEF SessionOK, WorkingOK
  <2> QED
    BY <2>1, <2>2
<1>3. Taken(s, m, known) = IF m.revoke THEN EraseProposal(s, w, m.proposals[1])
                           ELSE AppendProposals(s, w, m.proposals, known)
  BY DEF Taken
<1> HIDE DEF w
<1> QED
  BY <1>2, <1>3, AppendedOK, ErasedOK

(* What a Session is after it.                                             *)
Took(s, r) == [s EXCEPT !.working = r.working, !.queue = r.queue]
Committed(s, r, n) == [s EXCEPT !.working = r.working, !.queue = r.queue, !.cached = {n}]

LEMMA TookOK ==
  ASSUME NEW u, NEW s, SessionOK(u, s), NEW m, NEW r, WellTaken(u, s, m, r),
         NEW n, StateOK(u, n)
  PROVE  /\ SessionOK(u, Committed(s, r, n)) /\ Committed(s, r, n).cached = {n}
         /\ Committed(s, r, n).current = s.current
<1> DEFINE t == Committed(s, r, n)
<1>1. /\ SessionFields \subseteq DOMAIN t /\ t.pending = s.pending
      /\ t.cached = {n} /\ t.current = s.current /\ t.leaf = s.leaf
      /\ t.package = s.package /\ t.working = r.working /\ t.queue = r.queue
  BY DEF SessionOK, OwnOK, SessionFields, Committed
<1>2. OwnOK(u, t)
  BY <1>1 DEF SessionOK, OwnOK
<1>3. WorkingOK(u, t)
  BY <1>1 DEF WorkingOK, WellTaken, Base
<1> QED
  BY <1>1, <1>2, <1>3 DEF SessionOK

LEMMA TookUncommitted ==
  ASSUME NEW u, NEW s, SessionOK(u, s), NEW m, NEW r, WellTaken(u, s, m, r)
  PROVE  /\ SessionOK(u, Took(s, r)) /\ Took(s, r).cached = s.cached
         /\ Took(s, r).current = s.current
<1> DEFINE t == Took(s, r)
<1>1. /\ SessionFields \subseteq DOMAIN t /\ t.pending = s.pending
      /\ t.cached = s.cached /\ t.current = s.current /\ t.leaf = s.leaf
      /\ t.package = s.package /\ t.working = r.working /\ t.queue = r.queue
  BY DEF SessionOK, OwnOK, SessionFields, Took
<1>2. OwnOK(u, t)
  BY <1>1 DEF SessionOK, OwnOK
<1>3. WorkingOK(u, t)
  BY <1>1 DEF WorkingOK, WellTaken, Base
<1> QED
  BY <1>1, <1>2, <1>3 DEF SessionOK

-----------------------------------------------------------------------------
(* A step of one user: it changes its Session and takes messages.          *)
Only(u, f, g) == DOMAIN g = Users /\ \A v \in Users \ {u} : g[v] = f[v]
Spoken == {"welcome", "commit", "proposals"}

UserStep(u) ==
  /\ Only(u, session, session') /\ Only(u, inbox, inbox') /\ IsSeq(inbox'[u])
  /\ \A m \in Mail(u)' : m \in Mail(u) \/ m.kind \notin Spoken
  /\ group' = group /\ open' = open
  /\ made' \in [Users -> Nat] /\ \A v \in Users : made[v] <= made'[v]
  /\ SessionOK(u, session'[u])
  /\ \A b \in session'[u].current : IsPrefix(b.history, group.history)

LEMMA MailOfOthers ==
  ASSUME NEW u, NEW v \in Users, v # u, Only(u, inbox, inbox') PROVE Mail(v)' = Mail(v)
BY DEF Only, Mail

(* What no step of a user disturbs.                                        *)
LEMMA UserKeeps ==
  ASSUME AcceptedInv, NEW u \in Users, UserStep(u)
  PROVE  /\ TypesOK' /\ OnlyAccepted'
         /\ \A v \in Users : SessionOK(v, session'[v]) /\ \A m \in Mail(v)' : Follows(v, m)'
         /\ \A c \in commits : CommitOK(c)'
<1>1. TypesOK'
  BY DEF AcceptedInv, TypesOK, UserStep, Only
<1>2. OnlyAccepted'
  BY DEF AcceptedInv, OnlyAccepted, UserStep, Only
<1>3. ASSUME NEW v \in Users PROVE SessionOK(v, session'[v])
  BY DEF AcceptedInv, UserOK, UserStep, Only
<1>4. ASSUME NEW v \in Users, NEW m \in Mail(v)' PROVE Follows(v, m)'
  <2>1. m \in Mail(v) \/ m.kind \notin Spoken
    BY MailOfOthers DEF UserStep
  <2>2. CASE m \in Mail(v)
    BY <2>2 DEF AcceptedInv, UserOK, Follows, UserStep
  <2>3. CASE m.kind \notin Spoken
    BY <2>3 DEF Spoken, Follows
  <2> QED
    BY <2>1, <2>2, <2>3
<1>5. ASSUME NEW c \in commits PROVE CommitOK(c)'
  <2>1. CommitOK(c) /\ made \in [Users -> Nat]
    BY DEF AcceptedInv, ServerOK, TypesOK
  <2>2. c.id.no <= made'[c.from.user]
    BY <2>1 DEF CommitOK, UserStep
  <2> QED
    BY <2>1, <2>2 DEF CommitOK, UserStep, ServerEpoch
<1> QED
  BY <1>1, <1>2, <1>3, <1>4, <1>5

(* A step that makes no commit.                                            *)
LEMMA UncommittedStep ==
  ASSUME AcceptedInv, NEW u \in Users, UserStep(u),
         commits' \subseteq commits, session'[u].cached \subseteq session[u].cached
  PROVE  AcceptedInv'
<1>1. ServerOK'
  BY UserKeeps DEF AcceptedInv, ServerOK, UserStep, ServerEpoch
<1>2. \A v \in Users : session'[v].cached \subseteq session[v].cached
  BY DEF UserStep, Only
<1>3. CachedOnTheWay'
  <2>1. \A c \in commits : c.from.user \in Users
    BY DEF AcceptedInv, ServerOK, CommitOK
  <2> QED
    BY <1>2, <2>1 DEF AcceptedInv, CachedOnTheWay
<1>4. ASSUME NEW v \in Users PROVE CachedAccepted(v)' /\ NoMoreProposals(v)'
  <2>1. \A m \in Mail(v)' : m \in Mail(v) \/ m.kind \notin Spoken
    BY MailOfOthers DEF UserStep
  <2>2. CachedAccepted(v)'
    BY <1>2, <2>1 DEF AcceptedInv, UserOK, CachedAccepted, Spoken
  <2>3. NoMoreProposals(v)'
    BY <2>1 DEF AcceptedInv, UserOK, NoMoreProposals, Spoken
  <2> QED
    BY <2>2, <2>3
<1> QED
  BY <1>1, <1>3, <1>4, UserKeeps DEF AcceptedInv, UserOK

(* A message is taken.                                                     *)
LEMMA TakenMail ==
  ASSUME AcceptedInv, NEW u \in Users, NEW i \in DOMAIN inbox[u], NEW kind, Take(u, i, kind)
  PROVE  /\ Only(u, inbox, inbox') /\ IsSeq(inbox'[u]) /\ Mail(u)' \subseteq Mail(u)
         /\ inbox[u][i] \in Mail(u) /\ inbox[u][i].kind = kind /\ Follows(u, inbox[u][i])
<1>1. IsSeq(inbox[u]) /\ DOMAIN inbox = Users
  BY DEF AcceptedInv, TypesOK
<1>2. inbox'[u] = RemoveAt(inbox[u], i) /\ Only(u, inbox, inbox')
  BY <1>1 DEF Take, Only
<1>3. inbox[u][i] \in Mail(u)
  BY DEF Mail, Range
<1> QED
  BY <1>1, <1>2, <1>3, Removing DEF Mail, Take, AcceptedInv, UserOK

LEMMA SameMail ==
  ASSUME AcceptedInv, NEW u \in Users, inbox' = inbox
  PROVE  Only(u, inbox, inbox') /\ IsSeq(inbox'[u]) /\ Mail(u)' \subseteq Mail(u)
BY DEF AcceptedInv, TypesOK, Only, Mail

LEMMA OnlySession ==
  ASSUME AcceptedInv, NEW u \in Users, NEW s, session' = [session EXCEPT ![u] = s]
  PROVE  Only(u, session, session') /\ session'[u] = s
BY DEF AcceptedInv, TypesOK, Only

LEMMA OneMore ==
  ASSUME AcceptedInv, NEW u \in Users, made' = [made EXCEPT ![u] = @ + 1]
  PROVE  made' \in [Users -> Nat] /\ \A v \in Users : made[v] <= made'[v]
BY DEF AcceptedInv, TypesOK

LEMMA AsMany ==
  ASSUME AcceptedInv, made' = made
  PROVE  made' \in [Users -> Nat] /\ \A v \in Users : made[v] <= made'[v]
BY DEF AcceptedInv, TypesOK

(* A Session as it was, or with fewer States.                              *)
LEMMA FewerStates ==
  ASSUME AcceptedInv, NEW u \in Users, NEW s, session' = [session EXCEPT ![u] = s],
         Only(u, inbox, inbox'), IsSeq(inbox'[u]),
         \A m \in Mail(u)' : m \in Mail(u) \/ m.kind \notin Spoken,
         group' = group, open' = open, commits' \subseteq commits,
         made' \in [Users -> Nat], \A v \in Users : made[v] <= made'[v],
         SessionOK(u, s), s.cached \subseteq session[u].cached,
         \A b \in s.current : IsPrefix(b.history, group.history)
  PROVE  AcceptedInv'
<1>1. UserStep(u)
  BY OnlySession DEF UserStep
<1> QED
  BY <1>1, OnlySession, UncommittedStep

LEMMA OwnSession ==
  ASSUME AcceptedInv, NEW u \in Users
  PROVE  /\ SessionOK(u, session[u]) /\ OwnOK(u, session[u])
         /\ \A b \in session[u].current : IsPrefix(b.history, group.history)
BY DEF AcceptedInv, UserOK, SessionOK, OnlyAccepted

-----------------------------------------------------------------------------
(* The steps that make no commit and adopt no State.                       *)

LEMMA EpochPrepared ==
  ASSUME AcceptedInv, NEW u \in Users, PrepareEpoch(u), Only(u, inbox, inbox'), IsSeq(inbox'[u]),
         Mail(u)' \subseteq Mail(u), group' = group, open' = open, commits' = commits
  PROVE  AcceptedInv'
<1> DEFINE leaf == [user |-> u, leaf |-> made[u] + 1]
           s == ResetJoinKeyPackage(InitSession(session[u], leaf), made[u] + 1)
<1>1. session' = [session EXCEPT ![u] = s] /\ made' = [made EXCEPT ![u] = @ + 1]
  BY DEF PrepareEpoch
<1>2. leaf.user = u
  OBVIOUS
<1>3. SessionOK(u, s) /\ s.cached = {} /\ s.current = {}
  BY <1>2, OwnSession, Initialised, PackageReset
<1> HIDE DEF s
<1> QED
  BY <1>1, <1>3, OneMore, FewerStates

LEMMA SelectKeeps ==
  ASSUME AcceptedInv, NEW u \in Users, NEW i \in DOMAIN inbox[u], SelectProtocol(u, i)
  PROVE  AcceptedInv'
BY TakenMail, EpochPrepared DEF SelectProtocol

LEMMA PrepareAgainKeeps ==
  ASSUME AcceptedInv, NEW u \in Users, PrepareEpochAgain(u) PROVE AcceptedInv'
BY SameMail, EpochPrepared DEF PrepareEpochAgain

LEMMA SenderKeeps ==
  ASSUME AcceptedInv, NEW u \in Users, NEW i \in DOMAIN inbox[u], ExternalSenderPackage(u, i)
  PROVE  AcceptedInv'
<1> DEFINE s == SetExternalSender(session[u])
<1>1. session' = [session EXCEPT ![u] = s] /\ made' = made /\ UNCHANGED <<group, open, commits>>
  BY DEF ExternalSenderPackage, serverVars
<1>2. Only(u, inbox, inbox') /\ IsSeq(inbox'[u]) /\ Mail(u)' \subseteq Mail(u)
  BY TakenMail DEF ExternalSenderPackage
<1>3. /\ SessionOK(u, s) /\ s.cached = session[u].cached
      /\ \A b \in s.current : IsPrefix(b.history, group.history)
  BY OwnSession, SenderSet
<1> HIDE DEF s
<1> QED
  BY <1>1, <1>2, <1>3, AsMany, FewerStates

LEMMA KeyPackageKeeps ==
  ASSUME AcceptedInv, NEW u \in Users, KeyPackageAgain(u) PROVE AcceptedInv'
<1> DEFINE s == ResetJoinKeyPackage(session[u], made[u] + 1)
<1>1. session' = [session EXCEPT ![u] = s] /\ made' = [made EXCEPT ![u] = @ + 1]
      /\ UNCHANGED <<inbox, group, open, commits>>
  BY DEF KeyPackageAgain
<1>2. Only(u, inbox, inbox') /\ IsSeq(inbox'[u]) /\ Mail(u)' \subseteq Mail(u)
  BY <1>1, SameMail
<1>3. /\ SessionOK(u, s) /\ s.cached = session[u].cached
      /\ \A b \in s.current : IsPrefix(b.history, group.history)
  BY OwnSession, PackageReset
<1> HIDE DEF s
<1> QED
  BY <1>1, <1>2, <1>3, OneMore, FewerStates

LEMMA ConnectKeeps ==
  ASSUME AcceptedInv, NEW u \in Users, Connect(u) PROVE AcceptedInv'
<1> DEFINE new == <<[kind |-> "select"], [kind |-> "sender"]>>
<1>1. /\ session' = [session EXCEPT ![u] = NewSession] /\ inbox' = [inbox EXCEPT ![u] = new]
      /\ commits' \subseteq commits /\ UNCHANGED <<made, group, open>>
  BY DEF Connect
<1>2. inbox'[u] = new /\ Only(u, inbox, inbox')
  BY <1>1 DEF AcceptedInv, TypesOK, Only
<1>3. new \in Seq({[kind |-> "select"], [kind |-> "sender"]})
  OBVIOUS
<1>4. IsSeq(inbox'[u]) /\ Mail(u)' \subseteq {[kind |-> "select"], [kind |-> "sender"]}
  BY <1>2, <1>3, SeqOver DEF Mail
<1>5. \A m \in Mail(u)' : m.kind \notin Spoken
  BY <1>4 DEF Spoken
<1> QED
  BY <1>1, <1>2, <1>4, <1>5, AsMany, NewSessionOK, FewerStates

-----------------------------------------------------------------------------
(* Where a State is adopted.                                               *)

LEMMA CommitAdopted ==
  ASSUME AcceptedInv, NEW u \in Users, NEW m \in Mail(u), m.kind = "commit",
         NEW n \in ProcessedCommit(session[u], m.commit)
  PROVE  SessionOK(u, n) /\ n.cached = {} /\ \A b \in n.current : IsPrefix(b.history, group.history)
<1> DEFINE s == session[u]
           c == m.commit
<1>0. PICK next \in UNION {HandleCommit(w, c, s.cached) : w \in s.working} :
        n = [ClearPendingState(ReplaceState(s, next)) EXCEPT !.cached = {}]
  BY DEF ProcessedCommit
<1>1. PICK w \in s.working : next \in HandleCommit(w, c, s.cached)
  BY <1>0
<1>2. StateOK(u, w) /\ \A x \in s.cached : StateOK(u, x)
  BY OwnSession DEF SessionOK, WorkingOK, OwnOK
<1>3. \A x \in s.cached : x.self = c.from /\ Len(x.history) = Len(c.base) + 1
                          => x.history = Append(c.base, c.id)
  BY DEF AcceptedInv, UserOK, CachedAccepted
<1>4. StateOK(u, next) /\ next.history = Append(c.base, c.id)
  BY <1>1, <1>2, <1>3, HandledCommit
<1>5. IsPrefix(next.history, group.history)
  BY <1>4 DEF AcceptedInv, UserOK, Follows
<1> DEFINE t == ClearPendingState(ReplaceState(s, next))
<1>6. SessionOK(u, t) /\ t.current = {next}
  BY <1>4, OwnSession, Replaced
<1> HIDE DEF t
<1>7. /\ SessionFields \subseteq DOMAIN n /\ n.pending = t.pending /\ n.cached = {}
      /\ n.current = t.current /\ n.leaf = t.leaf
      /\ n.package = t.package /\ n.working = t.working /\ n.queue = t.queue
  BY <1>0, <1>6 DEF SessionOK, OwnOK, SessionFields, t
<1>8. OwnOK(u, n)
  BY <1>6, <1>7 DEF SessionOK, OwnOK
<1>9. WorkingOK(u, n)
  BY <1>6, <1>7 DEF SessionOK, WorkingOK, Base
<1> QED
  BY <1>5, <1>6, <1>7, <1>8, <1>9 DEF SessionOK

LEMMA CommitKeeps ==
  ASSUME AcceptedInv, NEW u \in Users, NEW i \in DOMAIN inbox[u], PrepareCommitTransition(u, i)
  PROVE  AcceptedInv'
<1> DEFINE m == inbox[u][i]
           next == ProcessedCommit(session[u], m.commit)
           s == CHOOSE n \in next : TRUE
<1>1. /\ Only(u, inbox, inbox') /\ IsSeq(inbox'[u]) /\ Mail(u)' \subseteq Mail(u)
      /\ m \in Mail(u) /\ m.kind = "commit"
  BY TakenMail DEF PrepareCommitTransition
<1>2. UNCHANGED <<made, group, open, commits>>
  BY DEF PrepareCommitTransition
<1>3. session' = session \/ (next # {} /\ session' = [session EXCEPT ![u] = s])
  BY DEF PrepareCommitTransition
<1>4. CASE session' = session
  <2>1. UserStep(u) /\ session'[u] = session[u]
    BY <1>1, <1>2, <1>4, OwnSession, AsMany DEF UserStep, Only, AcceptedInv, TypesOK
  <2> QED
    BY <1>2, <2>1, UncommittedStep
<1>5. CASE next # {} /\ session' = [session EXCEPT ![u] = s]
  <2>1. s \in next
    BY <1>5
  <2> HIDE DEF s
  <2>2. SessionOK(u, s) /\ s.cached = {} /\ \A b \in s.current : IsPrefix(b.history, group.history)
    BY <1>1, <2>1, CommitAdopted
  <2> QED
    BY <1>1, <1>2, <1>5, <2>2, AsMany, FewerStates
<1> QED
  BY <1>3, <1>4, <1>5

LEMMA WelcomeAdopted ==
  ASSUME AcceptedInv, NEW u \in Users, NEW m \in Mail(u), m.kind = "welcome",
         NEW n \in ProcessedWelcome(session[u], m)
  PROVE  /\ SessionOK(u, n) /\ n.cached = session[u].cached
         /\ \A b \in n.current : IsPrefix(b.history, group.history)
<1>1. PICK p \in session[u].package :
        n = ClearPendingState(ReplaceState(session[u], [history |-> m.history, self |-> p.leaf,
                                                        roster |-> m.roster, proposals |-> <<>>]))
  BY DEF ProcessedWelcome
<1> DEFINE next == [history |-> m.history, self |-> p.leaf, roster |-> m.roster, proposals |-> <<>>]
<1>2. p.leaf.user = u
  BY OwnSession DEF OwnOK
<1>3. IsSeq(m.history) /\ Len(m.history) >= 2 /\ IsPrefix(m.history, group.history)
  BY DEF AcceptedInv, UserOK, Follows
<1>4. StateOK(u, next) /\ next.history = m.history
  BY <1>2, <1>3, SeqFacts DEF StateOK
<1> HIDE DEF next
<1> QED
  BY <1>1, <1>3, <1>4, OwnSession, Replaced DEF next

LEMMA WelcomeKeeps ==
  ASSUME AcceptedInv, NEW u \in Users, NEW i \in DOMAIN inbox[u], Welcome(u, i)
  PROVE  AcceptedInv'
<1> DEFINE m == inbox[u][i]
           next == ProcessedWelcome(session[u], m)
           s == CHOOSE n \in next : TRUE
<1>1. /\ Only(u, inbox, inbox') /\ IsSeq(inbox'[u]) /\ Mail(u)' \subseteq Mail(u)
      /\ m \in Mail(u) /\ m.kind = "welcome"
  BY TakenMail DEF Welcome
<1>2. UNCHANGED <<made, group, open, commits>>
  BY DEF Welcome
<1>3. session' = session \/ (next # {} /\ session' = [session EXCEPT ![u] = s])
  BY DEF Welcome
<1>4. CASE session' = session
  <2>1. UserStep(u) /\ session'[u] = session[u]
    BY <1>1, <1>2, <1>4, OwnSession, AsMany DEF UserStep, Only, AcceptedInv, TypesOK
  <2> QED
    BY <1>2, <2>1, UncommittedStep
<1>5. CASE next # {} /\ session' = [session EXCEPT ![u] = s]
  <2>1. s \in next
    BY <1>5
  <2> HIDE DEF s
  <2>2. /\ SessionOK(u, s) /\ s.cached = session[u].cached
        /\ \A b \in s.current : IsPrefix(b.history, group.history)
    BY <1>1, <2>1, WelcomeAdopted
  <2> QED
    BY <1>1, <1>2, <1>5, <2>2, AsMany, FewerStates
<1> QED
  BY <1>3, <1>4, <1>5

-----------------------------------------------------------------------------
(* Where a commit is made.                                                 *)

(* The commit is of the State with proposals, its successor is cached, and *)
(* it takes the place of what its sender made before.                      *)
LEMMA CommitMade ==
  ASSUME ~AcceptEarlier, AcceptedInv, NEW u \in Users, UserStep(u), NEW w, NEW c, NEW n,
         StateOK(u, w), \E b \in Base(session[u]) : w.history = b.history,
         c.from = w.self, c.base = w.history, c.id.no = made[u] + 1,
         StateOK(u, n), n.history = Append(w.history, c.id), n.self = w.self,
         session'[u].cached = {n}, made'[u] = made[u] + 1, commits' = Arrived(commits \cup {c}),
         Mail(u)' \subseteq Mail(u),
         \A m \in Mail(u) : m.kind = "commit" /\ m.commit.from.user = u
                            => Len(m.commit.base) # Len(w.history)
  PROVE  AcceptedInv'
<1> USE DEF UserStep
<1>1. commits' \subseteq commits \cup {c}
  BY DEF Arrived
<1>2. IsSeq(w.history) /\ Len(w.history) >= 1 /\ w.self.user = u
  BY DEF StateOK
<1>3. c \in commits' => CommitOK(c)'
  <2> SUFFICES ASSUME c \in commits' PROVE CommitOK(c)'
    OBVIOUS
  <2>1. Epoch(c.base) = ServerEpoch /\ ServerEpoch' = ServerEpoch
    BY DEF Arrived, ServerEpoch
  <2>2. made[u] \in Nat
    BY DEF AcceptedInv, TypesOK
  <2>3. group.history = <<>> \/ c.base = group.history
    <3> SUFFICES ASSUME group.history # <<>> PROVE c.base = group.history
      OBVIOUS
    <3>1. IsSeq(group.history) /\ Len(group.history) >= 2
      BY DEF AcceptedInv, ServerOK
    <3>2. Len(w.history) = Len(group.history)
      BY <1>2, <2>1, <3>1, SeqFacts DEF ServerEpoch, Epoch
    <3>3. PICK b \in Base(session[u]) : w.history = b.history
      OBVIOUS
    <3>4. CASE b \in session[u].pending
      <4>1. PICK l \in session[u].leaf : b = Solo(l) /\ l.user = u
        BY <3>4, OwnSession DEF OwnOK
      <4> QED
        BY <3>1, <3>2, <3>3, <4>1, SoloOK
    <3>5. CASE b \in session[u].current
      BY <1>2, <3>1, <3>2, <3>3, <3>5, OwnSession, PrefixSameLength
    <3> QED
      BY <3>3, <3>4, <3>5 DEF Base
  <2> QED
    BY <1>2, <2>1, <2>2, <2>3 DEF CommitOK
<1>4. ServerOK'
  BY <1>1, <1>3, UserKeeps DEF AcceptedInv, ServerOK, ServerEpoch
<1>5. CachedOnTheWay'
  <2> SUFFICES ASSUME NEW d \in commits', NEW x \in session'[d.from.user].cached, x.self = d.from
               PROVE  x.history = Append(d.base, d.id)
    BY DEF CachedOnTheWay
  <2>1. CASE d.from.user = u
    <3>1. x = n /\ d.from = c.from
      BY <2>1
    <3>2. d \in commits => d.id.no <= made[u] /\ d.id.no \in Nat
      BY <2>1 DEF AcceptedInv, ServerOK, CommitOK
    <3>3. c.id.no <= d.id.no
      BY <3>1 DEF Arrived
    <3>4. made[u] \in Nat
      BY DEF AcceptedInv, TypesOK
    <3>5. d \notin commits
      BY <3>2, <3>3, <3>4
    <3> QED
      BY <1>1, <3>1, <3>5
  <2>2. CASE d.from.user # u
    <3>1. d \in commits /\ d.from.user \in Users
      BY <1>1, <1>2, <2>2 DEF AcceptedInv, ServerOK, CommitOK
    <3>2. session'[d.from.user] = session[d.from.user]
      BY <2>2, <3>1 DEF Only
    <3> QED
      BY <3>1, <3>2 DEF AcceptedInv, CachedOnTheWay
  <2> QED
    BY <2>1, <2>2
<1>6. ASSUME NEW v \in Users PROVE CachedAccepted(v)' /\ NoMoreProposals(v)'
  <2>1. Mail(v)' \subseteq Mail(v)
    BY MailOfOthers
  <2>2. NoMoreProposals(v)'
    BY <2>1 DEF AcceptedInv, UserOK, NoMoreProposals
  <2>3. CASE v # u
    <3>1. session'[v] = session[v]
      BY <2>3 DEF Only
    <3> QED
      BY <2>1, <2>2, <3>1 DEF AcceptedInv, UserOK, CachedAccepted
  <2>4. CASE v = u
    <3> SUFFICES ASSUME NEW m \in Mail(u)', m.kind = "commit", n.self = m.commit.from,
                        Len(n.history) = Len(m.commit.base) + 1
                 PROVE  FALSE
      BY <2>2, <2>4 DEF CachedAccepted
    <3>1. Follows(u, m)
      BY <2>4 DEF AcceptedInv, UserOK
    <3>2. Len(m.commit.base) \in Nat /\ Len(w.history) \in Nat /\ Len(n.history) = Len(w.history) + 1
      BY <1>2, <3>1, SeqFacts, Appending DEF Follows
    <3>3. m.commit.from.user = u
      BY <1>2
    <3> QED
      BY <3>2, <3>3
  <2> QED
    BY <2>3, <2>4
<1> QED
  BY <1>4, <1>5, <1>6, UserKeeps DEF AcceptedInv, UserOK

LEMMA ProposalsKeep ==
  ASSUME ~AcceptEarlier, AcceptedInv,
         NEW u \in Users, NEW i \in DOMAIN inbox[u], NEW known, Proposals(u, i, known)
  PROVE  AcceptedInv'
<1> DEFINE m == inbox[u][i]
           s == session[u]
           r == Taken(s, m, known)
           w == CHOOSE x \in r.working : TRUE
           id == [from |-> w.self, no |-> made[u] + 1]
           c == [from |-> w.self, base |-> w.history, proposals |-> w.proposals, id |-> id]
           n == Successor(w, id, w.proposals)
           taken == Took(s, r)
           cached == Committed(s, r, n)
<1>1. /\ Only(u, inbox, inbox') /\ IsSeq(inbox'[u]) /\ Mail(u)' \subseteq Mail(u)
      /\ m \in Mail(u) /\ m.kind = "proposals" /\ Follows(u, m)
  BY TakenMail DEF Proposals
<1>2. UNCHANGED <<group, open>>
  BY DEF Proposals
<1>3. \/ UNCHANGED <<session, made, commits>>
      \/ /\ Base(s) # {} /\ r.ok /\ session' = [session EXCEPT ![u] = cached]
         /\ made' = [made EXCEPT ![u] = @ + 1] /\ commits' = Arrived(commits \cup {c})
      \/ /\ Base(s) # {} /\ session' = [session EXCEPT ![u] = taken]
         /\ UNCHANGED <<made, commits>>
  BY DEF Proposals, Took, Committed
<1>4. CASE UNCHANGED <<session, made, commits>>
  <2>1. UserStep(u) /\ session'[u] = session[u]
    BY <1>1, <1>2, <1>4, OwnSession, AsMany DEF UserStep, Only, AcceptedInv, TypesOK
  <2> QED
    BY <1>4, <2>1, UncommittedStep
<1>5. ASSUME Base(s) # {}
      PROVE  WellTaken(u, s, m, r)
  BY <1>1, <1>5, OwnSession, TakenOK DEF Follows
<1> HIDE DEF r
<1>6. CASE Base(s) # {} /\ session' = [session EXCEPT ![u] = taken] /\ UNCHANGED <<made, commits>>
  <2>1. SessionOK(u, s) /\ WellTaken(u, s, m, r)
    BY <1>5, <1>6, OwnSession
  <2>2. SessionOK(u, taken) /\ taken.cached = s.cached /\ taken.current = s.current
    BY <2>1, TookUncommitted
  <2> HIDE DEF taken
  <2> QED
    BY <1>1, <1>2, <1>6, <2>2, OwnSession, AsMany, FewerStates
<1>7. CASE /\ Base(s) # {} /\ r.ok /\ session' = [session EXCEPT ![u] = cached]
           /\ made' = [made EXCEPT ![u] = @ + 1] /\ commits' = Arrived(commits \cup {c})
  <2>1. w \in r.working
    BY <1>5, <1>7 DEF WellTaken
  <2> HIDE DEF w
  <2>2. /\ StateOK(u, w) /\ \E b \in Base(s) : w.history = b.history
        /\ \E p \in Range(m.proposals) : p.epoch = Epoch(w.history)
    BY <1>5, <1>7, <2>1 DEF WellTaken
  <2>3. StateOK(u, n) /\ n.history = Append(w.history, id) /\ n.self = w.self
    BY <2>2, SuccessorOK
  <2> HIDE DEF n
  <2>9. SessionOK(u, s) /\ WellTaken(u, s, m, r)
    BY <1>5, <1>7, OwnSession
  <2>4. SessionOK(u, cached) /\ cached.cached = {n} /\ cached.current = s.current
    BY <2>3, <2>9, TookOK
  <2> HIDE DEF cached
  <2>5. made' \in [Users -> Nat] /\ (\A v \in Users : made[v] <= made'[v]) /\ made'[u] = made[u] + 1
    BY <1>7, OneMore DEF AcceptedInv, TypesOK
  <2>6. UserStep(u) /\ session'[u].cached = {n}
    BY <1>1, <1>2, <1>7, <2>4, <2>5, OnlySession, OwnSession DEF UserStep
  <2>7. ASSUME NEW o \in Mail(u), o.kind = "commit", o.commit.from.user = u
        PROVE  Len(o.commit.base) # Len(w.history)
    BY <1>1, <2>2, <2>7 DEF AcceptedInv, UserOK, NoMoreProposals, Epoch
  <2>8. c.from = w.self /\ c.base = w.history /\ c.id.no = made[u] + 1 /\ c.id = id
    OBVIOUS
  <2> HIDE DEF c, id
  <2> QED
    BY <1>1, <1>7, <2>2, <2>3, <2>5, <2>6, <2>7, <2>8, CommitMade
<1> QED
  BY <1>3, <1>4, <1>6, <1>7

-----------------------------------------------------------------------------
(* The server's steps.                                                     *)

LEMMA SentToUsers == ASSUME NEW message, Send(message) PROVE DOMAIN inbox' = Users
BY DEF Send

LEMMA Sent ==
  ASSUME AcceptedInv, NEW message, Send(message), NEW v \in Users
  PROVE  /\ IsSeq(inbox'[v])
         /\ Mail(v)' = IF v \in DOMAIN message THEN Mail(v) \cup {message[v]} ELSE Mail(v)
<1>1. IsSeq(inbox[v])
  BY DEF AcceptedInv, TypesOK
<1>2. inbox'[v] = IF v \in DOMAIN message THEN Append(inbox[v], message[v]) ELSE inbox[v]
  BY DEF Send
<1> QED
  BY <1>1, <1>2, Appending DEF Mail

(* What a commit that was delivered says is behind the server's epoch.     *)
LEMMA DeliveredIsPast ==
  ASSUME AcceptedInv, NEW v \in Users, NEW m \in Mail(v), m.kind = "commit"
  PROVE  Epoch(m.commit.base) < ServerEpoch
<1>1. /\ IsSeq(m.commit.base) /\ Len(m.commit.base) >= 1
      /\ IsPrefix(Append(m.commit.base, m.commit.id), group.history) /\ IsSeq(group.history)
  BY DEF AcceptedInv, UserOK, Follows, ServerOK
<1>2. Len(m.commit.base) + 1 <= Len(group.history)
  <2>1. /\ IsSeq(Append(m.commit.base, m.commit.id))
        /\ Len(Append(m.commit.base, m.commit.id)) = Len(m.commit.base) + 1
    BY <1>1, Appending
  <2>2. Len(Append(m.commit.base, m.commit.id)) <= Len(group.history)
    BY <1>1, <2>1, PrefixIs
  <2> QED
    BY <2>1, <2>2
<1>3. Len(m.commit.base) \in Nat /\ Len(group.history) \in Nat
  BY <1>1, SeqFacts
<1>4. group.history # <<>>
  BY <1>2, <1>3
<1> QED
  BY <1>2, <1>3, <1>4 DEF Epoch, ServerEpoch

LEMMA ProposalsSent ==
  ASSUME AcceptedInv, NEW message, Send(message),
         UNCHANGED <<session, made, group, commits>>, \A p \in open' : p.epoch = ServerEpoch,
         \A v \in DOMAIN message :
           /\ message[v].kind = "proposals"
           /\ IsSeq(message[v].proposals) /\ message[v].proposals # <<>>
           /\ \A p \in Range(message[v].proposals) : p.epoch = ServerEpoch
  PROVE  AcceptedInv'
<1>1. TypesOK'
  BY Sent, SentToUsers DEF AcceptedInv, TypesOK
<1>2. ServerOK'
  BY DEF AcceptedInv, ServerOK, ServerEpoch, CommitOK
<1>3. CachedOnTheWay' /\ OnlyAccepted'
  BY DEF AcceptedInv, CachedOnTheWay, OnlyAccepted
<1>4. ASSUME NEW v \in Users PROVE UserOK(v)'
  <2>1. ASSUME NEW m \in Mail(v)'
        PROVE  m \in Mail(v) \/ /\ m.kind = "proposals" /\ IsSeq(m.proposals) /\ m.proposals # <<>>
                                /\ \A p \in Range(m.proposals) : p.epoch = ServerEpoch
    BY Sent
  <2>2. \A m \in Mail(v)' : Follows(v, m)'
    BY <2>1 DEF AcceptedInv, UserOK, Follows
  <2>3. CachedAccepted(v)'
    BY <2>1 DEF AcceptedInv, UserOK, CachedAccepted
  <2>4. NoMoreProposals(v)'
    <3> SUFFICES ASSUME NEW m \in Mail(v)', NEW o \in Mail(v)', m.kind = "commit",
                        m.commit.from.user = v, o.kind = "proposals", NEW p \in Range(o.proposals)
                 PROVE  p.epoch # Epoch(m.commit.base)
      BY DEF NoMoreProposals
    <3>1. m \in Mail(v)
      BY <2>1
    <3>2. CASE o \in Mail(v)
      BY <3>1, <3>2 DEF AcceptedInv, UserOK, NoMoreProposals
    <3>3. CASE p.epoch = ServerEpoch
      <4>1. Epoch(m.commit.base) \in Int /\ ServerEpoch \in Int
        BY <3>1, SeqFacts DEF Epoch, ServerEpoch, AcceptedInv, UserOK, Follows, ServerOK
      <4> QED
        BY <3>1, <3>3, <4>1, DeliveredIsPast
    <3> QED
      BY <2>1, <3>2, <3>3
  <2> QED
    BY <2>2, <2>3, <2>4 DEF AcceptedInv, UserOK
<1> QED
  BY <1>1, <1>2, <1>3, <1>4 DEF AcceptedInv

LEMMA BatchOK ==
  ASSUME NEW T, NEW b \in Batches(T) PROVE IsSeq(b) /\ Range(b) \subseteq T
<1>1. (\E p \in T : b = <<p>>) \/ (\E p, q \in T : b = <<p, q>>)
  BY DEF Batches
<1>2. b \in Seq(T)
  <2>1. ASSUME NEW p \in T, b = <<p>> PROVE b \in Seq(T)
    BY <2>1
  <2>2. ASSUME NEW p \in T, NEW q \in T, b = <<p, q>> PROVE b \in Seq(T)
    BY <2>2
  <2> QED
    BY <1>1, <2>1, <2>2
<1> QED
  BY <1>2, SeqOver

LEMMA ForOK ==
  ASSUME NEW u, NEW b, IsSeq(b) PROVE IsSeq(For(u, b)) /\ Range(For(u, b)) \subseteq Range(b)
<1> DEFINE j == CHOOSE i \in DOMAIN b : ~Concerns(u, b[i])
<1>1. CASE \A p \in Range(b) : Concerns(u, p)
  BY <1>1 DEF For
<1>2. CASE ~\A p \in Range(b) : Concerns(u, p)
  <2>1. \E i \in DOMAIN b : ~Concerns(u, b[i])
    BY <1>2 DEF Range
  <2>2. j \in DOMAIN b
    BY <2>1
  <2>3. For(u, b) = RemoveAt(b, j)
    BY <1>2 DEF For
  <2> HIDE DEF j
  <2> QED
    BY <2>2, <2>3, Removing
<1> QED
  BY <1>1, <1>2

LEMMA ProposeKeeps ==
  ASSUME AcceptedInv, NEW batch \in Batches(Wanted \ open), Propose(batch) PROVE AcceptedInv'
<1> DEFINE message == [u \in {m \in Members : For(m, batch) # <<>>} |->
             [kind |-> "proposals", revoke |-> FALSE, proposals |-> For(u, batch)]]
<1>1. Send(message) /\ open' = open \cup Range(batch) /\ UNCHANGED <<session, made, group, commits>>
  BY DEF Propose
<1>2. IsSeq(batch) /\ \A p \in Range(batch) : p.epoch = ServerEpoch
  <2>1. \A p \in Wanted : p.epoch = ServerEpoch
    BY DEF Wanted
  <2> QED
    BY <2>1, BatchOK
<1>3. \A p \in open' : p.epoch = ServerEpoch
  BY <1>1, <1>2 DEF AcceptedInv, ServerOK
<1>4. ASSUME NEW v \in DOMAIN message
      PROVE  /\ message[v].kind = "proposals"
             /\ IsSeq(message[v].proposals) /\ message[v].proposals # <<>>
             /\ \A p \in Range(message[v].proposals) : p.epoch = ServerEpoch
  BY <1>2, ForOK
<1> HIDE DEF message
<1> QED
  BY <1>1, <1>3, <1>4, ProposalsSent

LEMMA RevokeKeeps ==
  ASSUME AcceptedInv, NEW p \in open, Revoke(p) PROVE AcceptedInv'
<1> DEFINE message == [u \in {m \in Members : Concerns(m, p)} |->
             [kind |-> "proposals", revoke |-> TRUE, proposals |-> <<p>>]]
<1>1. Send(message) /\ open' = open \ {p} /\ UNCHANGED <<session, made, group, commits>>
  BY DEF Revoke
<1>2. \A q \in open : q.epoch = ServerEpoch
  BY DEF AcceptedInv, ServerOK
<1>3. <<p>> \in Seq({p})
  OBVIOUS
<1>4. IsSeq(<<p>>) /\ <<p>> # <<>> /\ \A q \in Range(<<p>>) : q.epoch = ServerEpoch
  <2>1. IsSeq(<<p>>) /\ Range(<<p>>) \subseteq {p}
    BY <1>3, SeqOver
  <2> QED
    BY <1>2, <2>1
<1>5. ASSUME NEW v \in DOMAIN message
      PROVE  /\ message[v].kind = "proposals"
             /\ IsSeq(message[v].proposals) /\ message[v].proposals # <<>>
             /\ \A q \in Range(message[v].proposals) : q.epoch = ServerEpoch
  BY <1>4
<1>6. \A q \in open' : q.epoch = ServerEpoch
  BY <1>1, <1>2
<1> HIDE DEF message
<1> QED
  BY <1>1, <1>5, <1>6, ProposalsSent

(* The history the server goes on from contains every one before it.       *)
LEMMA AcceptKeeps ==
  ASSUME ~AcceptEarlier, AcceptedInv, NEW c \in commits, Accept(c) PROVE AcceptedInv'
<1> DEFINE s == [history |-> c.base, self |-> c.from, proposals |-> <<>>,
                 roster |-> IF group.history = <<>> THEN {c.from} ELSE group.roster]
           next == Successor(s, c.id, c.proposals)
           removed == Leaves(c.proposals, "remove")
           adds == {p \in Range(c.proposals) : p.op = "add"}
           added == {p.leaf.user : p \in adds}
           message == [u \in {l.user : l \in s.roster \ removed} \cup added |->
             IF u \in added
             THEN [kind |-> "welcome", history |-> next.history, roster |-> next.roster,
                   packages |-> {[leaf |-> p.leaf, no |-> p.no] : p \in adds}]
             ELSE [kind |-> "commit", commit |-> c]]
<1>1. /\ Send(message) /\ group' = [history |-> next.history, roster |-> next.roster]
      /\ open' = {} /\ commits' = {} /\ UNCHANGED <<session, made>> /\ LastOfItsSender(c)
  BY DEF Accept
<1>2. next.history = Append(c.base, c.id)
  BY DEF Successor
<1>3. ASSUME NEW v \in DOMAIN message
      PROVE  \/ message[v].kind = "welcome" /\ message[v].history = Append(c.base, c.id)
             \/ message[v].kind = "commit" /\ message[v].commit = c
  <2>1. CASE v \in added
    BY <1>2, <2>1
  <2>2. CASE v \notin added
    BY <2>2
  <2> QED
    BY <2>1, <2>2
<1> HIDE DEF message, next
<1>4. CommitOK(c)
  BY DEF AcceptedInv, ServerOK
<1>5. /\ DOMAIN group' = {"history", "roster"} /\ group'.history = Append(c.base, c.id)
      /\ IsSeq(group'.history) /\ Len(group'.history) >= 2
  <2>1. IsSeq(c.base) /\ Len(c.base) \in Nat /\ Len(c.base) >= 1
    BY <1>4, SeqFacts DEF CommitOK
  <2> QED
    BY <1>1, <1>2, <2>1, Appending
<1>6. ASSUME NEW h, IsSeq(h), Len(h) >= 1, IsPrefix(h, group.history)
      PROVE  IsPrefix(h, group'.history)
  <2>1. IsSeq(group.history) /\ Len(group.history) \in Nat /\ Len(h) \in Nat
    BY <1>6, SeqFacts DEF AcceptedInv, ServerOK
  <2>2. Len(h) <= Len(group.history)
    BY <1>6, <2>1, PrefixIs
  <2>3. group.history # <<>>
    BY <1>6, <2>1, <2>2
  <2>4. c.base = group.history
    BY <1>4, <2>3 DEF CommitOK
  <2> QED
    BY <1>5, <1>6, <2>1, <2>4, PrefixOfLonger
<1>7. TypesOK' /\ ServerOK' /\ CachedOnTheWay'
  <2>1. TypesOK'
    BY <1>1, Sent, SentToUsers DEF AcceptedInv, TypesOK
  <2> QED
    BY <1>1, <1>5, <2>1 DEF ServerOK, CachedOnTheWay
<1>8. OnlyAccepted'
  <2> SUFFICES ASSUME NEW u \in Users, NEW b \in session[u].current
               PROVE  IsPrefix(b.history, group'.history)
    BY <1>1 DEF OnlyAccepted
  <2>1. StateOK(u, b) /\ IsPrefix(b.history, group.history)
    BY OwnSession DEF OwnOK
  <2> QED
    BY <1>6, <2>1 DEF StateOK
<1>9. ASSUME NEW v \in Users PROVE UserOK(v)'
  <2>1. ASSUME NEW m \in Mail(v)'
        PROVE  \/ m \in Mail(v)
               \/ m.kind = "welcome" /\ m.history = Append(c.base, c.id)
               \/ m.kind = "commit" /\ m.commit = c
    BY <1>1, <1>3, Sent
  <2>2. ASSUME NEW m \in Mail(v)' PROVE Follows(v, m)'
    <3>1. CASE m \in Mail(v)
      <4>1. Follows(v, m)
        BY <3>1 DEF AcceptedInv, UserOK
      <4>2. ASSUME m.kind = "welcome" PROVE IsPrefix(m.history, group'.history)
        <5>1. IsSeq(m.history) /\ Len(m.history) \in Nat /\ Len(m.history) >= 2
              /\ IsPrefix(m.history, group.history)
          BY <4>1, <4>2, SeqFacts DEF Follows
        <5>2. Len(m.history) >= 1
          BY <5>1
        <5> QED
          BY <1>6, <5>1, <5>2
      <4>3. ASSUME m.kind = "commit"
            PROVE  IsPrefix(Append(m.commit.base, m.commit.id), group'.history)
        <5>1. /\ IsSeq(m.commit.base) /\ Len(m.commit.base) \in Nat
              /\ IsPrefix(Append(m.commit.base, m.commit.id), group.history)
          BY <4>1, <4>3, SeqFacts DEF Follows
        <5>2. IsSeq(Append(m.commit.base, m.commit.id)) /\ Len(Append(m.commit.base, m.commit.id)) >= 1
          BY <5>1, Appending
        <5> QED
          BY <1>6, <5>1, <5>2
      <4> QED
        BY <4>1, <4>2, <4>3 DEF Follows
    <3>2. CASE m.kind = "welcome" /\ m.history = Append(c.base, c.id)
      BY <1>5, <3>2, PrefixOfItself DEF Follows
    <3>3. CASE m.kind = "commit" /\ m.commit = c
      BY <1>4, <1>5, <3>3, PrefixOfItself DEF Follows, CommitOK
    <3> QED
      BY <2>1, <3>1, <3>2, <3>3
  <2>3. CachedAccepted(v)'
    <3> SUFFICES ASSUME NEW m \in Mail(v)', m.kind = "commit", NEW n \in session[v].cached,
                        n.self = m.commit.from, Len(n.history) = Len(m.commit.base) + 1
                 PROVE  n.history = Append(m.commit.base, m.commit.id)
      BY <1>1 DEF CachedAccepted
    <3>1. CASE m \in Mail(v)
      BY <3>1 DEF AcceptedInv, UserOK, CachedAccepted
    <3>2. CASE m.commit = c
      <4>1. n.self.user = v
        BY OwnSession DEF OwnOK, StateOK
      <4> QED
        BY <3>2, <4>1 DEF AcceptedInv, CachedOnTheWay
    <3> QED
      BY <2>1, <3>1, <3>2
  <2>4. NoMoreProposals(v)'
    <3> SUFFICES ASSUME NEW m \in Mail(v)', NEW o \in Mail(v)', m.kind = "commit",
                        m.commit.from.user = v, o.kind = "proposals", NEW p \in Range(o.proposals)
                 PROVE  p.epoch # Epoch(m.commit.base)
      BY DEF NoMoreProposals
    <3>1. o \in Mail(v)
      BY <2>1
    <3>2. CASE m \in Mail(v)
      BY <3>1, <3>2 DEF AcceptedInv, UserOK, NoMoreProposals
    <3>3. CASE m.commit = c
      BY <1>1, <3>1, <3>3 DEF LastOfItsSender, Mail, Range
    <3> QED
      BY <2>1, <3>2, <3>3
  <2> QED
    BY <1>1, <2>2, <2>3, <2>4 DEF AcceptedInv, UserOK
<1> QED
  BY <1>7, <1>8, <1>9 DEF AcceptedInv

-----------------------------------------------------------------------------
LEMMA StartedOK ==
  ASSUME NEW u PROVE SessionOK(u, Started(u)) /\ Started(u).cached = {} /\ Started(u).current = {}
<1> DEFINE leaf == [user |-> u, leaf |-> 0]
           a == InitSession(NewSession, leaf)
           b == SetExternalSender(a)
<1>1. leaf.user = u
  OBVIOUS
<1>2. SessionOK(u, a) /\ a.cached = {} /\ a.current = {}
  BY <1>1, NewSessionOK, Initialised DEF SessionOK
<1> HIDE DEF a
<1>3. SessionOK(u, b) /\ b.cached = {} /\ b.current = {}
  BY <1>2, SenderSet
<1>4. Started(u) = ResetJoinKeyPackage(b, 0)
  BY DEF Started, a
<1> HIDE DEF b
<1> QED
  BY <1>3, <1>4, PackageReset

LEMMA AtFirst == ASSUME Init PROVE AcceptedInv
<1>1. \A u \in Users : inbox[u] = <<>> /\ IsSeq(inbox[u]) /\ Mail(u) = {}
  <2>1. \A u \in Users : inbox[u] = <<>>
    BY DEF Init
  <2> QED
    BY <2>1, EmptySequence DEF Mail, Range
<1>2. TypesOK
  BY <1>1 DEF Init, TypesOK
<1>3. ServerOK /\ CachedOnTheWay
  <2>1. group = [history |-> <<>>, roster |-> {}] /\ open = {} /\ commits = {}
    BY DEF Init
  <2>2. IsSeq(group.history)
    BY <2>1, EmptySequence
  <2> QED
    BY <2>1, <2>2 DEF ServerOK, CachedOnTheWay
<1>4. \A u \in Users : SessionOK(u, session[u]) /\ session[u].current = {}
  BY StartedOK, NewSessionOK DEF Init
<1>5. OnlyAccepted
  BY <1>4 DEF OnlyAccepted
<1>6. \A u \in Users : UserOK(u)
  BY <1>1, <1>4 DEF UserOK, CachedAccepted, NoMoreProposals
<1> QED
  BY <1>2, <1>3, <1>5, <1>6 DEF AcceptedInv

LEMMA StepKeeps == ASSUME ~AcceptEarlier, AcceptedInv, Next PROVE AcceptedInv'
<1>1. ASSUME NEW u \in Users, NEW i \in DOMAIN inbox[u],
             \/ SelectProtocol(u, i) \/ ExternalSenderPackage(u, i)
             \/ \E known \in {Users} \cup {Users \ {v} : v \in Users \ {u}} : Proposals(u, i, known)
             \/ PrepareCommitTransition(u, i) \/ Welcome(u, i)
      PROVE  AcceptedInv'
  BY <1>1, SelectKeeps, SenderKeeps, ProposalsKeep, CommitKeeps, WelcomeKeeps
<1>2. ASSUME NEW u \in Users, PrepareEpochAgain(u) \/ KeyPackageAgain(u) \/ Connect(u)
      PROVE  AcceptedInv'
  BY <1>2, PrepareAgainKeeps, KeyPackageKeeps, ConnectKeeps
<1>3. ASSUME \/ \E batch \in Batches(Wanted \ open) : Propose(batch)
             \/ \E p \in open : Revoke(p)
             \/ \E c \in commits : Accept(c)
      PROVE  AcceptedInv'
  BY <1>3, ProposeKeeps, RevokeKeeps, AcceptKeeps
<1> QED
  BY <1>1, <1>2, <1>3 DEF Next

LEMMA StutterKeeps == ASSUME AcceptedInv, UNCHANGED vars PROVE AcceptedInv'
BY DEF vars, AcceptedInv, TypesOK, ServerOK, CommitOK, ServerEpoch, CachedOnTheWay, OnlyAccepted,
       UserOK, CachedAccepted, NoMoreProposals, Mail, Follows

(* Whatever order a client handles its proposals, commits and welcomes in, *)
(* and however often it reports a failure or comes back, the group its     *)
(* Session has joined (session.cpp's currentState_) is one the delivery    *)
(* service accepted, never one of its own making: ProcessCommit adopts the *)
(* cached State for a commit of its own, which is the right one because it *)
(* is the last the client made, and the service has taken the last.  The   *)
(* hypothesis is needed: without it the cached State is another commit's.  *)
THEOREM NoFork == ASSUME ~AcceptEarlier PROVE Spec => []OnlyAccepted
<1>1. Init => AcceptedInv
  BY AtFirst
<1>2. AcceptedInv /\ [Next]_vars => AcceptedInv'
  BY StepKeeps, StutterKeeps
<1>3. AcceptedInv => OnlyAccepted
  BY DEF AcceptedInv
<1> QED
  BY <1>1, <1>2, <1>3, PTL DEF Spec

-----------------------------------------------------------------------------
(* Who handles its messages in order follows the server.                   *)

(* A welcome that makes leaf l a member.                                   *)
Joins(m, l) ==
  m.kind = "welcome" /\ l \in m.roster /\ \A p \in m.packages : p.leaf \in m.roster

(* A message that takes who handles it to the server's epoch.              *)
Brings(m) ==
  \/ m.kind = "welcome" /\ m.history = group.history
  \/ m.kind = "commit" /\ Append(m.commit.base, m.commit.id) = group.history

(* The Session is that of leaf l, and nothing is about to reset it.        *)
IsMember(u, l) ==
  <<u, "epoch">> \notin recovering /\ \E b \in Base(session[u]) : b.self = l

(* Leaf l of u is a member by its j-th message (0: already), is brought to *)
(* the server's epoch by its k-th (0: is there), and will not ignore that  *)
(* one, nor the commit of an epoch that has proposals, as it has or is to  *)
(* handle some before.                                                     *)
TrackFrom(u, l, j, k) ==
  /\ IF j = 0 THEN IsMember(u, l) ELSE Joins(inbox[u][j], l)
  /\ \A i \in j + 1 .. Len(inbox[u]) : inbox[u][i].kind \in {"proposals", "commit"}
  /\ \A i \in k + 1 .. Len(inbox[u]) : inbox[u][i].kind = "proposals"
  /\ open # {} => k < Len(inbox[u]) \/ (k = 0 /\ session[u].working # {})
  /\ IF k = 0 THEN \E s \in session[u].current : s.history = group.history /\ s.self = l
     ELSE Brings(inbox[u][k])
  /\ k > j => \/ k - 1 > j /\ inbox[u][k - 1].kind = "proposals"
              \/ k = 1 /\ session[u].working # {}

OnTrack(u, l) ==
  \E j, k \in 0 .. Len(inbox[u]) : j <= k /\ TrackFrom(u, l, j, k)

AllOnTrack == \A u \in Users \ overtaken : \A l \in LeavesOf(u) \ expelled : OnTrack(u, l)

(* A session begins with its selection and the sender's package.           *)
Kinds == {"select", "sender", "proposals", "commit", "welcome"}

MailOK(u) ==
  /\ \A m \in Mail(u) : m.kind \in Kinds
  /\ \A i, j \in DOMAIN inbox[u] :
       i < j /\ inbox[u][i].kind = "proposals" => inbox[u][j].kind \notin {"select", "sender"}

(* Before the first commit nobody has failed, and who has sent one can     *)
(* handle it.                                                              *)
Ready(c) ==
  /\ session[c.from.user].working # {}
  /\ \E b \in Base(session[c.from.user]) : b.self = c.from
  /\ \A m \in Mail(c.from.user) : m.kind \notin {"select", "sender"}

BeforeFirst ==
  group.history = <<>> =>
    /\ group.roster = {} /\ recovering = {}
    /\ \A c \in commits : c.from.user \notin overtaken => Ready(c)

CaughtInv ==
  AcceptedInv /\ BeforeFirst /\ (\A u \in Users : MailOK(u)) /\ AllOnTrack

-----------------------------------------------------------------------------
LEMMA RemovedIs ==
  ASSUME NEW q, IsSeq(q), NEW i \in DOMAIN q
  PROVE  /\ Len(RemoveAt(q, i)) = Len(q) - 1 /\ Len(RemoveAt(q, i)) \in Nat
         /\ \A a \in 1 .. Len(q) - 1 : RemoveAt(q, i)[a] = IF a < i THEN q[a] ELSE q[a + 1]
<1>1. q \in Seq(Range(q)) /\ i \in 1 .. Len(q) /\ Len(q) \in Nat
  BY SeqFacts DEF IsSeq
<1> DEFINE a == SubSeq(q, 1, i - 1)
           b == SubSeq(q, i + 1, Len(q))
<1>2. a \in Seq(Range(q)) /\ Len(a) = i - 1 /\ \A n \in 1 .. i - 1 : a[n] = q[n]
  BY <1>1
<1>3. b \in Seq(Range(q)) /\ Len(b) = Len(q) - i /\ \A n \in 1 .. Len(q) - i : b[n] = q[n + i]
  BY <1>1
<1>4. RemoveAt(q, i) = a \o b
  BY DEF RemoveAt
<1> HIDE DEF a, b
<1>5. Len(a \o b) = Len(q) - 1
  BY <1>1, <1>2, <1>3
<1>6. ASSUME NEW n \in 1 .. Len(q) - 1 PROVE (a \o b)[n] = IF n < i THEN q[n] ELSE q[n + 1]
  <2>1. CASE n < i
    BY <1>1, <1>2, <1>3, <2>1
  <2>2. CASE ~(n < i)
    <3>1. n - Len(a) \in 1 .. Len(q) - i /\ (n - Len(a)) + i = n + 1
      BY <1>1, <1>2, <2>2
    <3>2. Len(a) \in Nat /\ Len(b) \in Nat /\ n \in Len(a) + 1 .. Len(a) + Len(b)
      BY <1>1, <1>2, <1>3, <2>2
    <3>3. a \in Seq(Range(q)) /\ b \in Seq(Range(q))
      BY <1>2, <1>3
    <3>4. (a \o b)[n] = b[n - Len(a)]
      BY <3>2, <3>3
    <3> QED
      BY <1>3, <2>2, <3>1, <3>4
  <2> QED
    BY <2>1, <2>2
<1> QED
  BY <1>1, <1>4, <1>5, <1>6

LEMMA AppendedIs ==
  ASSUME NEW q, IsSeq(q), NEW m
  PROVE  /\ Len(Append(q, m)) = Len(q) + 1 /\ Append(q, m)[Len(q) + 1] = m
         /\ \A a \in 1 .. Len(q) : Append(q, m)[a] = q[a]
<1>1. q \in Seq(Range(q) \cup {m}) /\ m \in Range(q) \cup {m}
  BY Widened
<1> QED
  BY <1>1

LEMMA InboxIs ==
  ASSUME AcceptedInv, NEW u \in Users
  PROVE  /\ IsSeq(inbox[u]) /\ Len(inbox[u]) \in Nat /\ DOMAIN inbox[u] = 1 .. Len(inbox[u])
         /\ \A i \in 1 .. Len(inbox[u]) : inbox[u][i] \in Mail(u)
BY SeqFacts DEF AcceptedInv, TypesOK, Mail

(* What does not concern u.                                                *)
LEMMA TrackUndisturbed ==
  ASSUME NEW u, NEW l, OnTrack(u, l), session'[u] = session[u], inbox'[u] = inbox[u],
         group' = group, open' \subseteq open,
         <<u, "epoch">> \in recovering' => <<u, "epoch">> \in recovering
  PROVE  OnTrack(u, l)'
<1>1. PICK j, k \in 0 .. Len(inbox[u]) : j <= k /\ TrackFrom(u, l, j, k)
  BY DEF OnTrack
<1>2. TrackFrom(u, l, j, k)'
  BY <1>1 DEF TrackFrom, IsMember, Brings
<1> QED
  BY <1>1, <1>2 DEF OnTrack

(* Proposals are sent to u.                                                *)
LEMMA TrackSent ==
  ASSUME AcceptedInv, NEW u \in Users, NEW l, OnTrack(u, l), NEW m, m.kind = "proposals",
         inbox'[u] = Append(inbox[u], m), UNCHANGED <<session, group, recovering>>
  PROVE  OnTrack(u, l)'
<1>1. PICK j, k \in 0 .. Len(inbox[u]) : j <= k /\ TrackFrom(u, l, j, k)
  BY DEF OnTrack
<1>2. /\ Len(inbox[u]) \in Nat /\ Len(inbox'[u]) = Len(inbox[u]) + 1
      /\ inbox'[u][Len(inbox[u]) + 1] = m
      /\ \A a \in 1 .. Len(inbox[u]) : inbox'[u][a] = inbox[u][a]
  BY InboxIs, AppendedIs
<1>3. j \in 0 .. Len(inbox'[u]) /\ k \in 0 .. Len(inbox'[u]) /\ k < Len(inbox'[u])
  BY <1>1, <1>2
<1>4. IF j = 0 THEN IsMember(u, l)' ELSE Joins(inbox'[u][j], l)
  <2>1. j = 0 \/ inbox'[u][j] = inbox[u][j]
    BY <1>1, <1>2
  <2> QED
    BY <1>1, <2>1 DEF TrackFrom, IsMember
<1>5. IF k = 0 THEN \E s \in session'[u].current : s.history = group'.history /\ s.self = l
      ELSE Brings(inbox[u][k])'
  <2>1. k = 0 \/ inbox'[u][k] = inbox[u][k]
    BY <1>1, <1>2
  <2> QED
    BY <1>1, <2>1 DEF TrackFrom, Brings
<1>6. /\ \A i \in j + 1 .. Len(inbox'[u]) : inbox'[u][i].kind \in {"proposals", "commit"}
      /\ \A i \in k + 1 .. Len(inbox'[u]) : inbox'[u][i].kind = "proposals"
  <2>1. ASSUME NEW i \in 1 .. Len(inbox'[u])
        PROVE  (i \in 1 .. Len(inbox[u]) /\ inbox'[u][i] = inbox[u][i]) \/ inbox'[u][i] = m
    BY <1>2
  <2>2. ASSUME NEW i \in j + 1 .. Len(inbox'[u]) PROVE inbox'[u][i].kind \in {"proposals", "commit"}
    <3>1. i \in 1 .. Len(inbox'[u]) /\ (i \in 1 .. Len(inbox[u]) => i \in j + 1 .. Len(inbox[u]))
      BY <1>1, <1>2
    <3> QED
      BY <1>1, <2>1, <3>1 DEF TrackFrom
  <2>3. ASSUME NEW i \in k + 1 .. Len(inbox'[u]) PROVE inbox'[u][i].kind = "proposals"
    <3>1. i \in 1 .. Len(inbox'[u]) /\ (i \in 1 .. Len(inbox[u]) => i \in k + 1 .. Len(inbox[u]))
      BY <1>1, <1>2
    <3> QED
      BY <1>1, <2>1, <3>1 DEF TrackFrom
  <2> QED
    BY <2>2, <2>3
<1>7. k > j => \/ k - 1 > j /\ inbox'[u][k - 1].kind = "proposals"
               \/ k = 1 /\ session'[u].working # {}
  <2>1. k - 1 > j => inbox'[u][k - 1] = inbox[u][k - 1]
    BY <1>1, <1>2
  <2> QED
    BY <1>1, <2>1 DEF TrackFrom
<1>8. TrackFrom(u, l, j, k)'
  BY <1>3, <1>4, <1>5, <1>6, <1>7 DEF TrackFrom
<1> QED
  BY <1>1, <1>3, <1>8 DEF OnTrack

(* The oldest message of u is handled.                                     *)
HeadGone(u) ==
  /\ Len(inbox[u]) \in Nat /\ Len(inbox[u]) >= 1 /\ Len(inbox'[u]) = Len(inbox[u]) - 1
  /\ \A a \in 1 .. Len(inbox[u]) - 1 : inbox'[u][a] = inbox[u][a + 1]
  /\ group' = group /\ open' = open

LEMMA InOrder ==
  ASSUME AcceptedInv, NEW u \in Users, NEW i \in DOMAIN inbox[u], NEW kind, Take(u, i, kind),
         u \notin overtaken', group' = group, open' = open
  PROVE  /\ u \notin overtaken /\ i = 1 /\ inbox[u][1].kind = kind /\ HeadGone(u)
         /\ kind = "welcome" => <<u, "epoch">> \notin recovering
<1>1. /\ u \notin overtaken /\ i = 1 /\ inbox[u][1].kind = kind
      /\ kind = "welcome" => <<u, "epoch">> \notin recovering
  BY DEF Take, InItsTurn
<1>2. inbox'[u] = RemoveAt(inbox[u], 1)
  BY <1>1 DEF Take, AcceptedInv, TypesOK
<1>3. Len(inbox[u]) \in Nat /\ Len(inbox[u]) >= 1 /\ 1 \in DOMAIN inbox[u] /\ IsSeq(inbox[u])
  BY <1>1, InboxIs
<1>4. /\ Len(inbox'[u]) = Len(inbox[u]) - 1
      /\ \A a \in 1 .. Len(inbox[u]) - 1 :
           inbox'[u][a] = IF a < 1 THEN inbox[u][a] ELSE inbox[u][a + 1]
  BY <1>2, <1>3, RemovedIs
<1>5. \A a \in 1 .. Len(inbox[u]) - 1 : inbox'[u][a] = inbox[u][a + 1]
  BY <1>3, <1>4
<1> QED
  BY <1>1, <1>3, <1>4, <1>5 DEF HeadGone

(* What is behind a place in the inbox is behind the place before.         *)
LEMMA ShiftedKinds ==
  ASSUME NEW u, HeadGone(u), NEW n \in 0 .. Len(inbox[u]), NEW p \in Nat, n <= p + 1, NEW K,
         \A i \in n + 1 .. Len(inbox[u]) : inbox[u][i].kind \in K
  PROVE  \A i \in p + 1 .. Len(inbox'[u]) : inbox'[u][i].kind \in K
<1> TAKE i \in p + 1 .. Len(inbox'[u])
<1>1. i \in 1 .. Len(inbox[u]) - 1 /\ i + 1 \in n + 1 .. Len(inbox[u])
  BY DEF HeadGone
<1> QED
  BY <1>1 DEF HeadGone

LEMMA TrackShifted ==
  ASSUME NEW u, NEW l, HeadGone(u),
         NEW j \in 0 .. Len(inbox[u]), NEW k \in 0 .. Len(inbox[u]), j <= k, TrackFrom(u, l, j, k),
         k >= 1, NEW p \in Nat, NEW n \in Nat, n = k - 1, p = (IF j = 0 THEN 0 ELSE j - 1),
         p = 0 => IsMember(u, l)',
         n = 0 => \E s \in session'[u].current : s.history = group'.history /\ s.self = l,
         j = 0 /\ n = 1 => session'[u].working # {}
  PROVE  OnTrack(u, l)'
<1>1. /\ n \in 0 .. Len(inbox'[u]) /\ p \in 0 .. Len(inbox'[u]) /\ p <= n /\ n < Len(inbox[u])
      /\ Len(inbox[u]) \in Nat /\ Len(inbox'[u]) = Len(inbox[u]) - 1
  BY DEF HeadGone
<1>2. IF p = 0 THEN IsMember(u, l)' ELSE Joins(inbox'[u][p], l)
  <2>1. p # 0 => j # 0 /\ inbox'[u][p] = inbox[u][j]
    BY DEF HeadGone
  <2> QED
    BY <2>1 DEF TrackFrom
<1>3. \A i \in p + 1 .. Len(inbox'[u]) : inbox'[u][i].kind \in {"proposals", "commit"}
  <2>1. \A i \in j + 1 .. Len(inbox[u]) : inbox[u][i].kind \in {"proposals", "commit"}
    BY DEF TrackFrom
  <2>2. j <= p + 1
    OBVIOUS
  <2> QED
    BY <2>1, <2>2, ShiftedKinds
<1>4. \A i \in n + 1 .. Len(inbox'[u]) : inbox'[u][i].kind = "proposals"
  <2>1. \A i \in k + 1 .. Len(inbox[u]) : inbox[u][i].kind \in {"proposals"}
    BY DEF TrackFrom
  <2>2. k <= n + 1
    OBVIOUS
  <2>3. \A i \in n + 1 .. Len(inbox'[u]) : inbox'[u][i].kind \in {"proposals"}
    BY <2>1, <2>2, ShiftedKinds
  <2> QED
    BY <2>3
<1>5. open' # {} => n < Len(inbox'[u])
  BY <1>1 DEF TrackFrom, HeadGone
<1>6. IF n = 0 THEN \E s \in session'[u].current : s.history = group'.history /\ s.self = l
      ELSE Brings(inbox[u][n])'
  <2>1. n # 0 => inbox'[u][n] = inbox[u][k]
    BY DEF HeadGone
  <2> QED
    <3>1. CASE n = 0
      BY <3>1
    <3>2. CASE n # 0
      <4>1. Brings(inbox[u][k]) /\ inbox'[u][n] = inbox[u][k] /\ group' = group
        BY <2>1, <3>2 DEF TrackFrom, HeadGone
      <4> QED
        BY <3>2, <4>1 DEF Brings
    <3> QED
      BY <3>1, <3>2
<1>7. n > p => \/ n - 1 > p /\ inbox'[u][n - 1].kind = "proposals"
               \/ n = 1 /\ session'[u].working # {}
  BY DEF TrackFrom, HeadGone
<1>8. TrackFrom(u, l, p, n)'
  BY <1>2, <1>3, <1>4, <1>5, <1>6, <1>7 DEF TrackFrom
<1> QED
  BY <1>1, <1>8 DEF OnTrack

LEMMA TrackStays ==
  ASSUME NEW u, NEW l, HeadGone(u), TrackFrom(u, l, 0, 0),
         IsMember(u, l)', session'[u].current = session[u].current, session'[u].working # {}
  PROVE  OnTrack(u, l)'
<1>1. Len(inbox'[u]) \in Nat /\ 0 \in 0 .. Len(inbox'[u]) /\ 0 \in 0 .. Len(inbox[u])
  BY DEF HeadGone
<1>2. \A i \in 1 .. Len(inbox'[u]) : inbox'[u][i].kind = "proposals"
  <2>1. \A i \in 1 .. Len(inbox[u]) : inbox[u][i].kind = "proposals"
    BY DEF TrackFrom
  <2> QED
    BY <2>1 DEF HeadGone
<1>3. \E s \in session'[u].current : s.history = group'.history /\ s.self = l
  BY DEF TrackFrom, HeadGone
<1>4. TrackFrom(u, l, 0, 0)'
  BY <1>2, <1>3 DEF TrackFrom
<1> QED
  BY <1>1, <1>4 DEF OnTrack

(* What the oldest message may be for a user on track, if it does not come *)
(* before the one that makes it a member.                                  *)
LEMMA AfterHead ==
  ASSUME CaughtInv, NEW u \in Users, NEW i \in DOMAIN inbox[u], NEW kind, Take(u, i, kind),
         u \notin overtaken', group' = group, open' = open, NEW l \in LeavesOf(u) \ expelled
  PROVE  /\ HeadGone(u) /\ inbox[u][1].kind = kind
         /\ kind = "welcome" => <<u, "epoch">> \notin recovering
         /\ \/ OnTrack(u, l)'
            \/ /\ kind \in {"proposals", "commit"}
               /\ \E k \in 0 .. Len(inbox[u]) : TrackFrom(u, l, 0, k)
            \/ /\ kind = "welcome"
               /\ \E k \in 1 .. Len(inbox[u]) : TrackFrom(u, l, 1, k)
<1>1. /\ HeadGone(u) /\ inbox[u][1].kind = kind /\ u \notin overtaken
      /\ kind = "welcome" => <<u, "epoch">> \notin recovering
  BY InOrder DEF CaughtInv
<1>2. PICK j, k \in 0 .. Len(inbox[u]) : j <= k /\ TrackFrom(u, l, j, k)
  BY <1>1 DEF CaughtInv, AllOnTrack, OnTrack
<1>3. CASE j = 0
  <2>1. 1 \in 0 + 1 .. Len(inbox[u])
    BY <1>1 DEF HeadGone
  <2>2. kind \in {"proposals", "commit"}
    BY <1>1, <1>2, <1>3, <2>1 DEF TrackFrom
  <2> QED
    BY <1>1, <1>2, <1>3, <2>2
<1>4. CASE j = 1
  <2>1. kind = "welcome"
    BY <1>1, <1>2, <1>4 DEF TrackFrom, Joins
  <2> QED
    BY <1>1, <1>2, <1>4, <2>1
<1>5. CASE j >= 2
  <2>1. k >= 1 /\ k - 1 \in Nat /\ j - 1 \in Nat /\ j - 1 # 0 /\ k - 1 # 0 /\ j # 0
        /\ j - 1 = (IF j = 0 THEN 0 ELSE j - 1)
    BY <1>2, <1>5
  <2>2. OnTrack(u, l)'
    BY <1>1, <1>2, <2>1, TrackShifted
  <2> QED
    BY <1>1, <2>2
<1>6. j = 0 \/ j = 1 \/ j >= 2
  BY <1>2
<1> QED
  BY <1>3, <1>4, <1>5, <1>6

(* A step of u leaves the others as they are.                              *)
Apart(u) ==
  /\ Only(u, session, session') /\ Only(u, inbox, inbox')
  /\ group' = group /\ open' = open /\ expelled \subseteq expelled'
  /\ \A v \in Users \ {u} : v \notin overtaken' => v \notin overtaken
  /\ \A v \in Users \ {u} : <<v, "epoch">> \in recovering' => <<v, "epoch">> \in recovering
  /\ group.history = <<>> => recovering' = {}
  /\ \A c \in commits' : c \in commits \/ c.from.user = u

LEMMA UserCaught ==
  ASSUME CaughtInv, NEW u \in Users, Apart(u), MailOK(u)',
         group.history = <<>> /\ u \notin overtaken'
           => \A c \in commits' : c.from.user = u => Ready(c)',
         u \notin overtaken' => \A l \in LeavesOf(u) \ expelled' : OnTrack(u, l)'
  PROVE  BeforeFirst' /\ (\A v \in Users : MailOK(v)') /\ AllOnTrack'
<1>1. ASSUME NEW v \in Users PROVE MailOK(v)'
  <2>1. v # u => inbox'[v] = inbox[v]
    BY DEF Apart, Only
  <2> QED
    BY <2>1 DEF CaughtInv, MailOK, Mail
<1>2. BeforeFirst'
  <2> SUFFICES ASSUME group.history = <<>> PROVE BeforeFirst'
    BY DEF BeforeFirst, Apart
  <2>1. group'.roster = {} /\ recovering' = {}
    BY DEF CaughtInv, BeforeFirst, Apart
  <2>2. ASSUME NEW c \in commits', c.from.user \notin overtaken', c.from.user # u PROVE Ready(c)'
    <3>1. c \in commits /\ c.from.user \in Users \ {u}
      BY <2>2 DEF Apart, CaughtInv, AcceptedInv, ServerOK, CommitOK
    <3>2. Ready(c)
      BY <2>2, <3>1 DEF CaughtInv, BeforeFirst, Apart
    <3>3. session'[c.from.user] = session[c.from.user] /\ inbox'[c.from.user] = inbox[c.from.user]
      BY <3>1 DEF Apart, Only
    <3> QED
      BY <3>2, <3>3 DEF Ready, Mail
  <2> QED
    BY <2>1, <2>2 DEF BeforeFirst
<1>3. ASSUME NEW v \in Users \ overtaken', NEW l \in LeavesOf(v) \ expelled', v # u
      PROVE  OnTrack(v, l)'
  <2>1. v \notin overtaken /\ l \in LeavesOf(v) \ expelled
    BY <1>3 DEF Apart
  <2>2. OnTrack(v, l)
    BY <2>1 DEF CaughtInv, AllOnTrack
  <2> QED
    BY <1>3, <2>2, TrackUndisturbed DEF Apart, Only
<1>4. AllOnTrack'
  <2>1. \A v \in Users : LeavesOf(v)' = LeavesOf(v)
    BY DEF LeavesOf, Apart
  <2> QED
    BY <1>3, <2>1 DEF AllOnTrack
<1> QED
  BY <1>1, <1>2, <1>4

LEMMA TakenMailOK ==
  ASSUME CaughtInv, NEW u \in Users, NEW i \in DOMAIN inbox[u], NEW kind, Take(u, i, kind)
  PROVE  MailOK(u)' /\ Only(u, inbox, inbox') /\ Mail(u)' \subseteq Mail(u)
<1>1. /\ IsSeq(inbox[u]) /\ Len(inbox[u]) \in Nat /\ DOMAIN inbox[u] = 1 .. Len(inbox[u])
      /\ Only(u, inbox, inbox') /\ IsSeq(inbox'[u]) /\ Mail(u)' \subseteq Mail(u)
  BY InboxIs, TakenMail DEF CaughtInv
<1>2. inbox'[u] = RemoveAt(inbox[u], i)
  BY DEF Take, CaughtInv, AcceptedInv, TypesOK
<1>3. /\ Len(inbox'[u]) = Len(inbox[u]) - 1 /\ DOMAIN inbox'[u] = 1 .. Len(inbox[u]) - 1
      /\ \A a \in 1 .. Len(inbox[u]) - 1 :
           inbox'[u][a] = IF a < i THEN inbox[u][a] ELSE inbox[u][a + 1]
  BY <1>1, <1>2, RemovedIs, SeqFacts
<1>4. ASSUME NEW a \in DOMAIN inbox'[u], NEW b \in DOMAIN inbox'[u], a < b,
             inbox'[u][a].kind = "proposals"
      PROVE  inbox'[u][b].kind \notin {"select", "sender"}
  <2> DEFINE x == IF a < i THEN a ELSE a + 1
             y == IF b < i THEN b ELSE b + 1
  <2>1. x \in DOMAIN inbox[u] /\ y \in DOMAIN inbox[u] /\ x < y
    BY <1>1, <1>3, <1>4
  <2>2. inbox'[u][a] = inbox[u][x] /\ inbox'[u][b] = inbox[u][y]
    BY <1>3
  <2> QED
    BY <1>4, <2>1, <2>2 DEF CaughtInv, MailOK
<1> QED
  BY <1>1, <1>4 DEF CaughtInv, MailOK

(* The messages of a time when nothing is accepted.                        *)
LEMMA FirstMail ==
  ASSUME AcceptedInv, group.history = <<>>, NEW u \in Users, NEW m \in Mail(u)
  PROVE  m.kind \notin {"commit", "welcome"}
<1>1. Len(group.history) = 0 /\ IsSeq(group.history) /\ Follows(u, m)
  BY DEF AcceptedInv, ServerOK, UserOK
<1>2. m.kind # "commit"
  <2> SUFFICES ASSUME m.kind = "commit" PROVE FALSE
    OBVIOUS
  <2>1. /\ IsSeq(m.commit.base) /\ Len(m.commit.base) \in Nat
        /\ IsPrefix(Append(m.commit.base, m.commit.id), group.history)
    BY <1>1, SeqFacts DEF Follows
  <2>2. IsSeq(Append(m.commit.base, m.commit.id)) /\ Len(Append(m.commit.base, m.commit.id)) = Len(m.commit.base) + 1
    BY <2>1, Appending
  <2>3. Len(Append(m.commit.base, m.commit.id)) <= 0
    BY <1>1, <2>1, <2>2, PrefixIs
  <2> QED
    BY <2>1, <2>2, <2>3
<1>3. m.kind # "welcome"
  <2> SUFFICES ASSUME m.kind = "welcome" PROVE FALSE
    OBVIOUS
  <2>1. IsSeq(m.history) /\ Len(m.history) \in Nat /\ Len(m.history) >= 2 /\ IsPrefix(m.history, group.history)
    BY <1>1, SeqFacts DEF Follows
  <2>2. Len(m.history) <= 0
    BY <1>1, <2>1, PrefixIs
  <2> QED
    BY <2>1, <2>2
<1> QED
  BY <1>2, <1>3

-----------------------------------------------------------------------------
(* The steps that leave the States of members alone.                       *)

LEMMA BeginningCaught ==
  ASSUME CaughtInv, NEW u \in Users, NEW i \in DOMAIN inbox[u], NEW kind \in {"select", "sender"},
         Take(u, i, kind), Only(u, session, session'),
         UNCHANGED <<recovering, group, open, expelled, commits>>
  PROVE  BeforeFirst' /\ (\A v \in Users : MailOK(v)') /\ AllOnTrack'
<1>1. MailOK(u)' /\ Only(u, inbox, inbox') /\ inbox[u][i] \in Mail(u) /\ inbox[u][i].kind = kind
  BY TakenMailOK, TakenMail DEF CaughtInv
<1>2. Apart(u)
  BY <1>1 DEF Apart, Take, CaughtInv, BeforeFirst
<1>3. ASSUME group.history = <<>>, u \notin overtaken', NEW c \in commits', c.from.user = u
      PROVE  Ready(c)'
  <2>1. u \notin overtaken
    BY <1>3 DEF Take
  <2>2. Ready(c)
    BY <1>3, <2>1 DEF CaughtInv, BeforeFirst
  <2> QED
    BY <1>1, <1>3, <2>2 DEF Ready
<1>4. ASSUME u \notin overtaken', NEW l \in LeavesOf(u) \ expelled' PROVE OnTrack(u, l)'
  BY <1>4, AfterHead
<1> QED
  BY <1>1, <1>2, <1>3, <1>4, UserCaught

LEMMA SelectCaught ==
  ASSUME CaughtInv, NEW u \in Users, NEW i \in DOMAIN inbox[u], SelectProtocol(u, i)
  PROVE  BeforeFirst' /\ (\A v \in Users : MailOK(v)') /\ AllOnTrack'
<1>1. Only(u, session, session')
  BY DEF SelectProtocol, PrepareEpoch, CaughtInv, AcceptedInv, TypesOK, Only
<1> QED
  BY <1>1, BeginningCaught DEF SelectProtocol, PrepareEpoch

LEMMA SenderCaught ==
  ASSUME CaughtInv, NEW u \in Users, NEW i \in DOMAIN inbox[u], ExternalSenderPackage(u, i)
  PROVE  BeforeFirst' /\ (\A v \in Users : MailOK(v)') /\ AllOnTrack'
<1>1. Only(u, session, session')
  BY DEF ExternalSenderPackage, CaughtInv, AcceptedInv, TypesOK, Only
<1> QED
  BY <1>1, BeginningCaught DEF ExternalSenderPackage, serverVars

LEMMA PackageFields ==
  ASSUME NEW u, NEW s, SessionOK(u, s), NEW no
  PROVE  LET t == ResetJoinKeyPackage(s, no)
         IN  t.pending = s.pending /\ t.current = s.current /\ t.working = s.working
BY DEF SessionOK, OwnOK, SessionFields, ResetJoinKeyPackage

(* Tasks that reported a failure go on.                                    *)
LEMMA RecoveryCaught ==
  ASSUME CaughtInv, NEW u \in Users, Only(u, session, session'), NEW r \in recovering,
         recovering' = recovering \ {r},
         UNCHANGED <<inbox, overtaken, group, open, expelled, commits>>,
         \/ r = <<u, "epoch">>
         \/ /\ session'[u].pending = session[u].pending
            /\ session'[u].current = session[u].current
            /\ session'[u].working = session[u].working
  PROVE  BeforeFirst' /\ (\A v \in Users : MailOK(v)') /\ AllOnTrack'
<1>1. group.history # <<>>
  BY DEF CaughtInv, BeforeFirst
<1>2. Only(u, inbox, inbox') /\ MailOK(u)'
  BY SameMail DEF CaughtInv, MailOK, Mail
<1>3. Apart(u)
  BY <1>1, <1>2 DEF Apart
<1>4. ASSUME u \notin overtaken', NEW l \in LeavesOf(u) \ expelled' PROVE OnTrack(u, l)'
  <2>1. PICK j, k \in 0 .. Len(inbox[u]) : j <= k /\ TrackFrom(u, l, j, k)
    BY <1>4 DEF CaughtInv, AllOnTrack, OnTrack
  <2>2. CASE r = <<u, "epoch">>
    <3>1. j # 0 /\ k # 0 /\ (k > j => k # 1)
      BY <2>1, <2>2 DEF TrackFrom, IsMember
    <3>2. TrackFrom(u, l, j, k)'
      BY <2>1, <3>1 DEF TrackFrom, Joins, Brings
    <3> QED
      BY <2>1, <3>2 DEF OnTrack
  <2>3. CASE /\ session'[u].pending = session[u].pending
             /\ session'[u].current = session[u].current
             /\ session'[u].working = session[u].working
    <3>1. TrackFrom(u, l, j, k)'
      BY <2>1, <2>3 DEF TrackFrom, Joins, Brings, IsMember, Base
    <3> QED
      BY <2>1, <3>1 DEF OnTrack
  <2> QED
    BY <2>2, <2>3
<1> QED
  BY <1>1, <1>2, <1>3, <1>4, UserCaught

LEMMA PrepareAgainCaught ==
  ASSUME CaughtInv, NEW u \in Users, PrepareEpochAgain(u)
  PROVE  BeforeFirst' /\ (\A v \in Users : MailOK(v)') /\ AllOnTrack'
<1>1. Only(u, session, session')
  BY DEF PrepareEpochAgain, PrepareEpoch, CaughtInv, AcceptedInv, TypesOK, Only
<1> QED
  BY <1>1, RecoveryCaught DEF PrepareEpochAgain

LEMMA KeyPackageCaught ==
  ASSUME CaughtInv, NEW u \in Users, KeyPackageAgain(u)
  PROVE  BeforeFirst' /\ (\A v \in Users : MailOK(v)') /\ AllOnTrack'
<1> DEFINE s == ResetJoinKeyPackage(session[u], made[u] + 1)
<1>1. /\ session' = [session EXCEPT ![u] = s] /\ <<u, "package">> \in recovering
      /\ recovering' = recovering \ {<<u, "package">>}
      /\ UNCHANGED <<inbox, overtaken, group, open, expelled, commits>>
  BY DEF KeyPackageAgain
<1>2. /\ s.pending = session[u].pending /\ s.current = session[u].current
      /\ s.working = session[u].working
  BY OwnSession, PackageFields DEF CaughtInv
<1> HIDE DEF s
<1>3. Only(u, session, session') /\ session'[u] = s
  BY <1>1, OnlySession DEF CaughtInv
<1> QED
  BY <1>1, <1>2, <1>3, RecoveryCaught

LEMMA ConnectCaught ==
  ASSUME CaughtInv, NEW u \in Users, Connect(u)
  PROVE  BeforeFirst' /\ (\A v \in Users : MailOK(v)') /\ AllOnTrack'
<1> DEFINE new == <<[kind |-> "select"], [kind |-> "sender"]>>
<1>1. /\ session' = [session EXCEPT ![u] = NewSession] /\ inbox' = [inbox EXCEPT ![u] = new]
      /\ recovering' \subseteq recovering /\ overtaken' = overtaken \ {u}
      /\ expelled' = expelled \cup LeavesOf(u)
      /\ commits' = {c \in commits : c.from.user # u} /\ UNCHANGED <<group, open>>
  BY DEF Connect, InvalidCommitWelcome
<1>2. inbox'[u] = new /\ Only(u, inbox, inbox') /\ Only(u, session, session')
  BY <1>1 DEF CaughtInv, AcceptedInv, TypesOK, Only
<1>3. MailOK(u)'
  <2>1. DOMAIN new = {1, 2} /\ new[1].kind = "select" /\ new[2].kind = "sender"
    OBVIOUS
  <2> HIDE DEF new
  <2>2. \A m \in Mail(u)' : m = new[1] \/ m = new[2]
    BY <1>2, <2>1 DEF Mail, Range
  <2> QED
    BY <1>2, <2>1, <2>2 DEF MailOK, Kinds
<1>4. Apart(u)
  BY <1>1, <1>2 DEF Apart, CaughtInv, BeforeFirst
<1>5. \A c \in commits' : c.from.user # u
  BY <1>1
<1>6. \A l \in LeavesOf(u) \ expelled' : OnTrack(u, l)'
  BY <1>1
<1> QED
  BY <1>3, <1>4, <1>5, <1>6, UserCaught

-----------------------------------------------------------------------------
(* The steps of a member.                                                  *)

(* Whoever has a group has a working State once it has handled proposals.  *)
LEMMA Worked ==
  ASSUME AcceptedInv, NEW u \in Users, NEW i \in DOMAIN inbox[u], NEW known,
         Proposals(u, i, known), Base(session[u]) # {}
  PROVE  /\ Only(u, session, session') /\ session'[u].working # {}
         /\ Base(session'[u]) = Base(session[u]) /\ session'[u].current = session[u].current
         /\ session'[u].pending = session[u].pending /\ session'[u].leaf = session[u].leaf
         /\ \A c \in commits' :
              c \in commits \/ \E b \in Base(session[u]) : c.from = b.self /\ c.base = b.history
<1> DEFINE m == inbox[u][i]
           s == session[u]
           r == Taken(s, m, known)
           w == CHOOSE x \in r.working : TRUE
           id == [from |-> w.self, no |-> made[u] + 1]
           c == [from |-> w.self, base |-> w.history, proposals |-> w.proposals, id |-> id]
           n == Successor(w, id, w.proposals)
<1>1. WellTaken(u, s, m, r)
  BY TakenMail, OwnSession, TakenOK DEF Proposals, Follows
<1>2. \/ session' = [session EXCEPT ![u] = Committed(s, r, n)] /\ commits' = Arrived(commits \cup {c})
      \/ session' = [session EXCEPT ![u] = Took(s, r)] /\ commits' = commits
  BY DEF Proposals, Took, Committed
<1> HIDE DEF r
<1>3. w \in r.working
  BY <1>1 DEF WellTaken
<1> HIDE DEF w
<1>4. \E b \in Base(s) : c.from = b.self /\ c.base = b.history
  BY <1>1, <1>3 DEF WellTaken
<1> HIDE DEF c, n
<1>5. \A d \in commits' : d \in commits \/ d = c
  BY <1>2 DEF Arrived
<1>6. \/ Only(u, session, session') /\ session'[u] = Committed(s, r, n)
      \/ Only(u, session, session') /\ session'[u] = Took(s, r)
  BY <1>2, OnlySession
<1>7. /\ Only(u, session, session') /\ session'[u].working = r.working
      /\ session'[u].pending = s.pending /\ session'[u].current = s.current
      /\ session'[u].leaf = s.leaf
  <2>1. SessionFields \subseteq DOMAIN s
    BY OwnSession DEF OwnOK
  <2> HIDE DEF s
  <2> QED
    BY <1>6, <2>1 DEF Committed, Took, SessionFields
<1> QED
  BY <1>1, <1>4, <1>5, <1>7 DEF WellTaken, Base

LEMMA ProposalsCaught ==
  ASSUME CaughtInv, NEW u \in Users, NEW i \in DOMAIN inbox[u], NEW known, Proposals(u, i, known)
  PROVE  BeforeFirst' /\ (\A v \in Users : MailOK(v)') /\ AllOnTrack'
<1>1. /\ Take(u, i, "proposals") /\ UNCHANGED <<recovering, group, open, expelled>>
      /\ Base(session[u]) = {} => UNCHANGED <<session, commits>>
  BY DEF Proposals
<1>2. MailOK(u)' /\ Only(u, inbox, inbox') /\ Mail(u)' \subseteq Mail(u)
  BY <1>1, TakenMailOK
<1>3. Only(u, session, session')
  BY <1>1, Worked DEF CaughtInv, AcceptedInv, TypesOK, Only
<1>4. \A c \in commits' : c \in commits \/ \E b \in Base(session[u]) : c.from = b.self
  BY <1>1, Worked DEF CaughtInv
<1>5. \A c \in commits' : c \in commits \/ c.from.user = u
  BY <1>4, OwnSession, BaseOK DEF StateOK, CaughtInv
<1>6. Apart(u)
  BY <1>1, <1>2, <1>3, <1>5 DEF Apart, Take, CaughtInv, BeforeFirst
<1>7. ASSUME group.history = <<>>, u \notin overtaken', NEW c \in commits', c.from.user = u
      PROVE  Ready(c)'
  <2>1. u \notin overtaken /\ i = 1 /\ inbox[u][1].kind = "proposals" /\ HeadGone(u)
    <3>1. AcceptedInv /\ Take(u, i, "proposals") /\ group' = group /\ open' = open
      BY <1>1 DEF CaughtInv
    <3>2. u \notin overtaken'
      BY <1>7
    <3> DEFINE kind == "proposals"
    <3>3. Take(u, i, kind)
      BY <3>1
    <3> HIDE DEF kind
    <3>4. u \notin overtaken /\ i = 1 /\ inbox[u][1].kind = kind /\ HeadGone(u)
      BY <3>1, <3>2, <3>3, InOrder
    <3> QED
      BY <3>4 DEF kind
  <2>2. \E b \in Base(session[u]) : b.self = c.from
    BY <1>4, <1>7, <2>1 DEF CaughtInv, BeforeFirst, Ready
  <2>3. session'[u].working # {} /\ Base(session'[u]) = Base(session[u])
    BY <2>2, Worked DEF CaughtInv
  <2>4. \A m \in Mail(u)' : m.kind \notin {"select", "sender"}
    <3>1. DOMAIN inbox[u] = 1 .. Len(inbox[u])
      BY InboxIs DEF CaughtInv
    <3>2. IsSeq(inbox'[u])
      BY <1>1, TakenMail DEF CaughtInv
    <3>3. ASSUME NEW a \in DOMAIN inbox'[u] PROVE inbox'[u][a].kind \notin {"select", "sender"}
      <4>1. a \in 1 .. Len(inbox[u]) - 1
        BY <2>1, <3>2, SeqFacts DEF HeadGone
      <4>2. 1 \in DOMAIN inbox[u] /\ a + 1 \in DOMAIN inbox[u] /\ 1 < a + 1
            /\ inbox'[u][a] = inbox[u][a + 1]
        BY <2>1, <3>1, <4>1 DEF HeadGone
      <4> QED
        BY <2>1, <4>2 DEF CaughtInv, MailOK
    <3> QED
      BY <3>3 DEF Mail, Range
  <2> QED
    BY <1>7, <2>2, <2>3, <2>4 DEF Ready
<1>8. ASSUME u \notin overtaken', NEW l \in LeavesOf(u) \ expelled' PROVE OnTrack(u, l)'
  <2>1. HeadGone(u) /\ inbox[u][1].kind = "proposals"
    BY <1>1, <1>8, AfterHead
  <2>2. ASSUME NEW k \in 0 .. Len(inbox[u]), TrackFrom(u, l, 0, k) PROVE OnTrack(u, l)'
    <3>1. (\E b \in Base(session[u]) : b.self = l) /\ <<u, "epoch">> \notin recovering
      BY <2>2 DEF TrackFrom, IsMember
    <3>2. /\ session'[u].working # {} /\ Base(session'[u]) = Base(session[u])
          /\ session'[u].current = session[u].current
      BY <3>1, Worked DEF CaughtInv
    <3>3. IsMember(u, l)'
      BY <1>1, <3>1, <3>2 DEF IsMember
    <3>4. CASE k = 0
      BY <2>1, <2>2, <3>2, <3>3, <3>4, TrackStays
    <3>5. CASE k = 1
      BY <2>1, <2>2, <3>5 DEF TrackFrom, Brings
    <3>6. CASE k >= 2
      <4>1. k - 1 \in Nat /\ k - 1 # 0 /\ 0 \in Nat /\ 0 \in 0 .. Len(inbox[u]) /\ 0 <= k
        BY <2>1, <3>6 DEF HeadGone
      <4> DEFINE n == k - 1
      <4>2. n \in Nat /\ n = k - 1 /\ n # 0
        BY <4>1
      <4> HIDE DEF n
      <4> QED
        BY <2>1, <2>2, <3>2, <3>3, <3>6, <4>1, <4>2, TrackShifted
    <3> QED
      BY <3>4, <3>5, <3>6
  <2>3. l \in LeavesOf(u) \ expelled /\ group' = group /\ open' = open /\ Take(u, i, "proposals")
    BY <1>1, <1>8
  <2>4. OnTrack(u, l)' \/ \E k \in 0 .. Len(inbox[u]) : TrackFrom(u, l, 0, k)
    <3> DEFINE kind == "proposals"
    <3>1. Take(u, i, kind) /\ kind # "welcome"
      BY <2>3
    <3> HIDE DEF kind
    <3>2. \/ OnTrack(u, l)'
          \/ \E k \in 0 .. Len(inbox[u]) : TrackFrom(u, l, 0, k)
          \/ kind = "welcome"
      BY <1>8, <2>3, <3>1, AfterHead
    <3> QED
      BY <3>1, <3>2
  <2> QED
    BY <2>2, <2>4
<1> QED
  BY <1>2, <1>6, <1>7, <1>8, UserCaught

(* Who follows a commit stays the same leaf.                               *)
LEMMA CommitFollowed ==
  ASSUME AcceptedInv, NEW u \in Users, NEW m \in Mail(u), m.kind = "commit",
         NEW n \in ProcessedCommit(session[u], m.commit),
         NEW l, IsMember(u, l)
  PROVE  \E x : /\ n.current = {x} /\ Base(n) = {x} /\ x.self = l
                /\ x.history = Append(m.commit.base, m.commit.id)
<1> DEFINE s == session[u]
           c == m.commit
<1>0. PICK x \in UNION {HandleCommit(w, c, s.cached) : w \in s.working} :
        n = [ClearPendingState(ReplaceState(s, x)) EXCEPT !.cached = {}]
  BY DEF ProcessedCommit
<1>1. PICK w \in s.working : x \in HandleCommit(w, c, s.cached)
  BY <1>0
<1>2. StateOK(u, w) /\ (\A y \in s.cached : StateOK(u, y)) /\ \E b \in Base(s) : w.self = b.self
  BY OwnSession DEF SessionOK, WorkingOK, OwnOK
<1>3. \A y \in s.cached : y.self = c.from /\ Len(y.history) = Len(c.base) + 1
                          => y.history = Append(c.base, c.id)
  BY DEF AcceptedInv, UserOK, CachedAccepted
<1>4. StateOK(u, x) /\ x.history = Append(c.base, c.id)
  BY <1>1, <1>2, <1>3, HandledCommit
<1>5. w.self = l
  BY <1>2, OwnSession, BaseOK DEF AtMostOne, IsMember
<1>6. x.self = w.self
  <2>1. CASE c.from = w.self
    BY <1>1, <2>1 DEF HandleCommit
  <2>2. CASE c.from # w.self
    <3>1. x = Successor(w, c.id, c.proposals)
      BY <1>1, <2>2 DEF HandleCommit
    <3> QED
      BY <1>2, <3>1, SuccessorOK
  <2> QED
    BY <2>1, <2>2
<1>7. n.current = {x} /\ n.pending = {}
  <2>1. SessionFields \subseteq DOMAIN s
    BY OwnSession DEF OwnOK
  <2> HIDE DEF s
  <2> QED
    BY <1>0, <2>1 DEF ClearPendingState, ReplaceState, SessionFields
<1> QED
  BY <1>4, <1>5, <1>6, <1>7 DEF Base

LEMMA CommitCaught ==
  ASSUME CaughtInv, NEW u \in Users, NEW i \in DOMAIN inbox[u], PrepareCommitTransition(u, i)
  PROVE  BeforeFirst' /\ (\A v \in Users : MailOK(v)') /\ AllOnTrack'
<1> DEFINE s == session[u]
           m == inbox[u][i]
           next == ProcessedCommit(s, m.commit)
           n == CHOOSE x \in next : TRUE
<1>1. /\ Take(u, i, "commit") /\ UNCHANGED <<group, open, commits>>
      /\ \/ ~CanProcessCommit(s) /\ UNCHANGED <<session, recovering, packages, expelled>>
         \/ /\ CanProcessCommit(s) /\ next # {} /\ session' = [session EXCEPT ![u] = n]
            /\ UNCHANGED <<recovering, packages, expelled>>
         \/ /\ CanProcessCommit(s) /\ next = {} /\ recovering' = recovering \cup {<<u, "epoch">>}
            /\ InvalidCommitWelcome(u) /\ UNCHANGED session
  BY DEF PrepareCommitTransition
<1>2. m \in Mail(u) /\ m.kind = "commit"
  BY <1>1, TakenMail DEF CaughtInv
<1> HIDE DEF m, next, n
<1>3. MailOK(u)' /\ Only(u, inbox, inbox')
  BY <1>1, TakenMailOK
<1>4. Only(u, session, session')
  BY <1>1 DEF CaughtInv, AcceptedInv, TypesOK, Only
<1>5. group.history # <<>>
  BY <1>2, FirstMail DEF CaughtInv
<1>6. /\ \A v \in Users \ {u} : <<v, "epoch">> \in recovering' => <<v, "epoch">> \in recovering
      /\ expelled \subseteq expelled'
  BY <1>1 DEF InvalidCommitWelcome
<1>7. Apart(u)
  BY <1>1, <1>3, <1>4, <1>5, <1>6 DEF Apart, Take
<1>8. ASSUME u \notin overtaken', NEW l \in LeavesOf(u) \ expelled' PROVE OnTrack(u, l)'
  <2>1. l \in LeavesOf(u) \ expelled /\ group' = group /\ open' = open /\ Take(u, i, "commit")
    BY <1>1, <1>6, <1>8
  <2>2. HeadGone(u) /\ inbox[u][1].kind = "commit"
    BY <1>8, <2>1, AfterHead
  <2>3. \/ UNCHANGED <<session, recovering>> /\ s.working = {}
        \/ next # {} /\ session' = [session EXCEPT ![u] = n] /\ UNCHANGED recovering
    BY <1>1, <1>8 DEF CanProcessCommit, InvalidCommitWelcome
  <2>4. ASSUME NEW k \in 0 .. Len(inbox[u]), TrackFrom(u, l, 0, k) PROVE OnTrack(u, l)'
    <3>1. (\E b \in Base(s) : b.self = l) /\ <<u, "epoch">> \notin recovering
      BY <2>4 DEF TrackFrom, IsMember
    <3>2. k # 0
      <4>1. 1 \in 0 + 1 .. Len(inbox[u])
        BY <2>2 DEF HeadGone
      <4> QED
        BY <2>2, <2>4, <4>1 DEF TrackFrom
    <3>3. k # 2 /\ (k = 1 => s.working # {} /\ Brings(inbox[u][1]))
      BY <2>2, <2>4 DEF TrackFrom
    <3>4. /\ IsMember(u, l)'
          /\ k = 1 => \E x \in session'[u].current : x.history = group'.history /\ x.self = l
      <4>1. CASE UNCHANGED <<session, recovering>> /\ s.working = {}
        BY <3>1, <3>3, <4>1 DEF IsMember, Base
      <4>2. CASE next # {} /\ session' = [session EXCEPT ![u] = n] /\ UNCHANGED recovering
        <5>1. n \in next /\ session'[u] = n
          BY <4>2, OnlySession DEF n, CaughtInv
        <5>2. PICK x : /\ n.current = {x} /\ Base(n) = {x} /\ x.self = l
                       /\ x.history = Append(m.commit.base, m.commit.id)
          <6>1. AcceptedInv /\ n \in ProcessedCommit(session[u], m.commit)
            BY <5>1 DEF CaughtInv, next
          <6>2. IsMember(u, l)
            BY <2>4 DEF TrackFrom
          <6> QED
            BY <1>2, <6>1, <6>2, CommitFollowed
        <5>3. i = 1 /\ m = inbox[u][1]
          BY <1>8, <2>1 DEF Take, InItsTurn, m
        <5>4. k = 1 => x.history = group'.history
          BY <1>1, <1>2, <3>3, <5>2, <5>3 DEF Brings
        <5> QED
          BY <3>1, <4>2, <5>1, <5>2, <5>4 DEF IsMember, Base
      <4> QED
        BY <2>3, <4>1, <4>2
    <3> DEFINE p == k - 1
    <3>5. p \in Nat /\ p = k - 1 /\ p # 1 /\ (p = 0 => k = 1) /\ k >= 1 /\ 0 <= k /\ 0 \in Nat
          /\ 0 \in 0 .. Len(inbox[u])
      BY <2>2, <3>2, <3>3 DEF HeadGone
    <3> HIDE DEF p
    <3> QED
      BY <2>2, <2>4, <3>4, <3>5, TrackShifted
  <2>5. OnTrack(u, l)' \/ \E k \in 0 .. Len(inbox[u]) : TrackFrom(u, l, 0, k)
    <3> DEFINE kind == "commit"
    <3>1. Take(u, i, kind) /\ kind # "welcome"
      BY <2>1
    <3> HIDE DEF kind
    <3>2. \/ OnTrack(u, l)'
          \/ \E k \in 0 .. Len(inbox[u]) : TrackFrom(u, l, 0, k)
          \/ kind = "welcome"
      BY <1>8, <2>1, <3>1, AfterHead
    <3> QED
      BY <3>1, <3>2
  <2> QED
    BY <2>4, <2>5
<1> QED
  BY <1>3, <1>5, <1>7, <1>8, UserCaught

(* Who takes a welcome is the leaf of the roster it belongs to.            *)
LEMMA WelcomeFollowed ==
  ASSUME AcceptedInv, NEW u \in Users, NEW m,
         NEW n \in ProcessedWelcome(session[u], m), NEW l \in LeavesOf(u), Joins(m, l)
  PROVE  \E x : /\ n.current = {x} /\ Base(n) = {x} /\ x.self = l /\ x.history = m.history
<1> DEFINE s == session[u]
           X(p) == [history |-> m.history, self |-> p.leaf, roster |-> m.roster, proposals |-> <<>>]
<1>1. PICK p \in s.package : /\ n = ClearPendingState(ReplaceState(s, X(p)))
                             /\ p \in m.packages /\ OneLeafEach(m.roster)
  BY DEF ProcessedWelcome
<1>2. SessionFields \subseteq DOMAIN s /\ p.leaf.user = u
  BY OwnSession DEF OwnOK
<1>3. p.leaf = l
  BY <1>1, <1>2 DEF Joins, OneLeafEach, LeavesOf
<1> HIDE DEF s
<1>4. n.current = {X(p)} /\ n.pending = {}
  BY <1>1, <1>2 DEF ClearPendingState, ReplaceState, SessionFields
<1>5. X(p).self = l /\ X(p).history = m.history
  BY <1>3
<1> HIDE DEF X
<1> QED
  BY <1>4, <1>5 DEF Base

LEMMA WelcomeCaught ==
  ASSUME CaughtInv, NEW u \in Users, NEW i \in DOMAIN inbox[u], Welcome(u, i)
  PROVE  BeforeFirst' /\ (\A v \in Users : MailOK(v)') /\ AllOnTrack'
<1> DEFINE m == inbox[u][i]
           next == ProcessedWelcome(session[u], m)
           n == CHOOSE x \in next : TRUE
<1>1. /\ Take(u, i, "welcome") /\ UNCHANGED <<group, open, commits>>
      /\ \/ /\ next # {} /\ session' = [session EXCEPT ![u] = n]
            /\ UNCHANGED <<recovering, packages, expelled>>
         \/ /\ next = {} /\ recovering' = recovering \cup {<<u, "package">>}
            /\ InvalidCommitWelcome(u) /\ UNCHANGED session
  BY DEF Welcome
<1>2. m \in Mail(u) /\ m.kind = "welcome"
  BY <1>1, TakenMail DEF CaughtInv
<1> HIDE DEF m, next, n
<1>3. MailOK(u)' /\ Only(u, inbox, inbox')
  BY <1>1, TakenMailOK
<1>4. Only(u, session, session')
  BY <1>1 DEF CaughtInv, AcceptedInv, TypesOK, Only
<1>5. group.history # <<>>
  BY <1>2, FirstMail DEF CaughtInv
<1>6. /\ \A v \in Users \ {u} : <<v, "epoch">> \in recovering' => <<v, "epoch">> \in recovering
      /\ expelled \subseteq expelled'
  BY <1>1 DEF InvalidCommitWelcome
<1>7. Apart(u)
  BY <1>1, <1>3, <1>4, <1>5, <1>6 DEF Apart, Take
<1>8. ASSUME u \notin overtaken', NEW l \in LeavesOf(u) \ expelled' PROVE OnTrack(u, l)'
  <2>1. l \in LeavesOf(u) \ expelled /\ group' = group /\ open' = open /\ Take(u, i, "welcome")
    BY <1>1, <1>6, <1>8
  <2>2. HeadGone(u) /\ inbox[u][1].kind = "welcome" /\ <<u, "epoch">> \notin recovering
    BY <1>8, <2>1, AfterHead
  <2>3. next # {} /\ session' = [session EXCEPT ![u] = n] /\ UNCHANGED recovering
    BY <1>1, <1>8 DEF InvalidCommitWelcome
  <2>4. n \in next /\ session'[u] = n
    BY <2>3, OnlySession DEF n, CaughtInv
  <2>5. i = 1 /\ m = inbox[u][1]
    BY <1>8, <2>1 DEF Take, InItsTurn, m
  <2>6. ASSUME NEW k \in 1 .. Len(inbox[u]), TrackFrom(u, l, 1, k) PROVE OnTrack(u, l)'
    <3>1. Joins(m, l)
      BY <2>5, <2>6 DEF TrackFrom
    <3>2. PICK x : n.current = {x} /\ Base(n) = {x} /\ x.self = l /\ x.history = m.history
      <4>1. AcceptedInv /\ n \in ProcessedWelcome(session[u], m) /\ l \in LeavesOf(u)
        BY <2>1, <2>4 DEF CaughtInv, next
      <4> QED
        BY <3>1, <4>1, WelcomeFollowed
    <3>3. IsMember(u, l)'
      BY <2>2, <2>3, <2>4, <3>2 DEF IsMember, Base
    <3>4. k = 1 => \E y \in session'[u].current : y.history = group'.history /\ y.self = l
      BY <1>2, <2>1, <2>4, <2>5, <2>6, <3>2 DEF TrackFrom, Brings
    <3> DEFINE q == k - 1
               j == 1
    <3>5. /\ q \in Nat /\ q = k - 1 /\ (q = 0 => k = 1) /\ k >= 1 /\ k \in 0 .. Len(inbox[u])
          /\ j \in 0 .. Len(inbox[u]) /\ j <= k /\ j # 0 /\ 0 \in Nat
          /\ 0 = (IF j = 0 THEN 0 ELSE j - 1) /\ TrackFrom(u, l, j, k)
      BY <2>2, <2>6 DEF HeadGone
    <3> HIDE DEF q, j
    <3> QED
      BY <2>2, <3>3, <3>4, <3>5, TrackShifted
  <2>7. OnTrack(u, l)' \/ \E k \in 1 .. Len(inbox[u]) : TrackFrom(u, l, 1, k)
    <3> DEFINE kind == "welcome"
    <3>1. Take(u, i, kind) /\ kind \notin {"proposals", "commit"}
      BY <2>1
    <3> HIDE DEF kind
    <3>2. \/ OnTrack(u, l)'
          \/ \E k \in 1 .. Len(inbox[u]) : TrackFrom(u, l, 1, k)
          \/ kind \in {"proposals", "commit"}
      BY <1>8, <2>1, <3>1, AfterHead
    <3> QED
      BY <3>1, <3>2
  <2> QED
    BY <2>6, <2>7
<1> QED
  BY <1>3, <1>5, <1>7, <1>8, UserCaught

-----------------------------------------------------------------------------
(* The steps of the server.                                                *)

LEMMA MailSent ==
  ASSUME CaughtInv, NEW message, Send(message),
         \A v \in DOMAIN message : message[v].kind \in Spoken, NEW v \in Users
  PROVE  MailOK(v)'
<1>1. CASE v \notin DOMAIN message
  <2>1. inbox'[v] = inbox[v]
    BY <1>1 DEF Send
  <2> QED
    BY <2>1 DEF CaughtInv, MailOK, Mail
<1>2. CASE v \in DOMAIN message
  <2>1. inbox'[v] = Append(inbox[v], message[v]) /\ message[v].kind \in Spoken
    BY <1>2 DEF Send
  <2>2. /\ Len(inbox[v]) \in Nat /\ DOMAIN inbox[v] = 1 .. Len(inbox[v])
        /\ DOMAIN inbox'[v] = 1 .. Len(inbox[v]) + 1 /\ inbox'[v][Len(inbox[v]) + 1] = message[v]
        /\ \A a \in 1 .. Len(inbox[v]) : inbox'[v][a] = inbox[v][a]
        /\ Mail(v)' = Mail(v) \cup {message[v]}
    <3>1. IsSeq(inbox[v]) /\ IsSeq(inbox'[v]) /\ Len(inbox'[v]) = Len(inbox[v]) + 1
      BY <2>1, InboxIs, Appending DEF CaughtInv
    <3>2. Range(Append(inbox[v], message[v])) = Range(inbox[v]) \cup {message[v]}
      BY <3>1, Appending
    <3> QED
      BY <2>1, <3>1, <3>2, AppendedIs, SeqFacts DEF Mail
  <2>3. \A m \in Mail(v)' : m.kind \in Kinds
    BY <2>1, <2>2 DEF CaughtInv, MailOK, Kinds, Spoken
  <2>4. ASSUME NEW a \in DOMAIN inbox'[v], NEW b \in DOMAIN inbox'[v], a < b,
               inbox'[v][a].kind = "proposals"
        PROVE  inbox'[v][b].kind \notin {"select", "sender"}
    <3>1. CASE b = Len(inbox[v]) + 1
      BY <2>1, <2>2, <3>1 DEF Spoken
    <3>2. CASE b # Len(inbox[v]) + 1
      <4>1. a \in DOMAIN inbox[v] /\ b \in DOMAIN inbox[v]
        BY <2>2, <2>4, <3>2
      <4>2. inbox'[v][a] = inbox[v][a] /\ inbox'[v][b] = inbox[v][b]
        BY <2>2, <4>1
      <4> QED
        BY <2>4, <4>1, <4>2 DEF CaughtInv, MailOK
    <3> QED
      BY <3>1, <3>2
  <2> QED
    BY <2>3, <2>4 DEF MailOK
<1> QED
  BY <1>1, <1>2

LEMMA ProposalsSentCaught ==
  ASSUME CaughtInv, NEW message, Send(message),
         UNCHANGED <<session, recovering, overtaken, group, expelled, commits>>,
         \A v \in DOMAIN message : message[v].kind = "proposals",
         open' \subseteq open \/ (group.history # <<>> => Members \subseteq DOMAIN message)
  PROVE  BeforeFirst' /\ (\A v \in Users : MailOK(v)') /\ AllOnTrack'
<1>1. \A v \in Users : MailOK(v)'
  BY MailSent DEF Spoken
<1>2. BeforeFirst'
  <2> SUFFICES ASSUME group.history = <<>>, NEW c \in commits, c.from.user \notin overtaken
               PROVE  Ready(c)'
    BY DEF BeforeFirst, CaughtInv
  <2>1. Ready(c) /\ c.from.user \in Users
    BY DEF BeforeFirst, CaughtInv, AcceptedInv, ServerOK, CommitOK
  <2>2. \A m \in Mail(c.from.user)' : m \in Mail(c.from.user) \/ m.kind = "proposals"
    BY <2>1, Sent DEF CaughtInv
  <2> QED
    BY <2>1, <2>2 DEF Ready, Base
<1>3. ASSUME NEW u \in Users \ overtaken, NEW l \in LeavesOf(u) \ expelled PROVE OnTrack(u, l)'
  <2>1. OnTrack(u, l)
    BY DEF CaughtInv, AllOnTrack
  <2>2. CASE u \in DOMAIN message
    <3>1. inbox'[u] = Append(inbox[u], message[u])
      BY <2>2 DEF Send
    <3> QED
      BY <2>1, <2>2, <3>1, TrackSent DEF CaughtInv
  <2>3. CASE u \notin DOMAIN message
    <3>1. inbox'[u] = inbox[u]
      BY <2>3 DEF Send
    <3>2. group.history # <<>> /\ u \in Members
      BY DEF CaughtInv, BeforeFirst, LeavesOf, Members
    <3> QED
      BY <2>1, <2>3, <3>1, <3>2, TrackUndisturbed
  <2> QED
    BY <2>2, <2>3
<1>4. AllOnTrack'
  BY <1>3 DEF AllOnTrack, LeavesOf
<1> QED
  BY <1>1, <1>2, <1>4

LEMMA ProposeCaught ==
  ASSUME CaughtInv, NEW batch \in Batches(Wanted \ open), Propose(batch)
  PROVE  BeforeFirst' /\ (\A v \in Users : MailOK(v)') /\ AllOnTrack'
<1> DEFINE message == [u \in {m \in Members : For(m, batch) # <<>>} |->
             [kind |-> "proposals", revoke |-> FALSE, proposals |-> For(u, batch)]]
<1>1. Send(message) /\ UNCHANGED <<session, recovering, overtaken, group, expelled, commits>>
  BY DEF Propose
<1>2. \A v \in DOMAIN message : message[v].kind = "proposals"
  OBVIOUS
<1>3. group.history # <<>> => Members \subseteq DOMAIN message
  <2>1. batch # <<>>
    BY DEF Batches
  <2> QED
    BY <2>1 DEF For, Concerns
<1> HIDE DEF message
<1> QED
  BY <1>1, <1>2, <1>3, ProposalsSentCaught

LEMMA RevokeCaught ==
  ASSUME CaughtInv, NEW p \in open, Revoke(p)
  PROVE  BeforeFirst' /\ (\A v \in Users : MailOK(v)') /\ AllOnTrack'
<1> DEFINE message == [u \in {m \in Members : Concerns(m, p)} |->
             [kind |-> "proposals", revoke |-> TRUE, proposals |-> <<p>>]]
<1>1. /\ Send(message) /\ open' \subseteq open
      /\ UNCHANGED <<session, recovering, overtaken, group, expelled, commits>>
  BY DEF Revoke
<1>2. \A v \in DOMAIN message : message[v].kind = "proposals"
  OBVIOUS
<1> HIDE DEF message
<1> QED
  BY <1>1, <1>2, ProposalsSentCaught

(* The commit of the epoch is sent to who is behind or about to be.        *)
LEMMA CommitSent ==
  ASSUME AcceptedInv, NEW u \in Users, NEW l, NEW m, m.kind = "commit",
         Append(m.commit.base, m.commit.id) = group'.history,
         inbox'[u] = Append(inbox[u], m), UNCHANGED <<session, recovering>>, open' = {},
         NEW j \in 0 .. Len(inbox[u]),
         IF j = 0 THEN IsMember(u, l) ELSE Joins(inbox[u][j], l),
         \A i \in j + 1 .. Len(inbox[u]) : inbox[u][i].kind \in {"proposals", "commit"},
         \/ Len(inbox[u]) > j /\ inbox[u][Len(inbox[u])].kind = "proposals"
         \/ Len(inbox[u]) = 0 /\ session[u].working # {}
  PROVE  OnTrack(u, l)'
<1>0. PICK k : k = Len(inbox[u]) + 1
  OBVIOUS
<1>1. /\ Len(inbox[u]) \in Nat /\ Len(inbox'[u]) = k /\ inbox'[u][k] = m
      /\ \A a \in 1 .. Len(inbox[u]) : inbox'[u][a] = inbox[u][a]
  BY <1>0, InboxIs, AppendedIs
<1>2. /\ k \in 0 .. Len(inbox'[u]) /\ j \in 0 .. Len(inbox'[u]) /\ j <= k /\ k # 0
      /\ k - 1 = Len(inbox[u])
  BY <1>0, <1>1
<1>3. IF j = 0 THEN IsMember(u, l)' ELSE Joins(inbox'[u][j], l)
  <2>1. j = 0 \/ inbox'[u][j] = inbox[u][j]
    BY <1>1
  <2> QED
    BY <2>1 DEF IsMember, Base
<1>4. \A i \in j + 1 .. Len(inbox'[u]) : inbox'[u][i].kind \in {"proposals", "commit"}
  <2> TAKE i \in j + 1 .. Len(inbox'[u])
  <2>1. CASE i = k
    BY <1>1, <2>1
  <2>2. CASE i # k
    <3>1. i \in 1 .. Len(inbox[u]) /\ i \in j + 1 .. Len(inbox[u])
      BY <1>0, <1>1, <2>2
    <3> QED
      BY <1>1, <3>1
  <2> QED
    BY <2>1, <2>2
<1>5. \A i \in k + 1 .. Len(inbox'[u]) : inbox'[u][i].kind = "proposals"
  BY <1>0, <1>1
<1>6. Brings(inbox[u][k])'
  BY <1>1 DEF Brings
<1>7. k > j => \/ k - 1 > j /\ inbox'[u][k - 1].kind = "proposals"
               \/ k = 1 /\ session'[u].working # {}
  BY <1>1, <1>2
<1>8. TrackFrom(u, l, j, k)'
  BY <1>2, <1>3, <1>4, <1>5, <1>6, <1>7 DEF TrackFrom
<1> QED
  BY <1>2, <1>8 DEF OnTrack

(* A welcome is the last message of who is to join.                        *)
LEMMA WelcomeSent ==
  ASSUME AcceptedInv, NEW u \in Users, NEW l, NEW m, Joins(m, l), m.history = group'.history,
         inbox'[u] = Append(inbox[u], m), open' = {}
  PROVE  OnTrack(u, l)'
<1>0. PICK k : k = Len(inbox[u]) + 1
  OBVIOUS
<1>1. k \in 1 .. Len(inbox'[u]) /\ Len(inbox'[u]) = k /\ inbox'[u][k] = m
  BY <1>0, InboxIs, AppendedIs
<1>2. TrackFrom(u, l, k, k)'
  <2>1. Joins(inbox'[u][k], l) /\ k # 0
    BY <1>1
  <2>2. Brings(inbox[u][k])'
    BY <1>1 DEF Brings, Joins
  <2> QED
    BY <1>1, <2>1, <2>2 DEF TrackFrom
<1>3. k \in 0 .. Len(inbox'[u]) /\ k <= k
  BY <1>1
<1> QED
  BY <1>2, <1>3 DEF OnTrack

(* Nothing is on its way to who sends the first commit.                    *)
LEMMA FirstCommitter ==
  ASSUME CaughtInv, group.history = <<>>, NEW c \in commits, LastOfItsSender(c),
         c.from.user \notin overtaken
  PROVE  /\ Len(inbox[c.from.user]) = 0 /\ session[c.from.user].working # {}
         /\ IsMember(c.from.user, c.from)
<1> DEFINE u == c.from.user
<1>1. Ready(c) /\ u \in Users /\ recovering = {}
  BY DEF CaughtInv, BeforeFirst, AcceptedInv, ServerOK, CommitOK
<1>2. Len(inbox[u]) \in Nat /\ DOMAIN inbox[u] = 1 .. Len(inbox[u])
  BY <1>1, InboxIs DEF CaughtInv
<1>3. ASSUME Len(inbox[u]) # 0 PROVE FALSE
  <2>1. 1 \in DOMAIN inbox[u] /\ inbox[u][1] \in Mail(u)
    BY <1>1, <1>2, <1>3, InboxIs DEF CaughtInv
  <2>2. inbox[u][1].kind \in Kinds
    BY <1>1, <2>1 DEF CaughtInv, MailOK
  <2>3. inbox[u][1].kind # "proposals"
    BY <2>1 DEF LastOfItsSender
  <2>4. inbox[u][1].kind \notin {"select", "sender"}
    BY <1>1, <2>1 DEF Ready
  <2>5. inbox[u][1].kind \notin {"commit", "welcome"}
    BY <1>1, <2>1, FirstMail DEF CaughtInv
  <2> QED
    BY <2>2, <2>3, <2>4, <2>5 DEF Kinds
<1> QED
  BY <1>1, <1>3 DEF Ready, IsMember

LEMMA AcceptCaught ==
  ASSUME ~AcceptEarlier, CaughtInv, NEW c \in commits, Accept(c)
  PROVE  BeforeFirst' /\ (\A v \in Users : MailOK(v)') /\ AllOnTrack'
<1> DEFINE s == [history |-> c.base, self |-> c.from, proposals |-> <<>>,
                 roster |-> IF group.history = <<>> THEN {c.from} ELSE group.roster]
           next == Successor(s, c.id, c.proposals)
           removed == Leaves(c.proposals, "remove")
           adds == {p \in Range(c.proposals) : p.op = "add"}
           added == {p.leaf.user : p \in adds}
           message == [u \in {l.user : l \in s.roster \ removed} \cup added |->
             IF u \in added
             THEN [kind |-> "welcome", history |-> next.history, roster |-> next.roster,
                   packages |-> {[leaf |-> p.leaf, no |-> p.no] : p \in adds}]
             ELSE [kind |-> "commit", commit |-> c]]
<1>1. /\ Send(message) /\ group' = [history |-> next.history, roster |-> next.roster]
      /\ open' = {} /\ open # {} /\ expelled' = expelled \ removed
      /\ UNCHANGED <<session, recovering, overtaken>> /\ LastOfItsSender(c)
  BY DEF Accept
<1>2. /\ group'.history = Append(c.base, c.id)
      /\ group'.roster = (s.roster \ removed) \cup {p.leaf : p \in adds}
  <2>1. next.history = Append(c.base, c.id)
    BY DEF Successor
  <2>2. next.roster = (s.roster \ removed) \cup {p.leaf : p \in adds}
    BY DEF Successor, Leaves
  <2> HIDE DEF next
  <2> QED
    BY <1>1, <2>1, <2>2
<1>3. ASSUME NEW v \in DOMAIN message
      PROVE  /\ message[v].kind \in Spoken
             /\ v \notin added => message[v].kind = "commit" /\ message[v].commit = c
             /\ v \in added => /\ message[v].kind = "welcome"
                               /\ message[v].history = group'.history
                               /\ \A l \in group'.roster : Joins(message[v], l)
  <2>1. CASE v \in added
    <3>1. message[v] = [kind |-> "welcome", history |-> next.history, roster |-> next.roster,
                        packages |-> {[leaf |-> p.leaf, no |-> p.no] : p \in adds}]
      BY <2>1
    <3> HIDE DEF message, next, added
    <3>2. group'.history = next.history /\ group'.roster = next.roster
      BY <1>1
    <3>3. \A p \in message[v].packages : p.leaf \in group'.roster
      BY <1>2, <3>1
    <3> HIDE DEF adds
    <3>4. message[v].kind = "welcome" /\ message[v].roster = group'.roster
          /\ message[v].history = group'.history
      BY <3>1, <3>2
    <3> QED
      BY <2>1, <3>3, <3>4 DEF Joins, Spoken
  <2>2. CASE v \notin added
    BY <2>2 DEF Spoken
  <2> QED
    BY <2>1, <2>2
<1>4. /\ \A p \in adds : p.leaf.user \in added
      /\ \A v : v \in DOMAIN message <=> v \in added \/ \E l \in s.roster \ removed : l.user = v
  OBVIOUS
<1>5. s.roster = IF group.history = <<>> THEN {c.from} ELSE group.roster
  OBVIOUS
<1> HIDE DEF message, next, s, adds, added
<1>6. CommitOK(c)
  BY DEF CaughtInv, AcceptedInv, ServerOK
<1>7. BeforeFirst'
  <2>1. Len(group'.history) = Len(c.base) + 1 /\ Len(c.base) \in Nat
    BY <1>2, <1>6, Appending, SeqFacts DEF CommitOK
  <2>2. group'.history # <<>>
    BY <2>1
  <2> QED
    BY <2>2 DEF BeforeFirst
<1>8. \A v \in Users : MailOK(v)'
  BY <1>1, <1>3, MailSent
<1>9. ASSUME NEW u \in Users, u \notin overtaken, NEW l \in group'.roster, l.user = u,
             l \notin expelled'
      PROVE  OnTrack(u, l)'
  <2>1. CASE u \in added
    <3>1. u \in DOMAIN message
      BY <1>4, <2>1
    <3>2. inbox'[u] = Append(inbox[u], message[u])
      BY <1>1, <3>1 DEF Send
    <3> QED
      BY <1>1, <1>3, <1>9, <2>1, <3>1, <3>2, WelcomeSent DEF CaughtInv
  <2>2. CASE u \notin added
    <3>1. l \in s.roster \ removed /\ u \in DOMAIN message
      BY <1>2, <1>4, <1>9, <2>2
    <3>2. /\ inbox'[u] = Append(inbox[u], message[u]) /\ message[u].kind = "commit"
          /\ message[u].commit = c
      BY <1>1, <1>3, <2>2, <3>1 DEF Send
    <3>3. \E j \in 0 .. Len(inbox[u]) :
            /\ IF j = 0 THEN IsMember(u, l) ELSE Joins(inbox[u][j], l)
            /\ \A i \in j + 1 .. Len(inbox[u]) : inbox[u][i].kind \in {"proposals", "commit"}
            /\ \/ Len(inbox[u]) > j /\ inbox[u][Len(inbox[u])].kind = "proposals"
               \/ Len(inbox[u]) = 0 /\ session[u].working # {}
      <4>1. CASE group.history = <<>>
        <5>1. l = c.from
          BY <1>5, <3>1, <4>1
        <5>2. Len(inbox[u]) = 0 /\ session[u].working # {} /\ IsMember(u, l)
          BY <1>1, <1>9, <4>1, <5>1, FirstCommitter
        <5> QED
          BY <5>2
      <4>2. CASE group.history # <<>>
        <5>1. l \in LeavesOf(u) \ expelled
          BY <1>1, <1>5, <1>9, <3>1, <4>2 DEF LeavesOf
        <5>2. PICK j, k \in 0 .. Len(inbox[u]) : j <= k /\ TrackFrom(u, l, j, k)
          BY <1>9, <5>1 DEF CaughtInv, AllOnTrack, OnTrack
        <5>3. Len(inbox[u]) \in Nat
          BY InboxIs DEF CaughtInv
        <5>4. k < Len(inbox[u]) \/ (k = 0 /\ session[u].working # {})
          BY <1>1, <5>2 DEF TrackFrom
        <5>5. k < Len(inbox[u]) => inbox[u][Len(inbox[u])].kind = "proposals"
          <6>1. k < Len(inbox[u]) => Len(inbox[u]) \in k + 1 .. Len(inbox[u])
            BY <5>2, <5>3
          <6> QED
            BY <5>2, <6>1 DEF TrackFrom
        <5>6. \/ Len(inbox[u]) > j /\ inbox[u][Len(inbox[u])].kind = "proposals"
              \/ Len(inbox[u]) = 0 /\ session[u].working # {}
          BY <5>2, <5>3, <5>4, <5>5
        <5> QED
          BY <5>2, <5>6 DEF TrackFrom
      <4> QED
        BY <4>1, <4>2
    <3>4. Append(message[u].commit.base, message[u].commit.id) = group'.history
      BY <1>2, <3>2
    <3> QED
      BY <1>1, <3>2, <3>3, <3>4, CommitSent DEF CaughtInv
  <2> QED
    BY <2>1, <2>2
<1>10. AllOnTrack'
  BY <1>1, <1>9 DEF AllOnTrack, LeavesOf
<1> QED
  BY <1>7, <1>8, <1>10

-----------------------------------------------------------------------------
LEMMA CaughtAtFirst == ASSUME Init PROVE CaughtInv
<1>1. AcceptedInv
  BY AtFirst
<1>2. /\ group = [history |-> <<>>, roster |-> {}] /\ recovering = {} /\ commits = {}
      /\ \A u \in Users : inbox[u] = <<>>
  BY DEF Init
<1>3. BeforeFirst /\ AllOnTrack
  BY <1>2 DEF BeforeFirst, AllOnTrack, LeavesOf
<1>4. \A u \in Users : MailOK(u)
  BY <1>2 DEF MailOK, Mail, Range
<1> QED
  BY <1>1, <1>3, <1>4 DEF CaughtInv

LEMMA StepCaught == ASSUME ~AcceptEarlier, CaughtInv, Next PROVE CaughtInv'
<1> DEFINE Goal == BeforeFirst' /\ (\A v \in Users : MailOK(v)') /\ AllOnTrack'
<1>1. ASSUME NEW u \in Users, NEW i \in DOMAIN inbox[u],
             \/ SelectProtocol(u, i) \/ ExternalSenderPackage(u, i)
             \/ \E known \in {Users} \cup {Users \ {v} : v \in Users \ {u}} : Proposals(u, i, known)
             \/ PrepareCommitTransition(u, i) \/ Welcome(u, i)
      PROVE  Goal
  BY <1>1, SelectCaught, SenderCaught, ProposalsCaught, CommitCaught, WelcomeCaught
<1>2. ASSUME NEW u \in Users, PrepareEpochAgain(u) \/ KeyPackageAgain(u) \/ Connect(u)
      PROVE  Goal
  BY <1>2, PrepareAgainCaught, KeyPackageCaught, ConnectCaught
<1>3. ASSUME \/ \E batch \in Batches(Wanted \ open) : Propose(batch)
             \/ \E p \in open : Revoke(p)
             \/ \E c \in commits : Accept(c)
      PROVE  Goal
  BY <1>3, ProposeCaught, RevokeCaught, AcceptCaught
<1>4. Goal
  BY <1>1, <1>2, <1>3 DEF Next
<1>5. AcceptedInv'
  BY StepKeeps DEF CaughtInv
<1> QED
  BY <1>4, <1>5 DEF CaughtInv

LEMMA StutterCaught == ASSUME CaughtInv, UNCHANGED vars PROVE CaughtInv'
<1>1. AcceptedInv'
  BY StutterKeeps DEF CaughtInv
<1>2. /\ session' = session /\ inbox' = inbox /\ recovering' = recovering /\ group' = group
      /\ overtaken' = overtaken /\ open' = open /\ expelled' = expelled /\ commits' = commits
  BY DEF vars
<1>3. BeforeFirst' /\ \A u \in Users : MailOK(u)'
  BY <1>2 DEF CaughtInv, BeforeFirst, Ready, MailOK, Mail, Base
<1>4. ASSUME NEW u \in Users, NEW l, OnTrack(u, l) PROVE OnTrack(u, l)'
  BY <1>2, <1>4, TrackUndisturbed
<1>5. AllOnTrack'
  BY <1>2, <1>4 DEF CaughtInv, AllOnTrack, LeavesOf
<1> QED
  BY <1>1, <1>3, <1>5 DEF CaughtInv

LEMMA CaughtUpThen == ASSUME CaughtInv PROVE CaughtUp
<1> SUFFICES ASSUME NEW u \in Users \ overtaken, inbox[u] = <<>>,
                    NEW l \in LeavesOf(u) \ expelled
             PROVE  \E s \in session[u].current : s.history = group.history /\ s.self = l
  BY DEF CaughtUp
<1>1. PICK j, k \in 0 .. Len(inbox[u]) : j <= k /\ TrackFrom(u, l, j, k)
  BY DEF CaughtInv, AllOnTrack, OnTrack
<1>2. k = 0
  <2>1. Len(inbox[u]) = 0
    OBVIOUS
  <2> QED
    BY <1>1, <2>1
<1> QED
  BY <1>1, <1>2 DEF TrackFrom

(* Whatever commits, reports, removals and returns there have been: once a *)
(* client has handled what was sent to it, in order, each leaf it has in   *)
(* the roster is the one its Session goes by, in the epoch of the server's *)
(* group, unless the server is to remove that leaf.  So libdave's session  *)
(* under DaveSessionManager.swift loses its group unnoticed in two ways at *)
(* most, those `overtaken` stands for: its tasks run out of order, or the  *)
(* late prepareEpoch of a failed commit resets a Session that has joined   *)
(* again since.                                                            *)
THEOREM FollowsTheServer == ASSUME ~AcceptEarlier PROVE Spec => []CaughtUp
<1>1. CaughtInv /\ [Next]_vars => CaughtInv'
  BY StepCaught, StutterCaught
<1>2. Spec => []CaughtInv
  BY <1>1, CaughtAtFirst, PTL DEF Spec
<1> QED
  BY <1>2, CaughtUpThen, PTL

-----------------------------------------------------------------------------
(* Who reported a failure has a way back.                                  *)

Expects(u, kinds) == \E m \in Mail(u) : m.kind \in kinds

OnWayBack(u) ==
  session[u] # NewSession /\ session[u].current = {} /\ LeavesOf(u) \subseteq expelled =>
    packages[u] # {} \/ (\E r \in recovering : r[1] = u) \/ Expects(u, {"select", "welcome"})

(* Who is in no group, its own included, has a leaf to be added by, or its *)
(* session is still to be selected.                                        *)
LeafOrGroup(u) ==
  /\ session[u].leaf = {} /\ session[u].current = {} =>
       Expects(u, {"select"}) \/ (session[u] = NewSession /\ ~Expects(u, {"sender"}))
  /\ session[u].pending # {} => session[u].current = {}

(* What a session begins with comes first.                                 *)
BeginsAnew(u) ==
  /\ \A i \in DOMAIN inbox[u] :
       /\ inbox[u][i].kind = "select" => i = 1
       /\ inbox[u][i].kind = "sender" => i = 1 \/ (i = 2 /\ inbox[u][1].kind = "select")
  /\ Expects(u, {"select", "sender"}) =>
       session[u].current = {} /\ \A r \in recovering : r[1] # u

(* Messages come in the order of their epochs.                             *)
After(m) == IF m.kind = "welcome" THEN Len(m.history) ELSE Len(m.commit.base) + 1

EpochsInOrder(u) ==
  \A i, j \in DOMAIN inbox[u] :
    i < j /\ inbox[u][i].kind \in {"welcome", "commit"} /\ inbox[u][j].kind = "commit"
    => After(inbox[u][i]) <= Len(inbox[u][j].commit.base)

(* No commit is older than the group, and who could not follow one follows *)
(* no later one either.                                                    *)
NotBehind(u) ==
  \A b \in Base(session[u]) :
    /\ \A m \in Mail(u) : m.kind = "commit" => Len(b.history) <= Len(m.commit.base)
    /\ <<u, "epoch">> \in recovering =>
         /\ Len(b.history) < Len(group.history)
         /\ \A m \in Mail(u) : m.kind = "commit" => Len(b.history) < Len(m.commit.base)

(* The server removes who failed, and nobody else; and who has sent a      *)
(* commit is still in the group that it is to.                             *)
ServerWay ==
  /\ DOMAIN packages = Users
  /\ \A u \in Users : \A p \in packages[u] : p.leaf.user = u
  /\ \A p \in open : p.op = "remove" => p.leaf \in expelled
  /\ group.history = <<>> => expelled = {}

InGroup(c) ==
  group.history # <<>> /\ c.from.user \notin overtaken =>
    \E s \in session[c.from.user].current : s.history = group.history

WayOf(u) == LeafOrGroup(u) /\ EpochsInOrder(u)
InOrderWay(u) == BeginsAnew(u) /\ NotBehind(u) /\ OnWayBack(u)

WayInv ==
  /\ CaughtInv /\ ServerWay /\ \A c \in commits : InGroup(c)
  /\ \A u \in Users : WayOf(u) /\ (u \notin overtaken => InOrderWay(u))

-----------------------------------------------------------------------------
(* What becomes of the leaf, the package and the States of a Session.      *)
LEMMA PreparedFields ==
  ASSUME NEW u, NEW s, OwnOK(u, s), NEW leaf, NEW no, leaf.user = u
  PROVE  LET t == ResetJoinKeyPackage(InitSession(s, leaf), no) IN
           /\ t.leaf = {leaf} /\ t.current = {} /\ t.package # {} /\ \A p \in t.package : p.leaf.user = u
           /\ \A b \in Base(t) : Len(b.history) = 1
<1> DEFINE c == ClearPendingState(s)
           a == [Reset(s) EXCEPT !.groupId = TRUE, !.leaf = {leaf}]
           t == ResetJoinKeyPackage(InitSession(s, leaf), no)
<1>1. SessionFields \subseteq DOMAIN c /\ c.pending = {}
  BY DEF OwnOK, SessionFields, ClearPendingState
<1>2. SessionFields \subseteq DOMAIN a /\ a.leaf = {leaf} /\ a.pending = {} /\ a.current = {}
  BY <1>1 DEF Reset, SessionFields
<1> HIDE DEF a
<1>3. /\ SessionFields \subseteq DOMAIN CreatePendingGroup(a)
      /\ CreatePendingGroup(a).leaf = {leaf} /\ CreatePendingGroup(a).current = {}
      /\ CreatePendingGroup(a).pending \subseteq {Solo(leaf)}
  BY <1>2 DEF CreatePendingGroup, SessionFields
<1>4. InitSession(s, leaf) = CreatePendingGroup(a)
  BY DEF InitSession, a
<1>5. /\ t.leaf = {leaf} /\ t.current = {} /\ t.pending \subseteq {Solo(leaf)}
      /\ t.package = {[leaf |-> leaf, no |-> no]}
  BY <1>3, <1>4 DEF ResetJoinKeyPackage, SessionFields
<1>6. Len(Solo(leaf).history) = 1
  BY SoloOK
<1> HIDE DEF t
<1>7. \A p \in t.package : p.leaf.user = u
  BY <1>5
<1>8. \A b \in Base(t) : Len(b.history) = 1
  BY <1>5, <1>6 DEF Base
<1> QED
  BY <1>5, <1>7, <1>8 DEF t

LEMMA SenderFields ==
  ASSUME NEW u, NEW s, SessionOK(u, s)
  PROVE  LET t == SetExternalSender(s) IN
           /\ t.leaf = s.leaf /\ t.current = s.current
           /\ t.pending # s.pending => s.current = {}
           /\ \A b \in Base(t) : b \in Base(s) \/ Len(b.history) = 1
<1> DEFINE a == [s EXCEPT !.sender = TRUE]
           t == SetExternalSender(s)
<1>1. SessionFields \subseteq DOMAIN s /\ \A l \in s.leaf : l.user = u
  BY DEF SessionOK, OwnOK
<1>2. /\ SessionFields \subseteq DOMAIN a /\ a.leaf = s.leaf /\ a.pending = s.pending
      /\ a.current = s.current
  BY <1>1 DEF SessionFields
<1> HIDE DEF a
<1>3. /\ CreatePendingGroup(a).leaf = s.leaf /\ CreatePendingGroup(a).current = s.current
      /\ \/ CreatePendingGroup(a).pending = s.pending
         \/ CreatePendingGroup(a).pending = {Solo(l) : l \in s.leaf}
  BY <1>2 DEF CreatePendingGroup, SessionFields
<1>4. CASE s.current # {}
  BY <1>4 DEF SetExternalSender
<1>5. CASE s.current = {}
  <2>1. t = CreatePendingGroup(a)
    BY <1>5 DEF SetExternalSender, a
  <2>2. \A l \in s.leaf : Len(Solo(l).history) = 1
    BY <1>1, SoloOK
  <2> HIDE DEF t
  <2> QED
    BY <1>3, <1>5, <2>1, <2>2 DEF Base, t
<1> QED
  BY <1>4, <1>5

LEMMA KeyFields ==
  ASSUME NEW u, NEW s, SessionOK(u, s), NEW no
  PROVE  LET t == ResetJoinKeyPackage(s, no) IN
           /\ t.leaf = s.leaf /\ t.current = s.current /\ t.pending = s.pending
           /\ s.leaf # {} => t.package # {}
           /\ \A p \in t.package : p.leaf.user = u
           /\ s = NewSession => t = NewSession
<1> DEFINE t == ResetJoinKeyPackage(s, no)
<1>1. /\ t.pending = s.pending /\ t.current = s.current /\ t.leaf = s.leaf
      /\ t.package = IF s.leaf = {} THEN s.package ELSE {[leaf |-> l, no |-> no] : l \in s.leaf}
  BY DEF SessionOK, OwnOK, SessionFields, ResetJoinKeyPackage
<1>2. s = NewSession => t = NewSession
  <2>1. NewSession.leaf = {}
    BY DEF NewSession
  <2>2. s = NewSession => t = [NewSession EXCEPT !.package = NewSession.package]
    BY <2>1 DEF ResetJoinKeyPackage
  <2>3. [NewSession EXCEPT !.package = NewSession.package] = NewSession
    BY DEF NewSession
  <2> HIDE DEF t
  <2> QED
    BY <2>2, <2>3
<1> HIDE DEF t
<1>3. s.leaf # {} => t.package # {}
  BY <1>1
<1>4. \A p \in t.package : p.leaf.user = u
  BY <1>1 DEF SessionOK, OwnOK
<1> QED
  BY <1>1, <1>2, <1>3, <1>4 DEF t

LEMMA CommitFields ==
  ASSUME AcceptedInv, NEW u \in Users, NEW m \in Mail(u), m.kind = "commit",
         NEW n \in ProcessedCommit(session[u], m.commit)
  PROVE  /\ \E x : n.current = {x} /\ x.history = Append(m.commit.base, m.commit.id)
         /\ n.pending = {} /\ \E b \in Base(session[u]) : b.history = m.commit.base
<1> DEFINE s == session[u]
           c == m.commit
<1>0. PICK x \in UNION {HandleCommit(w, c, s.cached) : w \in s.working} :
        n = [ClearPendingState(ReplaceState(s, x)) EXCEPT !.cached = {}]
  BY DEF ProcessedCommit
<1>1. PICK w \in s.working : x \in HandleCommit(w, c, s.cached)
  BY <1>0
<1>2. StateOK(u, w) /\ (\A y \in s.cached : StateOK(u, y)) /\ \E b \in Base(s) : w.history = b.history
  BY OwnSession DEF SessionOK, WorkingOK, OwnOK
<1>3. \A y \in s.cached : y.self = c.from /\ Len(y.history) = Len(c.base) + 1
                          => y.history = Append(c.base, c.id)
  BY DEF AcceptedInv, UserOK, CachedAccepted
<1>4. x.history = Append(c.base, c.id)
  BY <1>1, <1>2, <1>3, HandledCommit
<1>5. w.history = c.base
  BY <1>1 DEF HandleCommit
<1>6. n.current = {x} /\ n.pending = {}
  <2>1. SessionFields \subseteq DOMAIN s
    BY OwnSession DEF OwnOK
  <2> HIDE DEF s
  <2> QED
    BY <1>0, <2>1 DEF ClearPendingState, ReplaceState, SessionFields
<1> QED
  BY <1>2, <1>4, <1>5, <1>6

LEMMA WelcomeFields ==
  ASSUME AcceptedInv, NEW u \in Users, NEW m, NEW n \in ProcessedWelcome(session[u], m)
  PROVE  /\ \E x : n.current = {x} /\ x.history = m.history
         /\ n.pending = {} /\ session[u].current = {}
<1> DEFINE s == session[u]
           X(p) == [history |-> m.history, self |-> p.leaf, roster |-> m.roster, proposals |-> <<>>]
<1>1. PICK p \in s.package : n = ClearPendingState(ReplaceState(s, X(p))) /\ s.current = {}
  BY DEF ProcessedWelcome
<1>2. SessionFields \subseteq DOMAIN s
  BY OwnSession DEF OwnOK
<1> HIDE DEF s
<1>3. n.current = {X(p)} /\ n.pending = {}
  BY <1>1, <1>2 DEF ClearPendingState, ReplaceState, SessionFields
<1>4. X(p).history = m.history
  OBVIOUS
<1> HIDE DEF X
<1> QED
  BY <1>1, <1>3, <1>4 DEF s

-----------------------------------------------------------------------------
(* A message is gone, the others stay.                                     *)
LEMMA OthersStay ==
  ASSUME AcceptedInv, NEW u \in Users, NEW i \in DOMAIN inbox[u], NEW kind, Take(u, i, kind)
  PROVE  /\ \A m \in Mail(u) : m = inbox[u][i] \/ m \in Mail(u)'
         /\ EpochsInOrder(u) => EpochsInOrder(u)'
         /\ \A K : kind \notin K /\ Expects(u, K) => Expects(u, K)'
<1>1. /\ IsSeq(inbox[u]) /\ Len(inbox[u]) \in Nat /\ DOMAIN inbox[u] = 1 .. Len(inbox[u])
      /\ IsSeq(inbox'[u]) /\ inbox'[u] = RemoveAt(inbox[u], i)
  BY InboxIs, TakenMail DEF Take, AcceptedInv, TypesOK
<1>2. /\ DOMAIN inbox'[u] = 1 .. Len(inbox[u]) - 1
      /\ \A a \in 1 .. Len(inbox[u]) - 1 :
           inbox'[u][a] = IF a < i THEN inbox[u][a] ELSE inbox[u][a + 1]
  BY <1>1, RemovedIs, SeqFacts
<1>3. ASSUME NEW m \in Mail(u), m # inbox[u][i] PROVE m \in Mail(u)'
  <2>1. PICK a \in DOMAIN inbox[u] : m = inbox[u][a] /\ a # i
    BY <1>3 DEF Mail, Range
  <2> DEFINE b == IF a < i THEN a ELSE a - 1
  <2>2. b \in DOMAIN inbox'[u] /\ inbox'[u][b] = m
    BY <1>1, <1>2, <2>1
  <2> QED
    BY <2>2 DEF Mail, Range
<1>4. ASSUME EpochsInOrder(u) PROVE EpochsInOrder(u)'
  <2> SUFFICES ASSUME NEW a \in DOMAIN inbox'[u], NEW b \in DOMAIN inbox'[u], a < b,
                      inbox'[u][a].kind \in {"welcome", "commit"}, inbox'[u][b].kind = "commit"
               PROVE  After(inbox'[u][a]) <= Len(inbox'[u][b].commit.base)
    BY DEF EpochsInOrder, After
  <2> DEFINE x == IF a < i THEN a ELSE a + 1
             y == IF b < i THEN b ELSE b + 1
  <2>1. x \in DOMAIN inbox[u] /\ y \in DOMAIN inbox[u] /\ x < y
    BY <1>1, <1>2
  <2>2. inbox'[u][a] = inbox[u][x] /\ inbox'[u][b] = inbox[u][y]
    BY <1>2
  <2> HIDE DEF x, y
  <2> QED
    BY <1>4, <2>1, <2>2 DEF EpochsInOrder
<1>5. ASSUME NEW K, kind \notin K, Expects(u, K) PROVE Expects(u, K)'
  BY <1>3, <1>5, TakenMail DEF Expects
<1> QED
  BY <1>3, <1>4, <1>5

(* The oldest message is gone.                                             *)
LEMMA OldestGone ==
  ASSUME AcceptedInv, NEW u \in Users, NEW i \in DOMAIN inbox[u], NEW kind, Take(u, i, kind),
         u \notin overtaken', group' = group, open' = open, BeginsAnew(u), EpochsInOrder(u)
  PROVE  /\ \A a \in DOMAIN inbox'[u] :
              /\ inbox'[u][a].kind # "select"
              /\ inbox'[u][a].kind = "sender" => a = 1 /\ kind = "select"
         /\ kind # "select" => ~Expects(u, {"select", "sender"})'
         /\ kind \notin {"select", "sender"} => ~Expects(u, {"select", "sender"})
         /\ kind \in {"welcome", "commit"} =>
              \A m \in Mail(u)' :
                m.kind = "commit" => After(inbox[u][i]) <= Len(m.commit.base)
<1>1. i = 1 /\ inbox[u][1].kind = kind /\ HeadGone(u)
  BY InOrder
<1>2. /\ Len(inbox[u]) \in Nat /\ DOMAIN inbox[u] = 1 .. Len(inbox[u])
      /\ DOMAIN inbox'[u] = 1 .. Len(inbox[u]) - 1
  BY <1>1, InboxIs, TakenMail, SeqFacts DEF HeadGone
<1>3. \A a \in DOMAIN inbox'[u] :
        /\ a + 1 \in DOMAIN inbox[u] /\ 1 \in DOMAIN inbox[u] /\ 1 < a + 1
        /\ inbox'[u][a] = inbox[u][a + 1]
  BY <1>1, <1>2 DEF HeadGone
<1>4. ASSUME NEW a \in DOMAIN inbox'[u]
      PROVE  /\ inbox'[u][a].kind # "select"
             /\ inbox'[u][a].kind = "sender" => a = 1 /\ kind = "select"
  BY <1>1, <1>2, <1>3, <1>4 DEF BeginsAnew
<1>5. kind # "select" => ~Expects(u, {"select", "sender"})'
  BY <1>4 DEF Expects, Mail, Range
<1>6. kind \notin {"select", "sender"} => ~Expects(u, {"select", "sender"})
  BY <1>1, <1>2 DEF BeginsAnew, Expects, Mail, Range
<1>7. ASSUME kind \in {"welcome", "commit"}, NEW m \in Mail(u)', m.kind = "commit"
      PROVE  After(inbox[u][i]) <= Len(m.commit.base)
  <2>1. PICK a \in DOMAIN inbox'[u] : m = inbox'[u][a]
    BY DEF Mail, Range
  <2> QED
    BY <1>1, <1>3, <1>7, <2>1 DEF EpochsInOrder
<1> QED
  BY <1>4, <1>5, <1>6, <1>7

(* A step of a user is nobody else's.                                      *)
Aside(u) ==
  /\ Only(u, session, session') /\ Only(u, inbox, inbox') /\ Only(u, packages, packages')
  /\ group' = group /\ open' = open
  /\ expelled \subseteq expelled' /\ expelled' \subseteq expelled \cup LeavesOf(u)
  /\ \A v \in Users \ {u} : v \notin overtaken' => v \notin overtaken
  /\ \A r : r[1] # u => (r \in recovering' <=> r \in recovering)
  /\ \A c \in commits' : c \in commits \/ c.from.user = u
  /\ \A p \in packages'[u] : p.leaf.user = u

LEMMA UserOnWay ==
  ASSUME WayInv, CaughtInv', NEW u \in Users, Aside(u), WayOf(u)',
         u \notin overtaken' =>
           InOrderWay(u)' /\ \A c \in commits' : c.from.user = u => InGroup(c)'
  PROVE  WayInv'
<1>1. ServerWay'
  <2>1. DOMAIN packages' = Users /\ \A v \in Users : \A p \in packages'[v] : p.leaf.user = v
    BY DEF WayInv, ServerWay, Aside, Only
  <2>2. group.history = <<>> => LeavesOf(u) = {}
    BY DEF WayInv, CaughtInv, BeforeFirst, LeavesOf
  <2> QED
    BY <2>1, <2>2 DEF WayInv, ServerWay, Aside
<1>2. ASSUME NEW c \in commits' PROVE InGroup(c)'
  <2>1. c.from.user \in Users
    BY DEF CaughtInv, AcceptedInv, ServerOK, CommitOK
  <2>2. CASE c.from.user = u
    BY <2>2 DEF InGroup
  <2>3. CASE c.from.user # u
    <3>1. InGroup(c) /\ session'[c.from.user] = session[c.from.user]
      BY <2>1, <2>3 DEF Aside, Only, WayInv
    <3> QED
      BY <2>1, <2>3, <3>1 DEF InGroup, Aside
  <2> QED
    BY <2>2, <2>3
<1>3. ASSUME NEW v \in Users, v # u PROVE WayOf(v)' /\ (v \notin overtaken' => InOrderWay(v)')
  <2>1. /\ session'[v] = session[v] /\ inbox'[v] = inbox[v] /\ packages'[v] = packages[v]
        /\ v \notin overtaken' => v \notin overtaken
        /\ \A r : r[1] = v => (r \in recovering' <=> r \in recovering)
    BY <1>3 DEF Aside, Only
  <2>2. WayOf(v)'
    BY <2>1 DEF WayInv, WayOf, LeafOrGroup, EpochsInOrder, Expects, Mail
  <2>3. ASSUME v \notin overtaken' PROVE InOrderWay(v)'
    <3>1. InOrderWay(v) /\ <<v, "epoch">>[1] = v
      BY <2>1, <2>3 DEF WayInv
    <3>2. <<v, "epoch">> \in recovering' <=> <<v, "epoch">> \in recovering
      BY <2>1, <3>1
    <3>3. BeginsAnew(v)' /\ NotBehind(v)'
      BY <2>1, <3>1, <3>2 DEF InOrderWay, BeginsAnew, NotBehind, Expects, Mail, Base, Aside
    <3>4. LeavesOf(v)' = LeavesOf(v) /\ (LeavesOf(v) \subseteq expelled' => LeavesOf(v) \subseteq expelled)
      BY <1>3 DEF LeavesOf, Aside
    <3>5. OnWayBack(v)'
      BY <2>1, <3>1, <3>4 DEF InOrderWay, OnWayBack, Expects, Mail
    <3> QED
      BY <3>3, <3>5 DEF InOrderWay
  <2> QED
    BY <2>2, <2>3
<1> QED
  BY <1>1, <1>2, <1>3 DEF WayInv

-----------------------------------------------------------------------------
(* A session is initialised, and a package handed in.                      *)
LEMMA PreparedOnWay ==
  ASSUME WayInv, CaughtInv', NEW u \in Users, PrepareEpoch(u), Only(u, inbox, inbox'),
         Mail(u)' \subseteq Mail(u), EpochsInOrder(u)', UNCHANGED <<group, open, expelled, commits>>,
         \A v \in Users \ {u} : v \notin overtaken' => v \notin overtaken,
         \A r : r[1] # u => (r \in recovering' <=> r \in recovering),
         u \notin overtaken' =>
           /\ BeginsAnew(u)' /\ <<u, "epoch">> \notin recovering'
           /\ group.history # <<>> => \A c \in commits : c.from.user # u
  PROVE  WayInv'
<1> DEFINE leaf == [user |-> u, leaf |-> made[u] + 1]
           t == ResetJoinKeyPackage(InitSession(session[u], leaf), made[u] + 1)
<1>1. /\ t.leaf = {leaf} /\ t.current = {} /\ t.package # {} /\ \A p \in t.package : p.leaf.user = u
      /\ \A b \in Base(t) : Len(b.history) = 1
  <2>1. OwnOK(u, session[u])
    BY OwnSession DEF WayInv, CaughtInv
  <2> QED
    BY <2>1, PreparedFields
<1>2. session' = [session EXCEPT ![u] = t] /\ packages' = [packages EXCEPT ![u] = t.package]
  BY DEF PrepareEpoch
<1> HIDE DEF t, leaf
<1>3. /\ Only(u, session, session') /\ session'[u] = t
      /\ Only(u, packages, packages') /\ packages'[u] = t.package
  BY <1>2, OnlySession DEF WayInv, CaughtInv, ServerWay, Only
<1>4. Aside(u)
  BY <1>1, <1>3 DEF Aside
<1>5. WayOf(u)'
  BY <1>1, <1>3 DEF WayOf, LeafOrGroup
<1>6. ASSUME u \notin overtaken' PROVE InOrderWay(u)'
  <2>1. \A m \in Mail(u)' : m.kind = "commit" => 1 <= Len(m.commit.base)
    BY DEF WayInv, CaughtInv, AcceptedInv, UserOK, Follows
  <2>2. NotBehind(u)'
    BY <1>1, <1>3, <1>6, <2>1 DEF NotBehind
  <2>3. OnWayBack(u)'
    BY <1>1, <1>3 DEF OnWayBack
  <2> QED
    BY <1>6, <2>2, <2>3 DEF InOrderWay
<1>7. ASSUME u \notin overtaken', NEW c \in commits', c.from.user = u PROVE InGroup(c)'
  BY <1>7 DEF InGroup
<1> QED
  BY <1>4, <1>5, <1>6, <1>7, UserOnWay

LEMMA SelectOnWay ==
  ASSUME WayInv, CaughtInv', NEW u \in Users, NEW i \in DOMAIN inbox[u], SelectProtocol(u, i)
  PROVE  WayInv'
<1>1. /\ AcceptedInv /\ Take(u, i, "select") /\ PrepareEpoch(u)
      /\ UNCHANGED <<recovering, group, open, expelled, commits>>
  BY DEF WayInv, CaughtInv, SelectProtocol
<1>2. /\ Only(u, inbox, inbox') /\ Mail(u)' \subseteq Mail(u)
      /\ inbox[u][i] \in Mail(u) /\ inbox[u][i].kind = "select"
  BY <1>1, TakenMail
<1>3. EpochsInOrder(u)'
  BY <1>1, OthersStay DEF WayInv, WayOf
<1>4. \A v \in Users \ {u} : v \notin overtaken' => v \notin overtaken
  BY <1>1 DEF Take
<1>5. ASSUME u \notin overtaken'
      PROVE  /\ BeginsAnew(u)' /\ <<u, "epoch">> \notin recovering'
             /\ group.history # <<>> => \A c \in commits : c.from.user # u
  <2>1. u \notin overtaken
    BY <1>1, <1>5 DEF Take
  <2>2. BeginsAnew(u) /\ EpochsInOrder(u) /\ Expects(u, {"select", "sender"})
    BY <1>2, <2>1 DEF WayInv, WayOf, InOrderWay, Expects
  <2>3. session[u].current = {} /\ \A r \in recovering : r[1] # u
    BY <2>2 DEF BeginsAnew
  <2>4. <<u, "epoch">>[1] = u
    OBVIOUS
  <2>5. \A a \in DOMAIN inbox'[u] :
          inbox'[u][a].kind # "select" /\ (inbox'[u][a].kind = "sender" => a = 1)
    BY <1>1, <1>5, <2>2, OldestGone
  <2>6. session'[u].current = {}
    <3> DEFINE leaf == [user |-> u, leaf |-> made[u] + 1]
               t == ResetJoinKeyPackage(InitSession(session[u], leaf), made[u] + 1)
    <3>1. t.current = {}
      BY <1>1, OwnSession, PreparedFields
    <3>2. session' = [session EXCEPT ![u] = t]
      BY <1>1 DEF PrepareEpoch
    <3> HIDE DEF t
    <3> QED
      BY <1>1, <3>1, <3>2, OnlySession
  <2>7. BeginsAnew(u)'
    BY <1>1, <2>3, <2>5, <2>6 DEF BeginsAnew
  <2>8. group.history # <<>> => \A c \in commits : c.from.user # u
    BY <2>1, <2>3 DEF WayInv, InGroup
  <2> QED
    BY <1>1, <2>3, <2>4, <2>7, <2>8
<1> QED
  BY <1>1, <1>2, <1>3, <1>4, <1>5, PreparedOnWay

LEMMA PrepareAgainOnWay ==
  ASSUME WayInv, CaughtInv', NEW u \in Users, PrepareEpochAgain(u) PROVE WayInv'
<1>1. /\ AcceptedInv /\ PrepareEpoch(u) /\ <<u, "epoch">> \in recovering
      /\ recovering' = recovering \ {<<u, "epoch">>} /\ <<u, "epoch">>[1] = u
      /\ UNCHANGED <<inbox, overtaken, group, open, expelled, commits>>
  BY DEF WayInv, CaughtInv, PrepareEpochAgain
<1>2. Only(u, inbox, inbox') /\ Mail(u)' \subseteq Mail(u)
  BY <1>1, SameMail
<1>3. EpochsInOrder(u)'
  BY <1>1 DEF WayInv, WayOf, EpochsInOrder
<1>4. \A r : r[1] # u => (r \in recovering' <=> r \in recovering)
  BY <1>1
<1>5. ASSUME u \notin overtaken'
      PROVE  /\ BeginsAnew(u)' /\ <<u, "epoch">> \notin recovering'
             /\ group.history # <<>> => \A c \in commits : c.from.user # u
  <2>1. BeginsAnew(u) /\ NotBehind(u) /\ LeafOrGroup(u) /\ u \notin overtaken
    BY <1>1, <1>5 DEF WayInv, WayOf, InOrderWay
  <2>2. ~Expects(u, {"select", "sender"})
    BY <1>1, <2>1 DEF BeginsAnew
  <2>3. BeginsAnew(u)'
    BY <1>1, <2>1, <2>2 DEF BeginsAnew, Expects, Mail
  <2>4. ASSUME group.history # <<>>, NEW c \in commits, c.from.user = u PROVE FALSE
    <3>1. PICK s \in session[u].current : s.history = group.history
      BY <2>1, <2>4 DEF WayInv, InGroup
    <3>2. s \in Base(session[u])
      BY <2>1, <3>1 DEF LeafOrGroup, Base
    <3>3. Len(s.history) < Len(group.history) /\ Len(s.history) \in Nat
      BY <1>1, <2>1, <3>2, OwnSession, BaseOK, SeqFacts DEF NotBehind, StateOK
    <3> QED
      BY <3>1, <3>3
  <2> QED
    BY <1>1, <2>3, <2>4
<1> QED
  BY <1>1, <1>2, <1>3, <1>4, <1>5, PreparedOnWay

-----------------------------------------------------------------------------
(* The steps that leave the group alone.                                   *)
LEMMA SenderOnWay ==
  ASSUME WayInv, CaughtInv', NEW u \in Users, NEW i \in DOMAIN inbox[u], ExternalSenderPackage(u, i)
  PROVE  WayInv'
<1> DEFINE t == SetExternalSender(session[u])
           kind == "sender"
<1>1. /\ AcceptedInv /\ Take(u, i, kind) /\ session' = [session EXCEPT ![u] = t]
      /\ UNCHANGED <<recovering, group, open, packages, expelled, commits>>
  BY DEF WayInv, CaughtInv, ExternalSenderPackage, serverVars
<1>2. /\ t.leaf = session[u].leaf /\ t.current = session[u].current
      /\ t.pending # session[u].pending => session[u].current = {}
      /\ \A b \in Base(t) : b \in Base(session[u]) \/ Len(b.history) = 1
  BY <1>1, OwnSession, SenderFields
<1> HIDE DEF t
<1>3. Only(u, session, session') /\ session'[u] = t
  BY <1>1, OnlySession
<1>4. /\ Only(u, inbox, inbox') /\ Mail(u)' \subseteq Mail(u)
      /\ inbox[u][i] \in Mail(u) /\ inbox[u][i].kind = "sender"
  BY <1>1, TakenMail DEF kind
<1>5. Expects(u, {"sender"})
  BY <1>4 DEF Expects
<1>6. /\ EpochsInOrder(u)'
      /\ Expects(u, {"select"}) => Expects(u, {"select"})'
      /\ Expects(u, {"select", "welcome"}) => Expects(u, {"select", "welcome"})'
  BY <1>1, OthersStay DEF WayInv, WayOf, kind
<1>7. Aside(u)
  BY <1>1, <1>3, <1>4 DEF Aside, Take, WayInv, ServerWay, Only
<1>8. WayOf(u)'
  <2>1. LeafOrGroup(u)
    BY DEF WayInv, WayOf
  <2>2. t.leaf = {} /\ t.current = {} => Expects(u, {"select"})'
    BY <1>2, <1>5, <1>6, <2>1 DEF LeafOrGroup
  <2>3. t.pending # {} => t.current = {}
    BY <1>2, <2>1 DEF LeafOrGroup
  <2> QED
    BY <1>3, <1>6, <2>2, <2>3 DEF WayOf, LeafOrGroup
<1>9. ASSUME u \notin overtaken'
      PROVE  InOrderWay(u)' /\ \A c \in commits' : c.from.user = u => InGroup(c)'
  <2>1. u \notin overtaken
    BY <1>1, <1>9 DEF Take
  <2>2. BeginsAnew(u) /\ NotBehind(u) /\ OnWayBack(u) /\ EpochsInOrder(u) /\ LeafOrGroup(u)
    BY <2>1 DEF WayInv, WayOf, InOrderWay
  <2>3. session[u].current = {} /\ \A r \in recovering : r[1] # u
    BY <1>5, <2>2 DEF BeginsAnew, Expects
  <2>4. BeginsAnew(u)'
    <3>1. \A a \in DOMAIN inbox'[u] :
            inbox'[u][a].kind # "select" /\ inbox'[u][a].kind # "sender"
      BY <1>1, <1>9, <2>2, OldestGone DEF kind
    <3>2. ~Expects(u, {"select", "sender"})'
      BY <3>1 DEF Expects, Mail, Range
    <3> QED
      BY <3>1, <3>2 DEF BeginsAnew
  <2>5. NotBehind(u)'
    <3>1. \A m \in Mail(u)' : m.kind = "commit" => 1 <= Len(m.commit.base)
      BY DEF CaughtInv, AcceptedInv, UserOK, Follows
    <3>2. <<u, "epoch">> \notin recovering'
      BY <1>1, <2>3
    <3> QED
      BY <1>2, <1>3, <1>4, <2>2, <3>1, <3>2 DEF NotBehind
  <2>6. OnWayBack(u)'
    <3>1. session[u] = NewSession => Expects(u, {"select", "welcome"})'
      <4>1. Expects(u, {"select"})' => Expects(u, {"select", "welcome"})'
        BY DEF Expects
      <4>2. NewSession.leaf = {} /\ NewSession.current = {}
        BY DEF NewSession
      <4> QED
        BY <1>5, <1>6, <2>2, <4>1, <4>2 DEF LeafOrGroup
    <3> QED
      BY <1>1, <1>2, <1>3, <1>6, <2>2, <3>1 DEF OnWayBack, LeavesOf
  <2>7. \A c \in commits' : c.from.user = u => InGroup(c)'
    BY <1>1, <1>2, <1>3, <2>1 DEF WayInv, InGroup
  <2> QED
    BY <2>4, <2>5, <2>6, <2>7 DEF InOrderWay
<1> QED
  BY <1>7, <1>8, <1>9, UserOnWay

LEMMA KeyPackageOnWay ==
  ASSUME WayInv, CaughtInv', NEW u \in Users, KeyPackageAgain(u) PROVE WayInv'
<1> DEFINE t == ResetJoinKeyPackage(session[u], made[u] + 1)
<1>1. /\ AcceptedInv /\ session' = [session EXCEPT ![u] = t] /\ <<u, "package">> \in recovering
      /\ recovering' = recovering \ {<<u, "package">>} /\ packages' = [packages EXCEPT ![u] = t.package]
      /\ UNCHANGED <<inbox, overtaken, group, open, expelled, commits>>
  BY DEF WayInv, CaughtInv, KeyPackageAgain
<1>2. /\ t.leaf = session[u].leaf /\ t.current = session[u].current /\ t.pending = session[u].pending
      /\ session[u].leaf # {} => t.package # {}
      /\ \A p \in t.package : p.leaf.user = u
      /\ session[u] = NewSession => t = NewSession
  BY <1>1, OwnSession, KeyFields
<1> HIDE DEF t
<1>3. /\ Only(u, session, session') /\ session'[u] = t
      /\ Only(u, packages, packages') /\ packages'[u] = t.package /\ Only(u, inbox, inbox')
  BY <1>1, OnlySession, SameMail DEF WayInv, ServerWay, Only
<1>4. <<u, "package">>[1] = u /\ <<u, "package">> # <<u, "epoch">>
  OBVIOUS
<1>5. Aside(u)
  BY <1>1, <1>2, <1>3, <1>4 DEF Aside
<1>6. \A K : Expects(u, K)' <=> Expects(u, K)
  BY <1>1 DEF Expects, Mail
<1>7. WayOf(u)'
  BY <1>1, <1>2, <1>3, <1>6 DEF WayInv, WayOf, LeafOrGroup, EpochsInOrder
<1>8. ASSUME u \notin overtaken'
      PROVE  InOrderWay(u)' /\ \A c \in commits' : c.from.user = u => InGroup(c)'
  <2>1. u \notin overtaken /\ BeginsAnew(u) /\ NotBehind(u) /\ LeafOrGroup(u)
    BY <1>1, <1>8 DEF WayInv, WayOf, InOrderWay
  <2>2. ~Expects(u, {"select", "sender"})
    BY <1>1, <1>4, <2>1 DEF BeginsAnew
  <2>3. BeginsAnew(u)'
    BY <1>1, <1>6, <2>1, <2>2 DEF BeginsAnew
  <2>4. NotBehind(u)'
    BY <1>1, <1>2, <1>3, <1>4, <2>1 DEF NotBehind, Base, Mail
  <2>5. OnWayBack(u)'
    <3>1. CASE session[u].leaf # {}
      BY <1>2, <1>3, <3>1 DEF OnWayBack
    <3>2. CASE session[u].leaf = {} /\ session[u].current # {}
      BY <1>2, <1>3, <3>2 DEF OnWayBack
    <3>3. CASE session[u].leaf = {} /\ session[u].current = {}
      <4>1. Expects(u, {"select"}) => Expects(u, {"select", "welcome"})
        BY DEF Expects
      <4> QED
        BY <1>2, <1>3, <1>6, <2>1, <3>3, <4>1 DEF LeafOrGroup, OnWayBack
    <3> QED
      BY <3>1, <3>2, <3>3
  <2>6. \A c \in commits' : c.from.user = u => InGroup(c)'
    BY <1>1, <1>2, <1>3 DEF WayInv, InGroup
  <2> QED
    BY <2>3, <2>4, <2>5, <2>6 DEF InOrderWay
<1> QED
  BY <1>5, <1>7, <1>8, UserOnWay

LEMMA ConnectOnWay ==
  ASSUME WayInv, CaughtInv', NEW u \in Users, Connect(u) PROVE WayInv'
<1> DEFINE new == <<[kind |-> "select"], [kind |-> "sender"]>>
<1>1. /\ session' = [session EXCEPT ![u] = NewSession] /\ inbox' = [inbox EXCEPT ![u] = new]
      /\ recovering' = {r \in recovering : r[1] # u} /\ overtaken' = overtaken \ {u}
      /\ expelled' = expelled \cup LeavesOf(u) /\ packages' = [packages EXCEPT ![u] = {}]
      /\ commits' = {c \in commits : c.from.user # u} /\ UNCHANGED <<group, open>>
  BY DEF Connect, InvalidCommitWelcome
<1>2. /\ DOMAIN new = {1, 2} /\ new[1].kind = "select" /\ new[2].kind = "sender"
  OBVIOUS
<1> HIDE DEF new
<1>3. /\ Only(u, session, session') /\ session'[u] = NewSession
      /\ Only(u, packages, packages') /\ packages'[u] = {}
      /\ Only(u, inbox, inbox') /\ inbox'[u] = new
  BY <1>1 DEF WayInv, CaughtInv, AcceptedInv, TypesOK, ServerWay, Only
<1>4. Aside(u)
  BY <1>1, <1>3 DEF Aside
<1>5. NewSession.pending = {} /\ NewSession.current = {} /\ Base(NewSession) = {}
  BY DEF NewSession, Base
<1>6. Expects(u, {"select"})'
  BY <1>2, <1>3 DEF Expects, Mail, Range
<1>7. WayOf(u)'
  BY <1>2, <1>3, <1>5, <1>6 DEF WayOf, LeafOrGroup, EpochsInOrder
<1>8. InOrderWay(u)'
  BY <1>1, <1>2, <1>3, <1>5 DEF InOrderWay, BeginsAnew, NotBehind, OnWayBack
<1>9. \A c \in commits' : c.from.user = u => InGroup(c)'
  BY <1>1
<1> QED
  BY <1>4, <1>7, <1>8, <1>9, UserOnWay

LEMMA ProposalsOnWay ==
  ASSUME WayInv, CaughtInv', NEW u \in Users, NEW i \in DOMAIN inbox[u], NEW known,
         Proposals(u, i, known)
  PROVE  WayInv'
<1> DEFINE kind == "proposals"
<1>1. /\ AcceptedInv /\ Take(u, i, kind)
      /\ UNCHANGED <<recovering, group, open, packages, expelled>>
      /\ Base(session[u]) = {} => UNCHANGED <<session, commits>>
  BY DEF WayInv, CaughtInv, Proposals
<1>2. /\ Only(u, session, session') /\ Base(session'[u]) = Base(session[u])
      /\ session'[u].current = session[u].current /\ session'[u].pending = session[u].pending
      /\ session'[u].leaf = session[u].leaf
      /\ \A c \in commits' :
           c \in commits \/ \E b \in Base(session[u]) : c.from = b.self /\ c.base = b.history
  BY <1>1, Worked DEF AcceptedInv, TypesOK, Only
<1>3. \A c \in commits' : c \in commits \/ c.from.user = u
  BY <1>1, <1>2, OwnSession, BaseOK DEF StateOK
<1>4. Only(u, inbox, inbox') /\ Mail(u)' \subseteq Mail(u)
  BY <1>1, TakenMail
<1>5. Aside(u)
  BY <1>1, <1>2, <1>3, <1>4 DEF Aside, Take, WayInv, ServerWay, Only
<1>6. /\ EpochsInOrder(u)'
      /\ Expects(u, {"select"}) => Expects(u, {"select"})'
      /\ Expects(u, {"select", "welcome"}) => Expects(u, {"select", "welcome"})'
      /\ Expects(u, {"sender"})' => Expects(u, {"sender"})
  <2>1. /\ EpochsInOrder(u)'
        /\ Expects(u, {"select"}) => Expects(u, {"select"})'
        /\ Expects(u, {"select", "welcome"}) => Expects(u, {"select", "welcome"})'
    BY <1>1, OthersStay DEF WayInv, WayOf, kind
  <2>2. Expects(u, {"sender"})' => Expects(u, {"sender"})
    BY <1>4 DEF Expects
  <2> QED
    BY <2>1, <2>2
<1>7. Base(NewSession) = {} /\ (session[u] = NewSession => session'[u] = NewSession)
  BY <1>1 DEF NewSession, Base
<1>8. WayOf(u)'
  BY <1>2, <1>6, <1>7 DEF WayInv, WayOf, LeafOrGroup
<1>9. ASSUME u \notin overtaken'
      PROVE  InOrderWay(u)' /\ \A c \in commits' : c.from.user = u => InGroup(c)'
  <2>1. u \notin overtaken
    BY <1>1, <1>9 DEF Take
  <2>2. BeginsAnew(u) /\ NotBehind(u) /\ OnWayBack(u) /\ EpochsInOrder(u)
    BY <2>1 DEF WayInv, WayOf, InOrderWay
  <2>3. BeginsAnew(u)'
    <3>1. ~Expects(u, {"select", "sender"})'
      BY <1>1, <1>9, <2>2, OldestGone DEF kind
    <3> QED
      BY <3>1 DEF BeginsAnew, Expects, Mail, Range
  <2>4. NotBehind(u)'
    BY <1>1, <1>2, <1>4, <2>2 DEF NotBehind
  <2>5. OnWayBack(u)'
    BY <1>1, <1>2, <1>6, <1>7, <2>2 DEF OnWayBack, LeavesOf
  <2>6. ASSUME NEW c \in commits', c.from.user = u PROVE InGroup(c)'
    <3>1. CASE c \in commits
      BY <1>1, <1>2, <2>1, <2>6, <3>1 DEF WayInv, InGroup
    <3>2. CASE c \notin commits
      <4> SUFFICES ASSUME group.history # <<>>
                   PROVE  \E s \in session[u].current : s.history = group.history
        BY <1>1, <1>2, <2>6 DEF InGroup
      <4>1. PICK b \in Base(session[u]) : c.base = b.history
        BY <1>2, <3>2
      <4>2. c.base = group.history /\ Len(group.history) >= 2
        BY <1>1 DEF CaughtInv, AcceptedInv, ServerOK, CommitOK
      <4>3. b \in session[u].pending => Len(b.history) = 1
        <5>1. session[u].pending \subseteq {Solo(l) : l \in session[u].leaf}
              /\ \A l \in session[u].leaf : l.user = u
          BY <1>1, OwnSession DEF OwnOK
        <5> QED
          BY <5>1, SoloOK
      <4>4. b \notin session[u].pending
        <5>1. b.history = group.history
          BY <4>1, <4>2
        <5> SUFFICES ASSUME b \in session[u].pending PROVE FALSE
          OBVIOUS
        <5>2. Len(group.history) = 1
          BY <4>3, <5>1
        <5> QED
          BY <4>2, <5>2
      <4>5. b \in session[u].current
        BY <4>1, <4>4 DEF Base
      <4> QED
        BY <4>1, <4>2, <4>5
    <3> QED
      BY <3>1, <3>2
  <2> QED
    BY <2>3, <2>4, <2>5, <2>6 DEF InOrderWay
<1> QED
  BY <1>5, <1>8, <1>9, UserOnWay

-----------------------------------------------------------------------------
(* The steps of a member.                                                  *)
LEMMA CommitOnWay ==
  ASSUME WayInv, CaughtInv', NEW u \in Users, NEW i \in DOMAIN inbox[u], PrepareCommitTransition(u, i)
  PROVE  WayInv'
<1> DEFINE s == session[u]
           m == inbox[u][i]
           next == ProcessedCommit(s, m.commit)
           n == CHOOSE x \in next : TRUE
           kind == "commit"
<1>1. /\ AcceptedInv /\ Take(u, i, kind) /\ UNCHANGED <<group, open, commits>>
      /\ \/ UNCHANGED <<session, recovering, packages, expelled>>
         \/ /\ next # {} /\ session' = [session EXCEPT ![u] = n]
            /\ UNCHANGED <<recovering, packages, expelled>>
         \/ /\ recovering' = recovering \cup {<<u, "epoch">>} /\ expelled' = expelled \cup LeavesOf(u)
            /\ packages' = [packages EXCEPT ![u] = {}] /\ UNCHANGED session
  BY DEF WayInv, CaughtInv, PrepareCommitTransition, InvalidCommitWelcome
<1>2. /\ m \in Mail(u) /\ m.kind = "commit" /\ Only(u, inbox, inbox') /\ Mail(u)' \subseteq Mail(u)
  BY <1>1, TakenMail
<1>3. next # {} => n \in next
  OBVIOUS
<1>4. /\ EpochsInOrder(u)'
      /\ Expects(u, {"select"}) => Expects(u, {"select"})'
      /\ Expects(u, {"select", "welcome"}) => Expects(u, {"select", "welcome"})'
  BY <1>1, OthersStay DEF WayInv, WayOf, kind
<1>5. Expects(u, {"sender"})' => Expects(u, {"sender"})
  BY <1>2 DEF Expects
<1> HIDE DEF n
<1>6. ASSUME next # {}
      PROVE  /\ \E x : n.current = {x} /\ x.history = Append(m.commit.base, m.commit.id)
             /\ n.pending = {} /\ \E b \in Base(s) : b.history = m.commit.base
  <2>1. n \in ProcessedCommit(session[u], m.commit)
    BY <1>3, <1>6
  <2> HIDE DEF m
  <2> QED
    BY <1>1, <1>2, <2>1, CommitFields
<1>7. /\ group.history # <<>> /\ IsSeq(m.commit.base) /\ Len(m.commit.base) \in Nat
      /\ Len(group.history) \in Nat /\ Len(m.commit.base) < Len(group.history)
      /\ Len(Append(m.commit.base, m.commit.id)) = Len(m.commit.base) + 1
      /\ After(m) = Len(m.commit.base) + 1
  <2>1. group.history # <<>> /\ Epoch(m.commit.base) < ServerEpoch
    BY <1>1, <1>2, FirstMail, DeliveredIsPast
  <2>2. IsSeq(m.commit.base) /\ Len(m.commit.base) \in Nat /\ Len(group.history) \in Nat
    BY <1>1, <1>2, SeqFacts DEF AcceptedInv, UserOK, Follows, ServerOK
  <2>3. Len(Append(m.commit.base, m.commit.id)) = Len(m.commit.base) + 1
    BY <2>2, Appending
  <2> QED
    BY <1>2, <2>1, <2>2, <2>3 DEF Epoch, ServerEpoch, After
<1> HIDE DEF next, m
<1>8. <<u, "epoch">>[1] = u
  OBVIOUS
<1>9. /\ Only(u, session, session') /\ Only(u, packages, packages')
      /\ \A p \in packages'[u] : p.leaf.user = u
  BY <1>1 DEF AcceptedInv, TypesOK, WayInv, ServerWay, Only
<1>10. Aside(u)
  BY <1>1, <1>2, <1>8, <1>9 DEF Aside, Take
<1>11. CASE next # {} /\ session' = [session EXCEPT ![u] = n] /\ UNCHANGED recovering
  <2>1. session'[u] = n /\ n.current # {} /\ n.pending = {}
    BY <1>1, <1>6, <1>11, OnlySession
  <2>2. WayOf(u)'
    BY <1>4, <2>1 DEF WayOf, LeafOrGroup
  <2>3. ASSUME u \notin overtaken'
        PROVE  InOrderWay(u)' /\ \A c \in commits' : c.from.user = u => InGroup(c)'
    <3>1. u \notin overtaken
      BY <1>1, <2>3 DEF Take
    <3>2. BeginsAnew(u) /\ NotBehind(u) /\ EpochsInOrder(u) /\ LeafOrGroup(u)
      BY <3>1 DEF WayInv, WayOf, InOrderWay
    <3>3. /\ ~Expects(u, {"select", "sender"})'
          /\ \A o \in Mail(u)' : o.kind = "commit" => After(m) <= Len(o.commit.base)
      BY <1>1, <2>3, <3>2, OldestGone DEF kind, m
    <3>4. BeginsAnew(u)'
      BY <3>3 DEF BeginsAnew, Expects, Mail, Range
    <3>5. PICK b \in Base(s) : b.history = m.commit.base
      BY <1>6, <1>11
    <3>6. <<u, "epoch">> \notin recovering
      BY <1>2, <1>7, <3>2, <3>5 DEF NotBehind
    <3>7. NotBehind(u)'
      <4>1. \A x \in Base(session'[u]) : Len(x.history) = After(m)
        BY <1>6, <1>7, <1>11, <2>1 DEF Base
      <4> QED
        BY <1>11, <3>3, <3>6, <4>1 DEF NotBehind
    <3>8. ASSUME NEW c \in commits', c.from.user = u PROVE FALSE
      <4>1. PICK x \in s.current : x.history = group.history
        BY <1>1, <1>7, <3>1, <3>8 DEF WayInv, InGroup
      <4>2. x \in Base(s)
        BY <3>2, <4>1 DEF LeafOrGroup, Base
      <4>3. x = b
        BY <1>1, <3>5, <4>2, OwnSession, BaseOK DEF AtMostOne
      <4> QED
        BY <1>7, <3>5, <4>1, <4>3
    <3> QED
      BY <2>1, <3>4, <3>7, <3>8 DEF InOrderWay, OnWayBack
  <2> QED
    BY <1>10, <2>2, <2>3, UserOnWay
<1>12. CASE UNCHANGED session
  <2>1. WayOf(u)'
    BY <1>4, <1>5, <1>12 DEF WayInv, WayOf, LeafOrGroup
  <2>2. ASSUME u \notin overtaken'
        PROVE  InOrderWay(u)' /\ \A c \in commits' : c.from.user = u => InGroup(c)'
    <3>1. u \notin overtaken
      BY <1>1, <2>2 DEF Take
    <3>2. BeginsAnew(u) /\ NotBehind(u) /\ EpochsInOrder(u) /\ OnWayBack(u)
      BY <3>1 DEF WayInv, WayOf, InOrderWay
    <3>3. /\ ~Expects(u, {"select", "sender"})'
          /\ \A o \in Mail(u)' : o.kind = "commit" => After(m) <= Len(o.commit.base)
      BY <1>1, <2>2, <3>2, OldestGone DEF kind, m
    <3>4. BeginsAnew(u)'
      BY <3>3 DEF BeginsAnew, Expects, Mail, Range
    <3>5. NotBehind(u)'
      <4> SUFFICES ASSUME NEW b \in Base(s)
                   PROVE  /\ \A o \in Mail(u)' : o.kind = "commit" => Len(b.history) <= Len(o.commit.base)
                          /\ <<u, "epoch">> \in recovering' =>
                               /\ Len(b.history) < Len(group.history)
                               /\ \A o \in Mail(u)' :
                                    o.kind = "commit" => Len(b.history) < Len(o.commit.base)
        BY <1>1, <1>12 DEF NotBehind
      <4>1. Len(b.history) \in Nat /\ Len(b.history) <= Len(m.commit.base)
        BY <1>1, <1>2, <3>2, OwnSession, BaseOK, SeqFacts DEF StateOK, NotBehind
      <4>2. ASSUME NEW o \in Mail(u)', o.kind = "commit"
            PROVE  Len(b.history) < Len(o.commit.base)
        <5>1. Len(o.commit.base) \in Nat
          BY <4>2, SeqFacts DEF CaughtInv, AcceptedInv, UserOK, Follows
        <5>2. After(m) <= Len(o.commit.base)
          BY <3>3, <4>2
        <5> QED
          BY <1>7, <4>1, <5>1, <5>2
      <4>3. \A o \in Mail(u)' : o.kind = "commit" => Len(o.commit.base) \in Nat
        BY SeqFacts DEF CaughtInv, AcceptedInv, UserOK, Follows
      <4>4. \A o \in Mail(u)' : o.kind = "commit" => Len(b.history) <= Len(o.commit.base)
        BY <4>1, <4>2, <4>3
      <4>5. Len(b.history) < Len(group.history)
        BY <1>7, <4>1
      <4> QED
        BY <4>2, <4>4, <4>5
    <3>6. OnWayBack(u)'
      <4>1. <<u, "epoch">> \in recovering' \/ UNCHANGED <<session, recovering, packages, expelled>>
        BY <1>1, <1>3, <1>12
      <4>2. <<u, "epoch">> \in recovering' => \E r \in recovering' : r[1] = u
        BY <1>8
      <4> QED
        BY <1>1, <1>4, <3>2, <4>1, <4>2 DEF OnWayBack, LeavesOf
    <3>7. \A c \in commits' : c.from.user = u => InGroup(c)'
      BY <1>1, <1>12, <3>1 DEF WayInv, InGroup
    <3> QED
      BY <3>4, <3>5, <3>6, <3>7 DEF InOrderWay
  <2> QED
    BY <1>10, <2>1, <2>2, UserOnWay
<1> QED
  BY <1>1, <1>11, <1>12

LEMMA WelcomeOnWay ==
  ASSUME WayInv, CaughtInv', NEW u \in Users, NEW i \in DOMAIN inbox[u], Welcome(u, i)
  PROVE  WayInv'
<1> DEFINE s == session[u]
           m == inbox[u][i]
           next == ProcessedWelcome(s, m)
           n == CHOOSE x \in next : TRUE
           kind == "welcome"
<1>1. /\ AcceptedInv /\ Take(u, i, kind) /\ UNCHANGED <<group, open, commits>>
      /\ \/ /\ next # {} /\ session' = [session EXCEPT ![u] = n]
            /\ UNCHANGED <<recovering, packages, expelled>>
         \/ /\ recovering' = recovering \cup {<<u, "package">>} /\ expelled' = expelled \cup LeavesOf(u)
            /\ packages' = [packages EXCEPT ![u] = {}] /\ UNCHANGED session
  BY DEF WayInv, CaughtInv, Welcome, InvalidCommitWelcome
<1>2. /\ m \in Mail(u) /\ m.kind = "welcome" /\ Only(u, inbox, inbox') /\ Mail(u)' \subseteq Mail(u)
  BY <1>1, TakenMail
<1>3. next # {} => n \in next
  OBVIOUS
<1>4. /\ EpochsInOrder(u)'
      /\ Expects(u, {"select"}) => Expects(u, {"select"})'
  BY <1>1, OthersStay DEF WayInv, WayOf, kind
<1>5. Expects(u, {"sender"})' => Expects(u, {"sender"})
  BY <1>2 DEF Expects
<1> HIDE DEF n
<1>6. next # {} => /\ \E x : n.current = {x} /\ x.history = m.history
                   /\ n.pending = {} /\ s.current = {}
  BY <1>1, <1>3, WelcomeFields
<1>7. group.history # <<>> /\ After(m) = Len(m.history)
  BY <1>1, <1>2, FirstMail DEF After
<1> HIDE DEF next, m
<1>8. <<u, "package">>[1] = u /\ <<u, "package">> # <<u, "epoch">>
  OBVIOUS
<1>9. /\ Only(u, session, session') /\ Only(u, packages, packages')
      /\ \A p \in packages'[u] : p.leaf.user = u
  BY <1>1 DEF AcceptedInv, TypesOK, WayInv, ServerWay, Only
<1>10. Aside(u)
  BY <1>1, <1>2, <1>8, <1>9 DEF Aside, Take
<1>11. CASE next # {} /\ session' = [session EXCEPT ![u] = n] /\ UNCHANGED recovering
  <2>1. session'[u] = n /\ n.current # {} /\ n.pending = {}
    BY <1>1, <1>6, <1>11, OnlySession
  <2>2. WayOf(u)'
    BY <1>4, <2>1 DEF WayOf, LeafOrGroup
  <2>3. ASSUME u \notin overtaken'
        PROVE  InOrderWay(u)' /\ \A c \in commits' : c.from.user = u => InGroup(c)'
    <3>1. u \notin overtaken /\ <<u, "epoch">> \notin recovering
      BY <1>1, <2>3, InOrder DEF kind
    <3>2. BeginsAnew(u) /\ EpochsInOrder(u)
      BY <3>1 DEF WayInv, WayOf, InOrderWay
    <3>3. /\ ~Expects(u, {"select", "sender"})'
          /\ \A o \in Mail(u)' : o.kind = "commit" => After(m) <= Len(o.commit.base)
      BY <1>1, <2>3, <3>2, OldestGone DEF kind, m
    <3>4. BeginsAnew(u)'
      BY <3>3 DEF BeginsAnew, Expects, Mail, Range
    <3>5. NotBehind(u)'
      <4>1. \A x \in Base(session'[u]) : Len(x.history) = After(m)
        BY <1>6, <1>7, <1>11, <2>1 DEF Base
      <4> QED
        BY <1>11, <3>1, <3>3, <4>1 DEF NotBehind
    <3>6. \A c \in commits' : c.from.user # u
      BY <1>1, <1>6, <1>7, <1>11, <3>1 DEF WayInv, InGroup
    <3> QED
      BY <2>1, <3>4, <3>5, <3>6 DEF InOrderWay, OnWayBack
  <2> QED
    BY <1>10, <2>2, <2>3, UserOnWay
<1>12. CASE UNCHANGED session /\ recovering' = recovering \cup {<<u, "package">>}
  <2>1. WayOf(u)'
    BY <1>4, <1>5, <1>12 DEF WayInv, WayOf, LeafOrGroup
  <2>2. ASSUME u \notin overtaken'
        PROVE  InOrderWay(u)' /\ \A c \in commits' : c.from.user = u => InGroup(c)'
    <3>1. u \notin overtaken
      BY <1>1, <2>2 DEF Take
    <3>2. BeginsAnew(u) /\ NotBehind(u) /\ EpochsInOrder(u)
      BY <3>1 DEF WayInv, WayOf, InOrderWay
    <3>3. ~Expects(u, {"select", "sender"})'
      BY <1>1, <2>2, <3>2, OldestGone DEF kind
    <3>4. BeginsAnew(u)'
      BY <3>3 DEF BeginsAnew, Expects, Mail, Range
    <3>5. NotBehind(u)'
      BY <1>1, <1>2, <1>8, <1>12, <3>2 DEF NotBehind
    <3>6. OnWayBack(u)'
      BY <1>8, <1>12 DEF OnWayBack
    <3>7. \A c \in commits' : c.from.user = u => InGroup(c)'
      BY <1>1, <1>12, <3>1 DEF WayInv, InGroup
    <3> QED
      BY <3>4, <3>5, <3>6, <3>7 DEF InOrderWay
  <2> QED
    BY <1>10, <2>1, <2>2, UserOnWay
<1> QED
  BY <1>1, <1>11, <1>12

-----------------------------------------------------------------------------
(* The steps of the server.                                                *)
LEMMA SentOnWay ==
  ASSUME AcceptedInv, NEW message, Send(message), NEW v \in Users, WayOf(v),
         UNCHANGED <<session, recovering>>,
         v \in DOMAIN message =>
           /\ message[v].kind \in Spoken
           /\ message[v].kind = "commit" =>
                \A m \in Mail(v) : m.kind \in {"welcome", "commit"} =>
                  After(m) <= Len(message[v].commit.base)
  PROVE  WayOf(v)' /\ (BeginsAnew(v) => BeginsAnew(v)') /\ \A K : Expects(v, K) => Expects(v, K)'
<1>1. CASE v \notin DOMAIN message
  <2>1. inbox'[v] = inbox[v]
    BY <1>1 DEF Send
  <2> QED
    BY <2>1 DEF WayOf, LeafOrGroup, EpochsInOrder, BeginsAnew, Expects, Mail
<1>2. CASE v \in DOMAIN message
  <2> DEFINE q == inbox[v]
             m == message[v]
  <2>1. inbox'[v] = Append(q, m) /\ IsSeq(q) /\ Mail(v)' = Mail(v) \cup {m}
    BY <1>2, Sent DEF Send, AcceptedInv, TypesOK
  <2>2. /\ Len(q) \in Nat /\ DOMAIN q = 1 .. Len(q) /\ \A a \in 1 .. Len(q) : q[a] \in Mail(v)
        /\ DOMAIN inbox'[v] = 1 .. Len(q) + 1 /\ inbox'[v][Len(q) + 1] = m
        /\ \A a \in 1 .. Len(q) : inbox'[v][a] = q[a]
    <3>1. IsSeq(inbox'[v]) /\ Len(inbox'[v]) = Len(q) + 1
      BY <2>1, Appending
    <3> QED
      BY <2>1, <3>1, AppendedIs, InboxIs, SeqFacts
  <2> HIDE DEF m
  <2>3. m.kind \notin {"select", "sender"}
    BY <1>2 DEF Spoken, m
  <2>4. \A K : Expects(v, K) => Expects(v, K)'
    BY <2>1 DEF Expects
  <2>5. Expects(v, {"select", "sender"})' => Expects(v, {"select", "sender"})
    BY <2>1, <2>3 DEF Expects
  <2>6. Expects(v, {"sender"})' => Expects(v, {"sender"})
    BY <2>1, <2>3 DEF Expects
  <2>7. LeafOrGroup(v)'
    BY <2>4, <2>6 DEF WayOf, LeafOrGroup
  <2>8. EpochsInOrder(v)'
    <3> SUFFICES ASSUME NEW a \in DOMAIN inbox'[v], NEW b \in DOMAIN inbox'[v], a < b,
                        inbox'[v][a].kind \in {"welcome", "commit"}, inbox'[v][b].kind = "commit"
                 PROVE  After(inbox'[v][a]) <= Len(inbox'[v][b].commit.base)
      BY DEF EpochsInOrder, After
    <3>1. a \in 1 .. Len(q) /\ inbox'[v][a] = q[a] /\ q[a] \in Mail(v)
      BY <2>2
    <3>2. CASE b = Len(q) + 1
      BY <1>2, <2>2, <3>1, <3>2 DEF m
    <3>3. CASE b # Len(q) + 1
      <4>1. b \in 1 .. Len(q) /\ inbox'[v][b] = q[b]
        BY <2>2, <3>3
      <4> QED
        BY <2>2, <3>1, <4>1 DEF WayOf, EpochsInOrder
    <3> QED
      BY <3>2, <3>3
  <2>9. ASSUME BeginsAnew(v) PROVE BeginsAnew(v)'
    <3>1. ASSUME NEW a \in DOMAIN inbox'[v]
          PROVE  /\ inbox'[v][a].kind = "select" => a = 1
                 /\ inbox'[v][a].kind = "sender" => a = 1 \/ (a = 2 /\ inbox'[v][1].kind = "select")
      <4>1. CASE a = Len(q) + 1
        BY <2>2, <2>3, <4>1
      <4>2. CASE a # Len(q) + 1
        <5>1. a \in DOMAIN q /\ inbox'[v][a] = q[a] /\ inbox'[v][1] = q[1]
          BY <2>2, <4>2
        <5> QED
          BY <2>9, <5>1 DEF BeginsAnew
      <4> QED
        BY <4>1, <4>2
    <3> QED
      BY <2>5, <2>9, <3>1 DEF BeginsAnew
  <2> QED
    BY <2>4, <2>7, <2>8, <2>9 DEF WayOf
<1> QED
  BY <1>1, <1>2

LEMMA ProposalsSentOnWay ==
  ASSUME WayInv, CaughtInv', NEW message, Send(message),
         UNCHANGED <<session, recovering, overtaken, group, packages, expelled, commits>>,
         \A v \in DOMAIN message : message[v].kind = "proposals",
         \A p \in open' : p.op = "remove" => p.leaf \in expelled
  PROVE  WayInv'
<1>1. ServerWay'
  BY DEF WayInv, ServerWay
<1>2. \A c \in commits' : InGroup(c)'
  BY DEF WayInv, InGroup
<1>3. ASSUME NEW v \in Users PROVE WayOf(v)' /\ (v \notin overtaken' => InOrderWay(v)')
  <2>1. AcceptedInv /\ WayOf(v) /\ (v \notin overtaken => InOrderWay(v))
    BY DEF WayInv, CaughtInv
  <2>2. WayOf(v)' /\ (BeginsAnew(v) => BeginsAnew(v)') /\ \A K : Expects(v, K) => Expects(v, K)'
    BY <2>1, SentOnWay DEF Spoken
  <2>3. \A m \in Mail(v)' : m.kind = "commit" => m \in Mail(v)
    BY <2>1, Sent
  <2>4. NotBehind(v) => NotBehind(v)'
    BY <2>3 DEF NotBehind, Base
  <2>5. OnWayBack(v) => OnWayBack(v)'
    BY <2>2 DEF OnWayBack, LeavesOf
  <2> QED
    BY <2>1, <2>2, <2>4, <2>5 DEF InOrderWay
<1> QED
  BY <1>1, <1>2, <1>3 DEF WayInv

LEMMA ProposeOnWay ==
  ASSUME WayInv, CaughtInv', NEW batch \in Batches(Wanted \ open), Propose(batch) PROVE WayInv'
<1> DEFINE message == [u \in {m \in Members : For(m, batch) # <<>>} |->
             [kind |-> "proposals", revoke |-> FALSE, proposals |-> For(u, batch)]]
<1>1. /\ Send(message) /\ open' = open \cup Range(batch)
      /\ UNCHANGED <<session, recovering, overtaken, group, packages, expelled, commits>>
  BY DEF Propose
<1>2. \A v \in DOMAIN message : message[v].kind = "proposals"
  OBVIOUS
<1>3. \A p \in open' : p.op = "remove" => p.leaf \in expelled
  <2>1. \A p \in Wanted : p.op = "remove" => p.leaf \in expelled
    BY DEF Wanted
  <2> QED
    BY <1>1, <2>1, BatchOK DEF WayInv, ServerWay
<1> HIDE DEF message
<1> QED
  BY <1>1, <1>2, <1>3, ProposalsSentOnWay

LEMMA RevokeOnWay ==
  ASSUME WayInv, CaughtInv', NEW p \in open, Revoke(p) PROVE WayInv'
<1> DEFINE message == [u \in {m \in Members : Concerns(m, p)} |->
             [kind |-> "proposals", revoke |-> TRUE, proposals |-> <<p>>]]
<1>1. /\ Send(message) /\ open' = open \ {p}
      /\ UNCHANGED <<session, recovering, overtaken, group, packages, expelled, commits>>
  BY DEF Revoke
<1>2. \A v \in DOMAIN message : message[v].kind = "proposals"
  OBVIOUS
<1>3. \A q \in open' : q.op = "remove" => q.leaf \in expelled
  BY <1>1 DEF WayInv, ServerWay
<1> HIDE DEF message
<1> QED
  BY <1>1, <1>2, <1>3, ProposalsSentOnWay

(* A commit is of the epoch of the group, and so of the States in it.      *)
LEMMA NoneIsAhead ==
  ASSUME AcceptedInv, NEW c \in commits, NEW v \in Users
  PROVE  /\ \A m \in Mail(v) : m.kind \in {"welcome", "commit"} => After(m) <= Len(c.base)
         /\ \A b \in Base(session[v]) : Len(b.history) <= Len(c.base)
         /\ Len(c.base) \in Nat
<1>1. CommitOK(c) /\ IsSeq(group.history) /\ Len(group.history) \in Nat /\ Len(c.base) \in Nat
  BY SeqFacts DEF AcceptedInv, ServerOK, CommitOK
<1>2. ASSUME NEW m \in Mail(v), m.kind \in {"welcome", "commit"} PROVE After(m) <= Len(c.base)
  <2>1. c.base = group.history
    BY <1>1, <1>2, FirstMail DEF CommitOK
  <2>2. Follows(v, m)
    BY DEF AcceptedInv, UserOK
  <2>3. CASE m.kind = "welcome"
    <3>1. IsSeq(m.history) /\ IsPrefix(m.history, group.history)
      BY <2>2, <2>3 DEF Follows
    <3>2. Len(m.history) <= Len(group.history)
      BY <1>1, <3>1, PrefixIs
    <3> QED
      BY <2>1, <2>3, <3>2 DEF After
  <2>4. CASE m.kind = "commit"
    <3>1. IsSeq(m.commit.base) /\ IsPrefix(Append(m.commit.base, m.commit.id), group.history)
      BY <2>2, <2>4 DEF Follows
    <3>2. /\ IsSeq(Append(m.commit.base, m.commit.id))
          /\ Len(Append(m.commit.base, m.commit.id)) = Len(m.commit.base) + 1
      BY <3>1, Appending
    <3>3. Len(m.commit.base) + 1 <= Len(group.history)
      BY <1>1, <3>1, <3>2, PrefixIs
    <3>4. After(m) = Len(m.commit.base) + 1
      BY <2>4 DEF After
    <3> QED
      BY <2>1, <3>3, <3>4
  <2> QED
    BY <1>2, <2>3, <2>4
<1>3. ASSUME NEW b \in Base(session[v]) PROVE Len(b.history) <= Len(c.base)
  <2>1. CASE b \in session[v].pending
    <3>1. PICK l \in session[v].leaf : b = Solo(l)
      BY <2>1, OwnSession DEF OwnOK
    <3>2. Len(b.history) = 1
      <4>1. l.user = v
        BY OwnSession DEF OwnOK
      <4> QED
        BY <3>1, <4>1, SoloOK
    <3> QED
      BY <1>1, <3>2 DEF CommitOK
  <2>2. CASE b \in session[v].current
    <3>1. StateOK(v, b) /\ IsPrefix(b.history, group.history)
      BY <2>2, OwnSession DEF OwnOK, AcceptedInv, OnlyAccepted
    <3>2. IsSeq(b.history) /\ Len(b.history) \in Nat /\ Len(b.history) >= 1
      BY <3>1, SeqFacts DEF StateOK
    <3>3. Len(b.history) <= Len(group.history)
      BY <1>1, <3>1, <3>2, PrefixIs
    <3>4. group.history # <<>>
      BY <1>1, <3>2, <3>3
    <3> QED
      BY <1>1, <3>3, <3>4 DEF CommitOK
  <2> QED
    BY <2>1, <2>2 DEF Base
<1> QED
  BY <1>1, <1>2, <1>3

LEMMA AcceptOnWay ==
  ASSUME ~AcceptEarlier, WayInv, CaughtInv', NEW c \in commits, Accept(c) PROVE WayInv'
<1> DEFINE s == [history |-> c.base, self |-> c.from, proposals |-> <<>>,
                 roster |-> IF group.history = <<>> THEN {c.from} ELSE group.roster]
           next == Successor(s, c.id, c.proposals)
           removed == Leaves(c.proposals, "remove")
           adds == {p \in Range(c.proposals) : p.op = "add"}
           added == {p.leaf.user : p \in adds}
           message == [u \in {l.user : l \in s.roster \ removed} \cup added |->
             IF u \in added
             THEN [kind |-> "welcome", history |-> next.history, roster |-> next.roster,
                   packages |-> {[leaf |-> p.leaf, no |-> p.no] : p \in adds}]
             ELSE [kind |-> "commit", commit |-> c]]
<1>1. /\ Send(message) /\ group' = [history |-> next.history, roster |-> next.roster]
      /\ open' = {} /\ commits' = {} /\ expelled' = expelled \ removed
      /\ packages' = [u \in Users |->
                        {p \in packages[u] : p.leaf.user \notin added \cup {c.from.user}}]
      /\ UNCHANGED <<session, recovering, overtaken>> /\ Range(c.proposals) \subseteq open
  BY DEF Accept
<1>2. /\ group'.history = Append(c.base, c.id)
      /\ group'.roster = (s.roster \ removed) \cup {p.leaf : p \in adds}
  <2>1. next.history = Append(c.base, c.id)
    BY DEF Successor
  <2>2. next.roster = (s.roster \ removed) \cup {p.leaf : p \in adds}
    BY DEF Successor, Leaves
  <2> HIDE DEF next
  <2> QED
    BY <1>1, <2>1, <2>2
<1>3. ASSUME NEW v \in DOMAIN message
      PROVE  /\ message[v].kind \in Spoken
             /\ v \notin added => message[v].kind = "commit" /\ message[v].commit = c
             /\ v \in added => message[v].kind = "welcome"
  <2>1. CASE v \in added
    BY <2>1 DEF Spoken
  <2>2. CASE v \notin added
    BY <2>2 DEF Spoken
  <2> QED
    BY <2>1, <2>2
<1>4. /\ added \subseteq DOMAIN message
      /\ s.roster = IF group.history = <<>> THEN {c.from} ELSE group.roster
  OBVIOUS
<1>5. /\ AcceptedInv /\ CommitOK(c) /\ InGroup(c) /\ ServerWay
      /\ Len(group'.history) = Len(c.base) + 1 /\ Len(c.base) \in Nat
  <2>1. AcceptedInv /\ CommitOK(c) /\ InGroup(c) /\ ServerWay
    BY DEF WayInv, CaughtInv, AcceptedInv, ServerOK
  <2> QED
    BY <1>2, <2>1, Appending, NoneIsAhead DEF CommitOK
<1>6. removed \subseteq expelled
  BY <1>1, <1>5 DEF ServerWay, Leaves
<1> HIDE DEF message, next, s, adds, added, removed
<1>7. ServerWay' /\ \A d \in commits' : InGroup(d)'
  <2>1. group'.history # <<>>
    BY <1>5
  <2> QED
    BY <1>1, <1>5, <2>1 DEF ServerWay
<1>8. ASSUME NEW v \in Users PROVE WayOf(v)' /\ (v \notin overtaken' => InOrderWay(v)')
  <2>1. WayOf(v) /\ (v \notin overtaken => InOrderWay(v))
    BY DEF WayInv
  <2>2. WayOf(v)' /\ (BeginsAnew(v) => BeginsAnew(v)') /\ \A K : Expects(v, K) => Expects(v, K)'
    <3>1. /\ v \in DOMAIN message => message[v].kind \in Spoken
          /\ v \in DOMAIN message /\ message[v].kind = "commit" => message[v].commit = c
      BY <1>3
    <3>2. \A m \in Mail(v) : m.kind \in {"welcome", "commit"} => After(m) <= Len(c.base)
      BY <1>5, NoneIsAhead
    <3> QED
      BY <1>1, <1>5, <2>1, <3>1, <3>2, SentOnWay
  <2>3. ASSUME NotBehind(v), NEW b \in Base(session[v])
        PROVE  /\ \A m \in Mail(v)' : m.kind = "commit" => Len(b.history) <= Len(m.commit.base)
               /\ <<v, "epoch">> \in recovering =>
                    /\ Len(b.history) < Len(group'.history)
                    /\ \A m \in Mail(v)' : m.kind = "commit" => Len(b.history) < Len(m.commit.base)
    <3>1. \A m \in Mail(v)' : m \in Mail(v) \/ m.kind = "welcome" \/ m.commit = c
      BY <1>1, <1>3, <1>5, Sent
    <3>2. Len(b.history) \in Nat /\ Len(b.history) <= Len(c.base)
      BY <1>5, NoneIsAhead, OwnSession, BaseOK, SeqFacts DEF StateOK
    <3>3. <<v, "epoch">> \in recovering => Len(b.history) < Len(c.base)
      <4>1. <<v, "epoch">> \in recovering => group.history # <<>> /\ Len(b.history) < Len(group.history)
        BY <2>3 DEF NotBehind, WayInv, CaughtInv, BeforeFirst
      <4> QED
        BY <1>5, <4>1 DEF CommitOK
    <3>4. ASSUME NEW m \in Mail(v)', m.kind = "commit"
          PROVE  /\ Len(b.history) <= Len(m.commit.base)
                 /\ <<v, "epoch">> \in recovering => Len(b.history) < Len(m.commit.base)
      <4>1. CASE m \in Mail(v)
        BY <2>3, <3>4, <4>1 DEF NotBehind
      <4>2. CASE m.commit = c
        BY <3>2, <3>3, <4>2
      <4> QED
        BY <3>1, <3>4, <4>1, <4>2
    <3>5. <<v, "epoch">> \in recovering => Len(b.history) < Len(group'.history)
      BY <1>5, <3>2, <3>3
    <3> QED
      BY <3>4, <3>5
  <2>4. NotBehind(v) => NotBehind(v)'
    <3>1. Base(session'[v]) = Base(session[v])
      BY <1>1
    <3> QED
      BY <1>1, <2>3, <3>1 DEF NotBehind
  <2>5. ASSUME v \notin overtaken, OnWayBack(v) PROVE OnWayBack(v)'
    <3> SUFFICES ASSUME session[v] # NewSession, session[v].current = {},
                        LeavesOf(v)' \subseteq expelled'
                 PROVE  \/ packages'[v] # {} \/ \E r \in recovering : r[1] = v
                        \/ Expects(v, {"select", "welcome"})'
      BY <1>1 DEF OnWayBack
    <3>1. CASE v \in added
      <4>1. message[v] \in Mail(v)' /\ message[v].kind = "welcome"
        BY <1>1, <1>3, <1>4, <1>5, <3>1, Sent
      <4> QED
        BY <4>1 DEF Expects
    <3>2. CASE v \notin added /\ v = c.from.user
      <4>1. group.history = <<>>
        BY <1>5, <2>5, <3>2 DEF InGroup
      <4>2. removed = {} /\ expelled' = {}
        BY <1>1, <1>5, <1>6, <4>1 DEF ServerWay
      <4>3. c.from \in LeavesOf(v)'
        BY <1>2, <1>4, <3>2, <4>1, <4>2 DEF LeavesOf
      <4> QED
        BY <4>2, <4>3
    <3>3. CASE v \notin added /\ v # c.from.user
      <4>1. packages'[v] = packages[v]
        BY <1>1, <1>5, <3>3 DEF ServerWay
      <4>2. LeavesOf(v) \subseteq expelled
        <5>1. group.history = <<>> => group.roster = {}
          BY DEF WayInv, CaughtInv, BeforeFirst
        <5>2. ASSUME NEW l \in LeavesOf(v) PROVE l \in expelled
          <6>1. l \in s.roster /\ l.user = v
            BY <1>4, <5>1 DEF LeavesOf
          <6>2. CASE l \in removed
            BY <1>6, <6>2
          <6>3. CASE l \notin removed
            <7>1. l \in LeavesOf(v)'
              BY <1>2, <6>1, <6>3 DEF LeavesOf
            <7> QED
              BY <1>1, <7>1
          <6> QED
            BY <6>2, <6>3
        <5> QED
          BY <5>2
      <4> QED
        BY <2>2, <2>5, <4>1, <4>2 DEF OnWayBack
    <3> QED
      BY <3>1, <3>2, <3>3
  <2> QED
    BY <1>1, <2>1, <2>2, <2>4, <2>5 DEF InOrderWay
<1> QED
  BY <1>7, <1>8 DEF WayInv

-----------------------------------------------------------------------------
LEMMA StartedFields ==
  ASSUME NEW u
  PROVE  /\ Started(u).leaf # {} /\ Started(u).package # {} /\ Started(u).current = {}
         /\ \A p \in Started(u).package : p.leaf.user = u
<1> DEFINE leaf == [user |-> u, leaf |-> 0]
           a == InitSession(NewSession, leaf)
           b == SetExternalSender(a)
<1>1. leaf.user = u /\ SessionOK(u, a) /\ a.leaf = {leaf}
  <2>1. leaf.user = u /\ OwnOK(u, NewSession)
    BY NewSessionOK DEF SessionOK
  <2>2. SessionOK(u, a)
    BY <2>1, NewSessionOK, Initialised
  <2> DEFINE t == ResetJoinKeyPackage(a, 0)
  <2>3. t.leaf = {leaf}
    BY <2>1, PreparedFields
  <2>4. t.leaf = a.leaf
    BY <2>2, KeyFields
  <2> QED
    BY <2>1, <2>2, <2>3, <2>4
<1> HIDE DEF a
<1>2. SessionOK(u, b) /\ b.leaf = {leaf}
  BY <1>1, SenderSet, SenderFields
<1>3. Started(u) = ResetJoinKeyPackage(b, 0)
  BY DEF Started, a
<1> HIDE DEF b
<1>4. Started(u).leaf # {} /\ Started(u).package # {} /\ \A p \in Started(u).package : p.leaf.user = u
  <2> DEFINE t == ResetJoinKeyPackage(b, 0)
  <2>1. b.leaf # {} /\ SessionOK(u, b)
    BY <1>2
  <2>2. t.leaf = b.leaf /\ t.package # {} /\ \A p \in t.package : p.leaf.user = u
    BY <2>1, KeyFields
  <2> HIDE DEF t
  <2>3. t.leaf # {} /\ Started(u) = t
    BY <1>3, <2>1, <2>2 DEF t
  <2> QED
    BY <2>2, <2>3
<1> QED
  BY <1>4, StartedOK

LEMMA WayAtFirst == ASSUME Init PROVE WayInv
<1>1. CaughtInv
  BY CaughtAtFirst
<1>2. /\ group = [history |-> <<>>, roster |-> {}] /\ recovering = {} /\ commits = {} /\ open = {}
      /\ expelled = {} /\ packages = [u \in Users |-> session[u].package]
      /\ session = [u \in Users |-> IF u \in Present THEN Started(u) ELSE NewSession]
      /\ \A u \in Users : inbox[u] = <<>>
  BY DEF Init
<1>3. ASSUME NEW u \in Users
      PROVE  /\ session[u].current = {} /\ \A p \in session[u].package : p.leaf.user = u
             /\ session[u] = NewSession \/ (session[u].leaf # {} /\ session[u].package # {})
  BY <1>2, StartedFields DEF NewSession
<1>4. \A u \in Users : Mail(u) = {}
  BY <1>2 DEF Mail, Range
<1>5. ServerWay /\ \A c \in commits : InGroup(c)
  BY <1>2, <1>3 DEF ServerWay
<1>6. ASSUME NEW u \in Users PROVE WayOf(u) /\ InOrderWay(u)
  <2>1. LeafOrGroup(u)
    BY <1>3, <1>4, <1>6 DEF LeafOrGroup, Expects
  <2>2. EpochsInOrder(u) /\ BeginsAnew(u)
    BY <1>2, <1>4, <1>6 DEF EpochsInOrder, BeginsAnew, Expects
  <2>3. NotBehind(u)
    BY <1>2, <1>4, <1>6 DEF NotBehind
  <2>4. OnWayBack(u)
    BY <1>2, <1>3, <1>6 DEF OnWayBack
  <2> QED
    BY <2>1, <2>2, <2>3, <2>4 DEF WayOf, InOrderWay
<1> QED
  BY <1>1, <1>5, <1>6 DEF WayInv

LEMMA StepOnWay == ASSUME ~AcceptEarlier, WayInv, Next PROVE WayInv'
<1>1. CaughtInv'
  BY StepCaught DEF WayInv
<1>2. ASSUME NEW u \in Users, NEW i \in DOMAIN inbox[u],
             \/ SelectProtocol(u, i) \/ ExternalSenderPackage(u, i)
             \/ \E known \in {Users} \cup {Users \ {v} : v \in Users \ {u}} : Proposals(u, i, known)
             \/ PrepareCommitTransition(u, i) \/ Welcome(u, i)
      PROVE  WayInv'
  BY <1>1, <1>2, SelectOnWay, SenderOnWay, ProposalsOnWay, CommitOnWay, WelcomeOnWay
<1>3. ASSUME NEW u \in Users, PrepareEpochAgain(u) \/ KeyPackageAgain(u) \/ Connect(u)
      PROVE  WayInv'
  BY <1>1, <1>3, PrepareAgainOnWay, KeyPackageOnWay, ConnectOnWay
<1>4. ASSUME \/ \E batch \in Batches(Wanted \ open) : Propose(batch)
             \/ \E p \in open : Revoke(p)
             \/ \E c \in commits : Accept(c)
      PROVE  WayInv'
  BY <1>1, <1>4, ProposeOnWay, RevokeOnWay, AcceptOnWay
<1> QED
  BY <1>2, <1>3, <1>4 DEF Next

LEMMA StutterOnWay == ASSUME WayInv, UNCHANGED vars PROVE WayInv'
<1>1. CaughtInv'
  BY StutterCaught DEF WayInv
<1>2. UNCHANGED <<session, inbox, recovering, overtaken, group, open, packages, expelled, commits>>
  BY DEF vars
<1>3. ServerWay' /\ \A c \in commits' : InGroup(c)'
  BY <1>2 DEF WayInv, ServerWay, InGroup
<1>4. ASSUME NEW u \in Users PROVE WayOf(u)' /\ (u \notin overtaken' => InOrderWay(u)')
  BY <1>2 DEF WayInv, WayOf, InOrderWay, LeafOrGroup, EpochsInOrder, BeginsAnew, NotBehind,
              OnWayBack, LeavesOf, Expects, Mail, Base
<1> QED
  BY <1>1, <1>3, <1>4 DEF WayInv

LEMMA WayBackThen == ASSUME WayInv PROVE FailureHasWayBack
<1> SUFFICES ASSUME NEW u \in Users \ overtaken, session[u] # NewSession, session[u].current = {},
                    LeavesOf(u) \subseteq expelled
             PROVE  HasWayBack(u)
  BY DEF FailureHasWayBack
<1>1. OnWayBack(u)
  BY DEF WayInv, InOrderWay
<1> QED
  BY <1>1 DEF OnWayBack, HasWayBack, Expects, Mail, Range

(* A client whose Session is in no group, and whose leaves, if it has any, *)
(* the server is to remove, can be added again, or will be able to: the    *)
(* server holds a key package of it, or a report of its own is still to be *)
(* followed by one, or a message is on its way that makes one or needs     *)
(* one.  It is how DaveSessionManager.swift recovers: a failed commit      *)
(* leads to selectProtocol (154), a failed welcome to one more package of  *)
(* the leaf the Session still has (172).  The invariant says why: who      *)
(* could not follow a commit can follow no later one, so that nothing      *)
(* gives the Session a group before it is initialised again; and who is in *)
(* no group keeps its leaf.                                                *)
THEOREM FailuresRecover == ASSUME ~AcceptEarlier PROVE Spec => []FailureHasWayBack
<1>1. WayInv /\ [Next]_vars => WayInv'
  BY StepOnWay, StutterOnWay
<1>2. Spec => []WayInv
  BY <1>1, WayAtFirst, PTL DEF Spec
<1> QED
  BY <1>2, WayBackThen, PTL
=============================================================================
