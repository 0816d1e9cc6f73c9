------------------------------ MODULE DaveSession ------------------------------
(***************************************************************************)
(* The MLS session of libdave (session.cpp) at every user of a call, as    *)
(* DaveSessionManager.swift drives it, with Discord's delivery service,    *)
(* which is external.  Each gateway event becomes a task of its own, so    *)
(* the session may take the messages of a user in any order.               *)
(*                                                                         *)
(* An mlspp State is what decides which messages it takes: the history of  *)
(* commits its keys come from, its own leaf, the leaves of the roster and  *)
(* the proposals it holds.  MlsGroup says why two States with the same     *)
(* history have the same keys.                                             *)
(***************************************************************************)
EXTENDS Integers, Sequences, FiniteSets
LOCAL INSTANCE SequencesExt
LOCAL INSTANCE Functions

CONSTANTS
  Users,
  Present,            \* those that are in the call from the beginning
  AcceptEarlier,      \* whether the server may take a commit its sender has replaced since
  MaxProposals,       \* bound: batches of proposals the server sends
  MaxDisturbances     \* bound: revocations, users that come back with a new
                      \* session and times a user's list of the others is behind

VARIABLES
  session,            \* the Session of each user
  inbox,              \* the messages for each user, oldest first
  made,               \* how many leaves, packages and commits each user has made
  recovering,         \* what users that reported a failure have still to do
  overtaken,          \* users one of whose messages was handled before an older one, or a
                      \* welcome before the reset that a failed commit has led to
  group,              \* the server's: the history and the roster it has accepted
  open,               \* the proposals of this epoch
  packages,           \* the last key package of each user, if usable
  expelled,           \* leaves to be removed because their user failed or left
  commits,            \* commits on their way to the server
  count               \* of batches and disturbances

vars == <<session, inbox, made, recovering, overtaken,
          group, open, packages, expelled, commits, count>>

Epoch(history) == Len(history) - 1

-----------------------------------------------------------------------------
(* mlspp::State.  Optional values are sets of at most one element.         *)
Solo(leaf) == [history |-> <<leaf>>, self |-> leaf, roster |-> {leaf}, proposals |-> <<>>]

\* handle_proposal: a proposal it has is ignored, one to remove itself or
\* nobody is refused.
ValidProposal(s, p) == p.op = "remove" => p.leaf \in s.roster \ {s.self}

AddOnce(list, p) == IF p \in Range(list) THEN list ELSE Append(list, p)
AddAll(list, more) == FoldLeft(AddOnce, list, more)
HandleProposals(s, proposals) == [s EXCEPT !.proposals = AddAll(@, proposals)]

Leaves(proposals, op) == {p.leaf : p \in {q \in Range(proposals) : q.op = op}}

\* valid_normal and apply: nothing twice, nothing already in the tree.
ValidList(s, proposals, sender) ==
  /\ \A p \in Range(proposals) : ValidProposal(s, p)
  /\ sender \notin Leaves(proposals, "remove")
  /\ \A i, j \in DOMAIN proposals :
       i # j => proposals[i].op # proposals[j].op \/ proposals[i].leaf # proposals[j].leaf
  /\ Leaves(proposals, "add") \cap (s.roster \ Leaves(proposals, "remove")) = {}

Successor(s, id, proposals) ==
  [s EXCEPT !.history = Append(@, id),
            !.roster = (@ \ Leaves(proposals, "remove")) \cup Leaves(proposals, "add"),
            !.proposals = <<>>]

HandleCommitCachedFirst(s, c, cached) ==  \* mutant: the cached state whoever sent the commit
  IF c.base # s.history THEN {}
  ELSE IF cached # {} THEN {n \in cached : Len(n.history) = Len(s.history) + 1}
  ELSE {Successor(s, c.id, c.proposals) :
          ok \in {TRUE} \cap {Range(c.proposals) \subseteq Range(s.proposals)
                              /\ ValidList(s, c.proposals, c.from)}}

\* handle_commit: one's own commit gives the cached state, another's is
\* resolved among the proposals one holds.
HandleCommit(s, c, cached) ==
  IF c.base # s.history THEN {}
  ELSE IF c.from = s.self
  THEN {n \in cached : Len(n.history) = Len(s.history) + 1 /\ n.self = s.self}
  ELSE {Successor(s, c.id, c.proposals) :
          ok \in {TRUE} \cap {Range(c.proposals) \subseteq Range(s.proposals)
                              /\ ValidList(s, c.proposals, c.from)}}

-----------------------------------------------------------------------------
(* The parts of a Session.                                                 *)
NewSession ==
  [leaf |-> {}, package |-> {}, pending |-> {}, current |-> {}, working |-> {},
   queue |-> <<>>, cached |-> {}, sender |-> FALSE, groupId |-> FALSE]

ClearPendingState(s) ==
  [s EXCEPT !.pending = {}, !.package = {}, !.leaf = {}, !.working = {}, !.queue = <<>>]

Reset(s) == [ClearPendingState(s) EXCEPT !.current = {}, !.cached = {}, !.groupId = FALSE]

CreatePendingGroup(s) ==
  IF s.groupId /\ s.sender THEN [s EXCEPT !.pending = {Solo(l) : l \in s.leaf}] ELSE s

InitSession(s, leaf) ==
  CreatePendingGroup([Reset(s) EXCEPT !.groupId = TRUE, !.leaf = {leaf}])

SetExternalSender(s) ==
  IF s.current # {} THEN s ELSE CreatePendingGroup([s EXCEPT !.sender = TRUE])

\* A new package of the leaf it has, or none if the leaf is gone.
ResetJoinKeyPackage(s, no) ==
  [s EXCEPT !.package = IF s.leaf = {} THEN @ ELSE {[leaf |-> l, no |-> no] : l \in s.leaf}]

\* The roster may not name a user twice.
ReplaceState(s, next) == [s EXCEPT !.current = {next}]
OneLeafEach(roster) == \A l, m \in roster : l.user = m.user => l = m

\* The base of the proposals is the pending group if there is one.
Base(s) == IF s.pending # {} THEN s.pending ELSE s.current

Acceptable(w, p, recognized) ==
  /\ p.epoch = Epoch(w.history)
  /\ p.op = "add" => p.leaf.user \in recognized
  /\ ValidProposal(w, p)

\* Proposals are taken until one is not acceptable; whether one is does not
\* depend on those before it.
AppendProposals(s, w, proposals, recognized) ==
  LET k == CHOOSE n \in 0 .. Len(proposals) :
             /\ \A i \in 1 .. n : Acceptable(w, proposals[i], recognized)
             /\ n < Len(proposals) => ~Acceptable(w, proposals[n + 1], recognized)
      taken == SubSeq(proposals, 1, k)
  IN [ok |-> k = Len(proposals), queue |-> s.queue \o taken,
      working |-> {HandleProposals(w, taken)}]

\* The server revokes one at a time.  The state with proposals is made again
\* from what is left of the queue.
EraseProposal(s, w, p) ==
  LET first == CHOOSE i \in DOMAIN s.queue :
                 s.queue[i] = p /\ \A j \in 1 .. i - 1 : s.queue[j] # p
      left == RemoveAt(s.queue, first)
  IN IF p \in Range(s.queue)
     THEN [ok |-> TRUE, queue |-> left, working |-> {HandleProposals(b, left) : b \in Base(s)}]
     ELSE [ok |-> FALSE, queue |-> s.queue, working |-> {w}]

Taken(s, m, recognized) ==
  LET w == CHOOSE x \in (IF s.working = {} THEN Base(s) ELSE s.working) : TRUE
  IN IF m.revoke THEN EraseProposal(s, w, m.proposals[1])
     ELSE AppendProposals(s, w, m.proposals, recognized)

-----------------------------------------------------------------------------
\* The users in the call have a session and handed in a package; the others
\* come, and all may come again, by Connect.
Started(u) ==
  LET leaf == [user |-> u, leaf |-> 0] IN
    ResetJoinKeyPackage(SetExternalSender(InitSession(NewSession, leaf)), 0)

Init ==
  /\ session = [u \in Users |-> IF u \in Present THEN Started(u) ELSE NewSession]
  /\ inbox = [u \in Users |-> <<>>]
  /\ made = [u \in Users |-> 0]
  /\ recovering = {} /\ overtaken = {} /\ expelled = {}
  /\ group = [history |-> <<>>, roster |-> {}]
  /\ open = {} /\ commits = {}
  /\ packages = [u \in Users |-> session[u].package]
  /\ count = [batches |-> 0, disturbances |-> 0]

serverVars == <<group, open, packages, expelled, commits>>

\* A task takes its message; it is for the handlers to use once.
InItsTurn(u, i, kind) == i = 1 /\ (kind = "welcome" => <<u, "epoch">> \notin recovering)

Take(u, i, kind) ==
  /\ inbox[u][i].kind = kind
  /\ inbox' = [inbox EXCEPT ![u] = RemoveAt(@, i)]
  /\ overtaken' = IF InItsTurn(u, i, kind) THEN overtaken ELSE overtaken \cup {u}

Counted(name, max) ==
  /\ count[name] < max
  /\ count' = [count EXCEPT ![name] = @ + 1]

PrepareEpochPackageFirst(u) ==  \* mutant: the package is made before the session is initialised
  LET leaf == [user |-> u, leaf |-> made[u] + 1]
      s == InitSession(ResetJoinKeyPackage(session[u], made[u] + 1), leaf)
  IN /\ session' = [session EXCEPT ![u] = s]
     /\ made' = [made EXCEPT ![u] = @ + 1]
     /\ packages' = [packages EXCEPT ![u] = s.package]

(* prepareEpoch: initialise, and hand in a key package.                    *)
PrepareEpoch(u) ==
  LET leaf == [user |-> u, leaf |-> made[u] + 1]
      s == ResetJoinKeyPackage(InitSession(session[u], leaf), made[u] + 1)
  IN /\ session' = [session EXCEPT ![u] = s]
     /\ made' = [made EXCEPT ![u] = @ + 1]
     /\ packages' = [packages EXCEPT ![u] = s.package]

SelectProtocol(u, i) ==
  /\ Take(u, i, "select")
  /\ PrepareEpoch(u)
  /\ UNCHANGED <<recovering, group, open, expelled, commits, count>>

ExternalSenderPackage(u, i) ==
  /\ Take(u, i, "sender")
  /\ session' = [session EXCEPT ![u] = SetExternalSender(@)]
  /\ UNCHANGED <<made, recovering, serverVars, count>>

ServerEpoch == IF group.history = <<>> THEN 0 ELSE Epoch(group.history)

\* The server drops the commits to an epoch that is over, and those that
\* their sender has replaced if it does not take them.
Arrived(all) ==
  {c \in all : /\ Epoch(c.base) = ServerEpoch
               /\ AcceptEarlier \/ \A d \in all : d.from = c.from => d.id.no <= c.id.no}

(* The users the manager knows may be behind those the proposals add.      *)
Recognized(u, known) ==
  \/ known = Users /\ UNCHANGED count
  \/ \E v \in Users \ {u} : known = Users \ {v} /\ Counted("disturbances", MaxDisturbances)

Proposals(u, i, known) ==
  LET s == session[u]
      r == Taken(s, inbox[u][i], known)
      w == CHOOSE x \in r.working : TRUE
      commit == [from |-> w.self, base |-> w.history, proposals |-> w.proposals,
                 id |-> [from |-> w.self, no |-> made[u] + 1]]
  IN
  /\ Take(u, i, "proposals")
  /\ Recognized(u, known)
  /\ IF Base(s) = {}
     THEN UNCHANGED <<session, made, commits>>
     ELSE IF r.ok /\ ValidList(w, w.proposals, w.self)
     THEN /\ session' = [session EXCEPT ![u] =
                [@ EXCEPT !.working = r.working, !.queue = r.queue,
                          !.cached = {Successor(w, commit.id, w.proposals)}]]
          /\ made' = [made EXCEPT ![u] = @ + 1]
          /\ commits' = Arrived(commits \cup {commit})
     ELSE /\ session' = [session EXCEPT ![u] =
                [@ EXCEPT !.working = r.working, !.queue = r.queue]]
          /\ UNCHANGED <<made, commits>>
  /\ UNCHANGED <<recovering, group, open, packages, expelled>>

(* The server removes the leaf of a user that reports a failure and waits  *)
(* for a new key package.                                                  *)
LeavesOf(u) == {l \in group.roster : l.user = u}

InvalidCommitWelcome(u) ==
  /\ expelled' = expelled \cup LeavesOf(u)
  /\ packages' = [packages EXCEPT ![u] = {}]

CanProcessCommitOwn(s) == s.working # {} /\ s.cached # {}  \* mutant: only with a commit of its own

(* ProcessCommit: ignored, failed or followed.                             *)
CanProcessCommit(s) == s.working # {}

ProcessedCommit(s, c) ==
  {[ClearPendingState(ReplaceState(s, n)) EXCEPT !.cached = {}] :
     n \in {m \in UNION {HandleCommit(w, c, s.cached) : w \in s.working} :
              OneLeafEach(m.roster)}}

\* A failed commit is reported, and the session initialised later.
PrepareCommitTransition(u, i) ==
  LET s == session[u]
      next == ProcessedCommit(s, inbox[u][i].commit)
  IN
  /\ Take(u, i, "commit")
  /\ \/ /\ ~CanProcessCommit(s)
        /\ UNCHANGED <<session, recovering, packages, expelled>>
     \/ /\ CanProcessCommit(s) /\ next # {}
        /\ session' = [session EXCEPT ![u] = CHOOSE n \in next : TRUE]
        /\ UNCHANGED <<recovering, packages, expelled>>
     \/ /\ CanProcessCommit(s) /\ next = {}
        /\ recovering' = recovering \cup {<<u, "epoch">>}
        /\ InvalidCommitWelcome(u)
        /\ UNCHANGED session
  /\ UNCHANGED <<made, group, open, commits, count>>

\* The tasks that reported go on, each when it is its turn.
PrepareEpochAgain(u) ==
  /\ <<u, "epoch">> \in recovering
  /\ recovering' = recovering \ {<<u, "epoch">>}
  /\ PrepareEpoch(u)
  /\ UNCHANGED <<inbox, overtaken, group, open, expelled, commits, count>>

KeyPackageAgain(u) ==
  LET s == ResetJoinKeyPackage(session[u], made[u] + 1) IN
  /\ <<u, "package">> \in recovering
  /\ recovering' = recovering \ {<<u, "package">>}
  /\ session' = [session EXCEPT ![u] = s]
  /\ made' = [made EXCEPT ![u] = @ + 1]
  /\ packages' = [packages EXCEPT ![u] = s.package]
  /\ UNCHANGED <<inbox, overtaken, group, open, expelled, commits, count>>

(* ProcessWelcome, with the package it was sealed for.                     *)
HasCryptographicStateForWelcome(s) == s.package # {} /\ s.leaf # {}

ProcessedWelcome(s, w) ==
  {ClearPendingState(ReplaceState(s, [history |-> w.history, self |-> p.leaf,
                                      roster |-> w.roster, proposals |-> <<>>])) :
     p \in {q \in s.package : /\ HasCryptographicStateForWelcome(s)
                              /\ s.sender /\ s.current = {}
                              /\ q \in w.packages /\ OneLeafEach(w.roster)}}

Welcome(u, i) ==
  LET s == session[u]
      next == ProcessedWelcome(s, inbox[u][i])
  IN
  /\ Take(u, i, "welcome")
  /\ \/ /\ next # {}
        /\ session' = [session EXCEPT ![u] = CHOOSE n \in next : TRUE]
        /\ UNCHANGED <<recovering, packages, expelled>>
     \/ /\ next = {}
        /\ recovering' = recovering \cup {<<u, "package">>}
        /\ InvalidCommitWelcome(u)
        /\ UNCHANGED session
  /\ UNCHANGED <<made, group, open, commits, count>>

(* A user comes, or comes back, with a new manager; the server has no use *)
(* for what the old one sent.                                              *)
Connect(u) ==
  /\ Counted("disturbances", MaxDisturbances)
  /\ session' = [session EXCEPT ![u] = NewSession]
  /\ inbox' = [inbox EXCEPT ![u] = <<[kind |-> "select"], [kind |-> "sender"]>>]
  /\ recovering' = {r \in recovering : r[1] # u}
  /\ overtaken' = overtaken \ {u}
  /\ InvalidCommitWelcome(u)
  /\ commits' = {c \in commits : c.from.user # u}
  /\ UNCHANGED <<made, group, open>>

-----------------------------------------------------------------------------
(* The delivery service.  Before the first commit every user with a        *)
(* session is the only member of a group of its own; afterwards it talks   *)
(* to the roster.                                                          *)
Members ==
  IF group.history = <<>> THEN {u \in Users : packages[u] # {}} ELSE {l.user : l \in group.roster}

\* What it wants to change: users out that failed, users in that can join.
Wanted ==
  {[op |-> "remove", leaf |-> l, no |-> 0, epoch |-> ServerEpoch] :
     l \in group.roster \cap expelled}
  \cup
  {[op |-> "add", leaf |-> p.leaf, no |-> p.no, epoch |-> ServerEpoch] :
     p \in UNION {packages[u] : u \in {v \in Users :
             LeavesOf(v) \subseteq expelled}}}

\* No user is asked to add itself to a group it is the founder of; one
\* proposal at most would.
Concerns(u, p) == group.history # <<>> \/ p.leaf.user # u
For(u, proposals) ==
  IF \A p \in Range(proposals) : Concerns(u, p) THEN proposals
  ELSE RemoveAt(proposals, CHOOSE i \in DOMAIN proposals : ~Concerns(u, proposals[i]))

\* One proposal or two.
Batches(proposals) ==
  {<<p>> : p \in proposals}
  \cup {b \in proposals \X proposals : b[1] # b[2]}

Send(message) ==
  inbox' = [u \in Users |->
              IF u \in DOMAIN message THEN Append(inbox[u], message[u]) ELSE inbox[u]]

Propose(batch) ==
  /\ Counted("batches", MaxProposals)
  /\ open' = open \cup Range(batch)
  /\ Send([u \in {m \in Members : For(m, batch) # <<>>} |->
            [kind |-> "proposals", revoke |-> FALSE, proposals |-> For(u, batch)]])
  /\ UNCHANGED <<session, made, recovering, overtaken, group, packages, expelled, commits>>

Revoke(p) ==
  /\ Counted("disturbances", MaxDisturbances)
  /\ open' = open \ {p}
  /\ Send([u \in {m \in Members : Concerns(m, p)} |->
            [kind |-> "proposals", revoke |-> TRUE, proposals |-> <<p>>]])
  /\ UNCHANGED <<session, made, recovering, overtaken, group, packages, expelled, commits>>

\* Without AcceptEarlier, the commit is the last its sender makes in this
\* epoch: it has no proposals left to handle.
LastOfItsSender(c) ==
  \A i \in DOMAIN inbox[c.from.user] : inbox[c.from.user][i].kind # "proposals"

Accept(c) ==
  LET s == [history |-> c.base, self |-> c.from, proposals |-> <<>>,
            roster |-> IF group.history = <<>> THEN {c.from} ELSE group.roster]
      next == Successor(s, c.id, c.proposals)
      removed == Leaves(c.proposals, "remove")
      adds == {p \in Range(c.proposals) : p.op = "add"}
      added == {p.leaf.user : p \in adds}
  IN
  /\ c.from.user \in Members
  /\ Range(c.proposals) # {}
  /\ IF AcceptEarlier THEN Range(c.proposals) \subseteq open
     ELSE /\ Range(c.proposals) = {p \in open : Concerns(c.from.user, p)}
          /\ LastOfItsSender(c)
  /\ group' = [history |-> next.history, roster |-> next.roster]
  /\ open' = {}
  /\ Send([u \in {l.user : l \in s.roster \ removed} \cup added |->
            IF u \in added
            THEN [kind |-> "welcome", history |-> next.history, roster |-> next.roster,
                  packages |-> {[leaf |-> p.leaf, no |-> p.no] : p \in adds}]
            ELSE [kind |-> "commit", commit |-> c]])
  /\ expelled' = expelled \ removed
  /\ packages' = [u \in Users |-> {p \in packages[u] : p.leaf.user \notin added \cup {c.from.user}}]
  /\ commits' = {}
  /\ UNCHANGED <<session, made, recovering, overtaken, count>>

-----------------------------------------------------------------------------
Next ==
  \/ \E u \in Users :
       \/ \E i \in DOMAIN inbox[u] :
            \/ SelectProtocol(u, i)
            \/ ExternalSenderPackage(u, i)
            \/ \E known \in {Users} \cup {Users \ {v} : v \in Users \ {u}} :
                 Proposals(u, i, known)
            \/ PrepareCommitTransition(u, i)
            \/ Welcome(u, i)
       \/ PrepareEpochAgain(u)
       \/ KeyPackageAgain(u)
       \/ Connect(u)
  \/ \E batch \in Batches(Wanted \ open) : Propose(batch)
  \/ \E p \in open : Revoke(p)
  \/ \E c \in commits : Accept(c)

Spec == Init /\ [][Next]_vars

-----------------------------------------------------------------------------
TypeOK ==
  /\ DOMAIN session = Users
  /\ \A u \in Users :
       /\ Cardinality(session[u].current) <= 1 /\ Cardinality(packages[u]) <= 1
       /\ \A s \in session[u].working : Range(s.proposals) \subseteq Range(session[u].queue)
  /\ recovering \subseteq Users \X {"epoch", "package"}
  /\ expelled \subseteq group.roster

(* Every State a user goes by is one the server accepted: nobody is in a   *)
(* group of its own making or of a commit that lost, whatever order the    *)
(* proposals, commits and welcomes are handled in.                         *)
OnlyAccepted ==
  \A u \in Users : \A s \in session[u].current : IsPrefix(s.history, group.history)

(* A member that has handled all its messages in order is in the server's  *)
(* epoch, or the server knows that it is not and has it removed: whoever   *)
(* lost its group by its own steps has reported a failure.                 *)
CaughtUp ==
  \A u \in Users \ overtaken :
    inbox[u] = <<>> =>
      \A l \in LeavesOf(u) \ expelled :
        \E s \in session[u].current : s.history = group.history /\ s.self = l

(* A user without a group is on its way to hand in a key package the       *)
(* server can add it by, or has, unless the server has a leaf of it that   *)
(* it takes for good: no report of a failure is a dead end.                *)
HasWayBack(u) ==
  \/ packages[u] # {}
  \/ \E r \in recovering : r[1] = u
  \/ \E i \in DOMAIN inbox[u] : inbox[u][i].kind \in {"select", "welcome"}

FailureHasWayBack ==
  \A u \in Users \ overtaken :
    session[u] # NewSession /\ session[u].current = {} /\ LeavesOf(u) \subseteq expelled
    => HasWayBack(u)

(* The same of who has joined a group that the server is to remove it      *)
(* from.  It does not hold: mlsWelcome reports a failed welcome and then   *)
(* hands in what getKeyPackage gives (DaveSessionManager.swift:172), which *)
(* is nothing once a later welcome has cleared the leaf (session.cpp:468). *)
RemovedHasWayBack ==
  \A u \in Users \ overtaken :
    session[u] # NewSession /\ LeavesOf(u) \subseteq expelled => HasWayBack(u)
=============================================================================
