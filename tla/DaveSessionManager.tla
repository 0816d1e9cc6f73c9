------------------------- MODULE DaveSessionManager -------------------------
(***************************************************************************)
(* DaveSessionManager (Sources/DAVE/DaveSessionManager.swift), the actor   *)
(* that keeps the end-to-end encryption of a call, as VoiceGateway drives  *)
(* it: every event of the server becomes a task of its own that calls the  *)
(* actor, and nothing orders these tasks.  The actor runs a method up to   *)
(* its next await; it is open to other calls while it sends.               *)
(*                                                                         *)
(* libdave's session is its protocol version and the number of its epoch;  *)
(* a key ratchet is the epoch it comes from.  Version 0 is the disabled    *)
(* protocol.                                                               *)
(***************************************************************************)
EXTENDS Integers, FiniteSets

CONSTANTS
  User,
  Id,       \* ids of transitions the server offers but INIT_TRANSITION_ID, 0
  MaxEpoch, \* bound: epochs
  MaxMoves, \* bound: users that come or go
  MaxTasks  \* bound: tasks the server's events have under way

ASSUME DaveAssumption ==
  /\ Id \subseteq Nat \ {0} /\ {MaxEpoch, MaxMoves, MaxTasks} \subseteq Nat

VARIABLES
  session,   \* libdave: protocol version and epoch
  encryptor, \* what outgoing audio is encrypted with
  decryptors,\* of each user: absent, passthrough or a key
  lastPreparedTransitionVersion,
  prepared,  \* preparedTransitions: the version of each id, None when absent
  pending,   \* tasks that are about to enter the actor, or to go on in it
  present,   \* users in the call, as the server has said
  moves,     \* how often they came and went
  offered,   \* server: transitions it has sent
  readied,   \* server: transitions this client is ready for
  agreed     \* history: the version of the last transition prepared

serverVars == <<present, moves, offered, readied>>
vars == <<session, encryptor, decryptors, lastPreparedTransitionVersion, prepared,
          pending, serverVars, agreed>>

None == -1
Version == {0, 1}
Absent == [mode |-> "absent", epoch |-> 0]
Passthrough == [mode |-> "pass", epoch |-> 0]
Ratchet(e) == [mode |-> "key", epoch |-> e]
Crypt == {Absent, Passthrough} \cup {Ratchet(e) : e \in 0 .. MaxEpoch}

Calls == [call : {"addUser", "removeUser"}, user : User]
         \cup [call : {"prepareTransition"}, id : Id \cup {0}, version : Version]
         \cup [call : {"executeTransition", "sendReady"}, id : Id]
         \cup [call : {"commit", "welcome"}, id : Id \cup {0}]
         \cup [call : {"selectProtocol"}, version : Version]
         \cup [call : {"reselect", "prepareEpoch"}]

Init ==
  /\ session = [version |-> 0, epoch |-> 0]
  /\ encryptor = Passthrough /\ decryptors = [u \in User |-> Absent]
  /\ lastPreparedTransitionVersion = 0 /\ prepared = [i \in Id |-> None]
  /\ \E v \in Version : pending = {[call |-> "selectProtocol", version |-> v]}
  /\ present = {} /\ moves = 0 /\ offered = {} /\ readied = {}
  /\ agreed = 0

-----------------------------------------------------------------------------
(* The server.  A client comes or goes; a transition is offered with a     *)
(* version, a commit or a welcome, and executed once the client is ready.  *)

Comes(t) == Cardinality(pending) < MaxTasks /\ pending' = pending \cup {t}

managerVars == <<session, encryptor, decryptors, lastPreparedTransitionVersion, prepared, agreed>>

ClientConnect(u) ==
  /\ u \notin present /\ moves < MaxMoves /\ moves' = moves + 1
  /\ present' = present \cup {u}
  /\ Comes([call |-> "addUser", user |-> u])
  /\ UNCHANGED <<managerVars, offered, readied>>

ClientDisconnect(u) ==
  /\ u \in present /\ moves < MaxMoves /\ moves' = moves + 1
  /\ present' = present \ {u}
  /\ Comes([call |-> "removeUser", user |-> u])
  /\ UNCHANGED <<managerVars, offered, readied>>

Offer(i) ==
  /\ i \notin offered /\ offered' = offered \cup ({i} \ {0})
  /\ \/ \E v \in Version : Comes([call |-> "prepareTransition", id |-> i, version |-> v])
     \/ \E c \in {"commit", "welcome"} : Comes([call |-> c, id |-> i])
  /\ UNCHANGED <<managerVars, present, moves, readied>>

Execute(i) ==
  /\ i \in readied /\ readied' = readied \ {i}
  /\ Comes([call |-> "executeTransition", id |-> i])
  /\ UNCHANGED <<managerVars, present, moves, offered>>

NewEpoch ==
  /\ Comes([call |-> "prepareEpoch"])
  /\ UNCHANGED <<managerVars, serverVars>>

-----------------------------------------------------------------------------
(* setupKeyRatchetForUser, setupKeyRatchetForEncryptor: passthrough or the *)
(* ratchet of the session as it is now.                                    *)
Setup(s, version) == IF version = 0 THEN Passthrough ELSE Ratchet(s.epoch)

SetupUsers(s, version) ==
  [u \in User |-> IF decryptors[u] = Absent THEN Absent ELSE Setup(s, version)]

Runs(t, more) == t \in pending /\ pending' = (pending \ {t}) \cup more

AddUser(t) ==
  /\ t.call = "addUser" /\ Runs(t, {})
  /\ decryptors' = [decryptors EXCEPT ![t.user] = Setup(session, lastPreparedTransitionVersion)]
  /\ UNCHANGED <<session, encryptor, lastPreparedTransitionVersion, prepared, serverVars, agreed>>

RemoveUser(t) ==
  /\ t.call = "removeUser" /\ Runs(t, {})
  /\ decryptors' = [decryptors EXCEPT ![t.user] = Absent]
  /\ UNCHANGED <<session, encryptor, lastPreparedTransitionVersion, prepared, serverVars, agreed>>

(* prepareTransition of id i for a session s, called by task t.            *)
PreparedUnstored(t, i, version, s) ==  \* mutant: stored by nobody before the server is told
  /\ Runs(t, IF i = 0 THEN {} ELSE {[call |-> "sendReady", id |-> i]})
  /\ session' = s
  /\ decryptors' = SetupUsers(s, version)
  /\ encryptor' = IF i = 0 THEN Setup(s, version) ELSE encryptor
  /\ lastPreparedTransitionVersion' = i /\ agreed' = version
  /\ UNCHANGED <<prepared, serverVars>>

Prepared(t, i, version, s) ==
  /\ Runs(t, IF i = 0 THEN {} ELSE {[call |-> "sendReady", id |-> i]})
  /\ session' = s
  /\ decryptors' = SetupUsers(s, version)
  /\ IF i = 0 THEN encryptor' = Setup(s, version) /\ UNCHANGED prepared
     ELSE prepared' = [prepared EXCEPT ![i] = version] /\ UNCHANGED encryptor
  /\ lastPreparedTransitionVersion' = i /\ agreed' = version
  /\ UNCHANGED serverVars

PrepareTransition(t) == t.call = "prepareTransition" /\ Prepared(t, t.id, t.version, session)

(* readyForTransition, the await at the end of prepareTransition.          *)
SendReady(t) ==
  /\ t.call = "sendReady" /\ Runs(t, {}) /\ readied' = readied \cup {t.id}
  /\ UNCHANGED <<managerVars, present, moves, offered>>

ExecuteTransitionUnreset(t) ==  \* mutant: the session survives the downgrade
  /\ t.call = "executeTransition" /\ Runs(t, {})
  /\ prepared' = [prepared EXCEPT ![t.id] = None]
  /\ encryptor' = IF prepared[t.id] = None THEN encryptor ELSE Setup(session, prepared[t.id])
  /\ UNCHANGED <<session, decryptors, lastPreparedTransitionVersion, serverVars, agreed>>

ExecuteTransition(t) ==
  /\ t.call = "executeTransition" /\ Runs(t, {})
  /\ prepared' = [prepared EXCEPT ![t.id] = None]
  /\ IF prepared[t.id] = None THEN UNCHANGED <<session, encryptor>>
     ELSE /\ session' = IF prepared[t.id] = 0 THEN [version |-> 0, epoch |-> 0] ELSE session
          /\ encryptor' = Setup(session', prepared[t.id])
  /\ UNCHANGED <<decryptors, lastPreparedTransitionVersion, serverVars, agreed>>

(* prepareEpoch initialises the session; the key package it sends changes  *)
(* nothing here.                                                           *)
Initialised(t) ==
  /\ Runs(t, {}) /\ session' = [version |-> 1, epoch |-> 0]
  /\ UNCHANGED <<encryptor, decryptors, lastPreparedTransitionVersion, prepared, serverVars, agreed>>

PrepareEpoch(t) == t.call = "prepareEpoch" /\ Initialised(t)

(* Version 0 prepares transition 0; executeTransition(0) then finds none.  *)
Select(t, version) == IF version = 0 THEN Prepared(t, 0, 0, session) ELSE Initialised(t)

SelectProtocol(t) == \/ t.call = "selectProtocol" /\ Select(t, t.version)
                     \/ t.call = "reselect" /\ Select(t, session.version)

(* libdave on a commit or a welcome: a new epoch of an initialised         *)
(* session, a failure or, for a commit, nothing.  After a failed commit    *)
(* the manager tells the server and then selects its protocol anew.        *)
NextEpoch == [session EXCEPT !.epoch = @ + 1]

Commit(t) ==
  /\ t.call = "commit"
  /\ \/ session.version = 1 /\ session.epoch < MaxEpoch /\ Prepared(t, t.id, session.version, NextEpoch)
     \/ \E more \in {{}, {[call |-> "reselect"]}} : Runs(t, more) /\ UNCHANGED <<managerVars, serverVars>>

Welcome(t) ==
  /\ t.call = "welcome"
  /\ \/ session.version = 1 /\ session.epoch < MaxEpoch /\ Prepared(t, t.id, session.version, NextEpoch)
     \/ Runs(t, {}) /\ UNCHANGED <<managerVars, serverVars>>

Run(t) == \/ AddUser(t) \/ RemoveUser(t) \/ PrepareTransition(t) \/ SendReady(t)
          \/ ExecuteTransition(t) \/ PrepareEpoch(t) \/ SelectProtocol(t) \/ Commit(t) \/ Welcome(t)

Next == \/ \E u \in User : ClientConnect(u) \/ ClientDisconnect(u)
        \/ \E i \in Id \cup {0} : Offer(i) \/ Execute(i)
        \/ NewEpoch
        \/ \E t \in pending : Run(t)

Spec == Init /\ [][Next]_vars

-----------------------------------------------------------------------------
TypeOK ==
  /\ session \in [version : Version, epoch : 0 .. MaxEpoch]
  /\ encryptor \in Crypt \ {Absent} /\ decryptors \in [User -> Crypt]
  /\ lastPreparedTransitionVersion \in Id \cup {0}
  /\ prepared \in [Id -> Version \cup {None}] /\ pending \subseteq Calls
  /\ present \subseteq User /\ moves \in 0 .. MaxMoves
  /\ offered \subseteq Id /\ readied \subseteq Id /\ agreed \in Version

(* When the server executes a transition, whatever tasks of other events   *)
(* run between, the manager still knows the version it was prepared with:  *)
(* executeTransition's guard never drops a transition both sides agreed on.*)
ExecuteFindsPrepared ==
  \A i \in Id : i \in readied \/ [call |-> "executeTransition", id |-> i] \in pending
               => prepared[i] # None

(* Outgoing audio never falls back from encrypted to clear while the       *)
(* session lives on: either the session is dropped with it or the server   *)
(* has asked for it, by transition 0 or by a session description whose     *)
(* task comes this late.  A failed commit, which selects the session's     *)
(* protocol anew, and any other late task are no way around.               *)
AskedFor == {[call |-> "prepareTransition", id |-> 0, version |-> 0],
             [call |-> "selectProtocol", version |-> 0]}

NoSilentDowngrade ==
  [][encryptor.mode = "key" /\ encryptor' = Passthrough
     => session'.version = 0 \/ pending \cap AskedFor # {}]_vars

(* Once all tasks are done the users in the call, and they alone, have a   *)
(* decryptor: addUser and removeUser follow the server's events.           *)
MembersDecryptable == pending = {} => \A u \in User : u \in present <=> decryptors[u] # Absent

(* Not even that task is one: events are handled in the order they come.   *)
(* But the tasks are not, and the description's, behind the server's first *)
(* epoch, turns the encryption of a session that goes on off again.        *)
NoLateSelection ==
  [][encryptor.mode = "key" /\ encryptor' = Passthrough
     => \/ session'.version = 0
        \/ [call |-> "prepareTransition", id |-> 0, version |-> 0] \in pending]_vars

(* Whoever joins is decrypted as those who are there already: with a key   *)
(* when the version prepared last is not the disabled one.                 *)
NewUserMode ==
  pending = {} => \A u \in User : decryptors[u] # Absent => (decryptors[u] = Passthrough <=> agreed = 0)
=============================================================================
