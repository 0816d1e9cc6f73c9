----------------------- MODULE DaveSessionManagerProofs -----------------------
(***************************************************************************)
(* For any users and transitions, and however many tasks are under way: a  *)
(* transition that is executed finds the version it was prepared with.     *)
(* The argument follows a transition: the server's offer, then the task    *)
(* that tells the server, then the server's own list, then the task that   *)
(* executes it.  It is in one place at a time, is never offered again, and *)
(* its version is stored from the first of these steps to the last.  And   *)
(* encryption ends with the session or when the server has asked for it.   *)
(***************************************************************************)
EXTENDS DaveSessionManager, TLAPS

Late == {"sendReady", "executeTransition"}
Transit == {"prepareTransition", "commit", "welcome"} \cup Late

Carries(t, i) == t.call \in Transit /\ t.id = i

(* The part of the type invariant the argument needs.                      *)
TransitionsOK ==
  /\ prepared \in [Id -> Version \cup {None}] /\ readied \subseteq Id
  /\ \A t \in pending : /\ t.call = "prepareTransition" => t.version \in Version
                        /\ t.call \in Late => t.id \in Id

NotYet == \A i \in Id \ offered : i \notin readied /\ \A t \in pending : ~Carries(t, i)
OneTask == \A i \in Id : \A t, s \in pending : Carries(t, i) /\ Carries(s, i) => t = s
OnePlace == \A i \in Id : \A t \in pending : Carries(t, i) => i \notin readied
Stored ==
  \A i \in Id : i \in readied \/ (\E t \in pending : t.call \in Late /\ t.id = i)
                => prepared[i] # None

TransitionInv == TransitionsOK /\ NotYet /\ OneTask /\ OnePlace /\ Stored

-----------------------------------------------------------------------------
(* Tasks that carry no transition come, and any tasks end.                 *)
LEMMA OtherTasks ==
  ASSUME TransitionInv, UNCHANGED <<prepared, offered, readied>>,
         \A t \in pending' \ pending : t.call \notin Transit
  PROVE  TransitionInv'
<1>1. \A t \in pending' : t.call \in Transit => t \in pending
  OBVIOUS
<1>2. TransitionsOK'
  BY <1>1 DEF TransitionInv, TransitionsOK, Transit, Late
<1>3. NotYet'
  BY <1>1 DEF TransitionInv, NotYet, Carries
<1>4. OneTask' /\ OnePlace'
  BY <1>1 DEF TransitionInv, OneTask, OnePlace, Carries
<1>5. Stored'
  BY <1>1 DEF TransitionInv, Stored, Transit, Late
<1> QED
  BY <1>2, <1>3, <1>4, <1>5 DEF TransitionInv

(* A transition is offered for the first time, or is transition 0.         *)
LEMMA OfferKeepsInv ==
  ASSUME DaveAssumption, TransitionInv, NEW i \in Id \cup {0}, Offer(i) PROVE TransitionInv'
<1>1. \E t : /\ pending' = pending \cup {t}
             /\ t.call \in Transit \ Late /\ t.id = i
             /\ t.call = "prepareTransition" => t.version \in Version
  <2>1. CASE \E v \in Version : Comes([call |-> "prepareTransition", id |-> i, version |-> v])
    <3>1. PICK v \in Version : Comes([call |-> "prepareTransition", id |-> i, version |-> v])
      BY <2>1
    <3> DEFINE t == [call |-> "prepareTransition", id |-> i, version |-> v]
    <3>2. t.call \in Transit \ Late /\ t.id = i /\ t.version \in Version
      BY DEF Transit, Late
    <3>3. pending' = pending \cup {t}
      BY <3>1 DEF Comes
    <3> HIDE DEF t
    <3> QED
      BY <3>2, <3>3
  <2>2. CASE \E c \in {"commit", "welcome"} : Comes([call |-> c, id |-> i])
    <3>1. PICK c \in {"commit", "welcome"} : Comes([call |-> c, id |-> i])
      BY <2>2
    <3> DEFINE t == [call |-> c, id |-> i]
    <3>2. t.call \in Transit \ Late /\ t.id = i /\ t.call # "prepareTransition"
      BY DEF Transit, Late
    <3>3. pending' = pending \cup {t}
      BY <3>1 DEF Comes
    <3> HIDE DEF t
    <3> QED
      BY <3>2, <3>3
  <2> QED
    BY <2>1, <2>2 DEF Offer
<1> PICK t : /\ pending' = pending \cup {t}
             /\ t.call \in Transit \ Late /\ t.id = i
             /\ t.call = "prepareTransition" => t.version \in Version
  BY <1>1
<1>2. i \notin offered /\ offered' = offered \cup ({i} \ {0}) /\ UNCHANGED <<prepared, readied>>
  BY DEF Offer, managerVars
<1>3. 0 \notin Id
  BY DEF DaveAssumption
<1>4. TransitionsOK'
  BY <1>1, <1>2 DEF TransitionInv, TransitionsOK
<1>5. NotYet'
  BY <1>1, <1>2, <1>3 DEF TransitionInv, NotYet, Carries
<1>6. OneTask' /\ OnePlace'
  BY <1>1, <1>2, <1>3 DEF TransitionInv, NotYet, OneTask, OnePlace, Carries
<1>7. Stored'
  BY <1>1, <1>2 DEF TransitionInv, Stored, Late
<1> QED
  BY <1>4, <1>5, <1>6, <1>7 DEF TransitionInv

(* prepareTransition stores the version before it tells the server.        *)
LEMMA PreparedKeepsInv ==
  ASSUME DaveAssumption, TransitionInv, NEW t \in pending, NEW version \in Version, NEW s,
         t.call \in Transit, t.id \in Id, Prepared(t, t.id, version, s)
  PROVE  TransitionInv'
<1> DEFINE i == t.id
           ready == [call |-> "sendReady", id |-> i]
<1>1. i # 0
  BY DEF DaveAssumption
<1>2. /\ pending' = (pending \ {t}) \cup {ready}
      /\ prepared' = [prepared EXCEPT ![i] = version]
      /\ UNCHANGED <<offered, readied>>
  BY <1>1 DEF Prepared, Runs, serverVars
<1>3. ready.call = "sendReady" /\ ready.id = i
  OBVIOUS
<1>4. version # None /\ version \in Version
  BY DEF Version, None
<1> HIDE DEF ready
<1>5. \A j \in Id \ {i} : prepared'[j] = prepared[j]
  BY <1>2 DEF TransitionInv, TransitionsOK
<1>6. prepared'[i] # None
  BY <1>2, <1>4 DEF TransitionInv, TransitionsOK
<1>7. TransitionsOK'
  BY <1>2, <1>3, <1>4 DEF TransitionInv, TransitionsOK, Late
<1>8. NotYet'
  BY <1>2, <1>3 DEF TransitionInv, NotYet, Carries
<1>9. OneTask' /\ OnePlace'
  BY <1>2, <1>3 DEF TransitionInv, OneTask, OnePlace, Carries
<1>10. Stored'
  BY <1>2, <1>3, <1>5, <1>6 DEF TransitionInv, Stored
<1> QED
  BY <1>7, <1>8, <1>9, <1>10 DEF TransitionInv

(* Transition 0 is never stored.                                           *)
LEMMA PreparedInitKeepsInv ==
  ASSUME TransitionInv, NEW t, NEW version, NEW s, Prepared(t, 0, version, s)
  PROVE  TransitionInv'
<1>1. pending' = pending \ {t} /\ UNCHANGED <<prepared, offered, readied>>
  BY DEF Prepared, Runs, serverVars
<1> QED
  BY <1>1, OtherTasks

(* Both, for a task of the server's.                                       *)
LEMMA PreparedEitherKeepsInv ==
  ASSUME DaveAssumption, TransitionInv, NEW t \in pending, NEW version \in Version, NEW s,
         t.call \in Transit, t.id \in Id \cup {0}, Prepared(t, t.id, version, s)
  PROVE  TransitionInv'
<1>1. CASE t.id \in Id
  BY <1>1, PreparedKeepsInv
<1>2. CASE t.id = 0
  BY <1>2, PreparedInitKeepsInv
<1> QED
  BY <1>1, <1>2

(* The server learns that the client is ready.                             *)
LEMMA SendReadyKeepsInv ==
  ASSUME TransitionInv, NEW t \in pending, SendReady(t) PROVE TransitionInv'
<1>1. /\ t.call = "sendReady" /\ pending' = pending \ {t}
      /\ readied' = readied \cup {t.id} /\ UNCHANGED <<prepared, offered>>
  BY DEF SendReady, Runs, managerVars
<1>2. t.call \in Late /\ Carries(t, t.id) /\ t.id \in Id
  BY <1>1 DEF TransitionInv, TransitionsOK, Carries, Transit, Late
<1>3. prepared[t.id] # None /\ t.id \in offered
  BY <1>2 DEF TransitionInv, Stored, NotYet
<1>4. \A s \in pending' : ~Carries(s, t.id)
  BY <1>1, <1>2 DEF TransitionInv, OneTask
<1>5. TransitionsOK'
  BY <1>1, <1>2 DEF TransitionInv, TransitionsOK
<1>6. NotYet' /\ OneTask' /\ OnePlace'
  BY <1>1, <1>3, <1>4 DEF TransitionInv, NotYet, OneTask, OnePlace, Carries
<1>7. Stored'
  BY <1>1, <1>3 DEF TransitionInv, Stored
<1> QED
  BY <1>5, <1>6, <1>7 DEF TransitionInv

(* The server executes it.                                                 *)
LEMMA ExecuteKeepsInv ==
  ASSUME TransitionInv, NEW i, Execute(i) PROVE TransitionInv'
<1> DEFINE task == [call |-> "executeTransition", id |-> i]
<1>1. /\ i \in readied /\ readied' = readied \ {i} /\ pending' = pending \cup {task}
      /\ UNCHANGED <<prepared, offered>>
  BY DEF Execute, Comes, managerVars
<1>2. task.call = "executeTransition" /\ task.id = i
  OBVIOUS
<1> HIDE DEF task
<1>3. i \in Id /\ prepared[i] # None /\ i \in offered
  BY <1>1 DEF TransitionInv, TransitionsOK, Stored, NotYet
<1>4. \A t \in pending : ~Carries(t, i)
  BY <1>1, <1>3 DEF TransitionInv, OnePlace
<1>5. TransitionsOK'
  BY <1>1, <1>2, <1>3 DEF TransitionInv, TransitionsOK
<1>6. NotYet' /\ OneTask' /\ OnePlace'
  BY <1>1, <1>2, <1>3, <1>4 DEF TransitionInv, NotYet, OneTask, OnePlace, Carries
<1>7. Stored'
  BY <1>1, <1>2, <1>3 DEF TransitionInv, Stored
<1> QED
  BY <1>5, <1>6, <1>7 DEF TransitionInv

(* executeTransition forgets the version, and nothing of it is left.       *)
LEMMA ExecuteTransitionKeepsInv ==
  ASSUME TransitionInv, NEW t \in pending, ExecuteTransition(t) PROVE TransitionInv'
<1>1. /\ t.call = "executeTransition" /\ pending' = pending \ {t}
      /\ prepared' = [prepared EXCEPT ![t.id] = None] /\ UNCHANGED <<offered, readied>>
  BY DEF ExecuteTransition, Runs, serverVars
<1>2. Carries(t, t.id) /\ t.id \in Id
  BY <1>1 DEF TransitionInv, TransitionsOK, Carries, Transit, Late
<1>3. t.id \notin readied /\ \A s \in pending' : ~Carries(s, t.id)
  BY <1>1, <1>2 DEF TransitionInv, OneTask, OnePlace
<1>4. \A j \in Id \ {t.id} : prepared'[j] = prepared[j]
  BY <1>1 DEF TransitionInv, TransitionsOK
<1>5. TransitionsOK'
  BY <1>1 DEF TransitionInv, TransitionsOK
<1>6. NotYet' /\ OneTask' /\ OnePlace'
  BY <1>1 DEF TransitionInv, NotYet, OneTask, OnePlace, Carries
<1>7. Stored'
  BY <1>1, <1>3, <1>4 DEF TransitionInv, Stored, Carries, Transit
<1> QED
  BY <1>5, <1>6, <1>7 DEF TransitionInv

-----------------------------------------------------------------------------
(* Selecting a protocol prepares transition 0 or initialises the session.  *)
LEMMA SelectKeepsInv ==
  ASSUME TransitionInv, NEW t, NEW version, Select(t, version) PROVE TransitionInv'
<1>1. CASE Prepared(t, 0, 0, session)
  BY <1>1, PreparedInitKeepsInv
<1>2. CASE Initialised(t)
  <2>1. pending' = pending \ {t} /\ UNCHANGED <<prepared, offered, readied>>
    BY <1>2 DEF Initialised, Runs, serverVars
  <2> QED
    BY <2>1, OtherTasks
<1> QED
  BY <1>1, <1>2 DEF Select

(* A commit or a welcome prepares its transition or nothing.               *)
LEMMA CommitWelcomeKeepsInv ==
  ASSUME DaveAssumption, TransitionInv, NEW t \in pending, t.id \in Id \cup {0},
         Commit(t) \/ Welcome(t)
  PROVE  TransitionInv'
<1>1. t.call \in Transit
  BY DEF Commit, Welcome, Transit
<1>2. CASE session.version = 1 /\ Prepared(t, t.id, session.version, NextEpoch)
  <2>1. session.version \in Version
    BY <1>2 DEF Version
  <2> QED
    BY <1>1, <1>2, <2>1, PreparedEitherKeepsInv
<1>3. CASE \E more \in {{}, {[call |-> "reselect"]}} :
             Runs(t, more) /\ UNCHANGED <<managerVars, serverVars>>
  <2>1. PICK more \in {{}, {[call |-> "reselect"]}} :
               Runs(t, more) /\ UNCHANGED <<managerVars, serverVars>>
    BY <1>3
  <2>2. pending' = (pending \ {t}) \cup more /\ UNCHANGED <<prepared, offered, readied>>
    BY <2>1 DEF Runs, managerVars, serverVars
  <2>3. \A s \in more : s.call \notin Transit
    BY <2>1 DEF Transit, Late
  <2> QED
    BY <2>2, <2>3, OtherTasks
<1> QED
  BY <1>2, <1>3 DEF Commit, Welcome

(* Every id a task of the server's has is one of a transition.             *)
IdsOK == \A t \in pending : t.call \in Transit => t.id \in Id \cup {0}

(* Every step leaves it so.                                                *)
LEMMA IdsStep ==
  ASSUME TransitionInv, IdsOK, [Next]_vars PROVE IdsOK'
<1>1. CASE \E u \in User : ClientConnect(u) \/ ClientDisconnect(u)
  <2>1. PICK u \in User, c \in {"addUser", "removeUser"} :
          pending' = pending \cup {[call |-> c, user |-> u]}
    BY <1>1 DEF ClientConnect, ClientDisconnect, Comes
  <2> QED
    BY <2>1 DEF IdsOK, Transit, Late
<1>2. CASE \E i \in Id \cup {0} : Offer(i)
  BY <1>2 DEF Offer, Comes, IdsOK
<1>3. CASE \E i \in Id \cup {0} : Execute(i)
  BY <1>3 DEF Execute, Comes, IdsOK
<1>4. CASE NewEpoch
  BY <1>4 DEF NewEpoch, Comes, IdsOK, Transit, Late
<1>5. ASSUME NEW t \in pending, Run(t) PROVE IdsOK'
  <2>1. \E more : Runs(t, more) /\ \A s \in more : s.call \in Transit => s.id \in Id \cup {0}
    <3>1. CASE \E i, version, s : Prepared(t, i, version, s) /\ (i # 0 => i = t.id /\ t.call \in Transit)
      BY <1>5, <3>1 DEF Prepared, IdsOK
    <3>2. CASE Initialised(t) \/ AddUser(t) \/ RemoveUser(t) \/ SendReady(t) \/ ExecuteTransition(t)
      BY <3>2 DEF Initialised, AddUser, RemoveUser, SendReady, ExecuteTransition
    <3>3. CASE \E more \in {{}, {[call |-> "reselect"]}} : Runs(t, more)
      BY <3>3 DEF Transit, Late
    <3> QED
      BY <1>5, <3>1, <3>2, <3>3 DEF Run, PrepareTransition, PrepareEpoch, SelectProtocol, Select,
         Commit, Welcome, Transit
  <2> QED
    BY <2>1 DEF Runs, IdsOK
<1>6. CASE UNCHANGED vars
  BY <1>6 DEF vars, IdsOK
<1> QED
  BY <1>1, <1>2, <1>3, <1>4, <1>5, <1>6 DEF Next

-----------------------------------------------------------------------------
(* When the server executes a transition the manager still knows it:       *)
(* executeTransition's guard (DaveSessionManager.swift:117) never drops    *)
(* one that both sides agreed on.                                          *)
THEOREM ExecutedAsPrepared == Spec => []ExecuteFindsPrepared
<1>1. Init => TransitionInv /\ IdsOK
  <2> SUFFICES ASSUME Init PROVE TransitionInv /\ IdsOK
    OBVIOUS
  <2>1. \A t \in pending : t.call = "selectProtocol"
    BY DEF Init
  <2>2. TransitionsOK
    BY <2>1 DEF Init, TransitionsOK, Late
  <2>3. NotYet /\ OneTask /\ OnePlace
    BY <2>1 DEF Init, NotYet, OneTask, OnePlace, Carries, Transit, Late
  <2>4. Stored /\ IdsOK
    BY <2>1 DEF Init, Stored, IdsOK, Transit, Late
  <2> QED
    BY <2>2, <2>3, <2>4 DEF TransitionInv
<1>2. TransitionInv /\ IdsOK /\ [Next]_vars => TransitionInv' /\ IdsOK'
  <2> SUFFICES ASSUME TransitionInv, IdsOK, [Next]_vars PROVE TransitionInv'
    BY IdsStep
  <2>1. ASSUME NEW u \in User, ClientConnect(u) \/ ClientDisconnect(u) PROVE TransitionInv'
    <3>1. PICK c \in {"addUser", "removeUser"} :
            pending' = pending \cup {[call |-> c, user |-> u]}
      BY <2>1 DEF ClientConnect, ClientDisconnect, Comes
    <3>2. UNCHANGED <<prepared, offered, readied>>
      BY <2>1 DEF ClientConnect, ClientDisconnect, managerVars
    <3>3. \A t \in {[call |-> c, user |-> u]} : t.call \notin Transit
      BY DEF Transit, Late
    <3> QED
      BY <3>1, <3>2, <3>3, OtherTasks
  <2>2. ASSUME NEW i \in Id \cup {0}, Offer(i) \/ Execute(i) PROVE TransitionInv'
    BY <2>2, DaveAssumption, OfferKeepsInv, ExecuteKeepsInv
  <2>3. CASE NewEpoch
    <3>1. /\ pending' = pending \cup {[call |-> "prepareEpoch"]}
          /\ UNCHANGED <<prepared, offered, readied>>
      BY <2>3 DEF NewEpoch, Comes, managerVars, serverVars
    <3>2. \A t \in {[call |-> "prepareEpoch"]} : t.call \notin Transit
      BY DEF Transit, Late
    <3> QED
      BY <3>1, <3>2, OtherTasks
  <2>4. ASSUME NEW t \in pending, Run(t) PROVE TransitionInv'
    <3>1. CASE AddUser(t) \/ RemoveUser(t) \/ PrepareEpoch(t)
      <4>1. pending' = pending \ {t} /\ UNCHANGED <<prepared, offered, readied>>
        BY <3>1 DEF AddUser, RemoveUser, PrepareEpoch, Initialised, Runs, serverVars
      <4> QED
        BY <4>1, OtherTasks
    <3>2. CASE PrepareTransition(t)
      <4>1. t.call \in Transit /\ t.version \in Version /\ t.id \in Id \cup {0}
        BY <3>2, <2>4 DEF PrepareTransition, Transit, TransitionInv, TransitionsOK, IdsOK
      <4> QED
        BY <2>4, <3>2, <4>1, DaveAssumption, PreparedEitherKeepsInv DEF PrepareTransition
    <3>3. CASE SendReady(t)
      BY <2>4, <3>3, SendReadyKeepsInv
    <3>4. CASE ExecuteTransition(t)
      BY <2>4, <3>4, ExecuteTransitionKeepsInv
    <3>5. CASE SelectProtocol(t)
      BY <2>4, <3>5, SelectKeepsInv DEF SelectProtocol
    <3>6. CASE Commit(t) \/ Welcome(t)
      <4>1. t.id \in Id \cup {0}
        BY <2>4, <3>6 DEF Commit, Welcome, IdsOK, Transit
      <4> QED
        BY <2>4, <3>6, <4>1, DaveAssumption, CommitWelcomeKeepsInv
    <3> QED
      BY <2>4, <3>1, <3>2, <3>3, <3>4, <3>5, <3>6 DEF Run
  <2>5. CASE UNCHANGED vars
    BY <2>5 DEF vars, serverVars, TransitionInv, TransitionsOK, NotYet, OneTask, OnePlace, Stored,
       Carries
  <2> QED
    BY <2>1, <2>2, <2>3, <2>4, <2>5 DEF Next
<1>3. TransitionInv => ExecuteFindsPrepared
  <2> SUFFICES ASSUME TransitionInv, NEW i \in Id,
                      [call |-> "executeTransition", id |-> i] \in pending
               PROVE  prepared[i] # None
    BY DEF TransitionInv, Stored, ExecuteFindsPrepared
  <2>1. \E t \in pending : t.call \in Late /\ t.id = i
    BY DEF Late
  <2> QED
    BY <2>1 DEF TransitionInv, Stored
<1> QED
  BY <1>1, <1>2, <1>3, PTL DEF Spec

(* What a task is, by its call.                                            *)
LEMMA CallFields ==
  ASSUME NEW t \in Calls
  PROVE  /\ t.call \in {"addUser", "removeUser"} => t.user \in User
         /\ t.call \in {"commit", "welcome"} => t.id \in Id \cup {0}
         /\ t.call \in Late => t.id \in Id
         /\ t.call = "prepareTransition" =>
              /\ t.id \in Id \cup {0} /\ t.version \in Version
              /\ t = [call |-> "prepareTransition", id |-> t.id, version |-> t.version]
         /\ t.call = "selectProtocol" =>
              t.version \in Version /\ t = [call |-> "selectProtocol", version |-> t.version]
BY DEF Calls, Late

LEMMA CallTypes ==
  /\ \A u \in User : {[call |-> "addUser", user |-> u], [call |-> "removeUser", user |-> u]}
                       \subseteq Calls
  /\ \A i \in Id \cup {0} :
       /\ {[call |-> "commit", id |-> i], [call |-> "welcome", id |-> i]} \subseteq Calls
       /\ \A v \in Version :
            [call |-> "prepareTransition", id |-> i, version |-> v] \in Calls
  /\ \A i \in Id : {[call |-> "executeTransition", id |-> i], [call |-> "sendReady", id |-> i]}
                     \subseteq Calls
  /\ \A v \in Version : [call |-> "selectProtocol", version |-> v] \in Calls
  /\ {[call |-> "reselect"], [call |-> "prepareEpoch"]} \subseteq Calls
BY DEF Calls

(* The ratchet of a session is one of the model's.                         *)
LEMMA SetupTyped ==
  ASSUME DaveAssumption, NEW s \in [version : Version, epoch : 0 .. MaxEpoch], NEW version
  PROVE  Setup(s, version) \in Crypt \ {Absent}
<1>1. s.epoch \in 0 .. MaxEpoch
  OBVIOUS
<1>2. Passthrough # Absent /\ Ratchet(s.epoch) # Absent
  BY DEF Passthrough, Absent, Ratchet
<1> QED
  BY <1>1, <1>2 DEF Setup, Crypt

Sessions == [version : Version, epoch : 0 .. MaxEpoch]

(* What the manager keeps has its type after every step.                   *)
ManagerOK ==
  /\ session \in Sessions
  /\ encryptor \in Crypt \ {Absent} /\ decryptors \in [User -> Crypt]
  /\ lastPreparedTransitionVersion \in Id \cup {0}
  /\ prepared \in [Id -> Version \cup {None}] /\ agreed \in Version
ServerOK == present \subseteq User /\ moves \in 0 .. MaxMoves /\ offered \subseteq Id /\ readied \subseteq Id

LEMMA PreparedTyped ==
  ASSUME DaveAssumption, ManagerOK, ServerOK, pending \subseteq Calls, NEW t,
         NEW i \in Id \cup {0}, NEW version \in Version, NEW s \in Sessions,
         Prepared(t, i, version, s)
  PROVE  ManagerOK' /\ ServerOK' /\ pending' \subseteq Calls
<1>1. \A u : Setup(s, version) \in Crypt \ {Absent}
  BY SetupTyped DEF Sessions
<1>2. decryptors' \in [User -> Crypt]
  BY <1>1 DEF Prepared, SetupUsers, Crypt
<1>3. encryptor' \in Crypt \ {Absent} /\ prepared' \in [Id -> Version \cup {None}]
  BY <1>1 DEF Prepared, ManagerOK
<1>4. pending' \subseteq Calls
  BY CallTypes DEF Prepared, Runs
<1> QED
  BY <1>2, <1>3, <1>4 DEF Prepared, ManagerOK, ServerOK, serverVars

LEMMA InitialisedTyped ==
  ASSUME DaveAssumption, ManagerOK, ServerOK, pending \subseteq Calls, NEW t, Initialised(t)
  PROVE  ManagerOK' /\ ServerOK' /\ pending' \subseteq Calls
<1>1. session' \in Sessions
  BY DEF Initialised, Sessions, Version, DaveAssumption
<1> QED
  BY <1>1 DEF Initialised, ManagerOK, ServerOK, serverVars, Runs

LEMMA SelectTyped ==
  ASSUME DaveAssumption, ManagerOK, ServerOK, pending \subseteq Calls, NEW t, NEW version,
         Select(t, version)
  PROVE  ManagerOK' /\ ServerOK' /\ pending' \subseteq Calls
<1>1. 0 \in Version /\ session \in Sessions
  BY DEF Version, ManagerOK
<1> QED
  BY <1>1, PreparedTyped, InitialisedTyped DEF Select

LEMMA RunTyped ==
  ASSUME DaveAssumption, ManagerOK, ServerOK, pending \subseteq Calls, NEW t \in pending, Run(t)
  PROVE  ManagerOK' /\ ServerOK' /\ pending' \subseteq Calls
<1>1. t \in Calls
  OBVIOUS
<1>2. CASE AddUser(t) \/ RemoveUser(t)
  <2>1. Setup(session, lastPreparedTransitionVersion) \in Crypt
    BY SetupTyped DEF ManagerOK, Sessions
  <2>2. Absent \in Crypt
    BY DEF Crypt
  <2>3. decryptors' \in [User -> Crypt]
    BY <1>2, <2>1, <2>2 DEF AddUser, RemoveUser, ManagerOK
  <2> QED
    BY <1>2, <2>3 DEF AddUser, RemoveUser, Runs, ManagerOK, ServerOK, serverVars
<1>3. CASE PrepareTransition(t)
  <2>1. t.id \in Id \cup {0} /\ t.version \in Version
    BY <1>1, <1>3, CallFields DEF PrepareTransition
  <2> QED
    BY <1>3, <2>1, PreparedTyped DEF PrepareTransition, ManagerOK
<1>4. CASE SendReady(t)
  <2>1. t.id \in Id
    BY <1>1, <1>4, CallFields DEF SendReady, Late
  <2> QED
    BY <1>4, <2>1 DEF SendReady, Runs, ManagerOK, ServerOK, managerVars
<1>5. CASE ExecuteTransition(t)
  <2>1. session' \in Sessions
    BY <1>5 DEF ExecuteTransition, ManagerOK, Sessions, DaveAssumption, Version
  <2>2. Setup(session', prepared[t.id]) \in Crypt \ {Absent}
    BY <2>1, SetupTyped DEF Sessions
  <2>3. encryptor' \in Crypt \ {Absent} /\ prepared' \in [Id -> Version \cup {None}]
    BY <1>5, <2>2 DEF ExecuteTransition, ManagerOK
  <2> QED
    BY <1>5, <2>1, <2>3 DEF ExecuteTransition, Runs, ManagerOK, ServerOK, serverVars
<1>6. CASE PrepareEpoch(t) \/ SelectProtocol(t)
  BY <1>6, InitialisedTyped, SelectTyped DEF PrepareEpoch, SelectProtocol
<1>7. CASE Commit(t) \/ Welcome(t)
  <2>1. t.id \in Id \cup {0}
    BY <1>1, <1>7, CallFields DEF Commit, Welcome
  <2>2. CASE /\ session.version = 1 /\ session.epoch < MaxEpoch
             /\ Prepared(t, t.id, session.version, NextEpoch)
    <3>1. NextEpoch \in Sessions /\ session.version \in Version
      BY <2>2 DEF NextEpoch, Sessions, ManagerOK, DaveAssumption
    <3> QED
      BY <2>1, <2>2, <3>1, PreparedTyped
  <2>3. CASE \E more \in {{}, {[call |-> "reselect"]}} :
               Runs(t, more) /\ UNCHANGED <<managerVars, serverVars>>
    <3>1. pending' \subseteq Calls
      BY <2>3, CallTypes DEF Runs
    <3> QED
      BY <2>3, <3>1 DEF ManagerOK, ServerOK, managerVars, serverVars
  <2> QED
    BY <1>7, <2>2, <2>3 DEF Commit, Welcome
<1> QED
  BY <1>2, <1>3, <1>4, <1>5, <1>6, <1>7 DEF Run

(* The manager, its tasks and the server stay in their types.              *)
THEOREM DaveTypeCorrect == Spec => []TypeOK
<1> USE DaveAssumption
<1>1. TypeOK <=> ManagerOK /\ ServerOK /\ pending \subseteq Calls
  BY DEF TypeOK, ManagerOK, ServerOK, Sessions
<1>2. Init => TypeOK
  <2> SUFFICES ASSUME Init PROVE ManagerOK /\ ServerOK /\ pending \subseteq Calls
    BY <1>1
  <2>1. ManagerOK
    BY DEF Init, ManagerOK, Sessions, Version, Crypt, Passthrough, Absent, DaveAssumption
  <2> QED
    BY <2>1, CallTypes DEF Init, ServerOK, DaveAssumption
<1>3. TypeOK /\ [Next]_vars => TypeOK'
  <2> SUFFICES ASSUME ManagerOK, ServerOK, pending \subseteq Calls, [Next]_vars
               PROVE  ManagerOK' /\ ServerOK' /\ pending' \subseteq Calls
    BY <1>1 DEF TypeOK, ManagerOK, ServerOK, Sessions
  <2>1. ASSUME NEW u \in User, ClientConnect(u) \/ ClientDisconnect(u)
        PROVE  ManagerOK' /\ ServerOK' /\ pending' \subseteq Calls
    <3>1. PICK c \in {"addUser", "removeUser"} : pending' = pending \cup {[call |-> c, user |-> u]}
      BY <2>1 DEF ClientConnect, ClientDisconnect, Comes
    <3>3. [call |-> c, user |-> u] \in Calls
      BY CallTypes
    <3>4. pending' \subseteq Calls
      BY <3>1, <3>3
    <3>2. moves' \in 0 .. MaxMoves
      BY <2>1 DEF ClientConnect, ClientDisconnect, ServerOK, DaveAssumption
    <3> QED
      BY <2>1, <3>4, <3>2 DEF ClientConnect, ClientDisconnect, ManagerOK, ServerOK, managerVars
  <2>2. ASSUME NEW i \in Id \cup {0}, Offer(i)
        PROVE  ManagerOK' /\ ServerOK' /\ pending' \subseteq Calls
    <3>1. pending' \subseteq Calls
      <4>1. CASE \E v \in Version : Comes([call |-> "prepareTransition", id |-> i, version |-> v])
        <5>1. PICK v \in Version : pending' = pending \cup {[call |-> "prepareTransition", id |-> i, version |-> v]}
          BY <4>1 DEF Comes
        <5>2. [call |-> "prepareTransition", id |-> i, version |-> v] \in Calls
          BY CallTypes
        <5> QED
          BY <5>1, <5>2
      <4>2. CASE \E c \in {"commit", "welcome"} : Comes([call |-> c, id |-> i])
        <5>1. PICK c \in {"commit", "welcome"} : pending' = pending \cup {[call |-> c, id |-> i]}
          BY <4>2 DEF Comes
        <5>2. [call |-> c, id |-> i] \in Calls
          BY CallTypes
        <5> QED
          BY <5>1, <5>2
      <4> QED
        BY <2>2, <4>1, <4>2 DEF Offer
    <3> QED
      BY <2>2, <3>1 DEF Offer, ManagerOK, ServerOK, managerVars
  <2>3. ASSUME NEW i \in Id \cup {0}, Execute(i)
        PROVE  ManagerOK' /\ ServerOK' /\ pending' \subseteq Calls
    <3>1. i \in Id
      BY <2>3 DEF Execute, ServerOK
    <3>2. pending' \subseteq Calls
      BY <2>3, <3>1, CallTypes DEF Execute, Comes
    <3> QED
      BY <2>3, <3>2 DEF Execute, ManagerOK, ServerOK, managerVars
  <2>4. CASE NewEpoch
    BY <2>4, CallTypes DEF NewEpoch, Comes, ManagerOK, ServerOK, managerVars, serverVars
  <2>5. CASE UNCHANGED vars
    BY <2>5 DEF vars, serverVars, ManagerOK, ServerOK
  <2> QED
    BY <2>1, <2>2, <2>3, <2>4, <2>5, RunTyped DEF Next
<1> QED
  BY <1>2, <1>3, PTL DEF Spec

(* What the session of version 1 is encrypted with is a key.               *)
LEMMA KeyedIsNoPassthrough == ASSUME NEW s PROVE Setup(s, 1) # Passthrough
BY DEF Setup, Ratchet, Passthrough

(* Outgoing audio is never silently in the clear again: only the server's  *)
(* transition 0 or its session description turns the encryption of a       *)
(* session off that goes on, whatever tasks are late (the guards of        *)
(* setupKeyRatchetForEncryptor, DaveSessionManager.swift:187).             *)
THEOREM NoDowngrade == Spec => NoSilentDowngrade
<1> DEFINE Down == encryptor.mode = "key" /\ encryptor' = Passthrough
                   => session'.version = 0 \/ pending \cap AskedFor # {}
<1>1. TypeOK /\ [Next]_vars => [Down]_vars
  <2> SUFFICES ASSUME TypeOK, Next, encryptor.mode = "key", encryptor' = Passthrough
               PROVE  session'.version = 0 \/ pending \cap AskedFor # {}
    BY DEF vars
  <2>1. encryptor' # encryptor
    BY DEF Passthrough
  <2>2. PICK t \in pending : Run(t)
    BY <2>1 DEF Next, ClientConnect, ClientDisconnect, Offer, Execute, NewEpoch, managerVars
  <2>3. t \in Calls
    BY DEF TypeOK
  <2>4. CASE PrepareTransition(t)
    <3>1. t.id = 0 /\ Setup(session, t.version) = Passthrough
      BY <2>1, <2>4 DEF PrepareTransition, Prepared
    <3>2. t = [call |-> "prepareTransition", id |-> 0, version |-> t.version] /\ t.version \in {0, 1}
      BY <2>3, <2>4, <3>1, CallFields DEF PrepareTransition, Version
    <3>3. t.version = 0
      BY <3>1, <3>2, KeyedIsNoPassthrough
    <3> QED
      BY <3>2, <3>3 DEF AskedFor
  <2>5. CASE ExecuteTransition(t)
    <3>1. t.id \in Id /\ prepared[t.id] \in {0, 1, None}
      BY <2>3, <2>5, CallFields DEF ExecuteTransition, Late, TypeOK, Version
    <3> QED
      BY <2>1, <2>5, <3>1, KeyedIsNoPassthrough DEF ExecuteTransition
  <2>6. CASE SelectProtocol(t)
    <3>1. CASE t.call = "selectProtocol" /\ Select(t, t.version)
      <4>1. t.version = 0
        BY <2>1, <3>1 DEF Select, Initialised
      <4> QED
        BY <2>3, <3>1, <4>1, CallFields DEF AskedFor
    <3>2. CASE t.call = "reselect" /\ Select(t, session.version)
      BY <2>1, <3>2 DEF Select, Initialised, Prepared
    <3> QED
      BY <2>6, <3>1, <3>2 DEF SelectProtocol
  <2>7. CASE Commit(t) \/ Welcome(t)
    <3>1. session.version = 1 /\ Prepared(t, t.id, session.version, NextEpoch)
      BY <2>1, <2>7 DEF Commit, Welcome, managerVars
    <3> QED
      BY <2>1, <3>1, KeyedIsNoPassthrough DEF Prepared
  <2> QED
    BY <2>1, <2>2, <2>4, <2>5, <2>6, <2>7
       DEF Run, AddUser, RemoveUser, SendReady, PrepareEpoch, Initialised, managerVars
<1> QED
  BY <1>1, DaveTypeCorrect, PTL DEF Spec, NoSilentDowngrade
=============================================================================
