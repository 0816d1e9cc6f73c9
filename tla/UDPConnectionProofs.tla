------------------------- MODULE UDPConnectionProofs -------------------------
(***************************************************************************)
(* Proofs about the two ends of a datagram's way.                          *)
(*                                                                         *)
(* UDPConnection, for any set of threads that close it: the                *)
(* continuation of discoverIP is resumed exactly once (OneHolder and the   *)
(* refinement of OneShot) and never lost (NotForgotten), its tasks end     *)
(* with it (TasksOwned) and no open socket is forgotten (NoOrphanSocket).  *)
(*                                                                         *)
(* The invariants are not inductive alone.  InPlace adds where a taker is  *)
(* while it has the continuation, that nothing of a discovery exists       *)
(* before discoverIP waits, and that each close() starts once.             *)
(*                                                                         *)
(* JitterBuffer, for any sequence space, depth, network and speaker: it    *)
(* plays in order, and what it drops as late was late.  Both rest on how   *)
(* far the sequence it expects is behind the packet it played last, or     *)
(* first: then the sign of diff is the order in which packets were sent.   *)
(***************************************************************************)
EXTENDS UDPConnection, JitterBuffer, FiniteSetTheorems, TLAPS

OnlyWaiting ==
  /\ stored \/ outcome # "none" \/ timer # "off" \/ reader # "idle" => caller = "waiting"
  /\ \A p \in Taker : hand[p] => caller = "waiting"

HandInPlace ==
  /\ hand["reader"] => reader \in {"succeed", "fail"}
  /\ hand["timer"] => timer = "resume"
  /\ \A c \in Closer : hand[c] => closer[c] = "resume"

SpawnedOnce ==
  /\ reader \in {"succeed", "fail"} => ~stored
  /\ closer["handler"] # "none" => caller = "waiting" /\ ~stored /\ reader = "idle"
  /\ closer["timeout"] # "none" => caller = "waiting" /\ timer = "off"

InPlace == OnlyWaiting /\ HandInPlace /\ SpawnedOnce

IInv == TypeOK /\ InPlace /\ OneHolder /\ NotForgotten /\ TasksOwned /\ NoOrphanSocket

(* Initially nothing is stored, taken or open.                             *)
LEMMA InitIInv == Init => IInv
  BY OwnerAssumption DEF Init, IInv, TypeOK, FlagType, PlaceType, CloserType, HandType, InPlace, OnlyWaiting, HandInPlace, SpawnedOnce, OneHolder,
         NotForgotten, TasksOwned, NoOrphanSocket, UDPState, Results, Taker, Closer

-----------------------------------------------------------------------------
(* One lemma per actor: its steps keep every conjunct of the invariant.    *)

(* connect() and discoverIP go forward: nothing is open or stored before   *)
(* they make it so.                                                        *)
LEMMA CallerKeeps == ASSUME IInv, CallerStep PROVE IInv'
  <1> USE OwnerAssumption DEF IInv, TypeOK, FlagType, PlaceType, CloserType, HandType,
             InPlace, discoveryVars, Taker, Closer,
             CallerStep, Connect, BindOk, BindFail, CheckActive, StartDiscovering, Suspend
  <1>1. FlagType' /\ CloserType'
    OBVIOUS
  <1>2. PlaceType'
    BY DEF UDPState, Results
  <1>3. HandType'
    BY Zenon
  <1>4. OnlyWaiting'
    BY DEF OnlyWaiting, HandInPlace
  <1>5. HandInPlace'
    BY DEF HandInPlace, OnlyWaiting, SpawnedOnce
  <1>6. SpawnedOnce'
    BY DEF OnlyWaiting, SpawnedOnce
  <1>7. OneHolder'
    BY DEF OneHolder, OnlyWaiting, HandInPlace
  <1>8. NotForgotten'
    BY DEF NotForgotten, OneHolder, OnlyWaiting, HandInPlace
  <1>9. TasksOwned'
    BY DEF TasksOwned, NotForgotten, OneHolder, HandInPlace
  <1>10. NoOrphanSocket'
    BY DEF NoOrphanSocket, SpawnedOnce
  <1> QED  BY <1>1, <1>2, <1>3, <1>4, <1>5, <1>6, <1>7, <1>8, <1>9, <1>10

(* The handler may or may not find the continuation, and resumes only what *)
(* it took.                                                                *)
LEMMA ReaderKeeps == ASSUME IInv, ReaderStep PROVE IInv'
  <1> USE OwnerAssumption DEF IInv, TypeOK, FlagType, PlaceType, CloserType, HandType,
             InPlace, discoveryVars, Taker, Closer,
             ReaderStep, ReaderTakes, ReaderSucceeds, ReaderFails, Take, Resume
  <1>1. FlagType' /\ CloserType'
    OBVIOUS
  <1>2. PlaceType'
    BY DEF UDPState, Results
  <1>3. HandType'
    BY Zenon
  <1>4. OnlyWaiting'
    BY DEF OnlyWaiting, HandInPlace
  <1>5. HandInPlace'
    BY DEF HandInPlace, SpawnedOnce
  <1>6. SpawnedOnce'
    BY DEF OnlyWaiting, SpawnedOnce
  <1>7. OneHolder'
    BY DEF OneHolder, OnlyWaiting, HandInPlace
  <1>8. NotForgotten'
    BY DEF NotForgotten, OneHolder, OnlyWaiting, HandInPlace
  <1>9. TasksOwned'
    BY DEF TasksOwned, NotForgotten, OneHolder, HandInPlace
  <1>10. NoOrphanSocket'
    BY DEF NoOrphanSocket, SpawnedOnce
  <1> QED  BY <1>1, <1>2, <1>3, <1>4, <1>5, <1>6, <1>7, <1>8, <1>9, <1>10

(* A datagram is looked at while a discovery is stored.                    *)
LEMMA ReceiveKeeps == ASSUME IInv, NEW kind \in {"answer", "malformed"}, Receive(kind) PROVE IInv'
  <1> USE OwnerAssumption DEF IInv, TypeOK, FlagType, PlaceType, CloserType, HandType,
             InPlace, discoveryVars, Taker, Closer,
             Receive
  <1>1. FlagType' /\ CloserType'
    OBVIOUS
  <1>2. PlaceType'
    BY DEF UDPState, Results
  <1>3. HandType'
    BY Zenon
  <1>4. OnlyWaiting'
    BY DEF OnlyWaiting, HandInPlace
  <1>5. HandInPlace'
    BY DEF HandInPlace, SpawnedOnce
  <1>6. SpawnedOnce'
    BY DEF OnlyWaiting, SpawnedOnce
  <1>7. OneHolder'
    BY DEF OneHolder, OnlyWaiting, HandInPlace
  <1>8. NotForgotten'
    BY DEF NotForgotten, OneHolder, OnlyWaiting, HandInPlace
  <1>9. TasksOwned'
    BY DEF TasksOwned, NotForgotten, OneHolder, HandInPlace
  <1>10. NoOrphanSocket'
    BY DEF NoOrphanSocket, SpawnedOnce
  <1> QED  BY <1>1, <1>2, <1>3, <1>4, <1>5, <1>6, <1>7, <1>8, <1>9, <1>10

(* The time-out task likewise, and starts the one close() of its own.      *)
LEMMA TimerKeeps == ASSUME IInv, TimerStep PROVE IInv'
  <1> USE OwnerAssumption DEF IInv, TypeOK, FlagType, PlaceType, CloserType, HandType,
             InPlace, discoveryVars, Taker, Closer,
             TimerStep, TimerFires, TimerTakes, TimerResumes, Take
  <1>1. FlagType' /\ CloserType'
    OBVIOUS
  <1>2. PlaceType'
    BY DEF UDPState, Results
  <1>3. HandType'
    BY Zenon
  <1>4. OnlyWaiting'
    BY DEF OnlyWaiting, HandInPlace
  <1>5. HandInPlace'
    BY DEF HandInPlace, SpawnedOnce
  <1>6. SpawnedOnce'
    BY DEF OnlyWaiting, SpawnedOnce
  <1>7. OneHolder'
    BY DEF OneHolder, OnlyWaiting, HandInPlace
  <1>8. NotForgotten'
    BY DEF NotForgotten, OneHolder, OnlyWaiting, HandInPlace
  <1>9. TasksOwned'
    BY DEF TasksOwned, NotForgotten, OneHolder, HandInPlace
  <1>10. NoOrphanSocket'
    BY DEF NoOrphanSocket, SpawnedOnce
  <1> QED  BY <1>1, <1>2, <1>3, <1>4, <1>5, <1>6, <1>7, <1>8, <1>9, <1>10

(* A close() takes the continuation, then the channel, and has them in     *)
(* hand until it is done with them.                                        *)
LEMMA CloserKeeps == ASSUME IInv, NEW c \in Closer, OwnerCloses(c) \/ CloserStep(c) PROVE IInv'
  <1> USE OwnerAssumption DEF IInv, TypeOK, FlagType, PlaceType, CloserType, HandType,
             InPlace, discoveryVars, Taker, Closer,
             OwnerCloses, CloserStep, CloseIdle, CloseTakes, CloseResumes,
             CloseTakesChannel, CloseChannel, CloserAt, Take, Resume
  <1>1. FlagType' /\ CloserType'
    OBVIOUS
  <1>2. PlaceType'
    BY DEF UDPState, Results
  <1>3. HandType'
    BY Zenon
  <1>4. OnlyWaiting'
    BY DEF OnlyWaiting, HandInPlace
  <1>5. HandInPlace'
    BY DEF HandInPlace, SpawnedOnce
  <1>6. SpawnedOnce'
    BY DEF OnlyWaiting, SpawnedOnce
  <1>7. OneHolder'
    BY DEF OneHolder, OnlyWaiting, HandInPlace
  <1>8. NotForgotten'
    BY DEF NotForgotten, OneHolder, OnlyWaiting, HandInPlace
  <1>9. TasksOwned'
    BY DEF TasksOwned, NotForgotten, OneHolder, HandInPlace
  <1>10. NoOrphanSocket'
    BY DEF NoOrphanSocket, SpawnedOnce
  <1> QED  BY <1>1, <1>2, <1>3, <1>4, <1>5, <1>6, <1>7, <1>8, <1>9, <1>10

(* A socket that fails is not open any more.                               *)
LEMMA SocketKeeps == ASSUME IInv, SocketError PROVE IInv'
  <1> USE OwnerAssumption DEF IInv, TypeOK, FlagType, PlaceType, CloserType, HandType,
             InPlace, discoveryVars, Taker, Closer,
             SocketError
  <1>1. FlagType' /\ CloserType'
    OBVIOUS
  <1>2. PlaceType'
    BY DEF UDPState, Results
  <1>3. HandType'
    BY Zenon
  <1>4. OnlyWaiting'
    BY DEF OnlyWaiting, HandInPlace
  <1>5. HandInPlace'
    BY DEF HandInPlace, SpawnedOnce
  <1>6. SpawnedOnce'
    BY DEF OnlyWaiting, SpawnedOnce
  <1>7. OneHolder'
    BY DEF OneHolder, OnlyWaiting, HandInPlace
  <1>8. NotForgotten'
    BY DEF NotForgotten, OneHolder, OnlyWaiting, HandInPlace
  <1>9. TasksOwned'
    BY DEF TasksOwned, NotForgotten, OneHolder, HandInPlace
  <1>10. NoOrphanSocket'
    BY DEF NoOrphanSocket, SpawnedOnce
  <1> QED  BY <1>1, <1>2, <1>3, <1>4, <1>5, <1>6, <1>7, <1>8, <1>9, <1>10

-----------------------------------------------------------------------------
(* Every step keeps the invariant.                                         *)
LEMMA NextKeeps == ASSUME IInv, [Next]_vars PROVE IInv'
  <1>1. CASE UNCHANGED vars
    BY <1>1 DEF vars, discoveryVars, IInv, TypeOK, FlagType, PlaceType, CloserType, HandType,
         InPlace, OnlyWaiting, HandInPlace, SpawnedOnce, OneHolder, NotForgotten, TasksOwned,
         NoOrphanSocket
  <1> QED
    BY <1>1, CallerKeeps, ReaderKeeps, ReceiveKeeps, TimerKeeps, CloserKeeps, SocketKeeps DEF Next

(* IInv is an invariant.                                                   *)
THEOREM Inductive == Spec => []IInv
  BY InitIInv, NextKeeps, PTL DEF Spec

(* The lock, the sockets and the tasks stay in their types.                *)
THEOREM UDPTypeCorrect == Spec => []TypeOK
  <1>1. IInv => TypeOK  BY DEF IInv
  <1> QED  BY <1>1, Inductive, PTL

(* The continuation of discoverIP is in at most one place.                 *)
THEOREM ContinuationOnce == Spec => []OneHolder
  <1>1. IInv => OneHolder  BY DEF IInv
  <1> QED  BY <1>1, Inductive, PTL

(* A waiting discoverIP can always still be resumed.                       *)
THEOREM ContinuationKept == Spec => []NotForgotten
  <1>1. IInv => NotForgotten  BY DEF IInv
  <1> QED  BY <1>1, Inductive, PTL

(* The retry and time-out tasks end with the discovery.                    *)
THEOREM TasksEnd == Spec => []TasksOwned
  <1>1. IInv => TasksOwned  BY DEF IInv
  <1> QED  BY <1>1, Inductive, PTL

(* close() and connect() never lose an open socket between them.           *)
THEOREM SocketKept == Spec => []NoOrphanSocket
  <1>1. IInv => NoOrphanSocket  BY DEF IInv
  <1> QED  BY <1>1, Inductive, PTL

-----------------------------------------------------------------------------
(* A taker that resumes has the continuation: nobody resumed it before.    *)
LEMMA ResumeAllowed ==
  ASSUME IInv, NEW p \in Taker, NEW r \in Results, UNCHANGED caller,
         outcome' = IF hand[p] THEN r ELSE outcome
  PROVE  [Continuation!Next]_(Continuation!vars)
  BY DEF IInv, InPlace, OnlyWaiting, OneHolder, Continuation!Next, Continuation!Resume,
         Continuation!vars

(* Every step of the connection is a step of the continuation or none.     *)
LEMMA StepRefines == ASSUME IInv, [Next]_vars PROVE [Continuation!Next]_(Continuation!vars)
  <1> USE DEF discoveryVars
  <1>1. CASE Suspend
    BY <1>1 DEF Suspend, IInv, InPlace, OnlyWaiting, Continuation!Next, Continuation!Ask,
         Continuation!vars
  <1>2. CASE ReaderSucceeds
    BY <1>2, ResumeAllowed DEF ReaderSucceeds, Resume, Taker, Results
  <1>3. CASE ReaderFails
    BY <1>3, ResumeAllowed DEF ReaderFails, Resume, Taker, Results
  <1>4. CASE TimerResumes
    BY <1>4, ResumeAllowed DEF TimerResumes, Taker, Results
  <1>5. CASE \E c \in Closer : CloseResumes(c)
    BY <1>5, ResumeAllowed DEF CloseResumes, CloserAt, Resume, Taker, Results
  <1>6. CASE CallerStep /\ ~Suspend
    <2>1. (caller = "waiting")' = (caller = "waiting") /\ outcome' = outcome
      BY <1>6 DEF CallerStep, Connect, BindOk, BindFail, CheckActive, StartDiscovering
    <2> QED  BY <2>1 DEF Continuation!vars
  <1>7. CASE ReaderTakes \/ TimerFires \/ TimerTakes \/ SocketError
             \/ \E kind \in {"answer", "malformed"} : Receive(kind)
    BY <1>7 DEF ReaderTakes, TimerFires, TimerTakes, SocketError, Receive, Continuation!vars
  <1>8. CASE \E c \in Closer : OwnerCloses(c) \/ (CloserStep(c) /\ ~CloseResumes(c))
    BY <1>8 DEF OwnerCloses, CloserStep, CloseIdle, CloseTakes, CloseTakesChannel,
         CloseChannel, CloserAt, Continuation!vars
  <1>9. CASE UNCHANGED vars
    BY <1>9 DEF vars, Continuation!vars
  <1> QED
    BY <1>1, <1>2, <1>3, <1>4, <1>5, <1>6, <1>7, <1>8, <1>9
    DEF Next, CallerStep, ReaderStep, TimerStep, CloserStep

(* UDPConnection implements the one-shot continuation.                     *)
THEOREM ImplementsOneShot == Spec => ResumedOnce
  <1>1. Init => Continuation!Init
    BY DEF Init, Continuation!Init
  <1> QED  BY <1>1, Inductive, StepRefines, PTL DEF Spec, ResumedOnce, Continuation!Spec

-----------------------------------------------------------------------------
(* JitterBuffer.                                                           *)

Half == Modulus \div 2

(* Remainders, of negative numbers too.                                    *)
LEMMA Remainder ==
  ASSUME NEW b \in Nat \ {0}, NEW a \in Int, NEW r \in 0 .. b - 1
  PROVE  (a * b + r) % b = r
<1> DEFINE d == (a * b + r) \div b
           m == (a * b + r) % b
<1>2. a * b \in Int
  OBVIOUS
<1>1. d \in Int /\ m \in 0 .. b - 1 /\ a * b + r = b * d + m
  BY <1>2
<1> HIDE DEF d, m
<1>3. ASSUME a < d PROVE FALSE
  <2>1. b * d >= b * (a + 1)
    BY <1>1, <1>3
  <2>2. b * (a + 1) = a * b + b
    OBVIOUS
  <2> QED
    BY <1>1, <1>2, <2>1, <2>2
<1>4. ASSUME d < a PROVE FALSE
  <2>1. b * a >= b * (d + 1)
    BY <1>1, <1>4
  <2>2. b * (d + 1) = b * d + b /\ b * a = a * b
    BY <1>1
  <2> QED
    BY <1>1, <1>2, <2>1, <2>2
<1>5. a = d
  BY <1>1, <1>3, <1>4
<1>6. m = r
  BY <1>1, <1>2, <1>5
<1> QED
  BY <1>6 DEF m

LEMMA Halves == Half \in Nat \ {0} /\ Modulus \in Nat \ {0} /\ Modulus = 2 * Half
BY JitterAssumption DEF Half

(* The sequence of a number: a remainder, the next one's, and the distance *)
(* of two.                                                                 *)
LEMMA SequenceType == ASSUME NEW n \in Int PROVE Sequence(n) \in 0 .. Modulus - 1
BY Halves, JitterAssumption DEF Sequence

LEMMA SequenceNext == ASSUME NEW n \in Int PROVE (Sequence(n) + 1) % Modulus = Sequence(n + 1)
<1> DEFINE q == (Base + n) \div Modulus
           s == (Base + n) % Modulus
<1>0. Base + n \in Int
  BY JitterAssumption
<1>1. q \in Int /\ s \in 0 .. Modulus - 1 /\ Base + n = Modulus * q + s
  BY <1>0, Halves
<1> HIDE DEF q, s
<1>2. Modulus * q = q * Modulus /\ q * Modulus \in Int /\ (q + 1) * Modulus = q * Modulus + Modulus
  BY <1>1, Halves
<1>5. Base + n \in Int /\ Base + (n + 1) \in Int /\ Base + (n + 1) = Modulus * q + s + 1
  BY <1>1, JitterAssumption
<1>3. CASE s + 1 < Modulus
  <2>1. (s + 1) % Modulus = s + 1
    BY <1>1, <1>3, Halves
  <2>2. Base + (n + 1) = q * Modulus + (s + 1) /\ s + 1 \in 0 .. Modulus - 1
    BY <1>1, <1>2, <1>3, <1>5, Halves
  <2>3. (q * Modulus + (s + 1)) % Modulus = s + 1
    BY <1>1, <2>2, Halves, Remainder
  <2> QED
    BY <2>1, <2>2, <2>3 DEF s, Sequence
<1>4. CASE s + 1 = Modulus
  <2>1. (s + 1) % Modulus = 0
    BY <1>4, Halves
  <2>2. Base + (n + 1) = (q + 1) * Modulus + 0 /\ 0 \in 0 .. Modulus - 1
    BY <1>1, <1>2, <1>4, <1>5, Halves
  <2>3. ((q + 1) * Modulus + 0) % Modulus = 0
    BY <1>1, <2>2, Halves, Remainder
  <2> QED
    BY <2>1, <2>2, <2>3 DEF s, Sequence
<1> QED
  BY <1>1, <1>3, <1>4, Halves

LEMMA SequenceDistance ==
  ASSUME NEW n \in Int, NEW e \in Int, NEW r \in 0 .. Modulus - 1,
         n - e = r \/ n - e = r - Modulus
  PROVE  (Sequence(n) - Sequence(e)) % Modulus = r
<1>. PICK k \in {0, -1} : n - e = k * Modulus + r
  BY Halves
<1> DEFINE q1 == (Base + n) \div Modulus
           s1 == (Base + n) % Modulus
           q2 == (Base + e) \div Modulus
           s2 == (Base + e) % Modulus
<1>0. Base \in Nat /\ k \in Int
  BY JitterAssumption
<1>7. q1 \in Int /\ s1 \in 0 .. Modulus - 1 /\ Base + n = Modulus * q1 + s1
  BY <1>0, Halves
<1>8. q2 \in Int /\ s2 \in 0 .. Modulus - 1 /\ Base + e = Modulus * q2 + s2
  BY <1>0, Halves
<1> HIDE DEF q1, q2, s1, s2
<1>1. /\ q1 \in Int /\ s1 \in 0 .. Modulus - 1 /\ Base + n = Modulus * q1 + s1
      /\ q2 \in Int /\ s2 \in 0 .. Modulus - 1 /\ Base + e = Modulus * q2 + s2
  BY <1>7, <1>8
<1>2. s1 - s2 = k * Modulus + r - (Modulus * q1 - Modulus * q2)
  BY <1>1, Halves, JitterAssumption
<1>3. k * Modulus - (Modulus * q1 - Modulus * q2) = (k - q1 + q2) * Modulus
  BY <1>1, Halves
<1>4. s1 - s2 = (k - q1 + q2) * Modulus + r
  BY <1>1, <1>2, <1>3, Halves
<1>5. k - q1 + q2 \in Int /\ s1 - s2 \in Int
  BY <1>1
<1>6. ((k - q1 + q2) * Modulus + r) % Modulus = r
  BY <1>5, Halves, Remainder
<1> QED
  BY <1>4, <1>6 DEF s1, s2, Sequence

(* Diff is the distance of two numbers less than half the space apart, and *)
(* numbers less than the space apart have different sequences.             *)
LEMMA DiffAhead ==
  ASSUME NEW n \in Int, NEW e \in Int, 0 <= n - e, n - e < Half
  PROVE  Diff(Sequence(n), Sequence(e)) = n - e
<1>1. n - e \in 0 .. Modulus - 1
  BY Halves
<1>2. (Sequence(n) - Sequence(e)) % Modulus = n - e
  BY <1>1, Halves, SequenceDistance
<1> QED
  BY <1>2, Halves DEF Diff, Half

LEMMA DiffBehind ==
  ASSUME NEW n \in Int, NEW e \in Int, 0 < e - n, e - n <= Half
  PROVE  Diff(Sequence(n), Sequence(e)) = n - e
<1>1. n - e = Modulus + n - e - Modulus /\ Modulus + n - e \in 0 .. Modulus - 1
  BY Halves
<1>2. (Sequence(n) - Sequence(e)) % Modulus = Modulus + n - e
  BY <1>1, Halves, SequenceDistance
<1> QED
  BY <1>2, Halves DEF Diff, Half

LEMMA SameSequence ==
  ASSUME NEW n \in Int, NEW e \in Int, Sequence(n) = Sequence(e), n - e < Modulus, e - n < Modulus
  PROVE  n = e
<1>1. SUFFICES ASSUME n # e PROVE FALSE
  OBVIOUS
<1>2. (Sequence(n) - Sequence(e)) % Modulus = 0
  BY SequenceType, Halves
<1>3. CASE n > e
  <2>0. Modulus \in Nat
    BY Halves
  <2>1. n - e \in 0 .. Modulus - 1
    BY <1>3, <2>0
  <2>2. (Sequence(n) - Sequence(e)) % Modulus = n - e
    BY <2>1, Halves, SequenceDistance
  <2> QED
    BY <1>2, <1>3, <2>2
<1>4. CASE n < e
  <2>1. n - e = Modulus + n - e - Modulus /\ Modulus + n - e \in 0 .. Modulus - 1
    BY <1>4, Halves
  <2>2. (Sequence(n) - Sequence(e)) % Modulus = Modulus + n - e
    BY <1>4, <2>1, Halves, SequenceDistance
  <2> QED
    BY <1>2, <2>2, <1>4, Halves
<1> QED
  BY <1>1, <1>3, <1>4
-----------------------------------------------------------------------------
(* What a bag holds.                                                       *)
LEMMA OnlyContents ==
  ASSUME NEW b, NEW S PROVE BagToSet(Only(b, S)) = BagToSet(b) \cap S
BY DEF Only, BagToSet

LEMMA EmptyContents == BagToSet(EmptyBag) = {}
BY DEF EmptyBag, SetToBag, BagToSet

LEMMA BagContents ==
  ASSUME NEW b, NEW n
  PROVE  /\ BagToSet(b (+) OneOf(n)) = BagToSet(b) \cup {n}
         /\ BagToSet(b (-) OneOf(n)) \subseteq BagToSet(b)
<1>1. BagToSet(b (+) OneOf(n)) = BagToSet(b) \cup {n}
  BY DEF (+), BagToSet, OneOf, SetToBag
<1>2. BagToSet(b (-) OneOf(n)) \subseteq BagToSet(b)
  BY DEF (-), BagToSet
<1> QED
  BY <1>1, <1>2

(* A speaker sends at most one packet a frame, in their order.             *)
Latest == played[Len(played)]
Playing == Len(played) > since

SpeakerOK ==
  /\ now \in Nat /\ spoke \in BOOLEAN /\ sentAt \in [Packet -> Nat \cup {None}]
  /\ \E k \in 0 .. MaxPacket : Sent = 1 .. k
  /\ \A n \in Sent : sentAt[n] <= now /\ (sentAt[n] = now => spoke)
  /\ \A n, m \in Sent : n < m => m - n <= sentAt[m] - sentAt[n]

NetworkOK ==
  BagToSet(network) \subseteq Sent /\ \A n \in BagToSet(network) : now - sentAt[n] <= MaxDelay

BufferOK ==
  /\ BagToSet(buffer) \subseteq Sent /\ isBuffering \in BOOLEAN /\ dispatching = ~isBuffering
  /\ played \in Seq(Packet) /\ since \in 0 .. Len(played)
  /\ Playing => dispatching /\ Latest \in Sent

Basics == SpeakerOK /\ NetworkOK /\ BufferOK

LEMMA SentTypes ==
  ASSUME Basics
  PROVE  now \in Nat /\ \A n \in Sent : n \in Packet /\ n \in Nat /\ sentAt[n] \in Nat /\ sentAt[n] <= now
BY DEF Basics, SpeakerOK, Sent, Packet

LEMMA SendKeepsBasics ==
  ASSUME Basics, Send
  PROVE  /\ Basics' /\ \A n \in Sent : n \in Sent' /\ sentAt'[n] = sentAt[n]
         /\ \E q \in 1 .. MaxPacket : Sent = 1 .. (q - 1) /\ Sent' = 1 .. q
<1>1. PICK k \in 0 .. MaxPacket : Sent = 1 .. k
  BY DEF Basics, SpeakerOK
<1>2. Next1 = k + 1
  <2>1. CASE k = 0
    BY <1>1, <2>1 DEF Next1
  <2>2. CASE k > 0
    <3>1. Sent # {} /\ k \in Sent /\ \A m \in Sent : m <= k
      BY <1>1, <2>2
    <3>2. (CHOOSE n \in Sent : \A m \in Sent : m <= n) = k
      BY <1>1, <3>1
    <3>3. Next1 = 1 + k
      BY <3>1, <3>2, Zenon DEF Next1
    <3> QED
      BY <3>3, JitterAssumption
  <2> QED
    BY <2>1, <2>2, JitterAssumption
<1> DEFINE q == k + 1
<1>3. q \in Packet /\ ~spoke /\ spoke' /\ sentAt' = [sentAt EXCEPT ![q] = now]
  BY <1>2 DEF Send
<1>4. sentAt \in [Packet -> Nat \cup {None}] /\ now \in Nat /\ now' = now /\ None \notin Nat
  BY DEF Basics, SpeakerOK, Send, None
<1>5. sentAt'[q] = now /\ (\A n \in Packet \ {q} : sentAt'[n] = sentAt[n]) /\ q \notin Sent
  BY <1>1, <1>3, <1>4
<1>6. Sent' = Sent \cup {q} /\ Sent' = 1 .. q /\ q \in 0 .. MaxPacket
  BY <1>1, <1>3, <1>4, <1>5 DEF Sent, Packet
<1>7. \A n \in Sent : n \in Packet /\ sentAt'[n] = sentAt[n] /\ sentAt[n] \in Nat
  BY <1>1, <1>4, <1>5 DEF Sent
<1>8. SpeakerOK'
  <2>1. \A n \in Sent' : sentAt'[n] <= now' /\ (sentAt'[n] = now' => spoke')
    BY <1>3, <1>4, <1>5, <1>6, <1>7 DEF Basics, SpeakerOK
  <2>2. ASSUME NEW n \in Sent', NEW m \in Sent', n < m PROVE m - n <= sentAt'[m] - sentAt'[n]
    <3>1. CASE m # q
      BY <1>6, <1>7, <2>2, <3>1 DEF Basics, SpeakerOK
    <3>2. CASE m = q
      <4>1. n \in Sent /\ n <= k /\ k \in Sent
        BY <1>1, <1>6, <2>2, <3>2
      <4>2. sentAt[k] + 1 <= now /\ k - n <= sentAt[k] - sentAt[n]
        BY <1>3, <1>4, <1>7, <4>1 DEF Basics, SpeakerOK
      <4> QED
        BY <1>1, <1>4, <1>5, <1>7, <3>2, <4>1, <4>2
    <3> QED
      BY <3>1, <3>2
  <2>3. spoke' \in BOOLEAN /\ sentAt' \in [Packet -> Nat \cup {None}]
    BY <1>3, <1>4 DEF Send
  <2> QED
    BY <1>4, <1>6, <2>1, <2>2, <2>3 DEF SpeakerOK
<1>9. NetworkOK'
  <2>1. BagToSet(network') \subseteq BagToSet(network) \cup {q}
    <3>1. PICK c \in 0 .. Copies : network' = IF c = 0 THEN network
                                              ELSE network (+) [n \in {q} |-> c]
      BY <1>2 DEF Send
    <3>2. BagToSet(network (+) [n \in {q} |-> c]) = BagToSet(network) \cup {q}
      BY DEF (+), BagToSet
    <3> QED
      BY <3>1, <3>2
  <2>2. ASSUME NEW n \in BagToSet(network') PROVE n \in Sent' /\ now' - sentAt'[n] <= MaxDelay
    <3>1. CASE n = q
      BY <1>4, <1>5, <1>6, <3>1, JitterAssumption
    <3>2. CASE n # q
      <4>1. n \in BagToSet(network) /\ n \in Sent
        BY <2>1, <3>2 DEF Basics, NetworkOK
      <4> QED
        BY <1>4, <1>6, <1>7, <4>1 DEF Basics, NetworkOK
    <3> QED
      BY <3>1, <3>2
  <2> QED
    BY <2>2 DEF NetworkOK
<1>10. BufferOK'
  BY <1>6 DEF Basics, BufferOK, Send, actorVars, Playing, Latest
<1>11. q \in 1 .. MaxPacket /\ Sent = 1 .. (q - 1)
  BY <1>1, <1>3, JitterAssumption DEF Packet
<1> QED
  BY <1>6, <1>7, <1>8, <1>9, <1>10, <1>11 DEF Basics

LEMMA PushKeepsBasics ==
  ASSUME Basics, NEW n \in Packet, Push(n)
  PROVE  Basics' /\ Sent' = Sent /\ n \in Sent /\ now - sentAt[n] <= MaxDelay
                 /\ BagToSet(buffer') = BagToSet(buffer) \cup {n}
<1>1. UNCHANGED <<now, sentAt, spoke, played, since>> /\ Sent' = Sent
  BY DEF Push, Sent
<1>2. BagToSet(network') \subseteq BagToSet(network) /\ n \in BagToSet(network)
  BY BagContents DEF Push, BagIn
<1>3. BagToSet(buffer') = BagToSet(buffer) \cup {n}
  BY BagContents DEF Push
<1>4. isBuffering' \in BOOLEAN /\ dispatching' = ~isBuffering' /\ (dispatching => dispatching')
  BY DEF Push, Basics, BufferOK
<1>5. n \in Sent /\ now - sentAt[n] <= MaxDelay
  BY <1>2 DEF Basics, NetworkOK
<1>6. SpeakerOK' /\ NetworkOK'
  BY <1>1, <1>2 DEF Basics, SpeakerOK, NetworkOK
<1>7. BufferOK'
  BY <1>1, <1>3, <1>4, <1>5 DEF Basics, BufferOK, Playing, Latest
<1> QED
  BY <1>1, <1>3, <1>5, <1>6, <1>7 DEF Basics

(* A dispatch plays a packet of the buffer or none, and then stops or goes *)
(* on.                                                                     *)
Stops(p) == /\ buffer' = EmptyBag /\ isBuffering' = TRUE /\ dispatching' = FALSE
            /\ since' = Len(p)
GoesOn(b) == /\ buffer' = Kept(b) /\ expected' = (expected + 1) % Modulus
             /\ UNCHANGED <<isBuffering, dispatching, since>>
Silent(b, p) == Wanted = {} /\ b = buffer /\ p = played
Plays(n, b, p) == n \in Wanted /\ b = buffer (-) OneOf(n) /\ p = Append(played, n)

LEMMA KeptOf ==
  ASSUME NEW b PROVE BagToSet(Kept(b)) \subseteq BagToSet(b)
BY OnlyContents DEF Kept

LEMMA DispatchCases ==
  ASSUME Basics, Frame, dispatching
  PROVE  \E b, p : /\ Silent(b, p) \/ \E n : Plays(n, b, p)
                   /\ Stops(p) \/ GoesOn(b)
                   /\ played' = p /\ BagToSet(b) \subseteq BagToSet(buffer)
                   /\ missed' = missed \cup Unheard(BagToSet(b) \ BagToSet(Kept(b)), p)
                   /\ p \in Seq(Packet) /\ Len(p) \in {Len(played), Len(played) + 1}
                   /\ \A i \in 1 .. Len(played) : p[i] = played[i]
<1>1. DispatchNextFrame
  BY DEF Frame
<1>2. played \in Seq(Packet)
  BY DEF Basics, BufferOK
<1>3. CASE Wanted = {}
  BY <1>1, <1>2, <1>3 DEF DispatchNextFrame, Dispatched, After, Silent, Stops, GoesOn
<1>4. CASE Wanted # {}
  <2>1. PICK n \in Wanted : Dispatched(buffer (-) OneOf(n), Append(played, n))
    BY <1>1, <1>4 DEF DispatchNextFrame
  <2> DEFINE b == buffer (-) OneOf(n)
             p == Append(played, n)
  <2>2. n \in Packet /\ BagToSet(b) \subseteq BagToSet(buffer)
    BY SentTypes, BagContents DEF Basics, BufferOK, Wanted
  <2>3. p \in Seq(Packet) /\ Len(p) = Len(played) + 1 /\ \A i \in 1 .. Len(played) : p[i] = played[i]
    BY <1>2, <2>2
  <2>4. Plays(n, b, p)
    BY DEF Plays
  <2>5. Stops(p) \/ GoesOn(b)
    BY <2>1 DEF Dispatched, After, Stops, GoesOn
  <2>6. played' = p /\ missed' = missed \cup Unheard(BagToSet(b) \ BagToSet(Kept(b)), p)
    BY <2>1 DEF Dispatched
  <2> HIDE DEF b, p
  <2> QED
    BY <2>2, <2>3, <2>4, <2>5, <2>6
<1> QED
  BY <1>3, <1>4

LEMMA PlayedIs ==
  ASSUME Basics, NEW n, NEW b, NEW p, Plays(n, b, p)
  PROVE  /\ n \in BagToSet(buffer) /\ n \in Sent /\ expected = Sequence(n)
         /\ Len(p) = Len(played) + 1 /\ p[Len(p)] = n
<1>1. n \in BagToSet(buffer) /\ n \in Sent /\ expected = Sequence(n)
  BY DEF Plays, Wanted, Basics, BufferOK
<1>2. n \in Packet /\ played \in Seq(Packet)
  BY <1>1, SentTypes DEF Basics, BufferOK
<1> QED
  BY <1>1, <1>2 DEF Plays

LEMMA FrameKeepsBasics ==
  ASSUME Basics, Frame
  PROVE  Basics' /\ Sent' = Sent /\ sentAt' = sentAt /\ now' = now + 1 /\ delay' = delay
<1>1. sentAt' = sentAt /\ Sent' = Sent /\ now' = now + 1 /\ now \in Nat /\ delay' = delay
  BY SentTypes DEF Frame, Sent
<1>2. SpeakerOK'
  <2>1. \A n \in Sent : sentAt[n] <= now + 1 /\ sentAt[n] # now + 1
    BY <1>1, SentTypes
  <2>2. \A n \in Sent' : sentAt'[n] <= now' /\ (sentAt'[n] = now' => spoke')
    BY <1>1, <2>1
  <2>3. spoke' \in BOOLEAN
    BY DEF Frame
  <2> QED
    BY <1>1, <2>2, <2>3 DEF Basics, SpeakerOK
<1>3. NetworkOK'
  <2>1. BagToSet(network') = BagToSet(network) \cap {n \in Sent : now - sentAt[n] < MaxDelay}
    BY OnlyContents DEF Frame
  <2> QED
    BY <1>1, SentTypes, <2>1, JitterAssumption DEF Basics, NetworkOK
<1>4. CASE ~dispatching
  <2>1. UNCHANGED <<buffer, isBuffering, dispatching, played, since>>
    BY <1>4 DEF Frame, actorVars
  <2> QED
    BY <1>1, <1>2, <1>3, <2>1 DEF Basics, BufferOK, Playing, Latest
<1>5. CASE dispatching
  <2>1. PICK b, p : /\ Silent(b, p) \/ \E n : Plays(n, b, p)
                    /\ Stops(p) \/ GoesOn(b)
                    /\ played' = p /\ BagToSet(b) \subseteq BagToSet(buffer)
                    /\ p \in Seq(Packet) /\ Len(p) \in {Len(played), Len(played) + 1}
    BY <1>5, DispatchCases
  <2>2. CASE Stops(p)
    <3>1. ~Playing' /\ BagToSet(buffer') = {} /\ since' \in 0 .. Len(played')
      BY <2>1, <2>2, EmptyContents DEF Playing, Stops
    <3>2. isBuffering' \in BOOLEAN /\ dispatching' = ~isBuffering'
      BY <2>2 DEF Stops
    <3>3. BufferOK'
      BY <2>1, <3>1, <3>2 DEF BufferOK
    <3> QED
      BY <1>1, <1>2, <1>3, <3>3 DEF Basics
  <2>3. CASE GoesOn(b)
    <3>1. BagToSet(buffer') \subseteq BagToSet(buffer)
      BY <2>1, <2>3, KeptOf DEF GoesOn
    <3>2. isBuffering' \in BOOLEAN /\ dispatching' = ~isBuffering' /\ dispatching'
      BY <1>5, <2>3 DEF GoesOn, Basics, BufferOK
    <3>3. since' \in 0 .. Len(played')
      BY <2>1, <2>3 DEF GoesOn, Basics, BufferOK
    <3>4. Playing' => Latest' \in Sent
      BY <2>1, <2>3, PlayedIs DEF GoesOn, Basics, BufferOK, Silent, Playing, Latest
    <3>5. BufferOK'
      BY <1>1, <2>1, <3>1, <3>2, <3>3, <3>4 DEF Basics, BufferOK
    <3> QED
      BY <1>1, <1>2, <1>3, <3>5 DEF Basics
  <2> QED
    BY <2>1, <2>2, <2>3
<1> QED
  BY <1>1, <1>4, <1>5

LEMMA BasicsSame == ASSUME Basics, UNCHANGED jitterVars PROVE Basics' /\ Sent' = Sent
BY DEF jitterVars, actorVars, worldVars, Basics, SpeakerOK, NetworkOK, BufferOK, Playing, Latest, Sent

LEMMA BasicsInit == ASSUME JitterInit PROVE Basics /\ ~Playing /\ Sent = {} /\ BagToSet(buffer) = {}
<1>1. Sent = {} /\ BagToSet(buffer) = {} /\ BagToSet(network) = {}
  BY EmptyContents DEF JitterInit, Sent
<1>2. SpeakerOK
  <2>1. 0 \in 0 .. MaxPacket /\ Sent = 1 .. 0
    BY <1>1, JitterAssumption
  <2> QED
    BY <1>1, <2>1 DEF JitterInit, SpeakerOK
<1>3. played = <<>> /\ Len(played) = 0 /\ since = 0 /\ played \in Seq(Packet)
  BY DEF JitterInit
<1>4. ~Playing
  BY <1>3 DEF Playing
<1>5. NetworkOK
  BY <1>1 DEF NetworkOK
<1>6. isBuffering \in BOOLEAN /\ dispatching = ~isBuffering
  BY DEF JitterInit
<1>7. BufferOK
  BY <1>1, <1>3, <1>4, <1>6 DEF BufferOK
<1> QED
  BY <1>1, <1>2, <1>4, <1>5, <1>7 DEF Basics

-----------------------------------------------------------------------------
(* The loop expects a packet t frames behind the one it played last, which *)
(* it played t frames ago; and whatever is older in the buffer is not half *)
(* the sequence space behind that: it is seen to be late.                  *)
Behind(t) ==
  /\ expected = Sequence(Latest + 1 + t) /\ t + 1 + sentAt[Latest] <= now
  /\ \A m \in BagToSet(buffer) : m <= Latest => Latest + 1 + t - m <= Half
LateIsSeen == Playing => \E t \in Nat : Behind(t)

PlayInv == Basics /\ LateIsSeen /\ PlaysForward

(* No two packets in the buffer are half the sequence space apart: it      *)
(* holds none for eleven minutes.                                          *)
Narrow == \A n, m \in BagToSet(buffer) : n - m < Half

LEMMA SendKeepsPlay == ASSUME PlayInv, Send PROVE PlayInv'
<1>1. UNCHANGED <<buffer, expected, played, since, now>>
  BY DEF Send, actorVars
<1>2. Playing => sentAt'[Latest] = sentAt[Latest]
  BY SendKeepsBasics DEF PlayInv, Basics, BufferOK
<1>3. LateIsSeen'
  BY <1>1, <1>2 DEF PlayInv, LateIsSeen, Behind, Playing, Latest
<1> QED
  BY <1>1, <1>3, SendKeepsBasics DEF PlayInv, PlaysForward

LEMMA PushKeepsPlay ==
  ASSUME MaxDelay <= Half, PlayInv, NEW n \in Packet, Push(n) PROVE PlayInv'
<1>1. UNCHANGED <<now, sentAt, played, since>> /\ Latest' = Latest
  BY DEF Push, Latest
<1>2. ASSUME Playing PROVE \E t \in Nat : Behind(t)'
  <2>1. expected' = expected
    BY <1>2 DEF PlayInv, Basics, BufferOK, Push
  <2>2. PICK t \in Nat : Behind(t)
    BY <1>2 DEF PlayInv, LateIsSeen
  <2>3. /\ n \in Sent /\ Latest \in Sent /\ now - sentAt[n] <= MaxDelay
        /\ BagToSet(buffer') = BagToSet(buffer) \cup {n}
    BY <1>2, PushKeepsBasics DEF PlayInv, Basics, BufferOK
  <2>4. sentAt[n] \in Nat /\ sentAt[Latest] \in Nat /\ now \in Nat /\ Latest \in Nat /\ n \in Nat
    BY <2>3, SentTypes DEF PlayInv
  <2>5. n < Latest => Latest - n <= sentAt[Latest] - sentAt[n]
    BY <2>3, <2>4 DEF PlayInv, Basics, SpeakerOK
  <2>6. n <= Latest => Latest + 1 + t - n <= Half
    BY <2>2, <2>3, <2>4, <2>5, Halves, JitterAssumption DEF Behind
  <2> QED
    BY <1>1, <2>1, <2>2, <2>3, <2>6 DEF Behind
<1>3. LateIsSeen'
  BY <1>1, <1>2 DEF LateIsSeen, Playing
<1> QED
  BY <1>1, <1>3, PushKeepsBasics DEF PlayInv, PlaysForward

(* What a dispatch plays is younger than what was played before, and what  *)
(* it keeps is not older than that.                                        *)
LEMMA WantedIsYounger ==
  ASSUME PlayInv, Playing, NEW n \in Wanted PROVE Latest < n
<1>1. PICK t \in Nat : Behind(t)
  BY DEF PlayInv, LateIsSeen
<1>2. n \in BagToSet(buffer) /\ Sequence(n) = expected /\ n \in Int /\ Latest \in Int
  BY SentTypes DEF Wanted, PlayInv, Basics, BufferOK
<1>3. SUFFICES ASSUME n <= Latest PROVE FALSE
  BY <1>2
<1>4. Latest + 1 + t - n <= Half
  BY <1>1, <1>2, <1>3 DEF Behind
<1>5. n = Latest + 1 + t
  BY <1>1, <1>2, <1>3, <1>4, Halves, SameSequence DEF Behind
<1> QED
  BY <1>2, <1>3, <1>5

LEMMA DropsOlder ==
  ASSUME NEW b, NEW m \in BagToSet(Kept(b)), NEW e \in Int, m \in Int, expected = Sequence(e),
         e - m <= Half
  PROVE  e <= m
<1>1. Diff(Sequence(m), Sequence(e)) >= 0
  BY OnlyContents DEF Kept
<1>2. e - m > 0 => Diff(Sequence(m), Sequence(e)) = m - e
  BY DiffBehind
<1> QED
  BY <1>1, <1>2

LEMMA FrameKeepsPlay ==
  ASSUME PlayInv, Narrow, Frame PROVE PlayInv'
<1>1. /\ Basics' /\ Sent' = Sent /\ sentAt' = sentAt /\ now' = now + 1 /\ Basics
      /\ played \in Seq(Packet) /\ since \in 0 .. Len(played) /\ BagToSet(buffer) \subseteq Sent
  BY FrameKeepsBasics DEF PlayInv, Basics, BufferOK
<1>2. CASE ~dispatching
  <2>1. UNCHANGED <<played, since>> /\ ~Playing
    BY <1>2 DEF Frame, PlayInv, Basics, BufferOK
  <2> QED
    BY <1>1, <2>1 DEF PlayInv, LateIsSeen, PlaysForward, Playing
<1>3. CASE dispatching
  <2>1. PICK b, p : /\ Silent(b, p) \/ \E n : Plays(n, b, p)
                    /\ Stops(p) \/ GoesOn(b)
                    /\ played' = p /\ BagToSet(b) \subseteq BagToSet(buffer)
                    /\ p \in Seq(Packet) /\ Len(p) \in {Len(played), Len(played) + 1}
                    /\ \A i \in 1 .. Len(played) : p[i] = played[i]
    BY <1>1, <1>3, DispatchCases
  <2>2. CASE Stops(p)
    <3>1. ~Playing' /\ PlaysForward'
      BY <2>1, <2>2 DEF Playing, Stops, PlaysForward
    <3> QED
      BY <1>1, <3>1 DEF PlayInv, LateIsSeen
  <2>3. CASE GoesOn(b) /\ Silent(b, p)
    <3>1. LateIsSeen'
      <4> SUFFICES ASSUME Playing PROVE \E t \in Nat : Behind(t)'
        BY <2>1, <2>3 DEF LateIsSeen, Playing, GoesOn, Silent
      <4>1. PICK t \in Nat : Behind(t)
        BY DEF PlayInv, LateIsSeen
      <4>2. Latest \in Sent /\ Latest' = Latest
        BY <2>1, <2>3 DEF PlayInv, Basics, BufferOK, Latest, Silent
      <4>3. Latest \in Nat /\ sentAt[Latest] \in Nat /\ now \in Nat
        BY <1>1, <4>2, SentTypes
      <4>4. expected' = Sequence(Latest + 1 + (t + 1))
        BY <2>3, <4>1, <4>3, SequenceNext DEF Behind, GoesOn
      <4>5. ASSUME NEW m \in BagToSet(buffer'), m <= Latest PROVE FALSE
        <5>1. m \in BagToSet(buffer) /\ m \in BagToSet(Kept(b)) /\ m \in Int
          BY <1>1, <2>1, <2>3, KeptOf, SentTypes DEF GoesOn
        <5>2. Latest + 1 + t <= m
          BY <4>1, <4>3, <4>5, <5>1, DropsOlder DEF Behind
        <5> QED
          BY <4>1, <4>3, <4>5, <5>1, <5>2
      <4>6. (t + 1) + 1 + sentAt[Latest] <= now + 1
        BY <4>1, <4>3 DEF Behind
      <4>7. Behind(t + 1)'
        BY <1>1, <4>2, <4>4, <4>5, <4>6 DEF Behind
      <4> QED
        BY <4>7
    <3>2. PlaysForward'
      BY <2>1, <2>3 DEF PlayInv, PlaysForward, Silent, GoesOn
    <3> QED
      BY <1>1, <3>1, <3>2 DEF PlayInv
  <2>4. ASSUME GoesOn(b), NEW n, Plays(n, b, p) PROVE PlayInv'
    <3>1. n \in BagToSet(buffer) /\ n \in Sent /\ expected = Sequence(n) /\ n \in Wanted
          /\ Len(p) = Len(played) + 1 /\ p[Len(p)] = n
      BY <1>1, <2>4, PlayedIs DEF Plays
    <3>2. n \in Nat /\ sentAt[n] \in Nat /\ sentAt[n] <= now /\ now \in Nat
      BY <1>1, <3>1, SentTypes
    <3>3. Latest' = n /\ since' = since
      BY <2>1, <2>4, <3>1 DEF Latest, GoesOn
    <3>4. Behind(0)'
      <4>1. expected' = Sequence(n + 1 + 0)
        BY <2>4, <3>1, <3>2, SequenceNext DEF GoesOn
      <4>2. ASSUME NEW m \in BagToSet(buffer'), m <= n PROVE n + 1 + 0 - m <= Half
        <5>1. m \in BagToSet(buffer) /\ m \in BagToSet(Kept(b)) /\ m \in Int
          BY <1>1, <2>1, <2>4, KeptOf, SentTypes DEF GoesOn
        <5>2. n - m < Half
          BY <3>1, <5>1 DEF Narrow
        <5>3. n <= m
          BY <3>1, <3>2, <5>1, <5>2, Halves, DropsOlder
        <5> QED
          BY <3>2, <4>2, <5>1, <5>3, Halves
      <4>3. 0 + 1 + sentAt[n] <= now'
        BY <1>1, <3>2
      <4> QED
        BY <1>1, <3>3, <4>1, <4>2, <4>3 DEF Behind
    <3>5. PlaysForward'
      <4> SUFFICES ASSUME NEW i \in since + 2 .. Len(p) PROVE p[i - 1] < p[i]
        BY <2>1, <3>3 DEF PlaysForward
      <4>1. CASE i <= Len(played)
        <5>1. i \in since + 2 .. Len(played) /\ i - 1 \in 1 .. Len(played) /\ i \in 1 .. Len(played)
          BY <1>1, <3>1, <4>1
        <5>2. played[i - 1] < played[i]
          BY <5>1 DEF PlayInv, PlaysForward
        <5> QED
          BY <2>1, <5>1, <5>2
      <4>2. CASE i = Len(played) + 1
        <5>1. Playing /\ p[i - 1] = Latest
          BY <1>1, <2>1, <4>2 DEF Playing, Latest
        <5>2. Latest < n
          BY <3>1, <5>1, WantedIsYounger
        <5> QED
          BY <3>1, <4>2, <5>1, <5>2
      <4> QED
        BY <1>1, <3>1, <4>1, <4>2
    <3> QED
      BY <1>1, <3>4, <3>5 DEF PlayInv, LateIsSeen
  <2> QED
    BY <2>1, <2>2, <2>3, <2>4
<1> QED
  BY <1>2, <1>3

LEMMA PlayStep ==
  ASSUME MaxDelay <= Half, PlayInv, Narrow, [JitterNext]_jitterVars PROVE PlayInv'
<1>1. CASE UNCHANGED jitterVars
  BY <1>1, BasicsSame
  DEF jitterVars, actorVars, worldVars, PlayInv, LateIsSeen, Behind, PlaysForward, Playing, Latest
<1> QED
  BY <1>1, SendKeepsPlay, PushKeepsPlay, FrameKeepsPlay DEF JitterNext

LEMMA PlayInit == ASSUME JitterInit PROVE PlayInv
<1>1. since = 0 /\ Len(played) = 0
  BY DEF JitterInit
<1>2. PlaysForward
  BY <1>1 DEF PlaysForward
<1> QED
  BY <1>2, BasicsInit DEF PlayInv, LateIsSeen

(* From one filling of the buffer to the next, packets are played in the   *)
(* order they were sent in and none twice, for any depth, network and      *)
(* speaker: as long as no packet is under way, and none is held beside     *)
(* another, for half the sequence space (dispatchNextFrame and diff,       *)
(* JitterBuffer.swift:82 and :105).                                        *)
THEOREM PlayedInOrder ==
  ASSUME MaxDelay <= Half PROVE JitterSpec /\ []Narrow => []PlaysForward
<1>1. PlayInv /\ Narrow /\ [JitterNext]_jitterVars => PlayInv'
  BY PlayStep
<1>2. PlayInv => PlaysForward
  BY DEF PlayInv
<1> QED
  BY <1>1, <1>2, PlayInit, PTL DEF JitterSpec

(* So they are in every call that sends at most half the sequence space.   *)
THEOREM PlayedInOrderShort ==
  ASSUME MaxDelay <= Half, MaxPacket <= Half PROVE JitterSpec => []PlaysForward
<1>1. PlayInv => Narrow
  <2> SUFFICES ASSUME PlayInv, NEW n \in BagToSet(buffer), NEW m \in BagToSet(buffer)
               PROVE  n - m < Half
    BY DEF Narrow
  <2>1. n \in 1 .. MaxPacket /\ m \in 1 .. MaxPacket
    BY SentTypes DEF PlayInv, Basics, BufferOK, Packet
  <2> QED
    BY <2>1, Halves, JitterAssumption
<1>2. PlayInv /\ [JitterNext]_jitterVars => PlayInv'
  BY <1>1, PlayStep
<1>3. PlayInv => PlaysForward
  BY DEF PlayInv
<1> QED
  BY <1>2, <1>3, PlayInit, PTL DEF JitterSpec
-----------------------------------------------------------------------------
(* Without a pause a speaker sends one packet in each frame.               *)
Steady == ~Paused => \A n, m \in Sent : n < m => sentAt[m] - sentAt[n] <= m - n

(* Without repetition the buffer has one copy of each packet, and has it   *)
(* from the network.                                                       *)
Single == ~repeated => \A n \in BagToSet(buffer) : buffer[n] = 1 /\ delay[n] # None

(* The loop began with packet f, Depth - 1 frames after f was sent or      *)
(* later, and now expects the k-th behind it.  What it has not played and  *)
(* not dropped of what lies between them came too late.                    *)
Began(f, k) ==
  /\ f \in Sent /\ expected = Sequence(f + k)
  /\ sentAt[f] + Depth - 1 + k <= now
  /\ MaxPacket <= Half \/ now - sentAt[f] - k < Half
  /\ IF k = 0 THEN Len(played) = since /\ f \in BagToSet(buffer)
     ELSE Playing /\ played[since + 1] = f
  /\ \A n \in BagToSet(buffer) :
       f + k - n <= Half /\ (f < n /\ n < f + k => delay[n] >= Depth \/ n \in ElementsOf(played))

AbsorbInv ==
  /\ Basics /\ Steady /\ Single /\ delay \in [Packet -> Int] /\ DelayAbsorbsJitter
  /\ ~Paused /\ ~repeated /\ dispatching => \E f \in Packet, k \in Nat : Began(f, k)

(* The buffer fills before its packets are half the sequence space old.    *)
Prompt ==
  MaxPacket > Half /\ isBuffering => \A n \in BagToSet(buffer) : now - sentAt[n] < Half

(* What has held of the speaker goes on to hold of what was sent before.   *)
LEMMA PausedStays ==
  ASSUME Paused, \A n \in Sent : n \in Sent' /\ sentAt'[n] = sentAt[n] PROVE Paused'
BY DEF Paused

(* A buffer of single packets that are not older than f, and at least      *)
(* Depth of them, has one that is Depth - 1 behind f.                      *)
LEMMA FullReaches ==
  ASSUME NEW b, NEW f \in Nat, Count(b) >= Depth, BagToSet(b) \subseteq Nat,
         \A n \in BagToSet(b) : b[n] = 1 /\ f <= n
  PROVE  \E m \in BagToSet(b) : m >= f + Depth - 1
<1>1. SUFFICES ASSUME \A m \in BagToSet(b) : m < f + Depth - 1 PROVE FALSE
  BY JitterAssumption
<1> DEFINE I == f .. f + Depth - 2
           C == UNION {{n} \X (1 .. b[n]) : n \in BagToSet(b)}
<1>2. C \subseteq I \X (1 .. 1)
  BY <1>1, JitterAssumption
<1>3. IsFiniteSet(I) /\ Cardinality(I) = Depth - 1 /\ IsFiniteSet(1 .. 1) /\ Cardinality(1 .. 1) = 1
  <2>1. Depth \in Nat \ {0} /\ f + Depth - 2 \in Int /\ f \in Int /\ 1 \in Int
    BY JitterAssumption
  <2>2. IsFiniteSet(I) /\ Cardinality(I) = IF f > f + Depth - 2 THEN 0 ELSE f + Depth - 2 - f + 1
    BY <2>1, FS_Interval
  <2>3. IsFiniteSet(1 .. 1) /\ Cardinality(1 .. 1) = 1
    <3>1. 1 .. 1 = {1}
      OBVIOUS
    <3> QED
      BY <3>1, FS_Singleton
  <2> QED
    BY <2>1, <2>2, <2>3
<1> HIDE DEF I
<1>7. IsFiniteSet(I \X (1 .. 1)) /\ Cardinality(I \X (1 .. 1)) = Cardinality(I) * Cardinality(1 .. 1)
  BY <1>3, FS_Product, Zenon
<1>4. IsFiniteSet(I \X (1 .. 1)) /\ Cardinality(I \X (1 .. 1)) = (Depth - 1) * 1
  BY <1>3, <1>7
<1>5. Cardinality(C) <= Cardinality(I \X (1 .. 1))
  BY <1>2, <1>4, FS_Subset
<1>6. Cardinality(C) \in Nat
  BY <1>2, <1>4, FS_Subset, FS_CardinalityType
<1> QED
  BY <1>4, <1>5, <1>6, JitterAssumption DEF Count

LEMMA SendKeepsAbsorb == ASSUME AbsorbInv, Send PROVE AbsorbInv'
<1>1. Basics' /\ (\A n \in Sent : n \in Sent' /\ sentAt'[n] = sentAt[n]) /\ (Paused => Paused')
  BY SendKeepsBasics, PausedStays DEF AbsorbInv
<1>2. UNCHANGED <<buffer, expected, isBuffering, dispatching, now, delay, repeated, played, since, missed>>
  BY DEF Send, actorVars
<1>3. Steady'
  <2> SUFFICES ASSUME ~Paused', NEW n \in Sent', NEW m \in Sent', n < m
               PROVE  sentAt'[m] - sentAt'[n] <= m - n
    BY DEF Steady
  <2>1. PICK q \in 1 .. MaxPacket : /\ Sent = 1 .. (q - 1) /\ Sent' = 1 .. q
    BY <1>1, SendKeepsBasics DEF AbsorbInv
  <2>2. \A i, j \in Sent : i < j => sentAt[j] - sentAt[i] <= j - i
    BY <1>1 DEF AbsorbInv, Steady
  <2>3. CASE m < q
    <3>1. n \in Sent /\ m \in Sent
      BY <2>1, <2>3, JitterAssumption
    <3> QED
      BY <1>1, <2>2, <3>1
  <2>4. CASE m = q
    <3>1. q - 1 \in Sent /\ n \in Sent /\ n <= q - 1 /\ q = (q - 1) + 1
      BY <2>1, <2>4, JitterAssumption
    <3>2. \A i \in Sent' : sentAt'[i] \in Nat
      BY <1>1, SentTypes, Zenon DEF Basics, SpeakerOK, Sent
    <3>3. sentAt'[q] <= sentAt'[q - 1] + 1
      BY <1>1, <2>1, <3>1, <3>2, JitterAssumption DEF Paused
    <3>4. n < q - 1 => sentAt[q - 1] - sentAt[n] <= q - 1 - n
      BY <2>2, <3>1
    <3>5. sentAt'[q - 1] = sentAt[q - 1] /\ sentAt'[n] = sentAt[n]
      BY <1>1, <3>1
    <3>6. sentAt'[q] \in Nat /\ sentAt'[q - 1] \in Nat /\ sentAt'[n] \in Nat /\ q \in Nat /\ n \in Nat
      BY <2>1, <2>4, <3>1, <3>2, JitterAssumption
    <3>7. n = q - 1 \/ n < q - 1
      BY <3>1, <3>6
    <3> QED
      BY <2>4, <3>3, <3>4, <3>5, <3>6, <3>7
  <2> QED
    BY <2>1, <2>3, <2>4, JitterAssumption
<1>4. Single' /\ DelayAbsorbsJitter'
  BY <1>1, <1>2 DEF AbsorbInv, Single, DelayAbsorbsJitter
<1>5. ASSUME ~Paused', ~repeated', dispatching' PROVE \E f \in Packet, k \in Nat : Began(f, k)'
  <2>1. PICK f \in Packet, k \in Nat : Began(f, k)
    BY <1>1, <1>2, <1>5 DEF AbsorbInv
  <2>2. Began(f, k)'
    BY <1>1, <1>2, <2>1 DEF Began, Playing
  <2> QED
    BY <2>2
<1> QED
  BY <1>1, <1>2, <1>3, <1>4, <1>5 DEF AbsorbInv

LEMMA PushKeepsAbsorb ==
  ASSUME MaxDelay < Half, AbsorbInv, Prompt, NEW n \in Packet, Push(n) PROVE AbsorbInv'
<1>1. /\ Basics' /\ Sent' = Sent /\ n \in Sent /\ now - sentAt[n] <= MaxDelay /\ Basics
      /\ BagToSet(buffer') = BagToSet(buffer) \cup {n} /\ BagToSet(buffer) \subseteq Sent
  BY PushKeepsBasics DEF AbsorbInv, Basics, BufferOK
<1>2. UNCHANGED <<now, sentAt, played, since, missed>> /\ Paused' = Paused
  BY <1>1 DEF Push, Paused
<1>3. /\ delay' \in [Packet -> Int] /\ (repeated => repeated')
      /\ \A m \in Packet : m # n \/ delay[m] # None => delay'[m] = delay[m]
      /\ delay[n] = None => delay'[n] = now - sentAt[n]
      /\ delay[n] # None => repeated'
  <2>1. delay' = [delay EXCEPT ![n] = IF @ = None THEN now - sentAt[n] ELSE @]
    BY DEF Push
  <2>2. delay \in [Packet -> Int] /\ now - sentAt[n] \in Int
    BY <1>1, SentTypes DEF AbsorbInv
  <2>3. repeated' = (repeated \/ delay[n] # None)
    BY DEF Push
  <2> QED
    BY <2>1, <2>2, <2>3
<1>4. Steady'
  BY <1>1, <1>2 DEF AbsorbInv, Steady
<1>5. \A m \in Sent : m \in Packet /\ m \in Nat /\ sentAt[m] \in Nat /\ sentAt[m] <= now /\ now \in Nat
  BY <1>1, SentTypes
<1>6. Single'
  <2> SUFFICES ASSUME ~repeated' PROVE \A m \in BagToSet(buffer') : buffer'[m] = 1 /\ delay'[m] # None
    BY DEF Single
  <2>1. delay[n] = None /\ n \notin BagToSet(buffer) /\ ~repeated
    BY <1>3 DEF AbsorbInv, Single
  <2>2. buffer' = buffer (+) OneOf(n)
    BY DEF Push
  <2>3. buffer'[n] = 1 /\ \A m \in BagToSet(buffer) : buffer[m] = 1 => buffer'[m] = 1
    BY <2>1, <2>2 DEF (+), BagToSet, OneOf, SetToBag
  <2>4. delay'[n] # None
    BY <1>1, <1>3, <1>5, <2>1 DEF None
  <2> QED
    BY <1>1, <1>3, <1>5, <2>1, <2>3, <2>4 DEF AbsorbInv, Single
<1>7. DelayAbsorbsJitter'
  <2> SUFFICES ASSUME ~Paused', ~repeated', NEW m \in missed PROVE delay'[m] >= Depth
    BY <1>2 DEF DelayAbsorbsJitter
  <2>1. delay[n] = None /\ ~repeated /\ delay[m] >= Depth
    BY <1>2, <1>3 DEF AbsorbInv, DelayAbsorbsJitter
  <2>2. m # n
    BY <2>1, JitterAssumption DEF None
  <2>3. delay' = [delay EXCEPT ![n] = IF @ = None THEN now - sentAt[n] ELSE @]
    BY DEF Push
  <2> QED
    BY <2>1, <2>2, <2>3
<1>8. ASSUME ~Paused', ~repeated', dispatching' PROVE \E f \in Packet, k \in Nat : Began(f, k)'
  <2>1. ~Paused /\ ~repeated /\ delay[n] = None
    BY <1>2, <1>3, <1>8
  <2>2. \A i, j \in Sent : i < j => sentAt[j] - sentAt[i] = j - i
    <3>1. \A i, j \in Sent : i < j => sentAt[j] - sentAt[i] <= j - i
      BY <2>1 DEF AbsorbInv, Steady
    <3>2. \A i, j \in Sent : i < j => j - i <= sentAt[j] - sentAt[i]
      BY DEF AbsorbInv, Basics, SpeakerOK
    <3> QED
      BY <1>5, <3>1, <3>2
  <2>3. CASE dispatching
    <3>1. PICK f \in Packet, k \in Nat : Began(f, k)
      BY <2>1, <2>3 DEF AbsorbInv
    <3>2. expected' = expected /\ ElementsOf(played)' = ElementsOf(played)
      BY <1>2, <2>3 DEF Push, Basics, BufferOK, AbsorbInv, ElementsOf
    <3>3. f \in Sent /\ f \in Nat /\ sentAt[f] + Depth - 1 + k <= now /\ Depth \in Nat \ {0}
      BY <1>5, <3>1, JitterAssumption DEF Began
    <3>4. sentAt[n] - sentAt[f] = n - f
      BY <1>1, <1>5, <2>2, <3>3
    <3>5. f + k - n <= Half
      BY <1>1, <1>5, <3>3, <3>4, Halves, JitterAssumption
    <3>6. f < n /\ n < f + k => delay'[n] >= Depth
      BY <1>1, <1>3, <1>5, <2>1, <3>3, <3>4
    <3>7. \A m \in BagToSet(buffer) : m # n => delay'[m] = delay[m]
      BY <1>1, <1>3, <1>5
    <3>8. Began(f, k)'
      BY <1>1, <1>2, <3>1, <3>2, <3>5, <3>6, <3>7 DEF Began, Playing
    <3> QED
      BY <3>8
  <2>4. CASE ~dispatching
    <3>1. isBuffering /\ ~Playing /\ played \in Seq(Packet) /\ since \in 0 .. Len(played)
      BY <2>4 DEF AbsorbInv, Basics, BufferOK
    <3>2. Count(buffer') >= Depth /\ \E f \in First(buffer') : expected' = Sequence(f)
      BY <1>8, <2>4, <3>1 DEF Push
    <3>3. PICK f \in First(buffer') : expected' = Sequence(f)
      BY <3>2
    <3>4. f \in BagToSet(buffer') /\ f \in Sent /\ f \in Nat /\ f \in Packet
      BY <1>1, <1>5 DEF First
    <3>5. \A m \in BagToSet(buffer') : MaxPacket <= Half \/ now - sentAt[m] < Half
      BY <1>1, <1>5, <3>1, Halves, JitterAssumption DEF Prompt
    <3>6. ASSUME NEW m \in BagToSet(buffer') PROVE f <= m
      <4>1. m \in Sent /\ m \in Nat /\ Diff(Sequence(f), Sequence(m)) <= 0
        BY <1>1, <1>5 DEF First
      <4>2. SUFFICES ASSUME m < f PROVE FALSE
        BY <3>4, <4>1
      <4>3. f - m < Half
        <5>1. CASE MaxPacket <= Half
          BY <1>5, <3>4, <4>1, <5>1, Halves, JitterAssumption DEF Packet
        <5>2. CASE now - sentAt[m] < Half
          BY <1>5, <2>2, <3>4, <4>1, <4>2, <5>2, Halves
        <5> QED
          BY <3>5, <5>1, <5>2
      <4>4. Diff(Sequence(f), Sequence(m)) = f - m
        BY <3>4, <4>1, <4>2, <4>3, DiffAhead
      <4> QED
        BY <3>4, <4>1, <4>2, <4>4
    <3>7. \A m \in BagToSet(buffer') : buffer'[m] = 1
      BY <1>6, <1>8 DEF Single
    <3>8. BagToSet(buffer') \subseteq Nat
      BY <1>1, <1>5
    <3>9. PICK m \in BagToSet(buffer') : m >= f + Depth - 1
      BY <3>2, <3>4, <3>6, <3>7, <3>8, FullReaches
    <3>10. sentAt[f] + Depth - 1 + 0 <= now
      <4>1. m \in Sent /\ m \in Nat /\ f <= m /\ Depth \in Nat \ {0}
        BY <1>1, <1>5, <3>6, JitterAssumption
      <4>2. m = f \/ sentAt[m] - sentAt[f] = m - f
        BY <2>2, <3>4, <4>1
      <4> QED
        BY <1>5, <3>4, <3>9, <4>1, <4>2
    <3>11. MaxPacket <= Half \/ now - sentAt[f] - 0 < Half
      BY <1>5, <3>4, <3>5
    <3>12. Len(played') = since'
      BY <1>2, <3>1 DEF Playing
    <3>13. \A i \in BagToSet(buffer') : f + 0 - i <= Half /\ ~(f < i /\ i < f + 0)
      BY <3>4, <3>6, <3>8, Halves
    <3>14. Began(f, 0)'
      BY <1>1, <1>2, <3>3, <3>4, <3>10, <3>11, <3>12, <3>13 DEF Began
    <3> QED
      BY <3>4, <3>14
  <2> QED
    BY <2>3, <2>4 DEF AbsorbInv, Basics, BufferOK
<1> QED
  BY <1>1, <1>3, <1>4, <1>6, <1>7, <1>8 DEF AbsorbInv

(* A loop that began with f takes for late what is older than what it      *)
(* expects, and keeps what is not; it plays f first.                       *)
LEMMA InReach ==
  ASSUME AbsorbInv, ~Paused, NEW f \in Packet, NEW k \in Nat, Began(f, k),
         NEW n \in BagToSet(buffer)
  PROVE  n \in Nat /\ f \in Nat /\ f + k - n <= Half /\ n - (f + k) < Half
<1>1. n \in Sent /\ n \in Nat /\ f \in Sent /\ f \in Nat /\ n \in Packet /\ f \in Packet
      /\ sentAt[n] \in Nat /\ sentAt[f] \in Nat /\ sentAt[n] <= now /\ now \in Nat
  BY SentTypes DEF AbsorbInv, Basics, BufferOK, Began
<1>2. f < n => n - f <= sentAt[n] - sentAt[f]
  BY <1>1 DEF AbsorbInv, Basics, SpeakerOK
<1>3. n - (f + k) < Half
  <2>1. CASE MaxPacket <= Half
    BY <1>1, <2>1, Halves, JitterAssumption DEF Packet
  <2>2. CASE now - sentAt[f] - k < Half
    BY <1>1, <1>2, <2>2, Halves
  <2> QED
    BY <2>1, <2>2 DEF Began
<1> QED
  BY <1>1, <1>3 DEF Began

LEMMA FrameKeepsAbsorb == ASSUME AbsorbInv, Frame PROVE AbsorbInv'
<1>1. /\ Basics' /\ Sent' = Sent /\ sentAt' = sentAt /\ now' = now + 1 /\ delay' = delay /\ Basics
      /\ played \in Seq(Packet) /\ since \in 0 .. Len(played) /\ BagToSet(buffer) \subseteq Sent
      /\ repeated' = repeated
  BY FrameKeepsBasics DEF AbsorbInv, Basics, BufferOK, Frame
<1>2. Paused' = Paused
  BY <1>1 DEF Paused
<1>3. Steady'
  BY <1>1, <1>2 DEF AbsorbInv, Steady
<1>4. CASE ~dispatching
  <2>1. UNCHANGED actorVars /\ UNCHANGED <<played, since, missed>>
    BY <1>4 DEF Frame
  <2> QED
    BY <1>1, <1>2, <1>3, <1>4, <2>1 DEF AbsorbInv, Single, DelayAbsorbsJitter, actorVars
<1>5. CASE dispatching
  <2>1. PICK b, p : /\ Silent(b, p) \/ \E n : Plays(n, b, p)
                    /\ Stops(p) \/ GoesOn(b)
                    /\ played' = p /\ BagToSet(b) \subseteq BagToSet(buffer)
                    /\ missed' = missed \cup Unheard(BagToSet(b) \ BagToSet(Kept(b)), p)
                    /\ p \in Seq(Packet) /\ Len(p) \in {Len(played), Len(played) + 1}
                    /\ \A i \in 1 .. Len(played) : p[i] = played[i]
    BY <1>1, <1>5, DispatchCases
  <2>2. \A n \in BagToSet(b) : buffer[n] = 1 => b[n] = 1
    <3>1. ASSUME NEW n, b = buffer (-) OneOf(n) PROVE \A m \in BagToSet(b) : buffer[m] = 1 => b[m] = 1
      BY <3>1 DEF (-), BagToSet, OneOf, SetToBag
    <3> QED
      BY <2>1, <3>1 DEF Silent, Plays
  <2>3. Single'
    <3>1. CASE Stops(p)
      BY <3>1, EmptyContents DEF Stops, Single
    <3>2. CASE GoesOn(b)
      <4>1. \A n \in BagToSet(buffer') : n \in BagToSet(b) /\ buffer'[n] = b[n]
        BY <3>2 DEF GoesOn, Kept, Only, BagToSet
      <4> QED
        BY <1>1, <2>1, <2>2, <4>1 DEF Single, AbsorbInv
    <3> QED
      BY <2>1, <3>1, <3>2
  <2>4. SUFFICES ASSUME ~Paused, ~repeated
                 PROVE  /\ \A n \in missed' : delay[n] >= Depth
                        /\ dispatching' => \E f \in Packet, k \in Nat : Began(f, k)'
    BY <1>1, <1>2, <1>3, <2>3 DEF AbsorbInv, DelayAbsorbsJitter
  <2>5. PICK f \in Packet, k \in Nat : Began(f, k)
    BY <1>5, <2>4 DEF AbsorbInv
  <2>6. \A n \in BagToSet(buffer) : n \in Nat /\ f \in Nat /\ f + k - n <= Half /\ n - (f + k) < Half
    BY <2>4, <2>5, InReach
  <2>7. f \in Nat /\ f \in Sent /\ sentAt[f] \in Nat /\ now \in Nat /\ expected = Sequence(f + k)
    BY <1>1, <2>5, SentTypes DEF Began
  <2>8. \A n \in Wanted : n = f + k
    <3> SUFFICES ASSUME NEW n \in Wanted PROVE n = f + k
      OBVIOUS
    <3>1. n \in BagToSet(buffer) /\ Sequence(n) = Sequence(f + k)
      BY <2>7 DEF Wanted
    <3> QED
      BY <2>6, <2>7, <3>1, Halves, SameSequence
  <2>9. \A n \in BagToSet(b) \ BagToSet(Kept(b)) : n < f + k
    <3> SUFFICES ASSUME NEW n \in BagToSet(b) \ BagToSet(Kept(b)), n >= f + k PROVE FALSE
      BY <2>1, <2>6, <2>7
    <3>1. n \in BagToSet(buffer) /\ n \in Packet
      BY <1>1, <2>1, SentTypes
    <3>2. Diff(Sequence(n), Sequence(f + k)) = n - (f + k)
      BY <2>6, <2>7, <3>1, DiffAhead
    <3>3. n \in BagToSet(Kept(b))
      BY <2>6, <2>7, <3>1, <3>2, OnlyContents DEF Kept
    <3> QED
      BY <3>3
  <2>10. \A n \in BagToSet(Kept(b)) : n \in BagToSet(b) /\ f + k <= n
    BY <2>1, <2>6, <2>7, KeptOf, DropsOlder
  <2>11. ElementsOf(played) \subseteq ElementsOf(p)
    BY <1>1, <2>1 DEF ElementsOf
  <2>12. \A n : Plays(n, b, p) => Len(p) = Len(played) + 1 /\ p[Len(p)] = n /\ n \in ElementsOf(p) /\ n = f + k
    <3> SUFFICES ASSUME NEW n, Plays(n, b, p)
                 PROVE  Len(p) = Len(played) + 1 /\ p[Len(p)] = n /\ n \in ElementsOf(p) /\ n = f + k
      OBVIOUS
    <3>1. Len(p) = Len(played) + 1 /\ p[Len(p)] = n
      BY <1>1, PlayedIs
    <3> QED
      BY <1>1, <2>8, <3>1 DEF Plays, ElementsOf
  <2>13. Len(p) > since /\ p[since + 1] = f
    <3>1. CASE k = 0
      <4>1. Len(played) = since /\ f \in Wanted
        BY <2>5, <2>7, <3>1 DEF Began, Wanted
      <4> QED
        BY <1>1, <2>1, <2>7, <2>12, <3>1, <4>1 DEF Silent
    <3>2. CASE k # 0
      <4>1. Playing /\ played[since + 1] = f
        BY <2>5, <3>2 DEF Began
      <4> QED
        BY <1>1, <2>1, <4>1 DEF Playing
    <3> QED
      BY <3>1, <3>2
  <2>14. ASSUME NEW n \in missed' PROVE delay[n] >= Depth
    <3>1. CASE n \in missed
      BY <2>4, <3>1 DEF AbsorbInv, DelayAbsorbsJitter
    <3>2. CASE n \in Unheard(BagToSet(b) \ BagToSet(Kept(b)), p)
      <4>1. n \in BagToSet(buffer) /\ n < f + k /\ n \notin ElementsOf(p) /\ f < n
        BY <2>1, <2>9, <2>13, <3>2 DEF Unheard
      <4> QED
        BY <2>5, <2>11, <4>1 DEF Began
    <3> QED
      BY <2>1, <3>1, <3>2
  <2>15. ASSUME dispatching' PROVE Began(f, k + 1)'
    <3>1. GoesOn(b)
      BY <2>1, <2>15 DEF Stops
    <3>2. since' = since /\ Playing' /\ played'[since' + 1] = f
      BY <2>1, <2>13, <3>1 DEF GoesOn, Playing
    <3>3. expected' = Sequence(f + (k + 1))
      BY <2>7, <3>1, SequenceNext DEF GoesOn
    <3>4. /\ sentAt[f] + Depth - 1 + (k + 1) <= now'
          /\ MaxPacket <= Half \/ now' - sentAt[f] - (k + 1) < Half
      <4>1. Depth \in Nat \ {0} /\ sentAt[f] + Depth - 1 + k <= now
        BY <2>5, JitterAssumption DEF Began
      <4>2. MaxPacket <= Half \/ now - sentAt[f] - k < Half
        BY <2>5 DEF Began
      <4> QED
        BY <1>1, <2>7, <4>1, <4>2, Halves
    <3>5. ASSUME NEW n \in BagToSet(buffer')
          PROVE  /\ f + (k + 1) - n <= Half
                 /\ f < n /\ n < f + (k + 1) => n \in ElementsOf(p)
      <4>1. n \in BagToSet(b) /\ n \in BagToSet(buffer) /\ n \in Nat /\ f + k <= n
        BY <2>1, <2>6, <2>10, <3>1 DEF GoesOn
      <4>2. n < f + (k + 1) => n = f + k
        BY <2>7, <4>1
      <4>3. n = f + k => n \in Wanted
        BY <2>7, <4>1 DEF Wanted
      <4>4. n \in Wanted => n \in ElementsOf(p)
        BY <2>1, <2>8, <2>12 DEF Silent
      <4> QED
        BY <2>7, <4>1, <4>2, <4>3, <4>4, Halves
    <3> QED
      BY <1>1, <2>1, <2>7, <3>2, <3>3, <3>4, <3>5 DEF Began
  <2> QED
    BY <2>14, <2>15
<1> QED
  BY <1>4, <1>5

(* What the delay of Depth frames is for: as long as the speaker talks     *)
(* without a pause and no packet comes twice, a packet is dropped as late  *)
(* only if it took Depth frames or more, for any depth and network in      *)
(* which no packet is under way for half the sequence space and the buffer *)
(* does not wait that long to fill (JitterBuffer.swift:36 and :82).        *)
THEOREM DelayAbsorbs ==
  ASSUME MaxDelay < Half PROVE JitterSpec /\ []Prompt => []DelayAbsorbsJitter
<1>1. JitterInit => AbsorbInv
  <2> SUFFICES ASSUME JitterInit PROVE AbsorbInv
    OBVIOUS
  <2>1. Sent = {} /\ BagToSet(buffer) = {} /\ missed = {} /\ ~dispatching
    BY BasicsInit DEF JitterInit
  <2>2. delay \in [Packet -> Int]
    BY DEF JitterInit, None
  <2> QED
    BY <2>1, <2>2, BasicsInit DEF AbsorbInv, Steady, Single, DelayAbsorbsJitter
<1>2. AbsorbInv /\ Prompt /\ [JitterNext]_jitterVars => AbsorbInv'
  <2> SUFFICES ASSUME AbsorbInv, Prompt, [JitterNext]_jitterVars PROVE AbsorbInv'
    OBVIOUS
  <2>1. CASE UNCHANGED jitterVars
    BY <2>1, BasicsSame
    DEF jitterVars, actorVars, worldVars, AbsorbInv, Steady, Single, DelayAbsorbsJitter, Paused, Began, Playing
  <2> QED
    BY <2>1, SendKeepsAbsorb, PushKeepsAbsorb, FrameKeepsAbsorb DEF JitterNext
<1>3. AbsorbInv => DelayAbsorbsJitter
  BY DEF AbsorbInv
<1> QED
  BY <1>1, <1>2, <1>3, PTL DEF JitterSpec
(* So it is in every call that sends at most half the sequence space.      *)
THEOREM DelayAbsorbsShort ==
  ASSUME MaxDelay < Half, MaxPacket <= Half PROVE JitterSpec => []DelayAbsorbsJitter
<1>1. Prompt
  BY Halves, JitterAssumption DEF Prompt
<1> QED
  BY <1>1, DelayAbsorbs, PTL
=============================================================================
