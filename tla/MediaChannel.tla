----------------------------- MODULE MediaChannel -----------------------------
(***************************************************************************)
(* One sender's Encryptor and one receiver's Decryptor for it (libdave     *)
(* encryptor.cpp, decryptor.cpp) with the network in between, which loses, *)
(* duplicates and reorders frames, and the transitions by which the server *)
(* takes both from one epoch to the next, to passthrough and back, as each *)
(* client's DaveSessionManager handles them: a transition is prepared, at  *)
(* the receiver as well as at the sender, before the server has the sender *)
(* execute it, and several may be prepared and not yet executed.           *)
(***************************************************************************)
EXTENDS CryptorManager, FrameProcessor

CONSTANTS
  Frames,           \* what the sender has to say, in a circle: [codec, silence, units]
  MaxTransitions, MaxTime, MaxEncryptAttempts,
  MaxDelay,         \* bound: ticks a frame stays on its way
  TransitionExpiry, \* kDefaultTransitionDuration: 10 s
  MaxExecuteDelay   \* bound: ticks from preparation to execution

ASSUME ChannelAssumption ==
  /\ {GenerationWrap, NoncesPerGeneration, MaxGenerationGap, MaxMissingNonces,
      CryptorExpiry, FramesPerTick, Forever, MaxTransitions, MaxTime, MaxDelay,
      TransitionExpiry, MaxExecuteDelay, MaxEncryptAttempts} \subseteq Nat \ {0}
  /\ MaxEncryptAttempts <= NoncesPerGeneration /\ GenerationWrap > 1

(* ProcessFrameVp8 reads the first byte of the frame without asking.       *)
ASSUME FramesAssumption ==
  /\ Frames # <<>> /\ Frames \in Seq([codec : Codecs, silence : BOOLEAN, units : Seq(Unit)])
  /\ \A i \in DOMAIN Frames : Frames[i].codec = "VP8" => Frames[i].units # <<>>

VARIABLES
  now,
  sender,    \* Encryptor: passthroughMode_, epoch of its ratchet, generation, nonce
  net,       \* frames on their way, to be delivered any number of times
  managers,  \* Decryptor: cryptorManagers_, oldest first
  allowPassThroughUntil,
  offers,    \* server: the transitions it has sent, in order
  sending,   \* the sender's DaveSessionManager: offers handled, epoch of its
             \* session's group, preparedTransitions
  receiving, \* the receiver's
  due,       \* when the sender must have executed what the receiver has prepared
  heard,     \* history: epoch and nonce of every frame decrypted
  twice,     \* history: those that were decrypted again
  repeated,  \* history: epochs whose ratchet the receiver was given again
  outOfStep  \* history: whether a ratchet was given again, or a transition executed
             \* too early or after a later one

decryptor == <<managers, allowPassThroughUntil>>
transition == <<offers, sending, receiving, due, repeated, outOfStep>>
history == <<heard, twice>>
vars == <<now, sender, net, decryptor, transition, history>>

NoRatchet == 0

Init ==
  /\ now = 1 /\ net = {} /\ heard = {} /\ twice = {} /\ repeated = {} /\ outOfStep = FALSE
  /\ sender = [pass |-> TRUE, epoch |-> NoRatchet, generation |-> 0, nonce |-> 0]
  /\ managers = <<>> /\ allowPassThroughUntil = Forever
  /\ offers = <<>> /\ due = Forever
  /\ sending = [at |-> 0, session |-> NoRatchet, prepared |-> {}]
  /\ receiving = sending

-----------------------------------------------------------------------------
(* Encryptor.                                                              *)

(* GetNextCryptorAndNonce, once for each of k attempts: a ciphertext that  *)
(* looks like a start code is thrown away, and its nonce with it.          *)
NextNonce(s, k) ==
  LET nonce == (s.nonce + k) % (GenerationWrap * NoncesPerGeneration) IN
    [s EXCEPT !.generation = ComputeWrappedGeneration(@, nonce \div NoncesPerGeneration),
              !.nonce = nonce]

At(t) == (t % Len(Frames)) + 1
Cut == [i \in DOMAIN Frames |-> ProcessFrame(Frames[i].codec, Frames[i].units)]
Ranges == [i \in DOMAIN Frames |-> UnencryptedRanges(Cut[i])]
Wire == [i \in DOMAIN Frames |-> Sealed(Cut[i])]
Legible == {i \in DOMAIN Frames : Opens(Wire[i])}
Attempts(i) == IF Frames[i].codec \in {"H264", "H265"} THEN 1 .. MaxEncryptAttempts ELSE {1}

(* A tick: the sender may use it for one frame.                            *)
Ticks ==
  /\ now < MaxTime /\ now < due /\ now' = now + 1
  /\ UNCHANGED <<decryptor, transition, history>>

Send(frames) == net' = {f \in net : now - f.at < MaxDelay} \cup frames

Encrypt ==
  /\ Ticks /\ ~sender.pass /\ sender.epoch # NoRatchet
  /\ \E k \in Attempts(At(now)) :
       LET s == NextNonce(sender, k) IN
         /\ sender' = s
         /\ Send({f \in {[sealed |-> TRUE, at |-> now, nonce |-> s.nonce,
                          key |-> <<s.epoch, s.generation>>]} :
                  Fits(Ranges[At(now)], s.nonce)})

EncryptPassthrough ==
  /\ Ticks /\ sender.pass /\ UNCHANGED sender
  /\ Send({[sealed |-> FALSE, at |-> now]})

Quiet == Ticks /\ UNCHANGED sender /\ Send({})

-----------------------------------------------------------------------------
(* Decryptor.                                                              *)

(* TransitionToKeyRatchet.                                                 *)
ExpireAll == [i \in DOMAIN managers |-> [managers[i] EXCEPT !.expiry = now + TransitionExpiry]]

(* CleanupExpiredCryptorManagers: from the front, up to one that is not.   *)
Unexpired ==
  LET gone == {i \in DOMAIN managers : \A j \in 1 .. i : IsExpired(managers[j], now)} IN
    SubSeq(managers, Cardinality(gone) + 1, Len(managers))

(* DecryptImpl: whether a manager decrypts a frame, and what becomes of it.*)
DecryptImpl(m, f) ==
  LET generation == ComputeWrappedGeneration(m.oldest, f.nonce \div NoncesPerGeneration)
      nonce == ComputeWrappedBigNonce(generation, f.nonce)
      after == WithCryptor(m, generation, now)
      ok == /\ CanProcessNonce(m, nonce) /\ HasCryptor(after, generation, now)
            /\ f.key = <<m.epoch, generation>> /\ At(f.at) \in Legible
  IN [ok |-> ok,
      after |-> IF ok THEN ReportCryptorSuccess(after, generation, nonce, now)
                ELSE IF CanProcessNonce(m, nonce) THEN after ELSE m]

(* From the newest manager down to the first that decrypts the frame.      *)
Results(ms, f) == [i \in DOMAIN ms |-> DecryptImpl(ms[i], f)]

Tried(ms, results) ==
  [i \in DOMAIN ms |->
     IF \E j \in DOMAIN ms : j > i /\ results[j].ok THEN ms[i] ELSE results[i].after]

Decrypted(results) == \E i \in DOMAIN results : results[i].ok

(* Decrypt: silence at once; what is not encrypted while that is allowed;  *)
(* anything else by the managers.                                          *)
Silence(f) == ~f.sealed /\ Frames[At(f.at)].silence
PassesThrough(f) == Silence(f) \/ (~f.sealed /\ allowPassThroughUntil > now)
Decrypts(f) == f.sealed /\ Decrypted(Results(Unexpired, f))

IdOf(f) == <<f.key[1], ComputeWrappedBigNonce(f.key[2], f.nonce)>>

Decrypt(f) ==
  /\ IF f.sealed
     THEN LET results == Results(Unexpired, f)
              id == IF Decrypted(results) THEN {IdOf(f)} ELSE {}
          IN /\ managers' = Tried(Unexpired, results)
             /\ heard' = heard \cup id /\ twice' = twice \cup (id \cap heard)
     ELSE /\ managers' = IF Silence(f) THEN managers ELSE Unexpired
          /\ UNCHANGED history
  /\ UNCHANGED <<now, sender, net, allowPassThroughUntil, transition>>

-----------------------------------------------------------------------------
(* The server's transitions: the version each has and the epoch its group  *)
(* is in, a new one with a commit or welcome; id 0 is executed at once.    *)
EpochAt(i) == IF i = 0 THEN NoRatchet ELSE offers[i].epoch
Fresh(i) == EpochAt(i) # EpochAt(i - 1)

Offer ==
  /\ Len(offers) < MaxTransitions
  /\ LET e == EpochAt(Len(offers)) IN
       \E o \in [version : {0, 1}, epoch : {e, e + 1}, atOnce : BOOLEAN] :
         (o.version = 0 => o.epoch = e) /\ offers' = Append(offers, o)
  /\ UNCHANGED <<now, sender, net, decryptor, sending, receiving, due, repeated, outOfStep, history>>

(* prepareEpoch: a session that is to join a new group leaves its own, and *)
(* has no ratchet to give.                                                 *)
NewGroup(c) == c.at < Len(offers) /\ Fresh(c.at + 1)
Initialised(c) == [c EXCEPT !.session = NoRatchet]

PrepareEpoch ==
  /\ \/ NewGroup(sending) /\ sending' = Initialised(sending) /\ UNCHANGED receiving
     \/ NewGroup(receiving) /\ receiving' = Initialised(receiving) /\ UNCHANGED sending
  /\ UNCHANGED <<now, sender, net, decryptor, offers, due, repeated, outOfStep, history>>

(* prepareTransition: a client takes the next offer.                       *)
Prepared(c) ==
  LET i == c.at + 1 IN
    [at |-> i,
     session |-> IF Fresh(i) THEN EpochAt(i) ELSE c.session,
     prepared |-> IF offers[i].atOnce THEN c.prepared ELSE c.prepared \cup {i}]

(* executeTransition, which the server asks for once every client is ready,*)
(* forgets the transition, and the group with version 0.                   *)
ExecutedKept(c, i) ==  \* mutant: the transition can be executed again
  [c EXCEPT !.session = IF offers[i].version = 0 THEN NoRatchet ELSE @]

Executed(c, i) ==
  [c EXCEPT !.session = IF offers[i].version = 0 THEN NoRatchet ELSE @, !.prepared = @ \ {i}]

Earlier(s, t) == IF s < t THEN s ELSE t

(* setupKeyRatchetForUser at the receiver, of offer i and its session's e. *)
Due(i) == IF i <= sending.at /\ i \notin sending.prepared THEN due
          ELSE Earlier(due, now + MaxExecuteDelay)

PreparePassthrough ==
  /\ receiving.at < Len(offers) /\ offers[receiving.at + 1].version = 0
  /\ receiving' = Prepared(receiving) /\ due' = Due(receiving.at + 1)
  /\ allowPassThroughUntil' = Forever
  /\ UNCHANGED <<now, sender, net, managers, offers, sending, repeated, outOfStep, history>>

PrepareRatchet ==
  /\ receiving.at < Len(offers) /\ offers[receiving.at + 1].version = 1
  /\ LET i == receiving.at + 1
         e == receiving'.session IN
       /\ receiving' = Prepared(receiving) /\ due' = Due(i)
       /\ allowPassThroughUntil' = Earlier(allowPassThroughUntil, now + TransitionExpiry)
       /\ managers' = IF e = NoRatchet THEN ExpireAll ELSE Append(ExpireAll, NewManager(e, now))
       /\ IF Fresh(i) THEN UNCHANGED <<repeated, outOfStep>>
          ELSE repeated' = repeated \cup {e} /\ outOfStep' = TRUE
  /\ UNCHANGED <<now, sender, net, offers, sending, history>>

(* setupKeyRatchetForEncryptor: of offer i, which this client executes,    *)
(* only the version, and the ratchet of the session as it is now.          *)
SetUp(i, e) ==
  /\ sender' = IF offers[i].version = 0 THEN [sender EXCEPT !.pass = TRUE]
               ELSE [pass |-> FALSE, epoch |-> e, generation |-> 0, nonce |-> 0]
  /\ due' = IF i = receiving.at THEN Forever ELSE due
  /\ outOfStep' =
       \/ outOfStep
       \/ i > receiving.at \/ \E j \in i + 1 .. sending.at : j \notin sending.prepared
       \/ offers[i].version = 1 /\ e # NoRatchet
          /\ (e = sender.epoch \/ e > EpochAt(receiving.at))
  /\ UNCHANGED <<now, net, decryptor, offers, receiving, repeated, history>>

PrepareTransition ==
  /\ sending.at < Len(offers) /\ sending' = Prepared(sending)
  /\ IF offers[sending'.at].atOnce THEN SetUp(sending'.at, sending'.session)
     ELSE UNCHANGED <<now, sender, net, decryptor, offers, receiving, due, repeated, outOfStep,
                      history>>

Execute(i) ==
  /\ i \in sending.prepared /\ i <= receiving.at
  /\ sending' = Executed(sending, i) /\ SetUp(i, sending'.session)

(* The receiver's encryptor is another channel's: version 1 is its alone.  *)
ReceiverExecute(i) ==
  /\ i \in receiving.prepared /\ i <= sending.at /\ offers[i].version = 0
  /\ receiving' = Executed(receiving, i)
  /\ UNCHANGED <<now, sender, net, decryptor, offers, sending, due, repeated, outOfStep, history>>

Next ==
  \/ Encrypt \/ EncryptPassthrough \/ Quiet
  \/ \E f \in net : Decrypt(f)
  \/ Offer \/ PrepareEpoch \/ PreparePassthrough \/ PrepareRatchet
  \/ PrepareTransition \/ \E i \in DOMAIN offers : Execute(i) \/ ReceiverExecute(i)

Spec == Init /\ [][Next]_vars

-----------------------------------------------------------------------------
(* Properties.                                                             *)

(* Every variable has its type.                                            *)
TypeOK ==
  /\ now \in Nat /\ due \in Nat /\ allowPassThroughUntil \in Nat
  /\ sender \in [pass : BOOLEAN, epoch : Nat, generation : Nat, nonce : Nat]
  /\ offers \in Seq([version : {0, 1}, epoch : Nat, atOnce : BOOLEAN])
  /\ {sending, receiving}
       \subseteq [at : 0 .. Len(offers), session : Nat, prepared : SUBSET (1 .. Len(offers))]
  /\ repeated \subseteq Nat /\ outOfStep \in BOOLEAN
  /\ \A f \in net : /\ f.sealed \in BOOLEAN /\ f.at \in Nat
                    /\ f.sealed => f.key \in Nat \X Nat /\ f.nonce \in Nat
  /\ \A i \in DOMAIN managers : managers[i].epoch \in 1 .. EpochAt(receiving.at)

(* CanProcessNonce: whatever is duplicated or reordered, and whichever     *)
(* epoch's ratchet is tried, no frame is decrypted twice, unless the       *)
(* decryptor was given the ratchet of its epoch again, which forgets what  *)
(* was decrypted with it.                                                  *)
NoReplay == \A id \in twice : id[1] \in repeated

(* A frame that is on its way is decrypted, across the wrap of its         *)
(* generation, the expiry of older generations' keys and the transition to *)
(* another epoch or to passthrough, of which several may be prepared and   *)
(* not yet executed.  It must not be one that is given up for good: sent   *)
(* before the first frame heard of its epoch, overtaken by more than       *)
(* MaxMissingNonces, or so far ahead of what was heard that its generation *)
(* is out of reach or ambiguous.  And no client was given a ratchet it     *)
(* had, nor the sender one before the receiver: the nonces start again.    *)
HeardThroughout ==
  \A f \in net :
    IF ~f.sealed THEN PassesThrough(f)
    ELSE LET nonce == IdOf(f)[2]
             known == {id[2] : id \in {i \in heard : i[1] = f.key[1]}}
             newest == Max({0} \cup known)
         IN /\ nonce \notin known
            /\ known # {} => \E n \in known : n < nonce
            /\ newest <= nonce + MaxMissingNonces
            /\ f.key[2] <= newest \div NoncesPerGeneration + MaxGenerationGap
            /\ \A i \in DOMAIN managers : managers[i].epoch = f.key[1] =>
                 f.key[2] < managers[i].oldest + GenerationWrap
            => Decrypts(f)

InTimeHeard == ~outOfStep => HeardThroughout

(* What is decrypted is what the codec was given, in its canonical form.   *)
Intact ==
  {i \in Legible :
     Opened(Wire[i]) = FlattenSeq([k \in DOMAIN Cut[i] |-> Cut[i][k].bytes])}

FramesIntact == \A f \in net : f.sealed => At(f.at) \in Intact

(* DeleteKey leaves no key behind of a generation that is no longer        *)
(* accepted, and no cryptor is ever made from a deleted one.               *)
KeysDeleted ==
  \A i \in DOMAIN managers :
    /\ \A g \in managers[i].keys : g >= managers[i].oldest
    /\ \A g \in DOMAIN managers[i].cryptors : managers[i].cryptors[g].valid

(* One ratchet never encrypts two frames with one nonce: generation and    *)
(* nonce grow together, across the wrap, and a ratchet the sender has      *)
(* starts again only when it executes a transition whose epoch it has      *)
(* reached, because an earlier one installed the session's newer ratchet   *)
(* or because the transition is to no new epoch.                           *)
Applied ==
  (sending.prepared \ sending'.prepared)
    \cup {i \in sending.at + 1 .. sending'.at : offers[i].atOnce}

Overtaken(i) == offers[i].epoch <= sender.epoch

NonceGrows ==
  ComputeWrappedBigNonce(sender'.generation, sender'.nonce)
    > ComputeWrappedBigNonce(sender.generation, sender.nonce)

NonceRestarts ==
  /\ sender.epoch # NoRatchet /\ sender'.epoch = sender.epoch
  /\ <<sender'.generation, sender'.nonce>> # <<sender.generation, sender.nonce>>
  /\ ~NonceGrows

NoncesAdvance == [][NonceRestarts => \E i \in Applied : Overtaken(i)]_vars

-----------------------------------------------------------------------------
(* Without the exceptions.                                                 *)

(* No frame is ever decrypted twice: but a ratchet given again to the      *)
(* decryptor comes with an empty window.                                   *)
NeverTwice == twice = {}

(* No ratchet ever starts its nonces again: but of two transitions that    *)
(* are prepared before the first is executed each execution installs the   *)
(* newer ratchet.                                                          *)
NonceNeverRestarts == [][~NonceRestarts]_vars
=============================================================================
