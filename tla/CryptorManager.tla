---------------------------- MODULE CryptorManager ----------------------------
(***************************************************************************)
(* libdave's CryptorManager (cryptor_manager.cpp) with the key ratchet it  *)
(* owns (mls_key_ratchet.cpp over mlspp's HashRatchet), as operators on a  *)
(* record: which generation of a sender's key a frame is decrypted with,   *)
(* and which nonces may still be decrypted.  Time is in ticks; a           *)
(* generation has NoncesPerGeneration nonces (2^24 in the code), and a     *)
(* frame carries its generation modulo GenerationWrap (256).               *)
(***************************************************************************)
EXTENDS Integers, FiniteSetsExt

CONSTANTS
  GenerationWrap, NoncesPerGeneration,
  MaxGenerationGap, \* 250
  MaxMissingNonces, \* 1000
  CryptorExpiry,    \* 10 s
  FramesPerTick,    \* kMaxFramesPerSecond
  Forever           \* TimePoint::max()

NoNonce == -1

(* Assume generation is greater than or equal to oldest.                   *)
ComputeWrappedGeneration(oldest, generation) ==
  LET laps == oldest \div GenerationWrap
              + (IF generation < oldest % GenerationWrap THEN 1 ELSE 0)
  IN laps * GenerationWrap + generation

ComputeWrappedBigNonce(generation, nonce) ==
  generation * NoncesPerGeneration + (nonce % NoncesPerGeneration)

(* epoch stands for the base secret of the ratchet; keys are the           *)
(* generations in HashRatchet's cache, next its next_generation.  missing  *)
(* is the deque missingNonces_, which is always in increasing order.       *)
NewManager(epoch, now) ==
  [epoch |-> epoch, next |-> 0, keys |-> {}, cryptors |-> <<>>,
   created |-> now, expiry |-> Forever, oldest |-> 0, newest |-> 0,
   last |-> NoNonce, missing |-> {}]

IsExpired(m, now) == now > m.expiry

-----------------------------------------------------------------------------
(* GetKey: a generation is derived once, with all before it, and cannot be *)
(* derived again after DeleteKey.                                          *)
HasKey(m, g) == g \in m.keys \/ g >= m.next

DeriveKey(m, g) ==
  IF g < m.next THEN m ELSE [m EXCEPT !.keys = @ \cup m.next .. g, !.next = g + 1]

(* CleanupExpiredCryptors: expired cryptors go, and then the keys of the   *)
(* oldest generations up to the first that still has a cryptor.            *)
CleanupKeepsKeys(m, now) ==  \* mutant: DeleteKey is not called
  LET live == {g \in DOMAIN m.cryptors : m.cryptors[g].expiry >= now}
      oldest == Min({m.newest} \cup {g \in live : m.oldest <= g /\ g < m.newest})
  IN [m EXCEPT !.cryptors = [g \in live |-> @[g]], !.oldest = oldest]

CleanupExpiredCryptors(m, now) ==
  LET live == {g \in DOMAIN m.cryptors : m.cryptors[g].expiry >= now}
      oldest == Min({m.newest} \cup {g \in live : m.oldest <= g /\ g < m.newest})
  IN [m EXCEPT !.cryptors = [g \in live |-> @[g]], !.oldest = oldest,
               !.keys = @ \ (m.oldest .. oldest - 1)]

MakeExpiringCryptor(m, g, now) ==
  [valid |-> HasKey(m, g),
   expiry |-> IF g < m.newest THEN now + CryptorExpiry ELSE Forever]

InReach(m, g, now) ==
  /\ g >= m.oldest
  /\ g <= m.newest + MaxGenerationGap
  /\ g <= (FramesPerTick * (now - m.created)) \div NoncesPerGeneration

(* GetCryptor: the manager it leaves behind, and whether that has one.     *)
WithCryptor(m, g, now) ==
  LET c == CleanupExpiredCryptors(m, now) IN
    IF ~InReach(c, g, now) \/ g \in DOMAIN c.cryptors
    THEN c
    ELSE [DeriveKey(c, g) EXCEPT
            !.cryptors = [h \in DOMAIN @ \cup {g} |->
                            IF h = g THEN MakeExpiringCryptor(c, g, now) ELSE @[h]]]

HasCryptor(c, g, now) ==
  InReach(c, g, now) /\ g \in DOMAIN c.cryptors /\ c.cryptors[g].valid

-----------------------------------------------------------------------------
CanProcessNonce(m, b) == m.last = NoNonce \/ b > m.last \/ b \in m.missing

Largest(n, S) == {x \in S : Cardinality({y \in S : y > x}) < n}

(* ReportCryptorSuccess, first half: the nonces in between are missing, of *)
(* which the newest are remembered.                                        *)
NoteNonceKeepsMissing(m, b) ==  \* mutant: a nonce that came late stays missing
  IF m.last = NoNonce THEN [m EXCEPT !.last = b]
  ELSE IF b > m.last
  THEN [m EXCEPT !.missing = Largest(MaxMissingNonces, @ \cup m.last + 1 .. b - 1),
                 !.last = b]
  ELSE m

NoteNonce(m, b) ==
  IF m.last = NoNonce THEN [m EXCEPT !.last = b]
  ELSE IF b > m.last
  THEN [m EXCEPT !.missing = Largest(MaxMissingNonces, @ \cup m.last + 1 .. b - 1),
                 !.last = b]
  ELSE [m EXCEPT !.missing = @ \ {b}]

(* Second half: older generations are on their way out.                    *)
NoteGenerationAtOnce(m, g, now) ==  \* mutant: the old cryptors go at once
  IF g <= m.newest \/ g \notin DOMAIN m.cryptors
  THEN m
  ELSE [m EXCEPT !.newest = g,
          !.cryptors = [h \in DOMAIN @ |->
            IF h < g THEN [@[h] EXCEPT !.expiry = now - 1] ELSE @[h]]]

NoteGeneration(m, g, now) ==
  IF g <= m.newest \/ g \notin DOMAIN m.cryptors
  THEN m
  ELSE [m EXCEPT !.newest = g,
          !.cryptors = [h \in DOMAIN @ |->
            IF h < g
            THEN [m.cryptors[h] EXCEPT !.expiry = Min({@, now + CryptorExpiry})]
            ELSE @[h]]]

ReportCryptorSuccess(m, g, b, now) == NoteGeneration(NoteNonce(m, b), g, now)
=============================================================================
