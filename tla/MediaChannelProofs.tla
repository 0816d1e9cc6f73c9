-------------------------- MODULE MediaChannelProofs --------------------------
(***************************************************************************)
(* For any scale of the constants, any frames and any order of the network *)
(* and of the transitions: no frame is decrypted twice and no ratchet      *)
(* encrypts two frames with one nonce, but where a client is given a       *)
(* ratchet it had; the keys of generations that are given up are gone; and *)
(* a frame that is on its way is decrypted when it comes, into what was    *)
(* sealed, as long as every ratchet is given once and in step.             *)
(*                                                                         *)
(* The first part is about one CryptorManager.  Its window of nonces:      *)
(* everything it has heard is at most last and not missing, and only what  *)
(* is above last or missing may be processed.  Its keys: they are the      *)
(* interval from the oldest generation it accepts to the next one it will  *)
(* derive.  The second part is about the two clients and the list of       *)
(* managers: a frame one of them decrypts is no other's, as the epochs of  *)
(* those given once differ.  The third is about time: what a manager       *)
(* remembers and still accepts of its epoch, that the two clients take the *)
(* offers in step, and that whatever the sender uses, or may still come to *)
(* use, has a manager that waits for it.  The last is about the bytes of   *)
(* one frame: it is woven of its clear and its secret ones, piece by       *)
(* piece, and the ranges say where the clear ones go.                      *)
(***************************************************************************)
EXTENDS MediaChannel, FiniteSetTheorems, TLAPS
Order == INSTANCE WellFoundedInduction

-----------------------------------------------------------------------------
(* Arithmetic.                                                             *)

(* Quotient and remainder are unique.                                      *)
LEMMA Division ==
  ASSUME NEW b \in Nat \ {0}, NEW a \in Nat, NEW r \in 0 .. b - 1
  PROVE  (a * b + r) \div b = a /\ (a * b + r) % b = r
<1> DEFINE d == (a * b + r) \div b
           m == (a * b + r) % b
<1>1. a * b \in Nat
  OBVIOUS
<1>2. d \in Int /\ m \in 0 .. b - 1 /\ a * b + r = b * d + m
  BY <1>1
<1> HIDE DEF d, m
<1>3. ASSUME a < d PROVE FALSE
  <2>1. d >= a + 1
    BY <1>2, <1>3
  <2>2. b * d >= b * (a + 1)
    BY <1>2, <2>1
  <2>3. b * (a + 1) = a * b + b
    OBVIOUS
  <2> QED
    BY <1>1, <1>2, <2>2, <2>3
<1>4. ASSUME d < a PROVE FALSE
  <2>1. a >= d + 1
    BY <1>2, <1>4
  <2>2. b * a >= b * (d + 1)
    BY <1>2, <2>1
  <2>3. b * (d + 1) = b * d + b /\ b * a = a * b
    BY <1>2
  <2> QED
    BY <1>1, <1>2, <2>2, <2>3
<1>5. d = a
  BY <1>2, <1>3, <1>4
<1>6. m = r
  BY <1>1, <1>2, <1>5
<1> QED
  BY <1>5, <1>6 DEF d, m

(* What is below n generations of b stays there with less than b more.     *)
LEMMA Below ==
  ASSUME NEW b \in Nat \ {0}, NEW n \in Nat, NEW a \in 0 .. n - 1, NEW r \in 0 .. b - 1
  PROVE  a * b + r \in 0 .. n * b - 1 /\ (a * b + r) % (n * b) = a * b + r
<1>1. a * b \in Nat /\ n * b \in Nat
  OBVIOUS
<1>2. (a + 1) * b <= n * b
  OBVIOUS
<1>3. (a + 1) * b = a * b + b
  OBVIOUS
<1>4. a * b + r \in 0 .. n * b - 1
  BY <1>1, <1>2, <1>3
<1> DEFINE x == a * b + r
           c == n * b
<1>5. x \in 0 .. c - 1 /\ c \in Nat
  BY <1>1, <1>4
<1> HIDE DEF x, c
<1>6. x % c = x
  BY <1>5
<1> QED
  BY <1>4, <1>6 DEF x, c

(* A set of natural numbers that is not empty has a least element.         *)
LEMMA Least ==
  ASSUME NEW T, T \subseteq Nat, T # {} PROVE \E x \in T : \A y \in T : x <= y
<1> DEFINE R == {ss \in Nat \X Nat : ss[1] < ss[2]}
<1>1. Order!IsWellFoundedOn(R, Nat)
  BY Order!NatLessThanWellFounded DEF Order!OpToRel
<1> HIDE DEF R
<1>2. PICK x \in T : \A y \in T : ~(<<y, x>> \in R)
  BY <1>1, Order!WFMin, Zenon
<1>3. \A y \in T : ~(y < x)
  BY <1>2 DEF R
<1> QED
  BY <1>3


(* Quotients and products grow with what is divided and multiplied.        *)
LEMMA Growing ==
  ASSUME NEW b \in Nat \ {0}, NEW x \in Nat, NEW y \in Nat, x <= y
  PROVE  b * x <= b * y /\ x \div b <= y \div b /\ x \div b \in Nat /\ y \div b \in Nat
<1> DEFINE d == x \div b
           r == x % b
           e == y \div b
           s == y % b
<1>1. d \in Nat /\ r \in 0 .. b - 1 /\ x = b * d + r
  OBVIOUS
<1>2. e \in Nat /\ s \in 0 .. b - 1 /\ y = b * e + s
  OBVIOUS
<1>3. b * x <= b * y
  OBVIOUS
<1> HIDE DEF d, e, r, s
<1>4. ASSUME e < d PROVE FALSE
  <2>1. b * (e + 1) <= b * d
    BY <1>1, <1>2, <1>4
  <2>2. b * (e + 1) = b * e + b
    BY <1>2
  <2>3. b * e \in Int /\ b * d \in Int
    BY <1>1, <1>2
  <2> QED
    BY <1>1, <1>2, <2>1, <2>2, <2>3
<1>5. d <= e
  BY <1>1, <1>2, <1>4
<1> QED
  BY <1>1, <1>2, <1>3, <1>5 DEF d, e

(* A truncated generation stands for the one it was cut from, if that is   *)
(* less than a wrap from the oldest.                                       *)
LEMMA Unwrapped ==
  ASSUME NEW o \in Nat, NEW g \in Nat, GenerationWrap \in Nat \ {0},
         o <= g, g < o + GenerationWrap
  PROVE  ComputeWrappedGeneration(o, g % GenerationWrap) = g
<1> DEFINE W == GenerationWrap
           a == o \div W
           r == o % W
           c == g \div W
           s == g % W
<1>1. /\ a \in Nat /\ r \in 0 .. W - 1 /\ o = W * a + r
      /\ c \in Nat /\ s \in 0 .. W - 1 /\ g = W * c + s
  OBVIOUS
<1>2. ComputeWrappedGeneration(o, s) = (a + (IF s < r THEN 1 ELSE 0)) * W + s
  BY DEF ComputeWrappedGeneration
<1>3. W \in Nat \ {0} /\ g < o + W
  OBVIOUS
<1> HIDE DEF W, a, r, c, s
<1>4. W * a \in Int /\ W * c \in Int /\ W * (a + 1) = W * a + W /\ W * (c + 1) = W * c + W
  BY <1>1, <1>3
<1>5. ASSUME c < a PROVE FALSE
  <2>1. W * (c + 1) <= W * a
    <3>1. c + 1 \in Nat /\ c + 1 <= a
      BY <1>1, <1>5
    <3> QED
      BY <1>1, <1>3, <3>1, Growing
  <2> QED
    BY <1>1, <1>3, <1>4, <2>1
<1>6. ASSUME c > a + 1 PROVE FALSE
  <2>1. W * (a + 2) <= W * c
    <3>1. a + 2 \in Nat /\ a + 2 <= c
      BY <1>1, <1>6
    <3> QED
      BY <1>1, <1>3, <3>1, Growing
  <2>2. W * (a + 2) = W * a + W + W
    BY <1>1, <1>3
  <2> QED
    BY <1>1, <1>3, <1>4, <2>1, <2>2
<1>7. c = a \/ c = a + 1
  BY <1>1, <1>5, <1>6
<1>8. CASE s < r
  <2>1. c # a
    BY <1>1, <1>4, <1>8
  <2>2. ComputeWrappedGeneration(o, s) = (a + 1) * W + s
    BY <1>2, <1>8
  <2>3. (a + 1) * W = W * (a + 1)
    BY <1>1, <1>3
  <2> QED
    BY <1>1, <1>7, <2>1, <2>2, <2>3 DEF s, W
<1>9. CASE ~(s < r)
  <2>1. c # a + 1
    BY <1>1, <1>3, <1>4, <1>9
  <2>2. ComputeWrappedGeneration(o, s) = (a + 0) * W + s
    BY <1>2, <1>9
  <2>3. (a + 0) * W = W * a
    BY <1>1, <1>3
  <2> QED
    BY <1>1, <1>7, <2>1, <2>2, <2>3 DEF s, W
<1> QED
  BY <1>8, <1>9

(* The earlier of two times.                                               *)
LEMMA Earliest ==
  ASSUME NEW a \in Nat, NEW b \in Nat
  PROVE  /\ Min({a, b}) \in Nat
         /\ \A t \in Nat : t <= a /\ t <= b => t <= Min({a, b})
<1>1. \E x \in {a, b} : \A y \in {a, b} : x <= y
  BY Least
<1> QED
  BY <1>1 DEF Min

(* An interval is as large as it is long.                                  *)
LEMMA Between ==
  ASSUME NEW a \in Int, NEW b \in Int, a < b, NEW S, S \subseteq a + 1 .. b - 1
  PROVE  IsFiniteSet(S) /\ Cardinality(S) \in Nat /\ Cardinality(S) < b - a
<1>1. IsFiniteSet(a + 1 .. b - 1) /\ Cardinality(a + 1 .. b - 1) = b - 1 - (a + 1) + 1
  BY FS_Interval
<1>2. IsFiniteSet(S) /\ Cardinality(S) <= Cardinality(a + 1 .. b - 1)
  BY <1>1, FS_Subset
<1> QED
  BY <1>1, <1>2, FS_CardinalityType

-----------------------------------------------------------------------------
(* The window of nonces.                                                   *)

Fields == {"epoch", "next", "keys", "cryptors", "created", "expiry", "oldest",
           "newest", "last", "missing"}
IsManager(m) == DOMAIN m = Fields

(* What the proof looks at: the cryptors of n may be others than m's.      *)
SameWindow(m, n) == n.epoch = m.epoch /\ n.last = m.last /\ n.missing = m.missing

-----------------------------------------------------------------------------
(* Looking for a cryptor leaves the window of nonces alone.                *)
LEMMA DeriveKeyKeepsWindow ==
  ASSUME NEW m, IsManager(m), NEW g
  PROVE  IsManager(DeriveKey(m, g)) /\ SameWindow(m, DeriveKey(m, g))
BY DEF IsManager, Fields, SameWindow, DeriveKey

(* So does the cleaning up.                                                *)
LEMMA CleanupKeepsWindow ==
  ASSUME NEW m, IsManager(m), NEW t
  PROVE  /\ IsManager(CleanupExpiredCryptors(m, t))
         /\ SameWindow(m, CleanupExpiredCryptors(m, t))
BY DEF IsManager, Fields, SameWindow, CleanupExpiredCryptors

(* And GetCryptor, which does both.                                        *)
LEMMA WithCryptorKeepsWindow ==
  ASSUME NEW m, IsManager(m), NEW g, NEW t
  PROVE  IsManager(WithCryptor(m, g, t)) /\ SameWindow(m, WithCryptor(m, g, t))
<1> DEFINE c == CleanupExpiredCryptors(m, t)
<1>1. IsManager(c) /\ SameWindow(m, c)
  BY CleanupKeepsWindow
<1>2. IsManager(DeriveKey(c, g)) /\ SameWindow(c, DeriveKey(c, g))
  BY <1>1, DeriveKeyKeepsWindow
<1> HIDE DEF c
<1> QED
  BY <1>1, <1>2 DEF IsManager, Fields, SameWindow, WithCryptor, c

(* The bookkeeping of generations does not touch it either.                *)
LEMMA NoteGenerationKeepsWindow ==
  ASSUME NEW m, IsManager(m), NEW g, NEW t
  PROVE  IsManager(NoteGeneration(m, g, t)) /\ SameWindow(m, NoteGeneration(m, g, t))
BY DEF IsManager, Fields, SameWindow, NoteGeneration

(* Generation and nonce make a natural number.                             *)
LEMMA BigNonceNat ==
  ASSUME NEW g \in Nat, NEW n \in Nat, NoncesPerGeneration \in Nat \ {0}
  PROVE  ComputeWrappedBigNonce(g, n) \in Nat
BY DEF ComputeWrappedBigNonce

-----------------------------------------------------------------------------
(* A manager's window, against the nonces H heard of its epoch.            *)
Window(m, H) ==
  /\ IsManager(m) /\ m.last \in Int
  /\ \A b \in m.missing : b \in Int /\ b < m.last
  /\ \A b \in H : b \in Nat /\ b <= m.last /\ b \notin m.missing

(* A nonce that can be processed was never heard.                          *)
LEMMA ProcessedOnce ==
  ASSUME NEW m, NEW H, Window(m, H), NEW b \in Nat, CanProcessNonce(m, b)
  PROVE  b \notin H
BY DEF Window, CanProcessNonce, NoNonce

(* NoteNonce keeps the window, with the nonce heard.                       *)
LEMMA NoteNonceKeepsWindow ==
  ASSUME NEW m, NEW H, Window(m, H), NEW b \in Nat, CanProcessNonce(m, b)
  PROVE  Window(NoteNonce(m, b), H \cup {b}) /\ NoteNonce(m, b).epoch = m.epoch
<1> DEFINE n == NoteNonce(m, b)
<1>1. CASE m.last = NoNonce
  <2>1. n = [m EXCEPT !.last = b]
    BY <1>1 DEF NoteNonce
  <2>2. IsManager(n) /\ n.last = b /\ n.missing = m.missing /\ n.epoch = m.epoch
    BY <2>1 DEF Window, IsManager, Fields
  <2>3. H = {} /\ \A x \in m.missing : x \in Int /\ x < -1
    BY <1>1 DEF Window, NoNonce
  <2> QED
    BY <2>2, <2>3 DEF Window
<1>2. CASE m.last # NoNonce /\ b > m.last
  <2> DEFINE S == Largest(MaxMissingNonces, m.missing \cup (m.last + 1 .. b - 1))
  <2>1. n = [m EXCEPT !.missing = S, !.last = b]
    BY <1>2 DEF NoteNonce
  <2>2. S \subseteq m.missing \cup (m.last + 1 .. b - 1)
    BY DEF Largest
  <2> HIDE DEF S
  <2>3. IsManager(n) /\ n.last = b /\ n.missing = S /\ n.epoch = m.epoch
    BY <2>1 DEF Window, IsManager, Fields
  <2>4. \A x \in S : x \in Int /\ x < b
    BY <1>2, <2>2 DEF Window
  <2>5. \A x \in H \cup {b} : x \in Nat /\ x <= b /\ x \notin S
    BY <1>2, <2>2, <2>4 DEF Window
  <2> QED
    BY <2>3, <2>4, <2>5 DEF Window
<1>3. CASE m.last # NoNonce /\ ~(b > m.last)
  <2>1. n = [m EXCEPT !.missing = m.missing \ {b}]
    BY <1>3 DEF NoteNonce
  <2>2. IsManager(n) /\ n.last = m.last /\ n.missing = m.missing \ {b} /\ n.epoch = m.epoch
    BY <2>1 DEF Window, IsManager, Fields
  <2> QED
    BY <1>3, <2>2 DEF Window
<1> QED
  BY <1>1, <1>2, <1>3

(* The same window with other cryptors.                                    *)
LEMMA WindowOfSame ==
  ASSUME NEW m, NEW n, NEW H, Window(m, H), IsManager(n), SameWindow(m, n)
  PROVE  Window(n, H)
BY DEF Window, SameWindow

-----------------------------------------------------------------------------
(* The keys of a manager, and that a cryptor was made from each.           *)
KeysOK(m) ==
  /\ IsManager(m)
  /\ m.oldest \in Nat /\ m.newest \in Nat /\ m.next \in Nat
  /\ m.oldest <= m.newest /\ m.newest <= m.next
  /\ m.keys = m.oldest .. m.next - 1
  /\ \A g \in DOMAIN m.cryptors :
       /\ g \in 0 .. m.next - 1
       /\ DOMAIN m.cryptors[g] = {"valid", "expiry"} /\ m.cryptors[g].valid

(* A new manager has no keys and derives generation 0 next.                *)
LEMMA NewKeys == ASSUME NEW e, NEW t PROVE KeysOK(NewManager(e, t))
BY DEF KeysOK, NewManager, IsManager, Fields

(* CleanupExpiredCryptors deletes from oldest to the new oldest.           *)
LEMMA CleanupKeepsKeysOK ==
  ASSUME NEW m, KeysOK(m), NEW t PROVE KeysOK(CleanupExpiredCryptors(m, t))
<1> DEFINE live == {g \in DOMAIN m.cryptors : m.cryptors[g].expiry >= t}
           T == {m.newest} \cup {g \in live : m.oldest <= g /\ g < m.newest}
           oldest == Min(T)
           c == CleanupExpiredCryptors(m, t)
<1>1. c = [m EXCEPT !.cryptors = [g \in live |-> @[g]], !.oldest = oldest,
                    !.keys = @ \ (m.oldest .. oldest - 1)]
  BY DEF CleanupExpiredCryptors
<1>2. T \subseteq Nat /\ m.newest \in T /\ \A g \in T : m.oldest <= g /\ g <= m.newest
  BY DEF KeysOK
<1>3. oldest \in T
  <2> HIDE DEF T
  <2>1. \E x \in T : \A y \in T : x <= y
    BY <1>2, Least
  <2> QED
    BY <2>1 DEF Min
<1> HIDE DEF oldest, T
<1>4. oldest \in Nat /\ m.oldest <= oldest /\ oldest <= m.newest
  BY <1>2, <1>3
<1>5. IsManager(c)
      /\ c.oldest = oldest /\ c.newest = m.newest /\ c.next = m.next
      /\ c.keys = m.keys \ (m.oldest .. oldest - 1) /\ c.cryptors = [g \in live |-> m.cryptors[g]]
  BY <1>1 DEF KeysOK, IsManager, Fields
<1>6. c.keys = oldest .. m.next - 1
  BY <1>4, <1>5 DEF KeysOK
<1>7. DOMAIN c.cryptors = live /\ \A g \in live : c.cryptors[g] = m.cryptors[g]
  BY <1>5
<1>8. \A g \in live : /\ g \in 0 .. m.next - 1
                      /\ DOMAIN m.cryptors[g] = {"valid", "expiry"} /\ m.cryptors[g].valid
  BY DEF KeysOK
<1> HIDE DEF c, live
<1>9. c.oldest <= c.newest /\ c.newest <= c.next /\ c.newest \in Nat /\ c.next \in Nat
  BY <1>4, <1>5 DEF KeysOK
<1>10. KeysOK(c)
  BY <1>4, <1>5, <1>6, <1>7, <1>8, <1>9 DEF KeysOK
<1> QED
  BY <1>10 DEF c

(* GetCryptor derives a key that is still to come, or finds one it has.    *)
LEMMA WithCryptorKeepsKeysOK ==
  ASSUME NEW m, KeysOK(m), NEW g \in Nat, NEW t PROVE KeysOK(WithCryptor(m, g, t))
<1> DEFINE c == CleanupExpiredCryptors(m, t)
           d == DeriveKey(c, g)
           new == [h \in DOMAIN d.cryptors \cup {g} |->
                     IF h = g THEN MakeExpiringCryptor(c, g, t) ELSE d.cryptors[h]]
<1>1. KeysOK(c)
  BY CleanupKeepsKeysOK
<1>2. CASE ~InReach(c, g, t) \/ g \in DOMAIN c.cryptors
  BY <1>1, <1>2 DEF WithCryptor
<1>3. CASE InReach(c, g, t) /\ g \notin DOMAIN c.cryptors
  <2>1. WithCryptor(m, g, t) = [d EXCEPT !.cryptors = new]
    BY <1>3 DEF WithCryptor
  <2> HIDE DEF c
  <2>2. c.oldest <= g
    BY <1>3 DEF InReach
  <2>3. /\ IsManager(d) /\ d.oldest = c.oldest /\ d.newest = c.newest
        /\ d.cryptors = c.cryptors
        /\ d.next \in Nat /\ c.next <= d.next /\ g < d.next
        /\ d.keys = d.oldest .. d.next - 1
    <3>1. CASE g < c.next
      BY <1>1, <3>1 DEF DeriveKey, KeysOK
    <3>2. CASE ~(g < c.next)
      <4>1. d = [c EXCEPT !.keys = @ \cup c.next .. g, !.next = g + 1]
        BY <3>2 DEF DeriveKey
      <4>2. /\ IsManager(d) /\ d.oldest = c.oldest /\ d.newest = c.newest
            /\ d.cryptors = c.cryptors
            /\ d.next = g + 1 /\ d.keys = c.keys \cup c.next .. g
        BY <1>1, <4>1 DEF KeysOK, IsManager, Fields
      <4> HIDE DEF d
      <4>3. c.keys \cup c.next .. g = c.oldest .. g
        BY <1>1, <3>2 DEF KeysOK
      <4> QED
        BY <1>1, <3>2, <4>2, <4>3 DEF KeysOK
    <3> QED
      BY <3>1, <3>2
  <2>4. HasKey(c, g)
    BY <1>1, <2>2 DEF KeysOK, HasKey
  <2>5. /\ DOMAIN MakeExpiringCryptor(c, g, t) = {"valid", "expiry"}
        /\ MakeExpiringCryptor(c, g, t).valid
    BY <2>4 DEF MakeExpiringCryptor
  <2> HIDE DEF d
  <2>6. ASSUME NEW h \in DOMAIN new
        PROVE  /\ h \in 0 .. d.next - 1
               /\ DOMAIN new[h] = {"valid", "expiry"} /\ new[h].valid
    BY SMTT(30), <1>1, <2>3, <2>5 DEF KeysOK
  <2> HIDE DEF new
  <2> DEFINE w == [d EXCEPT !.cryptors = new]
  <2>7. /\ IsManager(w) /\ w.oldest = d.oldest /\ w.newest = d.newest /\ w.next = d.next
        /\ w.keys = d.keys /\ w.cryptors = new
    BY <2>3 DEF IsManager, Fields
  <2> HIDE DEF w
  <2>8. KeysOK(w)
    BY <1>1, <2>3, <2>6, <2>7 DEF KeysOK
  <2> QED
    BY <2>1, <2>8 DEF w
<1> QED
  BY <1>2, <1>3

(* ReportCryptorSuccess moves newest to a generation that has a cryptor.   *)
LEMMA ReportKeepsKeysOK ==
  ASSUME NEW m, KeysOK(m), NEW g \in Nat, NEW b, NEW t
  PROVE  KeysOK(ReportCryptorSuccess(m, g, b, t))
<1> DEFINE n == NoteNonce(m, b)
<1>1. KeysOK(n)
  BY DEF NoteNonce, KeysOK, IsManager, Fields
<1> HIDE DEF n
<1>2. KeysOK(NoteGeneration(n, g, t))
  <2>1. CASE g <= n.newest \/ g \notin DOMAIN n.cryptors
    BY <1>1, <2>1 DEF NoteGeneration
  <2>2. CASE g > n.newest /\ g \in DOMAIN n.cryptors
    <3> DEFINE old == [h \in DOMAIN n.cryptors |->
                         IF h < g THEN [n.cryptors[h] EXCEPT
                                          !.expiry = Min({@, t + CryptorExpiry})]
                         ELSE n.cryptors[h]]
               w == [n EXCEPT !.newest = g, !.cryptors = old]
    <3>1. NoteGeneration(n, g, t) = w
      <4>1. ~(g <= n.newest \/ g \notin DOMAIN n.cryptors)
        BY <1>1, <2>2 DEF KeysOK
      <4> QED
        BY <4>1 DEF NoteGeneration
    <3>2. ASSUME NEW h \in DOMAIN n.cryptors
          PROVE  DOMAIN old[h] = {"valid", "expiry"} /\ old[h].valid
      BY <1>1 DEF KeysOK
    <3>3. DOMAIN old = DOMAIN n.cryptors
      OBVIOUS
    <3> HIDE DEF old
    <3>4. /\ IsManager(w) /\ w.oldest = n.oldest /\ w.newest = g /\ w.next = n.next
          /\ w.keys = n.keys /\ w.cryptors = old
      BY <1>1 DEF KeysOK, IsManager, Fields
    <3> HIDE DEF w
    <3>5. g \in 0 .. n.next - 1 /\ n.oldest <= g /\ g <= n.next
      BY <1>1, <2>2 DEF KeysOK
    <3>6. KeysOK(w)
      BY <1>1, <3>2, <3>3, <3>4, <3>5 DEF KeysOK
    <3> QED
      BY <3>1, <3>6
  <2> QED
    BY <1>1, <2>1, <2>2 DEF KeysOK
<1> QED
  BY <1>2 DEF ReportCryptorSuccess, n

(* Another expiry of the manager as a whole is nothing to its keys.        *)
LEMMA ExpiryKeepsKeysOK ==
  ASSUME NEW m, KeysOK(m), NEW t PROVE KeysOK([m EXCEPT !.expiry = t])
BY DEF KeysOK, IsManager, Fields

-----------------------------------------------------------------------------
(* The nonces heard of an epoch.                                           *)
Heard(hs, e) == {id[2] : id \in {h \in hs : h[1] = e}}

(* Every manager has a window.  Of an epoch whose ratchet was not given    *)
(* again there is one manager, and its window is right.                    *)
Good(ms, hs, last, again) ==
  /\ \E S : ms \in Seq(S)
  /\ \A i \in DOMAIN ms :
       /\ ms[i].epoch \in Nat \ {0} /\ ms[i].epoch <= last /\ Window(ms[i], {})
       /\ ms[i].epoch \notin again =>
            /\ Window(ms[i], Heard(hs, ms[i].epoch))
            /\ \A j \in DOMAIN ms : i # j => ms[i].epoch # ms[j].epoch

(* The server's epochs go up by one, and never with version 0.             *)
OffersOK ==
  /\ offers \in Seq([version : {0, 1}, epoch : Nat, atOnce : BOOLEAN])
  /\ \A i \in 0 .. Len(offers) : EpochAt(i) \in Nat
  /\ \A i, j \in 0 .. Len(offers) : i <= j => EpochAt(i) <= EpochAt(j)
  /\ \A i \in 1 .. Len(offers) : /\ EpochAt(i) <= EpochAt(i - 1) + 1
                                 /\ offers[i].version = 0 => ~Fresh(i)

(* A client's session, if it has a group, is in the epoch it has come to.  *)
ClientOK(c) ==
  /\ c \in [at : 0 .. Len(offers), session : Nat, prepared : SUBSET (1 .. Len(offers))]
  /\ c.session \in {NoRatchet, EpochAt(c.at)} /\ \A i \in c.prepared : i <= c.at

Reached == EpochAt(receiving.at)

TransitionOK ==
  /\ OffersOK /\ ClientOK(sending) /\ ClientOK(receiving)
  /\ sender.epoch <= EpochAt(sending.at)
  /\ repeated \subseteq Nat /\ outOfStep \in BOOLEAN

SenderType == [pass : BOOLEAN, epoch : Nat, generation : Nat, nonce : Nat]
SenderOK == sender \in SenderType
HeardOK == \A id \in heard : id[1] \in Nat /\ id[1] <= Reached

ClocksOK == now \in Nat /\ due \in Nat /\ allowPassThroughUntil \in Nat
SealedOK == \A f \in net : /\ f.sealed \in BOOLEAN /\ f.at \in Nat
                           /\ f.sealed => f.key \in Nat \X Nat /\ f.nonce \in Nat

ReplayInv ==
  /\ ClocksOK /\ TransitionOK /\ SenderOK /\ SealedOK
  /\ HeardOK /\ Good(managers, heard, Reached, repeated) /\ NoReplay

-----------------------------------------------------------------------------
(* The server and the two clients.                                         *)

(* Epochs of other offers than the new ones are what they were.            *)
LEMMA SameEpochs ==
  ASSUME offers' = offers
  PROVE  /\ \A i : EpochAt(i)' = EpochAt(i) /\ Fresh(i)' = Fresh(i)
         /\ OffersOK => OffersOK' /\ \A c : ClientOK(c) => ClientOK(c)'
<1>1. \A i : EpochAt(i)' = EpochAt(i)
  BY DEF EpochAt
<1>2. \A i : Fresh(i)' = Fresh(i)
  BY <1>1 DEF Fresh
<1> QED
  BY <1>1, <1>2 DEF OffersOK, ClientOK

LEMMA OfferKeepsEpochs ==
  ASSUME OffersOK, Offer
  PROVE  /\ OffersOK' /\ Len(offers') = Len(offers) + 1
         /\ \A i \in 0 .. Len(offers) : EpochAt(i)' = EpochAt(i)
         /\ \A i \in 1 .. Len(offers) : offers'[i] = offers[i]
<1>0. PICK n \in Nat, e \in Nat : n = Len(offers) /\ e = EpochAt(n)
  BY DEF OffersOK
<1> DEFINE T == [version : {0, 1}, epoch : Nat, atOnce : BOOLEAN]
<1>1. n \in Nat /\ offers \in Seq(T) /\ e \in Nat /\ DOMAIN offers = 1 .. n
  BY <1>0 DEF OffersOK
<1>2. PICK o \in [version : {0, 1}, epoch : {e, e + 1}, atOnce : BOOLEAN] :
        (o.version = 0 => o.epoch = e) /\ offers' = Append(offers, o)
  BY <1>0 DEF Offer
<1>3. o \in T /\ o.epoch \in {e, e + 1} /\ o.epoch \in Nat
  BY <1>1
<1>4. /\ offers' \in Seq(T) /\ Len(offers') = n + 1 /\ offers'[n + 1] = o
      /\ \A i \in 1 .. n : offers'[i] = offers[i]
  <2> HIDE DEF T
  <2>1. Len(Append(offers, o)) = n + 1 /\ Append(offers, o) \in Seq(T)
    BY <1>0, <1>1, <1>3
  <2>2. Append(offers, o)[n + 1] = o /\ \A i \in 1 .. n : Append(offers, o)[i] = offers[i]
    BY <1>0, <1>1, <1>3
  <2> QED
    BY <1>2, <2>1, <2>2
<1> HIDE DEF T
<1>5. \A i \in 0 .. n : EpochAt(i)' = EpochAt(i)
  BY <1>0, <1>1, <1>4 DEF EpochAt
<1>6. EpochAt(n + 1)' = o.epoch /\ EpochAt(n)' = e
  <2>1. n + 1 # 0 /\ n \in 0 .. n
    BY <1>1
  <2> QED
    BY <1>0, <1>4, <1>5, <2>1 DEF EpochAt
<1>7. /\ \A i \in 0 .. n : EpochAt(i) \in Nat
      /\ \A i, j \in 0 .. n : i <= j => EpochAt(i) <= EpochAt(j)
      /\ \A i \in 1 .. n : /\ EpochAt(i) <= EpochAt(i - 1) + 1
                           /\ offers[i].version = 0 => EpochAt(i) = EpochAt(i - 1)
  BY <1>0 DEF OffersOK, Fresh
<1>8. \A i \in 0 .. n + 1 : EpochAt(i)' \in Nat
  <2>1. \A i \in 0 .. n + 1 : i \in 0 .. n \/ i = n + 1
    BY <1>1
  <2> QED
    BY <1>3, <1>5, <1>6, <1>7, <2>1
<1>9. \A i, j \in 0 .. n + 1 : i <= j => EpochAt(i)' <= EpochAt(j)'
  <2>1. ASSUME NEW i \in 0 .. n PROVE EpochAt(i) <= e
    BY <1>0, <1>1, <1>7
  <2>2. ASSUME NEW i \in 0 .. n PROVE EpochAt(i)' <= EpochAt(n + 1)'
    <3>1. EpochAt(i)' = EpochAt(i) /\ EpochAt(i) \in Nat /\ EpochAt(i) <= e
      BY <1>5, <1>7, <2>1
    <3>2. o.epoch \in Nat /\ e <= o.epoch
      BY <1>1, <1>3
    <3> QED
      BY <1>1, <1>6, <3>1, <3>2
  <2>3. ASSUME NEW i \in 0 .. n + 1, NEW j \in 0 .. n + 1, i <= j
        PROVE  EpochAt(i)' <= EpochAt(j)'
    <3>1. CASE j \in 0 .. n
      <4>1. i \in 0 .. n
        BY <1>1, <2>3, <3>1
      <4> QED
        BY <1>5, <1>7, <2>3, <3>1, <4>1
    <3>2. CASE j = n + 1 /\ i \in 0 .. n
      BY <2>2, <3>2
    <3>3. CASE j = n + 1 /\ i = n + 1
      <4>1. o.epoch <= o.epoch
        BY <1>3
      <4> QED
        BY <1>6, <3>3, <4>1
    <3> QED
      BY <1>1, <3>1, <3>2, <3>3
  <2> QED
    BY <2>3
<1>10. \A i \in 1 .. n + 1 : /\ EpochAt(i)' <= EpochAt(i - 1)' + 1
                             /\ offers'[i].version = 0 => EpochAt(i)' = EpochAt(i - 1)'
  <2>1. ASSUME NEW i \in 1 .. n
        PROVE  /\ EpochAt(i)' <= EpochAt(i - 1)' + 1
               /\ offers'[i].version = 0 => EpochAt(i)' = EpochAt(i - 1)'
    <3>1. i \in 0 .. n /\ i - 1 \in 0 .. n
      BY <1>1
    <3> QED
      BY <1>4, <1>5, <1>7, <3>1
  <2>2. n + 1 - 1 = n
    BY <1>1
  <2>3. /\ EpochAt(n + 1)' <= EpochAt(n + 1 - 1)' + 1
        /\ offers'[n + 1].version = 0 => EpochAt(n + 1)' = EpochAt(n + 1 - 1)'
    <3>1. o.epoch <= e + 1 /\ (o.version = 0 => o.epoch = e)
      BY <1>1, <1>2, <1>3
    <3> QED
      BY <1>4, <1>6, <2>2, <3>1
  <2>4. \A i \in 1 .. n + 1 : i \in 1 .. n \/ i = n + 1
    BY <1>1
  <2> QED
    BY <2>1, <2>3, <2>4
<1>11. OffersOK'
  BY <1>4, <1>8, <1>9, <1>10 DEF OffersOK, Fresh, T
<1> QED
  BY <1>0, <1>4, <1>5, <1>11

(* A client that takes the next offer is where that offer's epoch is.      *)
LEMMA PreparedClient ==
  ASSUME OffersOK, NEW c, ClientOK(c), c.at < Len(offers)
  PROVE  LET i == c.at + 1
             d == Prepared(c)
         IN /\ ClientOK(d) /\ d.at = i /\ i \in 1 .. Len(offers) /\ c.at \in 0 .. Len(offers)
            /\ EpochAt(c.at) \in Nat /\ EpochAt(i) \in Nat /\ EpochAt(c.at) <= EpochAt(i)
            /\ EpochAt(i) <= EpochAt(c.at) + 1
            /\ d.prepared = IF offers[i].atOnce THEN c.prepared ELSE c.prepared \cup {i}
            /\ i \notin c.prepared
            /\ IF Fresh(i)
               THEN d.session = EpochAt(i) /\ EpochAt(c.at) < EpochAt(i) /\ offers[i].version = 1
               ELSE d.session = c.session /\ EpochAt(i) = EpochAt(c.at)
<1> DEFINE i == c.at + 1
           d == Prepared(c)
           n == Len(offers)
<1>1. /\ n \in Nat /\ c.at \in Nat /\ c.at < n /\ c.session \in {NoRatchet, EpochAt(c.at)}
      /\ c.prepared \subseteq 1 .. n /\ \A j \in c.prepared : j <= c.at
  BY DEF OffersOK, ClientOK
<1>2. i \in 1 .. n /\ i \in 0 .. n /\ c.at \in 0 .. n /\ i - 1 = c.at /\ c.at <= i
      /\ i \notin c.prepared /\ \A j \in c.prepared : j <= i
  BY <1>1
<1>3. d = [at |-> i, session |-> IF Fresh(i) THEN EpochAt(i) ELSE c.session,
           prepared |-> IF offers[i].atOnce THEN c.prepared ELSE c.prepared \cup {i}]
  BY DEF Prepared
<1> HIDE DEF i, d, n
<1>4. /\ EpochAt(c.at) \in Nat /\ EpochAt(i) \in Nat /\ EpochAt(c.at) <= EpochAt(i)
      /\ EpochAt(i) <= EpochAt(c.at) + 1
  <2>1. EpochAt(c.at) \in Nat /\ EpochAt(i) \in Nat /\ EpochAt(c.at) <= EpochAt(i)
    BY <1>2 DEF OffersOK, n
  <2>2. EpochAt(i) <= EpochAt(i - 1) + 1
    BY <1>2 DEF OffersOK, n
  <2> QED
    BY <1>2, <2>1, <2>2
<1>5. Fresh(i) <=> EpochAt(i) # EpochAt(c.at)
  BY <1>2 DEF Fresh
<1>6. Fresh(i) => offers[i].version = 1
  <2> DEFINE T == [version : {0, 1}, epoch : Nat, atOnce : BOOLEAN]
  <2>1. offers[i].version \in {0, 1}
    <3>1. offers \in Seq(T)
      BY DEF OffersOK
    <3> HIDE DEF T
    <3>2. offers[i] \in T
      BY <1>2, <3>1 DEF n
    <3> QED
      BY <3>2 DEF T
  <2>2. offers[i].version = 0 => ~Fresh(i)
    BY <1>2 DEF OffersOK, n
  <2> QED
    BY <2>1, <2>2
<1>7. d.at = i /\ d.prepared = (IF offers[i].atOnce THEN c.prepared ELSE c.prepared \cup {i})
  BY <1>3
<1>8. CASE Fresh(i)
  <2>1. d.session = EpochAt(i) /\ EpochAt(c.at) < EpochAt(i)
    BY <1>3, <1>4, <1>5, <1>8
  <2>2. ClientOK(d)
    BY <1>1, <1>2, <1>3, <1>4, <1>8 DEF ClientOK, n
  <2> QED
    BY <1>2, <1>4, <1>6, <1>7, <1>8, <2>1, <2>2 DEF i, d, n
<1>9. CASE ~Fresh(i)
  <2>1. d.session = c.session /\ EpochAt(i) = EpochAt(c.at)
    BY <1>3, <1>5, <1>9
  <2>2. c.session \in Nat
    BY DEF ClientOK
  <2>3. ClientOK(d)
    BY <1>1, <1>2, <1>3, <1>5, <1>9, <2>1, <2>2 DEF ClientOK, n
  <2> QED
    BY <1>2, <1>4, <1>7, <1>9, <2>1, <2>3 DEF i, d, n
<1> QED
  BY <1>8, <1>9

(* One that executes an offer, or is to join a new group, stays where it is.*)
LEMMA ExecutedClient ==
  ASSUME NEW c, ClientOK(c), NEW i
  PROVE  LET d == Executed(c, i) IN
           /\ ClientOK(d) /\ d.at = c.at /\ d.prepared = c.prepared \ {i}
           /\ d.session = IF offers[i].version = 0 THEN NoRatchet ELSE c.session
<1> DEFINE d == Executed(c, i)
<1>1. /\ d.at = c.at /\ d.prepared = c.prepared \ {i}
      /\ d.session = IF offers[i].version = 0 THEN NoRatchet ELSE c.session
      /\ d \in [at : 0 .. Len(offers), session : Nat, prepared : SUBSET (1 .. Len(offers))]
  BY DEF ClientOK, Executed, NoRatchet
<1> HIDE DEF d
<1>2. ClientOK(d)
  BY <1>1 DEF ClientOK
<1> QED
  BY <1>1, <1>2 DEF d

LEMMA InitialisedClient ==
  ASSUME NEW c, ClientOK(c)
  PROVE  LET d == Initialised(c) IN
           /\ ClientOK(d) /\ d.at = c.at /\ d.prepared = c.prepared /\ d.session = NoRatchet
BY DEF ClientOK, Initialised, NoRatchet

(* The encryptor that is set up has the ratchet it had, or the session's.  *)
LEMMA SetUpSender ==
  ASSUME ChannelAssumption, SenderOK, ClocksOK, outOfStep \in BOOLEAN,
         NEW i, NEW e \in Nat, SetUp(i, e)
  PROVE  /\ SenderOK' /\ due' = (IF i = receiving.at THEN Forever ELSE due) /\ due' \in Nat
         /\ outOfStep' \in BOOLEAN
         /\ UNCHANGED <<now, net, managers, allowPassThroughUntil, offers, receiving, repeated,
                        heard, twice>>
         /\ IF offers[i].version = 0
            THEN /\ sender'.pass /\ sender'.epoch = sender.epoch
                 /\ sender'.generation = sender.generation /\ sender'.nonce = sender.nonce
            ELSE /\ ~sender'.pass /\ sender'.epoch = e
                 /\ sender'.generation = 0 /\ sender'.nonce = 0
<1>1. /\ due' = (IF i = receiving.at THEN Forever ELSE due) /\ outOfStep' \in BOOLEAN
      /\ UNCHANGED <<now, net, managers, allowPassThroughUntil, offers, receiving, repeated,
                     heard, twice>>
  BY DEF SetUp, decryptor, history
<1>2. due' \in Nat
  BY <1>1 DEF ClocksOK, ChannelAssumption
<1>3. sender' = IF offers[i].version = 0 THEN [sender EXCEPT !.pass = TRUE]
                ELSE [pass |-> FALSE, epoch |-> e, generation |-> 0, nonce |-> 0]
  BY DEF SetUp
<1>4. CASE offers[i].version = 0
  <2>1. sender' = [sender EXCEPT !.pass = TRUE]
    BY <1>3, <1>4
  <2> QED
    BY <1>1, <1>2, <1>4, <2>1 DEF SenderOK, SenderType
<1>5. CASE offers[i].version # 0
  <2>1. sender' = [pass |-> FALSE, epoch |-> e, generation |-> 0, nonce |-> 0]
    BY <1>3, <1>5
  <2> QED
    BY <1>1, <1>2, <1>5, <2>1 DEF SenderOK, SenderType
<1> QED
  BY <1>4, <1>5

-----------------------------------------------------------------------------
(* NextNonce keeps its types.                                              *)
LEMMA NextNonceType ==
  ASSUME NEW s \in SenderType, NEW k \in Nat, ChannelAssumption
  PROVE  NextNonce(s, k) \in SenderType
<1> DEFINE W == GenerationWrap * NoncesPerGeneration
           n == (s.nonce + k) % W
<1>1. GenerationWrap \in Nat \ {0} /\ NoncesPerGeneration \in Nat \ {0}
  BY DEF ChannelAssumption
<1>2. W \in Nat \ {0}
  BY <1>1
<1> HIDE DEF W
<1>3. n \in Nat
  BY <1>2 DEF SenderType
<1> HIDE DEF n
<1>4. n \div NoncesPerGeneration \in Nat
  BY <1>1, <1>3
<1>5. ASSUME NEW g \in Nat, NEW h \in Nat
      PROVE  ComputeWrappedGeneration(g, h) \in Nat
  BY <1>1 DEF ComputeWrappedGeneration
<1>6. NextNonce(s, k) =
        [s EXCEPT !.generation = ComputeWrappedGeneration(s.generation, n \div NoncesPerGeneration),
                  !.nonce = n]
  BY DEF NextNonce, n, W
<1> QED
  BY ZenonT(40), <1>3, <1>4, <1>5, <1>6 DEF SenderType

(* One manager, one frame.                                                 *)
LEMMA DecryptImplKeepsWindow ==
  ASSUME ChannelAssumption, NEW m, NEW H, Window(m, H),
         NEW f, f.key \in Nat \X Nat, f.nonce \in Nat
  PROVE  LET r == DecryptImpl(m, f) IN
           /\ r.after.epoch = m.epoch /\ r.ok \in BOOLEAN
           /\ ~r.ok => Window(r.after, H)
           /\ r.ok => /\ f.key[1] = m.epoch /\ IdOf(f)[2] \notin H
                      /\ IdOf(f)[2] \in Nat
                      /\ Window(r.after, H \cup {IdOf(f)[2]})
<1> DEFINE g == ComputeWrappedGeneration(m.oldest, f.nonce \div NoncesPerGeneration)
           b == ComputeWrappedBigNonce(g, f.nonce)
           after == WithCryptor(m, g, now)
           ok == /\ CanProcessNonce(m, b) /\ HasCryptor(after, g, now)
                 /\ f.key = <<m.epoch, g>> /\ At(f.at) \in Legible
           r == DecryptImpl(m, f)
<1>1. r.ok = ok /\ r.after = IF ok THEN ReportCryptorSuccess(after, g, b, now)
                            ELSE IF CanProcessNonce(m, b) THEN after ELSE m
  BY DEF DecryptImpl
<1>2. IsManager(m)
  BY DEF Window
<1>3. IsManager(after) /\ SameWindow(m, after) /\ Window(after, H)
  BY <1>2, WithCryptorKeepsWindow, WindowOfSame
<1> HIDE DEF g, b, after, r
<1>4. CASE ~ok
  <2>1. r.after \in {after, m}
    BY <1>1, <1>4
  <2> QED
    BY <1>1, <1>3, <1>4, <2>1 DEF SameWindow, r
<1>5. CASE ok
  <2>1. f.key[1] = m.epoch /\ f.key[2] = g /\ g \in Nat
    BY <1>5
  <2>2. IdOf(f)[2] = b /\ b \in Nat
    BY <2>1, BigNonceNat DEF IdOf, b, ChannelAssumption
  <2>3. CanProcessNonce(m, b) /\ CanProcessNonce(after, b)
    BY <1>3, <1>5 DEF CanProcessNonce, SameWindow
  <2>4. b \notin H
    BY <2>2, <2>3, ProcessedOnce
  <2> DEFINE n == NoteNonce(after, b)
             q == NoteGeneration(n, g, now)
  <2>5. Window(n, H \cup {b}) /\ n.epoch = after.epoch
    BY <1>3, <2>2, <2>3, NoteNonceKeepsWindow
  <2>6. IsManager(n)
    BY <2>5 DEF Window
  <2> HIDE DEF n
  <2>7. IsManager(q) /\ SameWindow(n, q)
    BY <2>6, NoteGenerationKeepsWindow
  <2>8. r.after = q
    BY <1>1, <1>5 DEF ReportCryptorSuccess, q, n
  <2> HIDE DEF q
  <2>9. Window(q, H \cup {b}) /\ q.epoch = m.epoch
    BY <1>3, <2>5, <2>7, WindowOfSame DEF SameWindow
  <2> QED
    BY <1>1, <1>5, <2>1, <2>2, <2>4, <2>8, <2>9 DEF r
<1> QED
  BY <1>4, <1>5

(* The front of the list goes: each that stays was k places further back.  *)
LEMMA UnexpiredIsSuffix ==
  ASSUME NEW S, managers \in Seq(S)
  PROVE  /\ Unexpired \in Seq(S)
         /\ \E k \in Nat : \A i \in DOMAIN Unexpired :
              i + k \in DOMAIN managers /\ Unexpired[i] = managers[i + k]
<1> DEFINE gone == {i \in DOMAIN managers : \A j \in 1 .. i : IsExpired(managers[j], now)}
           k == Cardinality(gone)
<1>1. Len(managers) \in Nat /\ DOMAIN managers = 1 .. Len(managers)
  OBVIOUS
<1>2. IsFiniteSet(gone)
  <2>1. IsFiniteSet(1 .. Len(managers))
    BY <1>1, FS_Interval
  <2> QED
    BY <1>1, <2>1, FS_Subset
<1>3. k \in Nat
  BY <1>2, FS_CardinalityType
<1>4. Unexpired = SubSeq(managers, k + 1, Len(managers))
  BY DEF Unexpired
<1> HIDE DEF k, gone
<1>5. Unexpired \in Seq(S)
  BY <1>1, <1>3, <1>4
<1>6. \A i \in DOMAIN Unexpired : i + k \in DOMAIN managers /\ Unexpired[i] = managers[i + k]
  BY <1>1, <1>3, <1>4
<1> QED
  BY <1>3, <1>5, <1>6

(* What stays is still good.                                               *)
(* What stays is still good.                                               *)
LEMMA UnexpiredGood ==
  ASSUME NEW last, NEW again, Good(managers, heard, last, again)
  PROVE  Good(Unexpired, heard, last, again)
<1>1. PICK S : managers \in Seq(S)
  BY DEF Good
<1>2. Unexpired \in Seq(S)
  BY <1>1, UnexpiredIsSuffix
<1>3. PICK k \in Nat : \A i \in DOMAIN Unexpired :
        i + k \in DOMAIN managers /\ Unexpired[i] = managers[i + k]
  BY <1>1, UnexpiredIsSuffix
<1>4. DOMAIN Unexpired \subseteq Nat
  BY <1>2
<1>5. ASSUME NEW i \in DOMAIN Unexpired, NEW j \in DOMAIN Unexpired, i # j,
             Unexpired[i].epoch \notin again
      PROVE  Unexpired[i].epoch # Unexpired[j].epoch
  <2>1. i + k # j + k
    BY <1>4, <1>5
  <2> QED
    BY <1>3, <1>5, <2>1 DEF Good
<1>6. ASSUME NEW i \in DOMAIN Unexpired
      PROVE  /\ Unexpired[i].epoch \in Nat \ {0} /\ Unexpired[i].epoch <= last
             /\ Window(Unexpired[i], {})
             /\ Unexpired[i].epoch \notin again
                  => Window(Unexpired[i], Heard(heard, Unexpired[i].epoch))
  BY <1>3 DEF Good
<1> QED
  BY <1>2, <1>5, <1>6 DEF Good

(* What becomes of each manager: the one that decrypts the frame has heard *)
(* it, the others hear nothing.                                            *)
LEMMA TriedEach ==
  ASSUME ChannelAssumption, NEW ms, NEW last, NEW again, Good(ms, heard, last, again),
         NEW f, f.key \in Nat \X Nat, f.nonce \in Nat
  PROVE  LET results == Results(ms, f)
             id == IF Decrypted(results) THEN {IdOf(f)} ELSE {}
         IN /\ DOMAIN Tried(ms, results) = DOMAIN ms
            /\ \A i \in DOMAIN ms :
                 LET r == DecryptImpl(ms[i], f)
                     H == Heard(heard, ms[i].epoch)
                     G == Heard(heard \cup id, ms[i].epoch)
                 IN /\ Tried(ms, results)[i] \in {ms[i], r.after}
                    /\ ms[i].epoch \notin again =>
                         /\ r.ok => Tried(ms, results)[i] = r.after /\ G = H \cup {IdOf(f)[2]}
                         /\ ~r.ok => G = H
<1> DEFINE results == Results(ms, f)
           id == IF Decrypted(results) THEN {IdOf(f)} ELSE {}
           ts == Tried(ms, results)
<1>1. PICK S : ms \in Seq(S)
  BY DEF Good
<1>2. DOMAIN results = DOMAIN ms /\ \A i \in DOMAIN ms : results[i] = DecryptImpl(ms[i], f)
  BY DEF Results
<1>3. ASSUME NEW i \in DOMAIN ms
      PROVE  results[i].ok \in BOOLEAN /\ (results[i].ok => f.key[1] = ms[i].epoch)
  <2>1. Window(ms[i], {})
    BY DEF Good
  <2>2. LET r == DecryptImpl(ms[i], f) IN r.ok \in BOOLEAN /\ (r.ok => f.key[1] = ms[i].epoch)
    BY <2>1, DecryptImplKeepsWindow
  <2> QED
    BY <1>2, <2>2
<1>4. IdOf(f) = <<f.key[1], IdOf(f)[2]>>
  BY DEF IdOf
<1>5. DOMAIN ts = DOMAIN ms /\ \A i \in DOMAIN ms : ts[i] =
        IF \E j \in DOMAIN ms : j > i /\ results[j].ok THEN ms[i] ELSE results[i].after
  BY DEF Tried
<1> HIDE DEF results, ts
<1>6. ASSUME NEW i \in DOMAIN ms, ms[i].epoch \notin again
      PROVE  /\ results[i].ok => /\ ts[i] = results[i].after
                                 /\ Heard(heard \cup id, ms[i].epoch)
                                      = Heard(heard, ms[i].epoch) \cup {IdOf(f)[2]}
             /\ ~results[i].ok => Heard(heard \cup id, ms[i].epoch) = Heard(heard, ms[i].epoch)
  <2>1. CASE results[i].ok
    <3>1. ~ \E l \in DOMAIN ms : l > i /\ results[l].ok
      <4>1. ASSUME NEW l \in DOMAIN ms, results[l].ok PROVE l = i
        BY <1>3, <1>6, <2>1, <4>1 DEF Good
      <4>2. i \in Nat
        <5>1. DOMAIN ms = 1 .. Len(ms)
          BY <1>1
        <5> QED
          BY <1>6, <5>1
      <4> QED
        BY <4>1, <4>2
    <3>2. ts[i] = results[i].after
      BY <1>5, <3>1
    <3>3. id = {IdOf(f)} /\ f.key[1] = ms[i].epoch
      BY <1>2, <1>3, <2>1 DEF Decrypted
    <3>4. Heard(heard \cup id, ms[i].epoch) = Heard(heard, ms[i].epoch) \cup {IdOf(f)[2]}
      BY <1>4, <3>3 DEF Heard
    <3> QED
      BY <2>1, <3>2, <3>4
  <2>2. CASE ~results[i].ok
    <3>1. Decrypted(results) => f.key[1] # ms[i].epoch
      <4>1. ASSUME NEW l \in DOMAIN ms, results[l].ok PROVE l # i /\ f.key[1] = ms[l].epoch
        BY <1>3, <2>2, <4>1
      <4> QED
        BY <1>2, <1>6, <4>1 DEF Good, Decrypted
    <3>2. Heard(heard \cup id, ms[i].epoch) = Heard(heard, ms[i].epoch)
      BY <1>4, <3>1 DEF Heard
    <3> QED
      BY <2>2, <3>2
  <2> QED
    BY <2>1, <2>2
<1>7. \A i \in DOMAIN ms : ts[i] \in {ms[i], results[i].after}
  BY <1>5
<1> QED
  BY <1>2, <1>5, <1>6, <1>7 DEF ts, results

(* A window against fewer nonces.                                          *)
LEMMA WindowOfFewer ==
  ASSUME NEW m, NEW H, Window(m, H) PROVE Window(m, {})
BY DEF Window

(* All of them, one frame: it was not heard before, unless the ratchet of  *)
(* its epoch was given again.                                              *)
LEMMA TriedGood ==
  ASSUME ChannelAssumption, NEW ms, NEW last, NEW again, Good(ms, heard, last, again),
         NEW f, f.key \in Nat \X Nat, f.nonce \in Nat
  PROVE  LET results == Results(ms, f)
             id == IF Decrypted(results) THEN {IdOf(f)} ELSE {}
         IN /\ Good(Tried(ms, results), heard \cup id, last, again)
            /\ \A h \in id \cap heard : h[1] \in again
            /\ \A h \in id : h[1] \in Nat /\ h[1] <= last
<1> DEFINE results == Results(ms, f)
           id == IF Decrypted(results) THEN {IdOf(f)} ELSE {}
           ts == Tried(ms, results)
           H(i) == Heard(heard, ms[i].epoch)
           G(i) == Heard(heard \cup id, ms[i].epoch)
<1>1. PICK S : ms \in Seq(S)
  BY DEF Good
<1>2. ASSUME NEW i \in DOMAIN ms, NEW r, r = DecryptImpl(ms[i], f)
      PROVE  /\ r.after.epoch = ms[i].epoch /\ r.ok \in BOOLEAN
             /\ r.ok => f.key[1] = ms[i].epoch
             /\ Window(ms[i], {}) /\ Window(r.after, {})
             /\ ms[i].epoch \notin again =>
                  /\ Window(ms[i], H(i)) /\ (~r.ok => Window(r.after, H(i)))
                  /\ r.ok => /\ IdOf(f)[2] \notin H(i)
                             /\ Window(r.after, H(i) \cup {IdOf(f)[2]})
  <2>1. Window(ms[i], {}) /\ (ms[i].epoch \notin again => Window(ms[i], H(i)))
    BY DEF Good
  <2>2. /\ r.after.epoch = ms[i].epoch /\ r.ok \in BOOLEAN /\ (r.ok => f.key[1] = ms[i].epoch)
        /\ ~r.ok => Window(r.after, {})
        /\ r.ok => Window(r.after, {} \cup {IdOf(f)[2]})
    BY <1>2, <2>1, DecryptImplKeepsWindow
  <2>3. Window(r.after, {})
    BY <2>2, WindowOfFewer
  <2> HIDE DEF H
  <2>4. ms[i].epoch \notin again =>
          /\ ~r.ok => Window(r.after, H(i))
          /\ r.ok => /\ IdOf(f)[2] \notin H(i) /\ Window(r.after, H(i) \cup {IdOf(f)[2]})
    BY <1>2, <2>1, DecryptImplKeepsWindow
  <2> QED
    BY <2>1, <2>2, <2>3, <2>4
<1>3. ASSUME Decrypted(results)
      PROVE  /\ IdOf(f)[1] \in Nat /\ IdOf(f)[1] <= last
             /\ IdOf(f)[1] \notin again => IdOf(f) \notin heard
  <2>1. PICK i \in DOMAIN ms : DecryptImpl(ms[i], f).ok
    BY <1>3 DEF Decrypted, Results
  <2>2. f.key[1] = ms[i].epoch /\ (ms[i].epoch \notin again => IdOf(f)[2] \notin H(i))
    BY <1>2, <2>1
  <2>3. IdOf(f)[1] = ms[i].epoch
    BY <2>2 DEF IdOf
  <2>4. IdOf(f)[1] \notin again => IdOf(f) \notin heard
    BY <2>2, <2>3 DEF Heard
  <2> QED
    BY <2>3, <2>4 DEF Good
<1>4. (\A h \in id : h[1] \in Nat /\ h[1] <= last) /\ \A h \in id \cap heard : h[1] \in again
  BY <1>3
<1>5. /\ DOMAIN ts = DOMAIN ms
      /\ \A i \in DOMAIN ms :
           LET r == DecryptImpl(ms[i], f)
           IN /\ ts[i] \in {ms[i], r.after}
              /\ ms[i].epoch \notin again =>
                   /\ r.ok => ts[i] = r.after /\ G(i) = H(i) \cup {IdOf(f)[2]}
                   /\ ~r.ok => G(i) = H(i)
  <2>1. DOMAIN ts = DOMAIN ms
    BY TriedEach
  <2>2. ASSUME NEW i \in DOMAIN ms PROVE ts[i] \in {ms[i], DecryptImpl(ms[i], f).after}
    BY TriedEach
  <2>3. ASSUME NEW i \in DOMAIN ms, ms[i].epoch \notin again
        PROVE  /\ DecryptImpl(ms[i], f).ok =>
                    /\ ts[i] = DecryptImpl(ms[i], f).after
                    /\ G(i) = H(i) \cup {IdOf(f)[2]}
               /\ ~DecryptImpl(ms[i], f).ok => G(i) = H(i)
    BY <2>3, TriedEach
  <2> QED
    BY <2>1, <2>2, <2>3
<1>6. \E T : ts \in Seq(T)
  <2>1. Len(ms) \in Nat /\ DOMAIN ms = 1 .. Len(ms)
    BY <1>1
  <2>2. ts = [i \in 1 .. Len(ms) |-> ts[i]]
    BY <2>1 DEF Tried
  <2>3. ts \in Seq({ts[i] : i \in 1 .. Len(ms)})
    BY <2>1, <2>2
  <2> QED
    BY <2>3
<1> HIDE DEF ts, id, results
<1>7. ASSUME NEW i \in DOMAIN ms
      PROVE  /\ ts[i].epoch = ms[i].epoch /\ Window(ts[i], {})
             /\ ms[i].epoch \notin again => Window(ts[i], G(i))
  <2> DEFINE r == DecryptImpl(ms[i], f)
  <2>1. /\ r.after.epoch = ms[i].epoch /\ r.ok \in BOOLEAN
        /\ Window(ms[i], {}) /\ Window(r.after, {})
        /\ ms[i].epoch \notin again =>
             /\ Window(ms[i], H(i)) /\ (~r.ok => Window(r.after, H(i)))
             /\ r.ok => Window(r.after, H(i) \cup {IdOf(f)[2]})
    BY <1>2
  <2>2. /\ ts[i] \in {ms[i], r.after}
        /\ ms[i].epoch \notin again =>
             /\ r.ok => ts[i] = r.after /\ G(i) = H(i) \cup {IdOf(f)[2]}
             /\ ~r.ok => G(i) = H(i)
    BY <1>5
  <2> HIDE DEF r, G, H
  <2> QED
    BY <2>1, <2>2
<1>8. Good(ts, heard \cup id, last, again)
  BY <1>5, <1>6, <1>7 DEF Good
<1> QED
  BY <1>4, <1>8 DEF ts, results, id

-----------------------------------------------------------------------------
(* The steps of the sender's side.                                         *)
LEMMA SendKeepsInv ==
  ASSUME ChannelAssumption, ReplayInv, Encrypt \/ EncryptPassthrough \/ Quiet
  PROVE  ReplayInv'
<1>1. now' = now + 1 /\ UNCHANGED <<managers, allowPassThroughUntil, offers, sending, receiving,
                                    due, repeated, outOfStep, heard, twice>>
  BY DEF Encrypt, EncryptPassthrough, Quiet, Ticks, decryptor, transition, history
<1>2. sender' \in SenderType /\ sender'.epoch = sender.epoch
  <2>1. CASE Encrypt
    <3>1. PICK k \in Attempts(At(now)) : sender' = NextNonce(sender, k)
      BY <2>1 DEF Encrypt
    <3>2. k \in Nat
      BY DEF Attempts, ChannelAssumption
    <3> QED
      BY <3>1, <3>2, NextNonceType DEF ReplayInv, SenderOK, NextNonce, SenderType
  <2>2. CASE EncryptPassthrough \/ Quiet
    BY <2>2 DEF EncryptPassthrough, Quiet, ReplayInv, SenderOK
  <2> QED
    BY <2>1, <2>2
<1>3. ClocksOK' /\ TransitionOK' /\ Reached' = Reached
  BY SMTT(30), <1>1, <1>2, SameEpochs
     DEF ReplayInv, ClocksOK, TransitionOK, ClientOK, Reached, EpochAt
<1>4. SenderOK' /\ SealedOK'
  <2>1. CASE Encrypt
    <3>1. PICK k \in Attempts(At(now)) :
            Send({f \in {[sealed |-> TRUE, at |-> now, nonce |-> sender'.nonce,
                          key |-> <<sender'.epoch, sender'.generation>>]} :
                  Fits(Ranges[At(now)], sender'.nonce)})
      BY <2>1 DEF Encrypt
    <3> DEFINE g == [sealed |-> TRUE, at |-> now, nonce |-> sender'.nonce,
                     key |-> <<sender'.epoch, sender'.generation>>]
    <3>2. /\ g.sealed \in BOOLEAN /\ g.at \in Nat
          /\ g.key \in Nat \X Nat /\ g.nonce \in Nat
      BY <1>2 DEF ReplayInv, ClocksOK, SenderType
    <3>3. \A f \in net' : f \in net \/ f = g
      BY <3>1 DEF Send
    <3> HIDE DEF g
    <3> QED
      BY <1>2, <3>2, <3>3 DEF ReplayInv, SealedOK, SenderOK
  <2>2. CASE EncryptPassthrough \/ Quiet
    <3> DEFINE g == [sealed |-> FALSE, at |-> now]
    <3>1. g.sealed = FALSE /\ g.at \in Nat
      BY DEF ReplayInv, ClocksOK
    <3>2. \A f \in net' : f \in net \/ f = g
      BY <2>2 DEF EncryptPassthrough, Quiet, Send
    <3> HIDE DEF g
    <3> QED
      BY <1>2, <3>1, <3>2 DEF ReplayInv, SealedOK, SenderOK
  <2> QED
    BY <2>1, <2>2
<1>5. HeardOK' /\ Good(managers, heard, Reached, repeated)' /\ NoReplay'
  BY <1>1, <1>3 DEF ReplayInv, HeardOK, NoReplay, Good
<1> QED
  BY <1>3, <1>4, <1>5 DEF ReplayInv

(* A frame arrives, for the first time or again.                           *)
LEMMA DecryptKeepsInv ==
  ASSUME ChannelAssumption, ReplayInv, NEW f \in net, Decrypt(f)
  PROVE  ReplayInv'
<1>1. UNCHANGED <<now, sender, net, allowPassThroughUntil, offers, sending, receiving, due,
                  repeated, outOfStep>>
  BY DEF Decrypt, transition
<1>2. ClocksOK' /\ TransitionOK' /\ SenderOK' /\ SealedOK' /\ Reached' = Reached
  BY <1>1, SameEpochs DEF ReplayInv, ClocksOK, TransitionOK, SenderOK, SealedOK, ClientOK,
     Reached, EpochAt
<1>3. Good(Unexpired, heard, Reached, repeated)
  BY UnexpiredGood DEF ReplayInv
<1>4. CASE f.sealed
  <2> DEFINE results == Results(Unexpired, f)
             id == IF Decrypted(results) THEN {IdOf(f)} ELSE {}
  <2>1. /\ managers' = Tried(Unexpired, results)
        /\ heard' = heard \cup id /\ twice' = twice \cup (id \cap heard)
    BY <1>4 DEF Decrypt
  <2>2. f.key \in Nat \X Nat /\ f.nonce \in Nat
    <3>1. \A g \in net : g.sealed => g.key \in Nat \X Nat /\ g.nonce \in Nat
      BY DEF ReplayInv, SealedOK
    <3> QED
      BY <1>4, <3>1
  <2>3. /\ Good(Tried(Unexpired, results), heard \cup id, Reached, repeated)
        /\ \A h \in id \cap heard : h[1] \in repeated
        /\ \A h \in id : h[1] \in Nat /\ h[1] <= Reached
    BY <1>3, <2>2, TriedGood
  <2> HIDE DEF id, results
  <2>4. Good(managers', heard', Reached', repeated')
    BY <1>1, <1>2, <2>1, <2>3
  <2>5. Good(managers, heard, Reached, repeated)'
    BY <2>4 DEF Good
  <2>6. HeardOK' /\ NoReplay'
    BY <1>1, <1>2, <2>1, <2>3 DEF ReplayInv, HeardOK, NoReplay
  <2> QED
    BY <1>2, <2>5, <2>6 DEF ReplayInv
<1>5. CASE ~f.sealed
  <2>1. managers' \in {managers, Unexpired} /\ heard' = heard /\ twice' = twice
    BY <1>5 DEF Decrypt, history
  <2>2. Good(managers', heard', Reached', repeated')
    BY <1>1, <1>2, <1>3, <2>1 DEF ReplayInv
  <2>3. Good(managers, heard, Reached, repeated)' /\ HeardOK' /\ NoReplay'
    BY <1>1, <1>2, <2>1, <2>2 DEF ReplayInv, HeardOK, NoReplay, Good
  <2> QED
    BY <1>2, <2>3 DEF ReplayInv
<1> QED
  BY <1>4, <1>5

(* One more at the end of a list.                                          *)
LEMMA AppendedList ==
  ASSUME NEW T, NEW old \in Seq(T), NEW e \in T
  PROVE  /\ Append(old, e) \in Seq(T) /\ DOMAIN Append(old, e) = 1 .. Len(old) + 1
         /\ \A i \in 1 .. Len(old) : Append(old, e)[i] = old[i]
         /\ Append(old, e)[Len(old) + 1] = e
OBVIOUS

(* Preparation lets every manager expire, and adds one that does not for   *)
(* the ratchet, if there is one.                                           *)
LEMMA PreparedManagers ==
  ASSUME ReplayInv, PrepareRatchet, NEW e, e = receiving'.session
  PROVE  LET n == Len(managers) IN
           /\ n \in Nat /\ DOMAIN managers = 1 .. n
           /\ DOMAIN managers' = 1 .. (IF e = NoRatchet THEN n ELSE n + 1)
           /\ \A i \in 1 .. n :
                managers'[i] = [managers[i] EXCEPT !.expiry = now + TransitionExpiry]
           /\ e # NoRatchet => managers'[n + 1] = NewManager(e, now)
           /\ \E S : managers' \in Seq(S)
<1> DEFINE n == Len(managers)
           old == ExpireAll
           fresh == NewManager(e, now)
           T == {old[i] : i \in 1 .. n} \cup {fresh}
<1>1. managers' = IF e = NoRatchet THEN old ELSE Append(old, fresh)
  BY DEF PrepareRatchet
<1>2. n \in Nat /\ DOMAIN managers = 1 .. n
  BY DEF ReplayInv, Good
<1>3. old = [i \in 1 .. n |-> [managers[i] EXCEPT !.expiry = now + TransitionExpiry]]
  BY <1>2 DEF ExpireAll
<1>4. old = [i \in 1 .. n |-> old[i]] /\ fresh \in T /\ \A i \in 1 .. n : old[i] \in T
  BY <1>3
<1>5. \A i \in 1 .. n : old[i] = [managers[i] EXCEPT !.expiry = now + TransitionExpiry]
  BY <1>3
<1> HIDE DEF old, fresh, T
<1>6. old \in Seq(T) /\ Len(old) = n /\ DOMAIN old = 1 .. n
  BY <1>2, <1>4
<1>7. CASE e # NoRatchet
  <2>1. /\ DOMAIN managers' = 1 .. n + 1 /\ managers'[n + 1] = fresh
        /\ managers' \in Seq(T) /\ \A i \in 1 .. n : managers'[i] = old[i]
    BY <1>1, <1>4, <1>6, <1>7, AppendedList
  <2> QED
    BY <1>2, <1>5, <1>7, <2>1 DEF fresh
<1>8. CASE e = NoRatchet
  BY <1>1, <1>2, <1>5, <1>6, <1>8
<1> QED
  BY <1>7, <1>8

(* What the receiver is given is the next epoch's ratchet or, if the offer *)
(* is of no new epoch, the one it has, if it has one.                      *)
LEMMA PreparedRatchet ==
  ASSUME ChannelAssumption, ReplayInv, PrepareRatchet
  PROVE  /\ ClocksOK' /\ TransitionOK' /\ SenderOK' /\ SealedOK'
         /\ Reached \in Nat /\ Reached' \in Nat /\ Reached <= Reached'
         /\ IF Fresh(receiving.at + 1)
            THEN /\ receiving'.session = Reached' /\ Reached' = Reached + 1
                 /\ repeated' = repeated /\ outOfStep' = outOfStep
            ELSE /\ receiving'.session \in {NoRatchet, Reached} /\ Reached' = Reached
                 /\ repeated' = repeated \cup {receiving'.session} /\ outOfStep' = TRUE
<1> DEFINE i == receiving.at + 1
           d == Prepared(receiving)
<1>1. /\ receiving.at < Len(offers) /\ receiving' = d
      /\ UNCHANGED <<now, sender, net, offers, sending>>
      /\ due' = Due(i)
      /\ allowPassThroughUntil' = Earlier(allowPassThroughUntil, now + TransitionExpiry)
      /\ IF Fresh(i) THEN repeated' = repeated /\ outOfStep' = outOfStep
         ELSE repeated' = repeated \cup {receiving'.session} /\ outOfStep' = TRUE
  BY DEF PrepareRatchet
<1>2. OffersOK /\ ClientOK(receiving)
  BY DEF ReplayInv, TransitionOK
<1>3. /\ ClientOK(d) /\ d.at = i /\ i \in 1 .. Len(offers)
      /\ EpochAt(receiving.at) \in Nat /\ EpochAt(i) \in Nat
      /\ EpochAt(receiving.at) <= EpochAt(i) /\ EpochAt(i) <= EpochAt(receiving.at) + 1
      /\ IF Fresh(i) THEN d.session = EpochAt(i) /\ EpochAt(receiving.at) < EpochAt(i)
         ELSE d.session = receiving.session /\ EpochAt(i) = EpochAt(receiving.at)
  BY <1>1, <1>2, PreparedClient
<1> HIDE DEF d, i
<1>4. /\ now \in Nat /\ due \in Nat /\ allowPassThroughUntil \in Nat
      /\ now + TransitionExpiry \in Nat /\ now + MaxExecuteDelay \in Nat
  BY DEF ReplayInv, ClocksOK, ChannelAssumption
<1>5. ClocksOK'
  <2>1. due' \in Nat /\ allowPassThroughUntil' \in Nat
    BY <1>1, <1>4 DEF Due, Earlier
  <2> QED
    BY <1>1, <1>4, <2>1 DEF ClocksOK
<1>6. SenderOK' /\ SealedOK'
  BY <1>1 DEF ReplayInv, SenderOK, SealedOK
<1>7. Reached' = EpochAt(i) /\ Reached = EpochAt(receiving.at)
  BY <1>1, <1>3 DEF Reached, EpochAt
<1>8. receiving.session \in {NoRatchet, EpochAt(receiving.at)} /\ receiving.session \in Nat
  BY <1>2 DEF ClientOK
<1>9. TransitionOK'
  <2>1. OffersOK'
    BY <1>1, <1>2, SameEpochs
  <2>2. ClientOK(sending)' /\ sender'.epoch <= EpochAt(sending.at)'
    BY <1>1 DEF ReplayInv, TransitionOK, ClientOK, EpochAt
  <2>3. ClientOK(receiving)'
    BY <1>1, <1>3 DEF ClientOK, EpochAt
  <2>4. repeated' \subseteq Nat /\ outOfStep' \in BOOLEAN
    BY <1>1, <1>3, <1>8 DEF ReplayInv, TransitionOK
  <2> QED
    BY <2>1, <2>2, <2>3, <2>4 DEF TransitionOK
<1>10. CASE Fresh(i)
  <2>1. EpochAt(i) = EpochAt(receiving.at) + 1
    <3>1. PICK a \in Nat, b \in Nat : a = EpochAt(receiving.at) /\ b = EpochAt(i)
      BY <1>3
    <3>2. a < b /\ b <= a + 1
      BY <1>3, <1>10, <3>1
    <3> QED
      BY <3>1, <3>2
  <2> QED
    BY <1>1, <1>3, <1>5, <1>6, <1>7, <1>9, <1>10, <2>1 DEF i
<1>11. CASE ~Fresh(i)
  BY <1>1, <1>3, <1>5, <1>6, <1>7, <1>8, <1>9, <1>11 DEF i
<1> QED
  BY <1>10, <1>11

(* The receiver is given a ratchet: of an epoch nobody had before, or one  *)
(* that it had.                                                            *)
LEMMA PrepareRatchetKeepsInv ==
  ASSUME ChannelAssumption, ReplayInv, PrepareRatchet
  PROVE  ReplayInv'
<1>0. PICK e : e = receiving'.session
  OBVIOUS
<1> DEFINE n == Len(managers)
           fresh == NewManager(e, now)
<1>1. /\ ClocksOK' /\ TransitionOK' /\ SenderOK' /\ SealedOK'
      /\ Reached \in Nat /\ Reached' \in Nat /\ Reached <= Reached'
      /\ \/ e = Reached' /\ Reached' = Reached + 1 /\ repeated' = repeated
         \/ e \in {NoRatchet, Reached} /\ Reached' = Reached /\ repeated' = repeated \cup {e}
  BY <1>0, PreparedRatchet
<1>2. heard' = heard /\ twice' = twice
  BY DEF PrepareRatchet, history
<1>3. NoReplay'
  BY <1>1, <1>2 DEF ReplayInv, NoReplay
<1>4. HeardOK'
  <2>1. ASSUME NEW id \in heard PROVE id[1] \in Nat /\ id[1] <= Reached'
    <3>1. id[1] \in Nat /\ id[1] <= Reached
      BY DEF ReplayInv, HeardOK
    <3> QED
      BY <1>1, <3>1
  <2> QED
    BY <1>2, <2>1 DEF HeardOK
<1>5. /\ n \in Nat /\ DOMAIN managers = 1 .. n
      /\ DOMAIN managers' = 1 .. (IF e = NoRatchet THEN n ELSE n + 1)
      /\ \A i \in 1 .. n : managers'[i] = [managers[i] EXCEPT !.expiry = now + TransitionExpiry]
      /\ e # NoRatchet => managers'[n + 1] = fresh
      /\ \E T : managers' \in Seq(T)
  BY <1>0, PreparedManagers
<1>6. ASSUME NEW i \in 1 .. n
      PROVE  /\ managers'[i].epoch = managers[i].epoch
             /\ managers[i].epoch \in Nat \ {0} /\ managers[i].epoch <= Reached
             /\ Window(managers'[i], {})
             /\ managers[i].epoch \notin repeated =>
                  Window(managers'[i], Heard(heard, managers[i].epoch))
  <2>1. /\ managers[i].epoch \in Nat \ {0} /\ managers[i].epoch <= Reached
        /\ Window(managers[i], {})
        /\ managers[i].epoch \notin repeated =>
             Window(managers[i], Heard(heard, managers[i].epoch))
    BY <1>5 DEF ReplayInv, Good
  <2>2. IsManager(managers'[i]) /\ SameWindow(managers[i], managers'[i])
    BY <1>5, <2>1 DEF Window, IsManager, Fields, SameWindow
  <2> QED
    BY <2>1, <2>2, WindowOfSame DEF SameWindow
<1>7. /\ fresh.epoch = e /\ Window(fresh, {})
      /\ e \notin repeated' => Window(fresh, Heard(heard, e)) /\ Reached < e
  <2>1. fresh.epoch = e /\ Window(fresh, {})
    BY DEF NewManager, Window, IsManager, Fields, NoNonce
  <2>2. ASSUME e \notin repeated' PROVE Heard(heard, e) = {} /\ Reached < e
    <3>1. e = Reached + 1
      BY <1>1, <2>2
    <3> QED
      BY <1>1, <3>1 DEF ReplayInv, HeardOK, Heard
  <2> QED
    BY <2>1, <2>2
<1> HIDE DEF n, fresh
<1>8. \A i \in DOMAIN managers' :
        \/ i \in 1 .. n
        \/ i = n + 1 /\ e # NoRatchet /\ managers'[i] = fresh /\ i \notin 1 .. n
  <2>1. CASE e = NoRatchet
    BY <1>5, <2>1
  <2>2. CASE e # NoRatchet
    BY SMTT(30), <1>5, <2>2
  <2> QED
    BY <2>1, <2>2
<1>9. e # NoRatchet => e \in Nat \ {0} /\ e <= Reached'
  BY <1>1 DEF NoRatchet
<1>10. repeated \subseteq repeated'
  BY <1>1
<1>11. ASSUME NEW i \in DOMAIN managers'
       PROVE  /\ managers'[i].epoch \in Nat \ {0} /\ managers'[i].epoch <= Reached'
              /\ Window(managers'[i], {})
              /\ managers'[i].epoch \notin repeated' =>
                   Window(managers'[i], Heard(heard, managers'[i].epoch))
  <2>1. CASE i \in 1 .. n
    <3>1. /\ managers'[i].epoch \in Nat \ {0} /\ managers'[i].epoch <= Reached
          /\ Window(managers'[i], {})
          /\ managers'[i].epoch \notin repeated =>
               Window(managers'[i], Heard(heard, managers'[i].epoch))
      BY <1>6, <2>1
    <3> QED
      BY <1>1, <1>10, <3>1
  <2>2. CASE i = n + 1 /\ e # NoRatchet /\ managers'[i] = fresh
    BY <1>7, <1>9, <2>2
  <2> QED
    BY <1>8, <2>1, <2>2
<1>12. ASSUME NEW i \in DOMAIN managers', NEW j \in DOMAIN managers', i # j,
              managers'[i].epoch \notin repeated'
       PROVE  managers'[i].epoch # managers'[j].epoch
  <2>1. \A k \in 1 .. n :
          /\ managers'[k].epoch = managers[k].epoch
          /\ managers[k].epoch \in Nat /\ managers[k].epoch <= Reached
    BY <1>6
  <2>2. \A k, l \in 1 .. n :
          k # l /\ managers[k].epoch \notin repeated => managers[k].epoch # managers[l].epoch
    BY <1>5 DEF ReplayInv, Good
  <2>3. CASE i \in 1 .. n /\ j \in 1 .. n
    BY <1>10, <1>12, <2>1, <2>2, <2>3
  <2>4. ASSUME NEW k \in 1 .. n, e \in Nat, e \notin repeated' PROVE managers[k].epoch # e
    BY <1>1, <1>7, <2>1, <2>4
  <2>5. CASE i \in 1 .. n /\ managers'[j] = fresh /\ e # NoRatchet
    BY <1>7, <1>9, <1>12, <2>1, <2>4, <2>5
  <2>6. CASE j \in 1 .. n /\ managers'[i] = fresh /\ e # NoRatchet
    BY <1>7, <1>9, <1>12, <2>1, <2>4, <2>6
  <2> QED
    BY <1>8, <1>12, <2>3, <2>5, <2>6
<1>13. Good(managers, heard, Reached, repeated)'
  <2>1. Good(managers', heard, Reached', repeated')
    BY <1>5, <1>11, <1>12 DEF Good
  <2> QED
    BY <1>2, <2>1 DEF Good
<1> QED
  BY <1>1, <1>3, <1>4, <1>13 DEF ReplayInv

LEMMA AtMost ==
  ASSUME NEW a \in Nat, NEW b \in Nat, NEW c \in Nat, a <= b, b <= c
  PROVE  a <= c /\ 0 <= c /\ c <= c
OBVIOUS

(* The steps of the server and of the two clients that give the receiver   *)
(* no ratchet: it stays in the epoch it has come to.                       *)
ClientStep ==
  \/ Offer \/ PrepareEpoch \/ PreparePassthrough \/ PrepareTransition
  \/ \E i \in DOMAIN offers : Execute(i) \/ ReceiverExecute(i)

LEMMA ClientSteps ==
  ASSUME ChannelAssumption, ReplayInv, ClientStep
  PROVE  /\ TransitionOK' /\ ClocksOK' /\ SenderOK' /\ Reached' = Reached
         /\ UNCHANGED <<now, net, managers, repeated, heard, twice>>
<1>1. /\ OffersOK /\ ClientOK(sending) /\ ClientOK(receiving) /\ ClocksOK /\ SenderOK
      /\ sender.epoch <= EpochAt(sending.at) /\ sender.epoch \in Nat
      /\ repeated \subseteq Nat /\ outOfStep \in BOOLEAN
  BY DEF ReplayInv, TransitionOK, SenderOK, SenderType
<1>2. UNCHANGED <<now, net, managers, repeated, heard, twice>>
  BY DEF ClientStep, Offer, PrepareEpoch, PreparePassthrough, PrepareTransition, Execute,
     ReceiverExecute, SetUp, decryptor, history
<1>3. /\ sending.at \in 0 .. Len(offers) /\ receiving.at \in 0 .. Len(offers)
      /\ EpochAt(sending.at) \in Nat /\ Len(offers) \in Nat
  <2>1. sending.at \in 0 .. Len(offers) /\ receiving.at \in 0 .. Len(offers)
    BY <1>1 DEF ClientOK
  <2>2. Len(offers) \in Nat /\ \A i \in 0 .. Len(offers) : EpochAt(i) \in Nat
    BY <1>1 DEF OffersOK
  <2> QED
    BY <2>1, <2>2
<1>4. CASE Offer
  <2>1. /\ OffersOK' /\ Len(offers') = Len(offers) + 1
        /\ \A i \in 0 .. Len(offers) : EpochAt(i)' = EpochAt(i)
    BY <1>1, <1>4, OfferKeepsEpochs
  <2>2. UNCHANGED <<now, sender, due, allowPassThroughUntil, sending, receiving, outOfStep>>
    BY <1>4 DEF Offer, decryptor
  <2>3. EpochAt(sending.at)' = EpochAt(sending.at) /\ EpochAt(receiving.at)' = EpochAt(receiving.at)
    <3>1. PICK s \in 0 .. Len(offers), r \in 0 .. Len(offers) :
            s = sending.at /\ r = receiving.at
      BY <1>3
    <3>2. sending'.at = s /\ receiving'.at = r
      BY <2>2, <3>1
    <3>3. EpochAt(s)' = EpochAt(s) /\ EpochAt(r)' = EpochAt(r)
      BY <2>1
    <3> QED
      BY <3>1, <3>2, <3>3 DEF EpochAt
  <2>4. 0 .. Len(offers) \subseteq 0 .. Len(offers') /\ 1 .. Len(offers) \subseteq 1 .. Len(offers')
    <3>1. PICK n \in Nat : n = Len(offers) /\ n + 1 = Len(offers')
      BY <1>3, <2>1
    <3>2. 0 .. n \subseteq 0 .. n + 1 /\ 1 .. n \subseteq 1 .. n + 1
      OBVIOUS
    <3> QED
      BY <3>1, <3>2
  <2>5. ClientOK(sending)' /\ ClientOK(receiving)'
    <3>1. ASSUME NEW c, ClientOK(c)
          PROVE  c \in [at : 0 .. Len(offers'), session : Nat,
                        prepared : SUBSET (1 .. Len(offers'))]
      BY <2>4, <3>1 DEF ClientOK
    <3>2. /\ sending.session \in {NoRatchet, EpochAt(sending.at)}
          /\ receiving.session \in {NoRatchet, EpochAt(receiving.at)}
          /\ (\A i \in sending.prepared : i <= sending.at)
          /\ \A i \in receiving.prepared : i <= receiving.at
      BY <1>1 DEF ClientOK
    <3> QED
      BY <1>1, <2>2, <2>3, <3>1, <3>2 DEF ClientOK, NoRatchet
  <2>6. TransitionOK' /\ ClocksOK' /\ SenderOK' /\ Reached' = Reached
    BY <1>1, <1>2, <2>1, <2>2, <2>3, <2>5 DEF TransitionOK, ClocksOK, SenderOK, Reached
  <2> QED
    BY <1>2, <2>6
<1>5. ASSUME offers' = offers, NEW c, ClientOK(c), NEW d, ClientOK(d),
             sending' = c, receiving' = d, EpochAt(d.at) = EpochAt(receiving.at),
             sender' \in SenderType, sender'.epoch <= EpochAt(c.at),
             due' \in Nat, allowPassThroughUntil' \in Nat, outOfStep' \in BOOLEAN
      PROVE  TransitionOK' /\ ClocksOK' /\ SenderOK' /\ Reached' = Reached
  <2>1. OffersOK'
    BY <1>1, <1>5, SameEpochs
  <2>2. ClientOK(sending)' /\ ClientOK(receiving)'
    BY <1>5 DEF ClientOK, EpochAt
  <2>3. Reached' = Reached /\ sender'.epoch <= EpochAt(sending.at)'
    BY <1>5 DEF Reached, EpochAt
  <2> QED
    BY <1>1, <1>2, <1>5, <2>1, <2>2, <2>3 DEF TransitionOK, ClocksOK, SenderOK
<1>6. /\ sender \in SenderType /\ due \in Nat /\ allowPassThroughUntil \in Nat /\ now \in Nat
  BY <1>1 DEF SenderOK, ClocksOK
<1>7. CASE PrepareEpoch
  <2>1. /\ UNCHANGED <<sender, due, allowPassThroughUntil, offers, outOfStep>>
        /\ sending' \in {sending, Initialised(sending)}
        /\ receiving' \in {receiving, Initialised(receiving)}
    BY <1>7 DEF PrepareEpoch, decryptor
  <2>2. /\ ClientOK(Initialised(sending)) /\ Initialised(sending).at = sending.at
        /\ ClientOK(Initialised(receiving)) /\ Initialised(receiving).at = receiving.at
    BY <1>1, InitialisedClient
  <2>3. /\ ClientOK(sending') /\ EpochAt(sending'.at) = EpochAt(sending.at)
        /\ ClientOK(receiving') /\ EpochAt(receiving'.at) = EpochAt(receiving.at)
    BY <1>1, <2>1, <2>2
  <2>4. PICK c, d : c = sending' /\ d = receiving'
    OBVIOUS
  <2> QED
    BY <1>1, <1>2, <1>5, <1>6, <2>1, <2>3, <2>4
<1>8. CASE PreparePassthrough
  <2> DEFINE i == receiving.at + 1
  <2>1. /\ UNCHANGED <<sender, offers, sending, outOfStep>> /\ receiving' = Prepared(receiving)
        /\ receiving.at < Len(offers) /\ offers[i].version = 0
        /\ due' = Due(i) /\ allowPassThroughUntil' = Forever
    BY <1>8 DEF PreparePassthrough
  <2>2. ClientOK(Prepared(receiving)) /\ EpochAt(Prepared(receiving).at) = EpochAt(receiving.at)
    <3>1. /\ ClientOK(Prepared(receiving)) /\ Prepared(receiving).at = i
          /\ (Fresh(i) => offers[i].version = 1)
          /\ (~Fresh(i) => EpochAt(i) = EpochAt(receiving.at))
      BY <1>1, <2>1, PreparedClient
    <3> QED
      BY <2>1, <3>1
  <2>3. due' \in Nat /\ allowPassThroughUntil' \in Nat
    BY SMTT(30), <1>6, <2>1 DEF Due, Earlier, ChannelAssumption
  <2> QED
    BY <1>1, <1>2, <1>5, <1>6, <2>1, <2>2, <2>3
<1>9. CASE PrepareTransition
  <2> DEFINE i == sending.at + 1
  <2>1. sending.at < Len(offers) /\ sending' = Prepared(sending) /\ UNCHANGED <<offers, receiving>>
    BY <1>9 DEF PrepareTransition, SetUp
  <2>2. PICK c : c = Prepared(sending)
    OBVIOUS
  <2>3. /\ ClientOK(c) /\ c.at = i /\ EpochAt(sending.at) <= EpochAt(i) /\ EpochAt(i) \in Nat
    BY <1>1, <2>1, <2>2, PreparedClient
  <2>4. c.session \in {NoRatchet, EpochAt(i)} /\ c.session \in Nat
    BY <2>3 DEF ClientOK
  <2> HIDE DEF i
  <2>5. CASE offers[i].atOnce
    <3>1. SetUp(i, c.session)
      BY <1>9, <2>1, <2>2, <2>3, <2>5 DEF PrepareTransition
    <3>2. /\ sender' \in SenderType /\ due' \in Nat /\ outOfStep' \in BOOLEAN
          /\ allowPassThroughUntil' = allowPassThroughUntil
          /\ sender'.epoch \in {sender.epoch, c.session}
      BY <1>1, <2>4, <3>1, SetUpSender DEF SenderOK
    <3>3. sender'.epoch <= EpochAt(i)
      BY <1>1, <1>3, <2>3, <2>4, <3>2, AtMost DEF NoRatchet
    <3> QED
      BY <1>1, <1>2, <1>5, <1>6, <2>1, <2>2, <2>3, <3>2, <3>3
  <2>6. CASE ~offers[i].atOnce
    <3>1. UNCHANGED <<sender, due, allowPassThroughUntil, outOfStep>>
      BY <1>9, <2>1, <2>2, <2>3, <2>6 DEF PrepareTransition, decryptor
    <3>2. sender'.epoch <= EpochAt(i)
      BY <1>1, <1>3, <2>3, <3>1, AtMost
    <3> QED
      BY <1>1, <1>2, <1>5, <1>6, <2>1, <2>2, <2>3, <3>1, <3>2
  <2> QED
    BY <2>5, <2>6
<1>10. ASSUME NEW i \in DOMAIN offers, Execute(i)
       PROVE  TransitionOK' /\ ClocksOK' /\ SenderOK' /\ Reached' = Reached
  <2>1. PICK c : c = Executed(sending, i)
    OBVIOUS
  <2>2. sending' = c /\ SetUp(i, c.session) /\ UNCHANGED <<offers, receiving>>
    BY <1>10, <2>1 DEF Execute, SetUp
  <2>3. /\ ClientOK(c) /\ c.at = sending.at
        /\ c.session = IF offers[i].version = 0 THEN NoRatchet ELSE sending.session
    BY <1>1, <2>1, ExecutedClient
  <2>4. c.session \in {NoRatchet, EpochAt(sending.at)} /\ c.session \in Nat
    BY <2>3 DEF ClientOK
  <2>5. /\ sender' \in SenderType /\ due' \in Nat /\ outOfStep' \in BOOLEAN
        /\ allowPassThroughUntil' = allowPassThroughUntil
        /\ sender'.epoch \in {sender.epoch, c.session}
    BY <1>1, <2>2, <2>4, SetUpSender DEF SenderOK
  <2>6. sender'.epoch <= EpochAt(c.at)
    <3>1. \A a \in Nat : 0 <= a /\ a <= a
      OBVIOUS
    <3> QED
      BY <1>1, <1>3, <2>3, <2>4, <2>5, <3>1 DEF NoRatchet
  <2> QED
    BY <1>1, <1>2, <1>5, <1>6, <2>2, <2>3, <2>5, <2>6
<1>11. ASSUME NEW i \in DOMAIN offers, ReceiverExecute(i)
       PROVE  TransitionOK' /\ ClocksOK' /\ SenderOK' /\ Reached' = Reached
  <2>1. /\ receiving' = Executed(receiving, i)
        /\ UNCHANGED <<sender, due, allowPassThroughUntil, offers, sending, outOfStep>>
    BY <1>11 DEF ReceiverExecute, decryptor
  <2>2. ClientOK(Executed(receiving, i)) /\ Executed(receiving, i).at = receiving.at
    BY <1>1, ExecutedClient
  <2> QED
    BY <1>1, <1>2, <1>5, <1>6, <2>1, <2>2
<1> QED
  BY <1>2, <1>4, <1>7, <1>8, <1>9, <1>10, <1>11 DEF ClientStep

LEMMA ClientStepKeepsInv ==
  ASSUME ChannelAssumption, ReplayInv, ClientStep
  PROVE  ReplayInv'
<1>1. /\ TransitionOK' /\ ClocksOK' /\ SenderOK' /\ Reached' = Reached
      /\ UNCHANGED <<now, net, managers, repeated, heard, twice>>
  BY ClientSteps
<1>2. SealedOK' /\ HeardOK' /\ NoReplay'
  BY <1>1 DEF ReplayInv, SealedOK, HeardOK, NoReplay
<1>3. Good(managers', heard', Reached', repeated')
  BY <1>1 DEF ReplayInv
<1>4. Good(managers, heard, Reached, repeated)'
  BY <1>3 DEF Good
<1> QED
  BY <1>1, <1>2, <1>4 DEF ReplayInv

-----------------------------------------------------------------------------
(* ReplayInv holds: what managers, network and sender look like.           *)
THEOREM ChannelInvariant == Spec => []ReplayInv
<1>1. ASSUME Init PROVE ReplayInv
  <2>1. Good(managers, heard, Reached, repeated)
    <3>1. managers \in Seq({}) /\ DOMAIN managers = {}
      BY <1>1 DEF Init
    <3> QED
      BY <3>1 DEF Good
  <2>2. ClocksOK /\ SealedOK /\ HeardOK /\ NoReplay /\ SenderOK
    BY <1>1, ChannelAssumption DEF Init, ClocksOK, SenderOK, SenderType, SealedOK, HeardOK,
       NoReplay, ChannelAssumption, NoRatchet
  <2>3. offers = <<>> /\ Len(offers) = 0 /\ EpochAt(0) = 0
    BY <1>1 DEF Init, EpochAt, NoRatchet
  <2>4. OffersOK
    BY <2>3 DEF OffersOK
  <2>5. ClientOK(sending) /\ ClientOK(receiving) /\ sender.epoch <= EpochAt(sending.at)
    BY <1>1, <2>3 DEF Init, ClientOK, NoRatchet
  <2>6. repeated \subseteq Nat /\ outOfStep \in BOOLEAN
    BY <1>1 DEF Init
  <2> QED
    BY <2>1, <2>2, <2>4, <2>5, <2>6 DEF ReplayInv, TransitionOK
<1>2. ASSUME ReplayInv, [Next]_vars PROVE ReplayInv'
  <2>1. CASE Encrypt \/ EncryptPassthrough \/ Quiet
    BY <1>2, <2>1, ChannelAssumption, SendKeepsInv
  <2>2. CASE \E f \in net : Decrypt(f)
    BY <1>2, <2>2, ChannelAssumption, DecryptKeepsInv
  <2>3. CASE PrepareRatchet
    BY <1>2, <2>3, ChannelAssumption, PrepareRatchetKeepsInv
  <2>4. CASE ClientStep
    BY <1>2, <2>4, ChannelAssumption, ClientStepKeepsInv
  <2>5. CASE UNCHANGED vars
    <3>1. UNCHANGED <<now, sender, net, managers, allowPassThroughUntil, offers, sending,
                      receiving, due, heard, twice, repeated, outOfStep>>
      BY <2>5 DEF vars, decryptor, transition, history
    <3>2. /\ ClocksOK' /\ TransitionOK' /\ SenderOK' /\ SealedOK' /\ HeardOK' /\ NoReplay'
          /\ Reached' = Reached
      BY <1>2, <3>1, SameEpochs DEF ReplayInv, ClocksOK, TransitionOK, SenderOK, SealedOK,
         HeardOK, NoReplay, ClientOK, Reached, EpochAt
    <3>3. Good(managers, heard, Reached, repeated)'
      BY <1>2, <3>1, <3>2 DEF ReplayInv, Good
    <3> QED
      BY <3>2, <3>3 DEF ReplayInv
  <2> QED
    BY <1>2, <2>1, <2>2, <2>3, <2>4, <2>5 DEF Next, ClientStep
<1> QED
  BY <1>1, <1>2, PTL DEF Spec

(* No frame is decrypted twice, whatever is duplicated, reordered or tried *)
(* with the ratchets of several epochs (CanProcessNonce), of no epoch      *)
(* whose ratchet the decryptor was given once.                             *)
THEOREM NoReplayHolds == Spec => []NoReplay
<1>1. ReplayInv => NoReplay
  BY DEF ReplayInv
<1> QED
  BY <1>1, ChannelInvariant, PTL

(* Every variable has its type.                                            *)
THEOREM ChannelTypeCorrect == Spec => []TypeOK
<1>1. ASSUME ReplayInv PROVE TypeOK
  <2>1. /\ now \in Nat /\ due \in Nat /\ allowPassThroughUntil \in Nat
        /\ sender \in [pass : BOOLEAN, epoch : Nat, generation : Nat, nonce : Nat]
    BY <1>1 DEF ReplayInv, ClocksOK, SenderOK, SenderType
  <2>2. /\ offers \in Seq([version : {0, 1}, epoch : Nat, atOnce : BOOLEAN])
        /\ sending \in [at : 0 .. Len(offers), session : Nat, prepared : SUBSET (1 .. Len(offers))]
        /\ receiving
             \in [at : 0 .. Len(offers), session : Nat, prepared : SUBSET (1 .. Len(offers))]
        /\ repeated \subseteq Nat /\ outOfStep \in BOOLEAN
    BY <1>1 DEF ReplayInv, TransitionOK, OffersOK, ClientOK
  <2>3. \A i \in DOMAIN managers : managers[i].epoch \in 1 .. Reached
    <3>1. Reached \in Nat
      BY <1>1 DEF ReplayInv, TransitionOK, OffersOK, ClientOK, Reached
    <3> QED
      BY <1>1, <3>1 DEF ReplayInv, Good
  <2> QED
    BY <1>1, <2>1, <2>2, <2>3 DEF ReplayInv, SealedOK, Reached, TypeOK
<1> QED
  BY <1>1, ChannelInvariant, PTL

-----------------------------------------------------------------------------
(* Nonces.                                                                 *)

(* The sender is in its q-th lap of r generations, s nonces into the last: *)
(* generation and truncated nonce agree on r.                              *)
Lap(x, q, r, s) ==
  /\ q \in Nat /\ r \in 0 .. GenerationWrap - 1 /\ s \in 0 .. NoncesPerGeneration - 1
  /\ x.generation = q * GenerationWrap + r
  /\ x.nonce = r * NoncesPerGeneration + s

NonceInv == \E q, r, s \in Nat : Lap(sender, q, r, s)

(* How far the counter that the two make up has come.                      *)
LEMMA CountOfLap ==
  ASSUME ChannelAssumption, NEW x, NEW q, NEW r, NEW s, Lap(x, q, r, s)
  PROVE  ComputeWrappedBigNonce(x.generation, x.nonce) = x.generation * NoncesPerGeneration + s
<1>1. NoncesPerGeneration \in Nat \ {0} /\ r \in Nat
  BY DEF ChannelAssumption, Lap
<1>2. x.nonce % NoncesPerGeneration = s
  <2>1. (r * NoncesPerGeneration + s) % NoncesPerGeneration = s
    BY <1>1, Division DEF Lap
  <2> QED
    BY <2>1 DEF Lap
<1> QED
  BY <1>2 DEF ComputeWrappedBigNonce

(* The generation that a truncated one means, one generation on at most.   *)
LEMMA NextGeneration ==
  ASSUME ChannelAssumption, NEW q \in Nat, NEW r \in 0 .. GenerationWrap - 1
  PROVE  LET g == q * GenerationWrap + r IN
           /\ ComputeWrappedGeneration(g, r) = g
           /\ r + 1 < GenerationWrap => ComputeWrappedGeneration(g, r + 1) = g + 1
           /\ r + 1 = GenerationWrap => ComputeWrappedGeneration(g, 0) = g + 1
<1> DEFINE g == q * GenerationWrap + r
<1>1. GenerationWrap \in Nat \ {0} /\ GenerationWrap > 1
  BY DEF ChannelAssumption
<1>2. g \div GenerationWrap = q /\ g % GenerationWrap = r
  BY <1>1, Division
<1>3. ASSUME NEW h \in Nat
      PROVE  ComputeWrappedGeneration(g, h)
               = (q + (IF h < r THEN 1 ELSE 0)) * GenerationWrap + h
  BY <1>2 DEF ComputeWrappedGeneration
<1>4. ComputeWrappedGeneration(g, r) = (q + 0) * GenerationWrap + r
  BY <1>1, <1>3
<1>5. ComputeWrappedGeneration(g, r + 1) = (q + 0) * GenerationWrap + (r + 1)
  BY <1>1, <1>3
<1>6. r + 1 = GenerationWrap
        => ComputeWrappedGeneration(g, 0) = (q + 1) * GenerationWrap + 0
  BY <1>1, <1>3
<1>7. (q + 1) * GenerationWrap = q * GenerationWrap + GenerationWrap
  BY <1>1
<1> HIDE DEF g
<1>8. r + 1 = GenerationWrap => ComputeWrappedGeneration(g, 0) = g + 1
  BY <1>1, <1>6, <1>7 DEF g
<1>9. ComputeWrappedGeneration(g, r) = g /\ ComputeWrappedGeneration(g, r + 1) = g + 1
  BY <1>1, <1>4, <1>5 DEF g
<1> QED
  BY <1>8, <1>9 DEF g

(* NextNonce takes the counter k nonces on, also across the wrap.          *)
LEMMA NextNonceAdvances ==
  ASSUME ChannelAssumption, NEW x \in SenderType,
         NEW q, NEW r, NEW s, Lap(x, q, r, s), NEW k \in 1 .. NoncesPerGeneration
  PROVE  LET y == NextNonce(x, k) IN
           /\ \E u, v, w \in Nat : Lap(y, u, v, w)
           /\ ComputeWrappedBigNonce(y.generation, y.nonce)
                = ComputeWrappedBigNonce(x.generation, x.nonce) + k
<1> DEFINE N == NoncesPerGeneration
           W == GenerationWrap
           y == NextNonce(x, k)
           n == (x.nonce + k) % (W * N)
           Advanced == /\ \E u, v, w \in Nat : Lap(y, u, v, w)
                       /\ ComputeWrappedBigNonce(y.generation, y.nonce)
                            = ComputeWrappedBigNonce(x.generation, x.nonce) + k
<1>1. N \in Nat \ {0} /\ W \in Nat \ {0} /\ W > 1
  BY DEF ChannelAssumption
<1>2. /\ q \in Nat /\ r \in 0 .. W - 1 /\ s \in 0 .. N - 1
      /\ x.generation = q * W + r /\ x.nonce = r * N + s
  BY DEF Lap
<1>3. y.nonce = n /\ y.generation = ComputeWrappedGeneration(x.generation, n \div N)
  BY DEF NextNonce
<1>4. ComputeWrappedBigNonce(x.generation, x.nonce) = x.generation * N + s
  BY CountOfLap
<1> HIDE DEF y, n, N, W, Advanced
<1>5. ASSUME NEW u \in Nat, NEW v \in 0 .. W - 1, NEW t \in 0 .. N - 1,
             n = v * N + t, y.generation = u * W + v,
             (u * W + v) * N + t = (q * W + r) * N + s + k
      PROVE  Advanced
  <2>1. Lap(y, u, v, t)
    BY <1>3, <1>5 DEF Lap, N, W
  <2>2. ComputeWrappedBigNonce(y.generation, y.nonce) = y.generation * N + t
    BY <2>1, CountOfLap DEF N
  <2>3. v \in Nat /\ t \in Nat
    BY <1>1
  <2> QED
    BY <1>2, <1>4, <1>5, <2>1, <2>2, <2>3 DEF Advanced
<1>6. ASSUME s + k < N PROVE Advanced
  <2>1. x.nonce + k = r * N + (s + k) /\ s + k \in 0 .. N - 1
    BY <1>1, <1>2, <1>6 DEF N
  <2>2. n = r * N + (s + k)
    <3>1. (r * N + (s + k)) % (W * N) = r * N + (s + k)
      BY <1>1, <1>2, <2>1, Below
    <3> QED
      BY <2>1, <3>1 DEF n
  <2>3. n \div N = r
    <3>1. r \in Nat
      BY <1>1, <1>2
    <3>2. (r * N + (s + k)) \div N = r
      BY <1>1, <2>1, <3>1, Division
    <3> QED
      BY <2>2, <3>2
  <2>4. y.generation = q * W + r
    BY <1>2, <1>3, <2>3, NextGeneration DEF W
  <2>5. (q * W + r) * N + (s + k) = (q * W + r) * N + s + k
    <3>1. (q * W + r) * N \in Int /\ k \in Int /\ s \in Int
      BY <1>1, <1>2
    <3> QED
      BY <3>1
  <2> QED
    BY <1>2, <1>5, <2>1, <2>2, <2>4, <2>5, Zenon
<1>7. ASSUME ~(s + k < N) PROVE Advanced
  <2> DEFINE t == s + k - N
  <2>1. t \in 0 .. N - 1 /\ x.nonce + k = r * N + N + t
    BY <1>1, <1>2, <1>7 DEF N
  <2>2. (q * W + (r + 1)) * N + t = (q * W + r) * N + s + k
    <3> DEFINE g == q * W + r
    <3>1. g \in Int /\ g + 1 = q * W + (r + 1)
      BY <1>1, <1>2
    <3> HIDE DEF g
    <3>2. (g + 1) * N = g * N + N /\ g * N \in Int
      <4>1. N \in Int
        BY <1>1
      <4> QED
        BY <3>1, <4>1
    <3>3. (g + 1) * N + t = g * N + s + k
      BY <1>1, <1>2, <3>2
    <3> QED
      BY <3>1, <3>3 DEF g
  <2>3. r * N + N = (r + 1) * N
    BY <1>1, <1>2
  <2> HIDE DEF t
  <2>4. CASE r + 1 < W
    <3>1. r + 1 \in 0 .. W - 1
      BY <1>1, <1>2, <2>4
    <3>2. /\ ((r + 1) * N + t) % (W * N) = (r + 1) * N + t
          /\ ((r + 1) * N + t) \div N = r + 1
      <4> DEFINE v == r + 1
      <4>1. v \in Nat /\ v \in 0 .. W - 1 /\ W \in Nat
        BY <1>1, <3>1
      <4> HIDE DEF v
      <4>2. (v * N + t) % (W * N) = v * N + t
        BY <1>1, <2>1, <4>1, Below
      <4>3. (v * N + t) \div N = v
        BY <1>1, <2>1, <4>1, Division
      <4> QED
        BY <4>2, <4>3 DEF v
    <3>3. n = (r + 1) * N + t
      BY <2>1, <2>3, <3>2 DEF n
    <3>4. y.generation = q * W + (r + 1)
      <4>1. y.generation = (q * W + r) + 1
        BY <1>2, <1>3, <2>4, <3>2, <3>3, NextGeneration DEF W
      <4> QED
        BY <1>1, <1>2, <4>1
    <3> QED
      BY <1>2, <1>5, <2>1, <2>2, <3>1, <3>3, <3>4, Zenon
  <2>5. CASE ~(r + 1 < W)
    <3>1. r + 1 = W
      BY <1>1, <1>2, <2>5
    <3>2. 0 * N + t = t /\ t \in Nat /\ W * N \in Nat \ {0}
      BY <1>1, <2>1
    <3>3. (1 * (W * N) + t) % (W * N) = t
      <4>1. 0 * N + t \in 0 .. W * N - 1
        <5>1. 0 \in 0 .. W - 1 /\ W \in Nat
          BY <1>1
        <5> QED
          BY <1>1, <2>1, <5>1, Below, Zenon
      <4>2. t \in 0 .. W * N - 1
        BY <3>2, <4>1
      <4> QED
        BY <3>2, <4>2, Division
    <3>4. n = t
      <4>1. x.nonce + k = W * N + t
        BY <2>1, <2>3, <3>1
      <4>2. 1 * (W * N) = W * N
        BY <3>2
      <4> QED
        BY <3>3, <4>1, <4>2 DEF n
    <3>5. n \div N = 0
      <4>1. (0 * N + t) \div N = 0
        BY <1>1, <2>1, Division
      <4> QED
        BY <3>2, <3>4, <4>1
    <3>6. y.generation = (q * W + r) + 1
      BY <1>2, <1>3, <3>1, <3>5, NextGeneration DEF W
    <3>7. (q + 1) * W + 0 = (q * W + r) + 1
      <4>1. (q + 1) * W = q * W + W
        BY <1>1, <1>2
      <4> QED
        BY <1>1, <1>2, <3>1, <4>1
    <3>8. q * W + (r + 1) = (q * W + r) + 1
      BY <1>1, <1>2
    <3>9. ((q + 1) * W + 0) * N + t = (q * W + r) * N + s + k
      BY <2>2, <3>7, <3>8
    <3>10. q + 1 \in Nat /\ 0 \in 0 .. W - 1 /\ n = 0 * N + t
      BY <1>1, <1>2, <3>2, <3>4
    <3> QED
      BY <1>5, <2>1, <3>6, <3>7, <3>9, <3>10, Zenon
  <2> QED
    BY <2>4, <2>5
<1> QED
  BY <1>6, <1>7 DEF Advanced, y

(* Every step keeps the sender's place, and starts a ratchet again only    *)
(* for an offer whose epoch the sender has reached.                        *)
Restarts == NonceRestarts => \E i \in Applied : Overtaken(i)

LEMMA StepKeepsNonceInv ==
  ASSUME ChannelAssumption, ReplayInv, NonceInv, [Next]_vars
  PROVE  NonceInv' /\ [Restarts]_vars
<1>1. PICK q, r, s \in Nat : Lap(sender, q, r, s)
  BY DEF NonceInv
<1>2. /\ OffersOK /\ ClientOK(sending) /\ SenderOK /\ ClocksOK /\ outOfStep \in BOOLEAN
      /\ sender \in SenderType
  BY DEF ReplayInv, SenderOK, TransitionOK
<1>3. ASSUME Encrypt PROVE NonceInv' /\ Restarts
  <2>1. PICK k \in Attempts(At(now)) : sender' = NextNonce(sender, k)
    BY <1>3 DEF Encrypt
  <2>2. k \in 1 .. NoncesPerGeneration
    BY DEF Attempts, ChannelAssumption
  <2>3. /\ \E u, v, w \in Nat : Lap(sender', u, v, w)
        /\ ComputeWrappedBigNonce(sender'.generation, sender'.nonce)
             = ComputeWrappedBigNonce(sender.generation, sender.nonce) + k
    BY <1>1, <1>2, <2>1, <2>2, NextNonceAdvances
  <2>4. ComputeWrappedBigNonce(sender.generation, sender.nonce) \in Nat
    BY <1>2, BigNonceNat DEF ChannelAssumption, SenderType
  <2>5. NonceGrows
    BY <2>2, <2>3, <2>4 DEF NonceGrows
  <2> QED
    BY <2>3, <2>5 DEF NonceInv, Restarts, NonceRestarts
<1>4. ASSUME NEW i \in Applied, NEW e \in Nat, SetUp(i, e), e # NoRatchet => offers[i].epoch <= e
      PROVE  NonceInv' /\ Restarts
  <2>1. IF offers[i].version = 0
        THEN sender'.generation = sender.generation /\ sender'.nonce = sender.nonce
        ELSE sender'.epoch = e /\ sender'.generation = 0 /\ sender'.nonce = 0
    BY <1>2, <1>4, SetUpSender
  <2>2. CASE offers[i].version = 0
    <3>1. Lap(sender', q, r, s)
      BY <1>1, <2>1, <2>2 DEF Lap
    <3> QED
      BY <2>1, <2>2, <3>1 DEF NonceInv, Restarts, NonceRestarts
  <2>3. CASE offers[i].version # 0
    <3>1. Lap(sender', 0, 0, 0)
      BY <2>1, <2>3 DEF Lap, ChannelAssumption
    <3>2. NonceRestarts => Overtaken(i)
      BY <1>4, <2>1, <2>3 DEF NonceRestarts, Overtaken
    <3> QED
      BY <3>1, <3>2 DEF NonceInv, Restarts
  <2> QED
    BY <2>2, <2>3
<1>5. ASSUME sender' = sender PROVE NonceInv' /\ Restarts
  BY <1>5 DEF NonceInv, Restarts, NonceRestarts
<1>6. ASSUME PrepareTransition PROVE NonceInv' /\ Restarts
  <2> DEFINE i == sending.at + 1
  <2>1. sending.at < Len(offers) /\ sending' = Prepared(sending)
    BY <1>6 DEF PrepareTransition
  <2>2. /\ sending'.at = i /\ i \in 1 .. Len(offers) /\ sending.at \in 0 .. Len(offers)
        /\ sending'.session \in {NoRatchet, EpochAt(i)} /\ sending'.session \in Nat
    <3>1. PICK c : c = Prepared(sending)
      OBVIOUS
    <3>2. ClientOK(c) /\ c.at = i /\ i \in 1 .. Len(offers) /\ sending.at \in 0 .. Len(offers)
      BY <1>2, <2>1, <3>1, PreparedClient
    <3> QED
      BY <2>1, <3>1, <3>2 DEF ClientOK
  <2>3. CASE ~offers[i].atOnce
    BY <1>5, <1>6, <2>2, <2>3 DEF PrepareTransition
  <2>4. CASE offers[i].atOnce
    <3>1. SetUp(i, sending'.session)
      BY <1>6, <2>2, <2>4 DEF PrepareTransition
    <3>2. i \in Applied
      <4>1. i \in sending.at + 1 .. sending'.at
        BY <2>2
      <4> QED
        BY <2>4, <4>1 DEF Applied
    <3>3. sending'.session # NoRatchet => offers[i].epoch <= sending'.session
      <4>1. i # 0
        BY <2>2
      <4>2. EpochAt(i) = offers[i].epoch
        BY <4>1 DEF EpochAt
      <4>3. \A a \in Nat : a <= a
        OBVIOUS
      <4> QED
        BY <2>2, <4>2, <4>3
    <3> QED
      BY <1>4, <2>2, <3>1, <3>2, <3>3
  <2> QED
    BY <2>3, <2>4
<1>7. ASSUME NEW i \in DOMAIN offers, Execute(i) PROVE NonceInv' /\ Restarts
  <2>1. i \in sending.prepared /\ sending' = Executed(sending, i) /\ SetUp(i, sending'.session)
    BY <1>7 DEF Execute
  <2>2. /\ sending'.session \in {NoRatchet, sending.session}
        /\ sending'.prepared = sending.prepared \ {i}
    BY <1>2, <2>1, ExecutedClient
  <2>3. /\ sending.session \in {NoRatchet, EpochAt(sending.at)} /\ sending.session \in Nat
        /\ i <= sending.at /\ sending.at \in 0 .. Len(offers) /\ i \in 1 .. Len(offers)
    BY <1>2, <2>1 DEF ClientOK
  <2>4. offers[i].epoch <= EpochAt(sending.at)
    <3>1. i \in 0 .. Len(offers) /\ i # 0
      BY SMTT(30), <2>3
    <3>2. EpochAt(i) <= EpochAt(sending.at)
      BY <1>2, <2>3, <3>1 DEF OffersOK
    <3> QED
      BY <3>1, <3>2 DEF EpochAt
  <2>5. i \in Applied
    BY <2>1, <2>2 DEF Applied
  <2>6. sending'.session # NoRatchet => offers[i].epoch <= sending'.session
    BY <2>2, <2>3, <2>4
  <2>7. sending'.session \in Nat
    <3>1. sending.session \in Nat /\ 0 \in Nat
      BY <2>3
    <3> QED
      BY <2>2, <3>1 DEF NoRatchet
  <2> QED
    BY <1>4, <2>1, <2>5, <2>6, <2>7
<1> QED
  BY <1>3, <1>5, <1>6, <1>7 DEF Next, vars, EncryptPassthrough, Quiet, Decrypt, Offer,
     PrepareEpoch, PreparePassthrough, PrepareRatchet, ReceiverExecute

-----------------------------------------------------------------------------
(* Keys: every manager of the list keeps its own.                          *)
KeysInv == \A i \in DOMAIN managers : KeysOK(managers[i])

(* One manager, one frame.                                                 *)
LEMMA DecryptImplKeepsKeysOK ==
  ASSUME ChannelAssumption, NEW m, KeysOK(m), NEW f, f.nonce \in Nat
  PROVE  KeysOK(DecryptImpl(m, f).after)
<1> DEFINE g == ComputeWrappedGeneration(m.oldest, f.nonce \div NoncesPerGeneration)
           b == ComputeWrappedBigNonce(g, f.nonce)
           after == WithCryptor(m, g, now)
<1>1. g \in Nat
  <2>1. GenerationWrap \in Nat \ {0} /\ NoncesPerGeneration \in Nat \ {0}
    BY DEF ChannelAssumption
  <2>2. ASSUME NEW n \in Nat, NEW o \in Nat
        PROVE  ComputeWrappedGeneration(o, n \div NoncesPerGeneration) \in Nat
    <3>1. n \div NoncesPerGeneration \in Nat
      BY <2>1
    <3>2. ASSUME NEW h \in Nat PROVE ComputeWrappedGeneration(o, h) \in Nat
      BY <2>1 DEF ComputeWrappedGeneration
    <3> QED
      BY <3>1, <3>2
  <2> QED
    BY <2>2 DEF KeysOK
<1>2. DecryptImpl(m, f).after \in {ReportCryptorSuccess(after, g, b, now), after, m}
  BY DEF DecryptImpl
<1> HIDE DEF g, b
<1>3. KeysOK(after)
  BY <1>1, WithCryptorKeepsKeysOK
<1> HIDE DEF after
<1>4. KeysOK(ReportCryptorSuccess(after, g, b, now))
  BY <1>1, <1>3, ReportKeepsKeysOK
<1> QED
  BY <1>2, <1>3, <1>4


(* The managers that stay are as they were.                                *)
LEMMA UnexpiredKeysOK ==
  ASSUME KeysInv, ReplayInv
  PROVE  \A i \in DOMAIN Unexpired : KeysOK(Unexpired[i])
BY UnexpiredIsSuffix DEF ReplayInv, Good, KeysInv

(* Every step keeps the keys of every manager.                             *)
LEMMA StepKeepsKeysInv ==
  ASSUME ChannelAssumption, ReplayInv, KeysInv, [Next]_vars PROVE KeysInv'
<1>1. ASSUME NEW f \in net, Decrypt(f) PROVE KeysInv'
  <2>1. \A i \in DOMAIN Unexpired : KeysOK(Unexpired[i])
    BY UnexpiredKeysOK
  <2>2. CASE f.sealed
    <3> DEFINE ms == Unexpired
               results == Results(ms, f)
    <3>1. managers' = Tried(ms, results)
      BY <1>1, <2>2 DEF Decrypt
    <3>2. f.nonce \in Nat
      BY <2>2 DEF ReplayInv, SealedOK
    <3> HIDE DEF ms
    <3>3. DOMAIN managers' = DOMAIN ms
          /\ \A i \in DOMAIN ms : managers'[i] \in {ms[i], DecryptImpl(ms[i], f).after}
      BY <3>1 DEF Tried, Results
    <3>4. \A i \in DOMAIN ms : KeysOK(DecryptImpl(ms[i], f).after)
      BY <2>1, <3>2, DecryptImplKeepsKeysOK DEF ms
    <3> QED
      BY <2>1, <3>3, <3>4 DEF KeysInv, ms
  <2>3. CASE ~f.sealed
    <3>1. managers' \in {managers, Unexpired}
      BY <1>1, <2>3 DEF Decrypt
    <3> QED
      BY <2>1, <3>1 DEF KeysInv
  <2> QED
    BY <2>2, <2>3
<1>2. ASSUME PrepareRatchet PROVE KeysInv'
  <2>1. PICK n, e : n = Len(managers) /\ e = receiving'.session
    OBVIOUS
  <2>2. /\ n \in Nat /\ DOMAIN managers = 1 .. n
        /\ DOMAIN managers' = 1 .. (IF e = NoRatchet THEN n ELSE n + 1)
        /\ \A i \in 1 .. n : managers'[i] = [managers[i] EXCEPT !.expiry = now + TransitionExpiry]
        /\ e # NoRatchet => managers'[n + 1] = NewManager(e, now)
    BY <1>2, <2>1, PreparedManagers
  <2>3. ASSUME NEW i \in DOMAIN managers' PROVE KeysOK(managers'[i])
    <3>1. CASE i \in 1 .. n
      <4>1. KeysOK(managers[i])
        BY <2>2, <3>1 DEF KeysInv
      <4>2. KeysOK([managers[i] EXCEPT !.expiry = now + TransitionExpiry])
        BY <4>1, ExpiryKeepsKeysOK
      <4> QED
        BY <2>2, <3>1, <4>2
    <3>2. CASE i = n + 1 /\ e # NoRatchet
      BY <2>2, <3>2, NewKeys
    <3>3. i \in 1 .. n \/ (i = n + 1 /\ e # NoRatchet)
      <4>1. CASE e = NoRatchet
        BY <2>2, <4>1
      <4>2. CASE e # NoRatchet
        BY SMTT(30), <2>2, <4>2
      <4> QED
        BY <4>1, <4>2
    <3> QED
      BY <3>1, <3>2, <3>3
  <2> QED
    BY <2>3 DEF KeysInv
<1>3. CASE UNCHANGED managers
  BY <1>3 DEF KeysInv
<1>4. (\E f \in net : Decrypt(f)) \/ PrepareRatchet \/ UNCHANGED managers
  <2>1. ClientStep => UNCHANGED managers
    BY ClientSteps
  <2> QED
    BY <2>1 DEF Next, ClientStep, vars, decryptor, Encrypt, EncryptPassthrough, Quiet, Ticks
<1> QED
  BY <1>1, <1>2, <1>3, <1>4

-----------------------------------------------------------------------------
(* A generation that is no longer accepted has no key left, and none is    *)
(* asked for again, for any order in which frames arrive and generations   *)
(* expire (CleanupExpiredCryptors, HashRatchet's erase).                   *)
THEOREM KeysGone == Spec => []KeysDeleted
<1>1. Init => KeysInv
  BY DEF Init, KeysInv
<1>2. KeysInv /\ ReplayInv /\ [Next]_vars => KeysInv'
  BY ChannelAssumption, StepKeepsKeysInv
<1>3. KeysInv => KeysDeleted
  BY DEF KeysInv, KeysOK, KeysDeleted
<1> QED
  BY <1>1, <1>2, <1>3, ChannelInvariant, PTL DEF Spec

(* One ratchet never encrypts two frames with one nonce, however many      *)
(* ciphertexts are thrown away and wherever the generation wraps           *)
(* (GetNextCryptorAndNonce), unless a transition is executed whose epoch   *)
(* the sender has reached (setupKeyRatchetForEncryptor).                   *)
THEOREM NonceOnce == Spec => NoncesAdvance
<1>1. Init => NonceInv
  <2>1. ASSUME Init PROVE Lap(sender, 0, 0, 0)
    BY <2>1, ChannelAssumption DEF Init, Lap, ChannelAssumption
  <2> QED
    BY <2>1 DEF NonceInv
<1>2. NonceInv /\ ReplayInv /\ [Next]_vars => NonceInv' /\ [Restarts]_vars
  BY ChannelAssumption, StepKeepsNonceInv
<1> QED
  BY <1>1, <1>2, ChannelInvariant, PTL DEF Spec, NoncesAdvance, Restarts

-----------------------------------------------------------------------------
(* What a manager remembers of the nonces H heard of its epoch: the last,  *)
(* and all in reach that are missing since the first.                      *)
Remembers(m, H) ==
  /\ H # {} => m.last \in H
  /\ H = {} => m.last = NoNonce /\ m.missing = {}
  /\ \A x \in m.missing : \E b \in H : b < x
  /\ \A b \in H, x \in Nat :
       x \notin H /\ b < x /\ x < m.last /\ m.last <= x + MaxMissingNonces => x \in m.missing

(* The newest generation is that of the last nonce, and only the cryptors  *)
(* of older ones expire.                                                   *)
Generations(m, H) ==
  /\ \A g \in DOMAIN m.cryptors :
       /\ m.cryptors[g].expiry \in Nat
       /\ g >= m.newest => m.cryptors[g].expiry = Forever
  /\ H # {} => m.newest = m.last \div NoncesPerGeneration /\ m.newest \in DOMAIN m.cryptors
  /\ H = {} => m.newest = 0

(* Generation g is still accepted, and will be until then: an older one    *)
(* has a cryptor that lives as long.                                       *)
Accepted(m, g, until) ==
  \/ m.newest <= g
  \/ \E h \in DOMAIN m.cryptors :
       m.oldest <= h /\ h <= g /\ m.cryptors[h].expiry >= until

SameSpan(m, n) == n.created = m.created /\ n.expiry = m.expiry

(* NoteNonce remembers what was left out.                                  *)
LEMMA NoteNonceRemembers ==
  ASSUME ChannelAssumption, NEW m, NEW H, Window(m, H), Remembers(m, H),
         NEW b \in Nat, CanProcessNonce(m, b)
  PROVE  Remembers(NoteNonce(m, b), H \cup {b})
<1> DEFINE n == NoteNonce(m, b)
<1>0. MaxMissingNonces \in Nat
  BY DEF ChannelAssumption
<1>1. CASE m.last = NoNonce
  <2>1. H = {}
    BY <1>1 DEF Window, NoNonce
  <2>2. n.last = b /\ n.missing = {}
    BY <1>1, <2>1 DEF NoteNonce, Window, IsManager, Fields, Remembers
  <2> HIDE DEF n
  <2> QED
    BY <2>1, <2>2 DEF Remembers, n
<1>2. CASE m.last # NoNonce /\ b > m.last
  <2> DEFINE U == m.missing \cup (m.last + 1 .. b - 1)
             S == Largest(MaxMissingNonces, U)
  <2>1. n.last = b /\ n.missing = S
    BY <1>2 DEF NoteNonce, Window, IsManager, Fields
  <2>2. m.last \in H
    BY <1>2 DEF Remembers
  <2>3. \A x \in S : \E c \in H \cup {b} : c < x
    <3>1. S \subseteq U
      BY DEF Largest
    <3>2. \A x \in U : \E c \in H : c < x
      BY <2>2 DEF Remembers, Window
    <3> HIDE DEF S, U
    <3> QED
      BY <3>1, <3>2
  <2>4. ASSUME NEW c \in H \cup {b}, NEW x \in Nat,
               x \notin H \cup {b}, c < x, x < b, b <= x + MaxMissingNonces
        PROVE  x \in S
    <3>1. c \in H /\ m.last \in Int /\ x # m.last
      BY <2>2, <2>4 DEF Window
    <3>2. x \in U
      <4>1. CASE x < m.last
        <5>1. m.last <= x + MaxMissingNonces
          BY <1>0, <1>2, <2>4, <3>1
        <5> QED
          BY <2>4, <3>1, <4>1, <5>1 DEF Remembers
      <4>2. CASE x > m.last
        BY <2>4, <3>1, <4>2
      <4> QED
        BY <3>1, <4>1, <4>2
    <3>3. {y \in U : y > x} \subseteq x + 1 .. b - 1
      BY <1>2, <3>1 DEF Window
    <3> DEFINE above == {y \in U : y > x}
    <3>4. Cardinality(above) \in Nat /\ Cardinality(above) < b - x
      <4> HIDE DEF U
      <4> HIDE DEF above
      <4>1. above \subseteq x + 1 .. b - 1
        BY <3>3 DEF above
      <4>2. x \in Int /\ b \in Int /\ x < b
        BY <2>4
      <4> QED
        BY <4>1, <4>2, Between
    <3>5. Cardinality(above) < MaxMissingNonces
      BY <1>0, <2>4, <3>4
    <3> QED
      BY <3>2, <3>5 DEF Largest
  <2> HIDE DEF n, S
  <2> QED
    BY <2>1, <2>3, <2>4 DEF Remembers, n
<1>3. CASE m.last # NoNonce /\ ~(b > m.last)
  <2>1. n.last = m.last /\ n.missing = m.missing \ {b}
    BY <1>3 DEF NoteNonce, Window, IsManager, Fields
  <2>2. b \in m.missing /\ m.last \in H
    BY <1>3 DEF CanProcessNonce, Remembers
  <2>3. PICK first \in H : first < b
    BY <2>2 DEF Remembers
  <2>4. ASSUME NEW c \in H \cup {b}, NEW x \in Nat,
               x \notin H \cup {b}, c < x, x < m.last, m.last <= x + MaxMissingNonces
        PROVE  x \in m.missing \ {b}
    <3>1. \E d \in H : d < x
      BY <2>3, <2>4 DEF Window
    <3> QED
      BY <2>4, <3>1 DEF Remembers
  <2> HIDE DEF n
  <2>5. \A x \in n.missing : \E d \in H \cup {b} : d < x
    BY <2>1 DEF Remembers
  <2>6. \A c \in H \cup {b}, x \in Nat :
          x \notin H \cup {b} /\ c < x /\ x < n.last /\ n.last <= x + MaxMissingNonces
            => x \in n.missing
    BY <2>1, <2>4
  <2>7. n.last \in H \cup {b}
    BY <2>1, <2>2
  <2>8. Remembers(n, H \cup {b})
    BY <2>5, <2>6, <2>7 DEF Remembers
  <2> QED
    BY <2>8 DEF n
<1> QED
  BY <1>1, <1>2, <1>3

(* CleanupExpiredCryptors gives up no generation before its time.          *)
LEMMA CleanupAccepts ==
  ASSUME ChannelAssumption, NEW m, KeysOK(m), NEW H, Generations(m, H),
         NEW t \in Nat, t <= Forever
  PROVE  LET c == CleanupExpiredCryptors(m, t) IN
           /\ Generations(c, H) /\ c.newest = m.newest /\ SameSpan(m, c)
           /\ \A g \in Nat, until \in Nat :
                until >= t /\ Accepted(m, g, until) => Accepted(c, g, until)
<1> DEFINE live == {g \in DOMAIN m.cryptors : m.cryptors[g].expiry >= t}
           T == {m.newest} \cup {g \in live : m.oldest <= g /\ g < m.newest}
           oldest == Min(T)
           c == CleanupExpiredCryptors(m, t)
<1>1. c = [m EXCEPT !.cryptors = [g \in live |-> @[g]], !.oldest = oldest,
                    !.keys = @ \ (m.oldest .. oldest - 1)]
  BY DEF CleanupExpiredCryptors
<1>2. T \subseteq Nat /\ m.newest \in T /\ \A g \in T : m.oldest <= g /\ g <= m.newest
  <2>1. \A g \in live : g \in Nat
    BY DEF KeysOK
  <2>2. m.oldest \in Nat /\ m.newest \in Nat /\ m.oldest <= m.newest
    BY DEF KeysOK
  <2> HIDE DEF live
  <2> QED
    BY <2>1, <2>2
<1>3. oldest \in T /\ \A g \in T : oldest <= g
  <2> HIDE DEF T
  <2>1. \E x \in T : \A y \in T : x <= y
    BY <1>2, Least
  <2> QED
    BY <2>1 DEF Min
<1>4. \A g \in live : m.oldest <= g /\ g < m.newest => oldest <= g
  <2> HIDE DEF oldest
  <2> QED
    BY <1>3
<1>5. oldest \in Nat /\ oldest <= m.newest
  <2> HIDE DEF oldest
  <2> QED
    BY <1>2, <1>3
<1> HIDE DEF oldest, T
<1>6. /\ c.oldest = oldest /\ c.newest = m.newest /\ c.last = m.last /\ SameSpan(m, c)
      /\ DOMAIN c.cryptors = live /\ \A g \in live : c.cryptors[g] = m.cryptors[g]
  BY <1>1 DEF KeysOK, IsManager, Fields, SameSpan
<1>7. \A g \in live : g \in DOMAIN m.cryptors /\ g \in Nat /\ m.cryptors[g].expiry \in Nat
  BY DEF KeysOK, Generations
<1>8. \A g \in DOMAIN m.cryptors : m.cryptors[g].expiry >= t => g \in live
  OBVIOUS
<1> HIDE DEF c, live
<1>9. Forever \in Nat /\ m.newest \in Nat
  BY DEF ChannelAssumption, KeysOK
<1>10. Generations(c, H)
  <2>1. H # {} => m.newest \in live
    <3>1. H # {} => m.cryptors[m.newest].expiry >= t
      BY <1>9 DEF Generations
    <3> QED
      BY <1>8, <3>1 DEF Generations
  <2> QED
    BY <1>6, <1>7, <2>1 DEF Generations
<1>11. ASSUME NEW g \in Nat, NEW until \in Nat, until >= t, Accepted(m, g, until)
       PROVE  Accepted(c, g, until)
  <2>1. CASE m.newest <= g
    BY <1>6, <2>1 DEF Accepted
  <2>2. CASE ~(m.newest <= g)
    <3>1. PICK h \in DOMAIN m.cryptors :
            m.oldest <= h /\ h <= g /\ m.cryptors[h].expiry >= until
      BY <1>11, <2>2 DEF Accepted
    <3>2. m.cryptors[h].expiry \in Nat /\ h \in Nat
      BY DEF Generations, KeysOK
    <3>3. m.cryptors[h].expiry >= t
      BY <1>11, <3>1, <3>2
    <3>4. h \in live /\ h < m.newest
      BY <1>8, <1>9, <2>2, <3>1, <3>2, <3>3
    <3>5. c.oldest <= h
      BY <1>4, <1>6, <3>1, <3>4
    <3> QED
      BY <1>6, <3>1, <3>4, <3>5 DEF Accepted
  <2> QED
    BY <2>1, <2>2
<1> QED
  BY <1>6, <1>10, <1>11 DEF c

(* Neither does GetCryptor.                                                *)
LEMMA WithCryptorAccepts ==
  ASSUME ChannelAssumption, NEW m, KeysOK(m), NEW H, Generations(m, H),
         NEW k \in Nat, NEW t \in Nat, t <= Forever
  PROVE  LET c == WithCryptor(m, k, t) IN
           /\ Generations(c, H) /\ SameSpan(m, c)
           /\ \A g \in Nat, until \in Nat :
                until >= t /\ Accepted(m, g, until) => Accepted(c, g, until)
<1> DEFINE c == CleanupExpiredCryptors(m, t)
           d == DeriveKey(c, k)
           new == [h \in DOMAIN d.cryptors \cup {k} |->
                     IF h = k THEN MakeExpiringCryptor(c, k, t) ELSE d.cryptors[h]]
<1>1. /\ Generations(c, H) /\ SameSpan(m, c) /\ KeysOK(c)
      /\ \A g \in Nat, until \in Nat :
           until >= t /\ Accepted(m, g, until) => Accepted(c, g, until)
  BY CleanupAccepts, CleanupKeepsKeysOK
<1>2. CASE ~InReach(c, k, t) \/ k \in DOMAIN c.cryptors
  BY <1>1, <1>2 DEF WithCryptor
<1>3. CASE InReach(c, k, t) /\ k \notin DOMAIN c.cryptors
  <2> DEFINE w == [d EXCEPT !.cryptors = new]
  <2>1. WithCryptor(m, k, t) = w
    BY <1>3 DEF WithCryptor
  <2> HIDE DEF c
  <2>2. /\ IsManager(d) /\ d.oldest = c.oldest /\ d.newest = c.newest /\ d.last = c.last
        /\ d.cryptors = c.cryptors /\ SameSpan(c, d)
    BY <1>1 DEF DeriveKey, KeysOK, IsManager, Fields, SameSpan
  <2> HIDE DEF d
  <2>3. /\ w.oldest = c.oldest /\ w.newest = c.newest /\ w.last = c.last
        /\ w.cryptors = new /\ SameSpan(c, w)
    BY <2>2 DEF IsManager, Fields, SameSpan
  <2>4. DOMAIN new = DOMAIN c.cryptors \cup {k}
        /\ new[k] = MakeExpiringCryptor(c, k, t)
        /\ \A h \in DOMAIN c.cryptors : new[h] = c.cryptors[h]
    BY <1>3, <2>2
  <2> HIDE DEF w, new
  <2>5. /\ MakeExpiringCryptor(c, k, t).expiry \in Nat
        /\ k >= c.newest => MakeExpiringCryptor(c, k, t).expiry = Forever
    <3>1. CryptorExpiry \in Nat /\ Forever \in Nat
      BY DEF ChannelAssumption
    <3>3. t + CryptorExpiry \in Nat /\ c.newest \in Nat
      BY <1>1, <3>1 DEF KeysOK
    <3>2. MakeExpiringCryptor(c, k, t).expiry
            = IF k < c.newest THEN t + CryptorExpiry ELSE Forever
      BY DEF MakeExpiringCryptor
    <3> QED
      BY <3>1, <3>2, <3>3
  <2>6. Generations(w, H)
    BY <1>1, <2>3, <2>4, <2>5 DEF Generations
  <2>7. \A g, until : Accepted(c, g, until) => Accepted(w, g, until)
    BY <2>3, <2>4 DEF Accepted
  <2> QED
    BY <1>1, <2>1, <2>3, <2>6, <2>7 DEF SameSpan
<1> QED
  BY <1>2, <1>3

(* Nor ReportCryptorSuccess: whatever generation becomes the newest, the   *)
(* one before it has a cryptor that lives for another CryptorExpiry.       *)
LEMMA ReportAccepts ==
  ASSUME ChannelAssumption, NEW m, KeysOK(m), NEW H, Window(m, H), Remembers(m, H),
         Generations(m, H), NEW b \in Nat, CanProcessNonce(m, b),
         NEW k \in Nat, k = b \div NoncesPerGeneration, k \in DOMAIN m.cryptors,
         NEW t \in Nat
  PROVE  LET q == ReportCryptorSuccess(m, k, b, t) IN
           /\ Remembers(q, H \cup {b}) /\ Generations(q, H \cup {b}) /\ SameSpan(m, q)
           /\ \A g \in Nat, until \in Nat, x \in Nat :
                /\ until <= t + CryptorExpiry /\ until <= Forever
                /\ g = x \div NoncesPerGeneration
                /\ (\E c \in H : c < x) => Accepted(m, g, until)
                /\ \E c \in H \cup {b} : c < x
                => Accepted(q, g, until)
<1> DEFINE n == NoteNonce(m, b)
           q == ReportCryptorSuccess(m, k, b, t)
           N == NoncesPerGeneration
<1>1. q = NoteGeneration(n, k, t)
  BY DEF ReportCryptorSuccess
<1>2. /\ IsManager(n) /\ n.oldest = m.oldest /\ n.newest = m.newest
      /\ n.cryptors = m.cryptors /\ SameSpan(m, n)
      /\ n.last = IF m.last = NoNonce \/ b > m.last THEN b ELSE m.last
  BY DEF NoteNonce, KeysOK, IsManager, Fields, SameSpan
<1>3. Remembers(n, H \cup {b})
  BY NoteNonceRemembers
<1>4. /\ m.oldest \in Nat /\ m.newest \in Nat /\ m.oldest <= m.newest
      /\ DOMAIN m.cryptors \subseteq Nat /\ N \in Nat \ {0} /\ CryptorExpiry \in Nat
      /\ Forever \in Nat
  <2>1. DOMAIN m.cryptors \subseteq Nat
    BY DEF KeysOK
  <2> QED
    BY <2>1 DEF KeysOK, ChannelAssumption
<1>5. H # {} => /\ m.last \in H /\ m.last \in Nat /\ m.last # NoNonce
                /\ m.newest = m.last \div N /\ m.newest \in DOMAIN m.cryptors
  BY DEF Remembers, Window, Generations, NoNonce
<1>6. H = {} => m.last = NoNonce /\ m.newest = 0
  BY DEF Remembers, Generations
<1> HIDE DEF n, q
<1>7. ASSUME NEW x \in Nat, NEW g \in Nat, b < x, g = x \div N, H # {}
      PROVE  \E c \in H : c < x
  <2>1. CASE b \in m.missing
    <3>1. PICK c \in H : c < b
      BY <2>1 DEF Remembers
    <3>2. c \in Nat
      BY DEF Window
    <3> QED
      BY <1>7, <3>1, <3>2
  <2>2. CASE b \notin m.missing
    <3>1. b > m.last
      BY <1>5, <1>7, <2>2 DEF CanProcessNonce
    <3> QED
      BY <1>5, <1>7, <3>1
  <2> QED
    BY <2>1, <2>2
<1>8. ASSUME NEW x \in Nat, NEW g \in Nat, b < x, g = x \div N PROVE k <= g
  BY SMTT(30), <1>4, <1>8, Growing
<1>9. CASE k <= m.newest
  <2>1. q = n
    BY <1>1, <1>2, <1>9 DEF NoteGeneration
  <2>2. m.newest = n.last \div N
    <3>1. CASE H = {}
      BY <1>2, <1>4, <1>6, <1>9, <3>1
    <3>2. CASE H # {} /\ b > m.last
      <4>1. m.newest <= k
        BY SMTT(30), <1>4, <1>5, <3>2, Growing
      <4> QED
        BY <1>2, <1>4, <1>9, <3>2, <4>1
    <3>3. CASE H # {} /\ ~(b > m.last)
      BY <1>2, <1>5, <3>3
    <3> QED
      BY <3>1, <3>2, <3>3
  <2>3. m.newest \in DOMAIN m.cryptors
    BY <1>4, <1>5, <1>6, <1>9
  <2>4. Generations(q, H \cup {b})
    BY <1>2, <2>1, <2>2, <2>3 DEF Generations
  <2>5. ASSUME NEW g \in Nat, NEW until \in Nat, NEW x \in Nat, g = x \div N,
               (\E c \in H : c < x) => Accepted(m, g, until),
               \E c \in H \cup {b} : c < x
        PROVE  Accepted(q, g, until)
    <3>1. CASE \E c \in H : c < x
      BY <1>2, <2>1, <2>5, <3>1 DEF Accepted
    <3>2. CASE ~ \E c \in H : c < x
      <4>1. b < x /\ H = {}
        BY <1>7, <2>5, <3>2
      <4> QED
        BY <1>2, <1>4, <1>6, <2>1, <4>1 DEF Accepted
    <3> QED
      BY <3>1, <3>2
  <2> QED
    BY <1>2, <1>3, <2>1, <2>4, <2>5 DEF q
<1>10. CASE k > m.newest
  <2> DEFINE old == [h \in DOMAIN n.cryptors |->
                       IF h < k THEN [n.cryptors[h] EXCEPT !.expiry = Min({@, t + CryptorExpiry})]
                       ELSE n.cryptors[h]]
             w == [n EXCEPT !.newest = k, !.cryptors = old]
  <2>1. q = w
    <3>1. ~(k <= n.newest \/ k \notin DOMAIN n.cryptors)
      BY <1>2, <1>4, <1>10
    <3> QED
      BY <1>1, <3>1 DEF NoteGeneration
  <2>2. /\ w.oldest = n.oldest /\ w.newest = k /\ w.last = n.last
        /\ w.missing = n.missing /\ w.cryptors = old /\ SameSpan(n, w)
    BY <1>2 DEF IsManager, Fields, SameSpan
  <2>3. DOMAIN old = DOMAIN m.cryptors
    BY <1>2
  <2>4. ASSUME NEW h \in DOMAIN m.cryptors
        PROVE  /\ h < k => old[h].expiry = Min({m.cryptors[h].expiry, t + CryptorExpiry})
               /\ ~(h < k) => old[h] = m.cryptors[h]
    <3>1. "expiry" \in DOMAIN m.cryptors[h]
      BY DEF KeysOK
    <3> QED
      BY <1>2, <3>1
  <2> HIDE DEF w, old
  <2>5. ASSUME NEW h \in DOMAIN m.cryptors
        PROVE  /\ old[h].expiry \in Nat /\ (h >= k => old[h].expiry = Forever)
               /\ \A until \in Nat : until <= m.cryptors[h].expiry /\ until <= t + CryptorExpiry
                    => until <= old[h].expiry
    <3>1. m.cryptors[h].expiry \in Nat /\ t + CryptorExpiry \in Nat /\ h \in Nat
      BY <1>4 DEF Generations
    <3>2. CASE h < k
      <4> DEFINE a == m.cryptors[h].expiry
                 c == t + CryptorExpiry
      <4>1. /\ Min({a, c}) \in Nat
            /\ \A until \in Nat : until <= a /\ until <= c => until <= Min({a, c})
        <5> HIDE DEF a, c
        <5>1. a \in Nat /\ c \in Nat
          BY <3>1 DEF a, c
        <5> QED
          BY <5>1, Earliest
      <4>2. old[h].expiry = Min({a, c})
        BY <2>4, <3>2
      <4>3. ~(h >= k)
        BY <3>1, <3>2
      <4> QED
        BY <4>1, <4>2, <4>3
    <3>3. CASE ~(h < k)
      <4>1. old[h] = m.cryptors[h]
        BY <2>4, <3>3
      <4>2. h >= m.newest
        BY <1>4, <1>10, <3>1, <3>3
      <4>3. m.cryptors[h].expiry = Forever
        BY <4>2 DEF Generations
      <4> QED
        BY <1>4, <4>1, <4>3
    <3> QED
      BY <3>2, <3>3
  <2>6. n.last = b
    <3>1. ASSUME H # {}, ~(b > m.last) PROVE FALSE
      <4>1. b <= m.last
        BY <1>5, <3>1
      <4>2. b \div N <= m.last \div N
        <5> DEFINE l == m.last
        <5>1. l \in Nat /\ b <= l /\ N \in Nat \ {0}
          BY <1>4, <1>5, <3>1, <4>1
        <5> HIDE DEF l, N
        <5>2. b \div N <= l \div N
          BY <5>1, Growing
        <5> QED
          BY <5>2 DEF l
      <4>3. k <= m.newest
        BY <1>5, <3>1, <4>2
      <4> QED
        BY <1>4, <1>10, <4>3
    <3> QED
      BY <1>2, <1>6, <3>1
  <2>7. Generations(q, H \cup {b})
    BY <2>1, <2>2, <2>3, <2>5, <2>6 DEF Generations
  <2>8. Remembers(q, H \cup {b})
    BY <1>3, <2>1, <2>2 DEF Remembers
  <2>9. ASSUME NEW g \in Nat, NEW until \in Nat, NEW x \in Nat, g = x \div N,
               until <= t + CryptorExpiry, until <= Forever,
               (\E c \in H : c < x) => Accepted(m, g, until),
               \E c \in H \cup {b} : c < x
        PROVE  Accepted(q, g, until)
    <3>1. CASE \E c \in H : c < x
      <4>1. PICK h \in DOMAIN m.cryptors :
              m.oldest <= h /\ h <= g /\ m.cryptors[h].expiry >= until
        <5>1. CASE m.newest <= g
          <6>1. m.newest \in DOMAIN m.cryptors /\ m.cryptors[m.newest].expiry = Forever
            BY <1>4, <1>5, <3>1 DEF Generations
          <6> QED
            BY <1>4, <2>9, <5>1, <6>1
        <5>2. CASE ~(m.newest <= g)
          BY <2>9, <3>1, <5>2 DEF Accepted
        <5> QED
          BY <5>1, <5>2
      <4>2. m.cryptors[h].expiry \in Nat
        BY DEF Generations
      <4>3. old[h].expiry >= until
        BY <2>5, <2>9, <4>1, <4>2
      <4> QED
        BY <1>2, <2>1, <2>2, <2>3, <4>1, <4>3 DEF Accepted
    <3>2. CASE ~ \E c \in H : c < x
      <4>1. b < x
        BY <2>9, <3>2
      <4>2. k <= g
        BY <1>8, <2>9, <4>1
      <4> QED
        BY <2>1, <2>2, <4>2 DEF Accepted
    <3> QED
      BY <3>1, <3>2
  <2> QED
    BY <1>2, <2>1, <2>2, <2>7, <2>8, <2>9 DEF q, SameSpan
<1> QED
  BY <1>4, <1>9, <1>10

(* The types of a manager's generations.                                   *)
LEMMA KeysTyped ==
  ASSUME NEW m, KeysOK(m)
  PROVE  /\ m.oldest \in Nat /\ m.newest \in Nat /\ m.oldest <= m.newest
         /\ DOMAIN m.cryptors \subseteq Nat
<1>1. DOMAIN m.cryptors \subseteq Nat
  BY DEF KeysOK
<1> QED
  BY <1>1 DEF KeysOK

(* One manager, one frame: what is still on its way stays accepted.        *)
LEMMA DecryptImplAccepts ==
  ASSUME ChannelAssumption, NEW m, KeysOK(m), NEW H, Window(m, H), Remembers(m, H),
         Generations(m, H), NEW f, f.key \in Nat \X Nat, f.nonce \in Nat,
         now \in Nat, now <= Forever
  PROVE  LET r == DecryptImpl(m, f)
             G == IF r.ok THEN H \cup {IdOf(f)[2]} ELSE H
         IN /\ Remembers(r.after, G) /\ Generations(r.after, G) /\ SameSpan(m, r.after)
            /\ \A g \in Nat, until \in Nat, x \in Nat :
                 /\ now <= until /\ until <= now + CryptorExpiry /\ until <= Forever
                 /\ g = x \div NoncesPerGeneration
                 /\ (\E c \in H : c < x) => Accepted(m, g, until)
                 /\ \E c \in G : c < x
                 => Accepted(r.after, g, until)
<1> DEFINE k == ComputeWrappedGeneration(m.oldest, f.nonce \div NoncesPerGeneration)
           b == ComputeWrappedBigNonce(k, f.nonce)
           after == WithCryptor(m, k, now)
           ok == /\ CanProcessNonce(m, b) /\ HasCryptor(after, k, now)
                 /\ f.key = <<m.epoch, k>> /\ At(f.at) \in Legible
           r == DecryptImpl(m, f)
           G == IF r.ok THEN H \cup {IdOf(f)[2]} ELSE H
<1>1. r.ok = ok /\ r.after = IF ok THEN ReportCryptorSuccess(after, k, b, now)
                            ELSE IF CanProcessNonce(m, b) THEN after ELSE m
  BY DEF DecryptImpl
<1>2. k \in Nat
  <2>1. GenerationWrap \in Nat \ {0} /\ NoncesPerGeneration \in Nat \ {0}
    BY DEF ChannelAssumption
  <2>2. ASSUME NEW n \in Nat, NEW o \in Nat
        PROVE  ComputeWrappedGeneration(o, n \div NoncesPerGeneration) \in Nat
    <3>1. n \div NoncesPerGeneration \in Nat
      BY <2>1
    <3>2. ASSUME NEW h \in Nat PROVE ComputeWrappedGeneration(o, h) \in Nat
      BY <2>1 DEF ComputeWrappedGeneration
    <3> QED
      BY <3>1, <3>2
  <2> QED
    BY <2>2 DEF KeysOK
<1>3. b \in Nat /\ k = b \div NoncesPerGeneration
  <2> DEFINE s == f.nonce % NoncesPerGeneration
  <2>1. NoncesPerGeneration \in Nat \ {0} /\ s \in 0 .. NoncesPerGeneration - 1
    BY DEF ChannelAssumption
  <2>2. b = k * NoncesPerGeneration + s
    BY DEF ComputeWrappedBigNonce
  <2> HIDE DEF b, k, s
  <2>3. (k * NoncesPerGeneration + s) \div NoncesPerGeneration = k
    BY <1>2, <2>1, Division
  <2>4. k * NoncesPerGeneration + s \in Nat
    BY <1>2, <2>1
  <2> QED
    BY <2>2, <2>3, <2>4
<1> HIDE DEF k, b
<1>4. KeysOK(after) /\ Window(after, H)
  BY <1>2, WithCryptorKeepsKeysOK, WithCryptorKeepsWindow, WindowOfSame DEF Window
<1>5. SameWindow(m, after)
  BY <1>2, WithCryptorKeepsWindow DEF Window
<1>6. /\ Generations(after, H) /\ SameSpan(m, after)
      /\ \A g \in Nat, until \in Nat :
           until >= now /\ Accepted(m, g, until) => Accepted(after, g, until)
  BY <1>2, WithCryptorAccepts
<1>7. Remembers(after, H)
  BY <1>5 DEF SameWindow, Remembers
<1> HIDE DEF after, r
<1>8. CASE ~ok
  <2>1. G = H /\ r.after \in {after, m}
    BY <1>1, <1>8
  <2>2. SameSpan(m, m)
    BY DEF SameSpan
  <2>3. Remembers(r.after, G) /\ Generations(r.after, G) /\ SameSpan(m, r.after)
    BY <1>6, <1>7, <2>1, <2>2
  <2>4. \A g \in Nat, until \in Nat :
          until >= now /\ Accepted(m, g, until) => Accepted(r.after, g, until)
    BY <1>6, <2>1
  <2>5. \A until \in Nat : now <= until => until >= now
    OBVIOUS
  <2> HIDE DEF G
  <2> QED
    BY <2>1, <2>3, <2>4, <2>5 DEF r, G
<1>9. CASE ok
  <2>1. f.key[1] = m.epoch /\ f.key[2] = k /\ CanProcessNonce(m, b)
        /\ k \in DOMAIN after.cryptors
    BY <1>9 DEF HasCryptor
  <2>2. IdOf(f)[2] = b
    BY <2>1 DEF IdOf, b
  <2>3. CanProcessNonce(after, b)
    BY <1>5, <2>1 DEF CanProcessNonce, SameWindow
  <2> DEFINE q == ReportCryptorSuccess(after, k, b, now)
  <2>4. r.after = q /\ G = H \cup {b}
    BY <1>1, <1>9, <2>2
  <2>5. /\ Remembers(q, H \cup {b}) /\ Generations(q, H \cup {b}) /\ SameSpan(after, q)
        /\ \A g \in Nat, until \in Nat, x \in Nat :
                /\ until <= now + CryptorExpiry /\ until <= Forever
                /\ g = x \div NoncesPerGeneration
                /\ (\E c \in H : c < x) => Accepted(after, g, until)
                /\ \E c \in H \cup {b} : c < x
                => Accepted(q, g, until)
    BY <1>2, <1>3, <1>4, <1>6, <1>7, <2>1, <2>3, ReportAccepts
  <2> HIDE DEF q
  <2>6. \A until \in Nat : now <= until => until >= now
    OBVIOUS
  <2>7. SameSpan(m, r.after)
    BY <1>6, <2>4, <2>5 DEF SameSpan
  <2> HIDE DEF G
  <2>8. ASSUME NEW g \in Nat, NEW until \in Nat, NEW x \in Nat,
               now <= until, until <= now + CryptorExpiry, until <= Forever,
               g = x \div NoncesPerGeneration,
               (\E c \in H : c < x) => Accepted(m, g, until),
               \E c \in G : c < x
        PROVE  Accepted(r.after, g, until)
    <3>1. (\E c \in H : c < x) => Accepted(after, g, until)
      BY <1>6, <2>6, <2>8
    <3> QED
      BY <2>4, <2>5, <2>8, <3>1
  <2> QED
    BY <2>4, <2>5, <2>7, <2>8 DEF r, G
<1> QED
  BY <1>8, <1>9

(* A frame of a manager's epoch in reach of what it remembers is decrypted *)
(* by it.                                                                  *)
LEMMA FrameOpens ==
  ASSUME ChannelAssumption, NEW m, KeysOK(m), NEW H, Window(m, H), Remembers(m, H),
         Generations(m, H), NEW f, f.key \in Nat \X Nat, f.nonce \in Nat,
         now \in Nat, now <= Forever, f.key[1] = m.epoch,
         f.nonce \div NoncesPerGeneration = f.key[2] % GenerationWrap,
         At(f.at) \in Legible,
         IdOf(f)[2] \notin H, H # {} => Accepted(m, f.key[2], now),
         H # {} => /\ \E c \in H : c < IdOf(f)[2]
                   /\ m.last <= IdOf(f)[2] + MaxMissingNonces,
         f.key[2] <= m.newest + MaxGenerationGap, f.key[2] < m.oldest + GenerationWrap,
         m.created \in Nat, m.created <= now,
         IdOf(f)[2] <= FramesPerTick * (now - m.created)
  PROVE  DecryptImpl(m, f).ok
<1> DEFINE k == f.key[2]
           b == IdOf(f)[2]
           N == NoncesPerGeneration
           c == CleanupExpiredCryptors(m, now)
           after == WithCryptor(m, k, now)
<1>1. k \in Nat /\ f.key = <<m.epoch, k>>
  OBVIOUS
<1>2. /\ m.oldest \in Nat /\ m.newest \in Nat /\ m.oldest <= m.newest
      /\ DOMAIN m.cryptors \subseteq Nat /\ N \in Nat \ {0} /\ GenerationWrap \in Nat \ {0}
      /\ FramesPerTick \in Nat \ {0} /\ MaxGenerationGap \in Nat
  BY KeysTyped DEF ChannelAssumption
<1>3. b = ComputeWrappedBigNonce(k, f.nonce) /\ b \in Nat
  BY <1>1, <1>2, BigNonceNat DEF IdOf
<1>4. Accepted(m, k, now)
  BY <1>1, <1>2 DEF Accepted, Generations
<1>5. m.oldest <= k
  BY <1>1, <1>2, <1>4 DEF Accepted
<1>6. ComputeWrappedGeneration(m.oldest, f.nonce \div N) = k
  BY <1>1, <1>2, <1>5, Unwrapped
<1>7. CanProcessNonce(m, b)
  <2>1. CASE H = {}
    BY <2>1 DEF CanProcessNonce, Remembers
  <2>2. CASE H # {} /\ b > m.last
    BY <2>2 DEF CanProcessNonce
  <2>3. CASE H # {} /\ ~(b > m.last)
    <3>1. m.last \in H /\ m.last \in Nat
      BY <2>3 DEF Remembers, Window
    <3>2. b < m.last
      BY SMTT(30), <1>3, <2>3, <3>1
    <3>3. b \in m.missing
      BY <1>3, <2>3, <3>2 DEF Remembers
    <3> QED
      BY <3>3 DEF CanProcessNonce
  <2> QED
    BY <2>1, <2>2, <2>3
<1>8. /\ KeysOK(c) /\ c.newest = m.newest /\ SameSpan(m, c) /\ Accepted(c, k, now)
  <2>1. now >= now
    OBVIOUS
  <2> QED
    BY <1>1, <1>4, <2>1, CleanupAccepts, CleanupKeepsKeysOK
<1>9. KeysOK(after)
  BY <1>1, WithCryptorKeepsKeysOK
<1>10. k <= (FramesPerTick * (now - m.created)) \div N
  <2> DEFINE s == f.nonce % N
             y == FramesPerTick * (now - m.created)
  <2>1. s \in 0 .. N - 1 /\ b = k * N + s
    BY <1>2, <1>3 DEF ComputeWrappedBigNonce
  <2>2. y \in Nat /\ b <= y
    <3>1. now - m.created \in Nat
      OBVIOUS
    <3> QED
      BY <1>2, <3>1
  <2> HIDE DEF s, y, N, b, k
  <2>3. b \div N = k
    BY <1>1, <1>2, <2>1, Division
  <2>4. b \div N <= y \div N
    BY <1>2, <1>3, <2>2, Growing
  <2> QED
    BY <2>3, <2>4 DEF y
<1> HIDE DEF c, b
<1>11. InReach(c, k, now)
  <2>1. /\ c.oldest \in Nat /\ c.newest \in Nat /\ c.oldest <= c.newest
        /\ DOMAIN c.cryptors \subseteq Nat
    BY <1>8, KeysTyped
  <2>2. k >= c.oldest
    BY <1>1, <1>8, <2>1 DEF Accepted
  <2> QED
    BY <1>8, <1>10, <2>2 DEF InReach, SameSpan
<1>12. HasCryptor(after, k, now)
  <2>1. CASE k \in DOMAIN c.cryptors
    <3>1. after = c
      BY <2>1 DEF WithCryptor, c
    <3> QED
      BY <1>8, <1>11, <2>1, <3>1 DEF HasCryptor, KeysOK
  <2>2. CASE k \notin DOMAIN c.cryptors
    <3> DEFINE d == DeriveKey(c, k)
               new == [h \in DOMAIN d.cryptors \cup {k} |->
                         IF h = k THEN MakeExpiringCryptor(c, k, now) ELSE d.cryptors[h]]
    <3>1. after = [d EXCEPT !.cryptors = new]
      BY <1>11, <2>2 DEF WithCryptor, c
    <3>2. /\ IsManager(d) /\ d.oldest = c.oldest /\ d.newest = c.newest
          /\ d.created = c.created
      BY <1>8 DEF DeriveKey, KeysOK, IsManager, Fields
    <3> HIDE DEF d
    <3>3. /\ after.oldest = c.oldest /\ after.newest = c.newest /\ after.created = c.created
          /\ after.cryptors = new
      BY <3>1, <3>2 DEF IsManager, Fields
    <3>4. k \in DOMAIN after.cryptors
      BY <3>3
    <3> HIDE DEF new, after
    <3> QED
      BY <1>9, <1>11, <3>3, <3>4 DEF HasCryptor, InReach, KeysOK
  <2> QED
    BY <2>1, <2>2
<1> QED
  BY <1>1, <1>3, <1>6, <1>7, <1>12 DEF DecryptImpl

-----------------------------------------------------------------------------
(* What is assumed of the times: frames are on their way for less than an  *)
(* old ratchet and an old cryptor live, the sender uses no more nonces in  *)
(* a tick than the receiver allows for, and Forever does not come.         *)
Timely ==
  /\ MaxEncryptAttempts <= FramesPerTick
  /\ MaxExecuteDelay + MaxDelay <= TransitionExpiry
  /\ MaxDelay <= CryptorExpiry + 1
  /\ MaxTime + TransitionExpiry + CryptorExpiry < Forever

Count(s) == ComputeWrappedBigNonce(s.generation, s.nonce)
SealedFrames == {f \in net : f.sealed}
Ids == {IdOf(f) : f \in SealedFrames} \cup heard

(* Frames are young, and a transition is executed in time.                 *)
OnTheWay ==
  /\ now <= MaxTime /\ now <= due
  /\ due # Forever => due <= now + MaxExecuteDelay
  /\ \A f \in net : f.at < now /\ now <= f.at + MaxDelay

(* What was sent, or heard, is of an epoch both clients have come to, and  *)
(* not ahead of the sender; nothing was sent yet with the ratchet that its *)
(* session has and its encryptor has not.                                  *)
NotAhead(id) ==
  /\ id[1] \in Nat \ {0} /\ id[2] \in Nat
  /\ id[1] <= EpochAt(sending.at) /\ id[1] <= Reached
  /\ id[1] = sender.epoch => id[2] <= Count(sender)
  /\ sending.session \notin {NoRatchet, sender.epoch} => id[1] < sending.session

SentInOrder == \A id \in Ids : NotAhead(id)

Truncated ==
  \A f \in SealedFrames : f.nonce \div NoncesPerGeneration = f.key[2] % GenerationWrap

(* No more nonces were used since a manager was created than frames are    *)
(* allowed for.                                                            *)
Within(m, n) == n <= FramesPerTick * (now - m.created)

WithinRate ==
  \A i \in DOMAIN managers :
    /\ managers[i].created \in Nat /\ managers[i].created <= now
    /\ \A id \in Ids : id[1] = managers[i].epoch => Within(managers[i], id[2])
    /\ sender.epoch = managers[i].epoch => Within(managers[i], Count(sender))

(* The time t lasts until what was sent before the transition has come.    *)
Lasts(t) ==
  t = Forever \/ (due # Forever /\ due + TransitionExpiry <= t + MaxExecuteDelay)

Expiries(e) == {managers[i].expiry : i \in {j \in DOMAIN managers : managers[j].epoch = e}}

(* The sender has executed offer j.                                        *)
Followed(j) == j <= sending.at /\ j \notin sending.prepared

(* Both clients take the offers in step: nothing is executed that is not   *)
(* prepared at the receiver, and what is not executed is due.              *)
InStep ==
  /\ repeated = {} /\ sender.epoch <= Reached
  /\ \A j \in 1 .. sending.at : Followed(j) => j <= receiving.at
  /\ due = Forever => receiving.at = 0 \/ Followed(receiving.at)

(* The epochs whose ratchets the sender uses, or may still come to use.    *)
Used(e) ==
  (~sender.pass /\ e = sender.epoch) \/ e = sending.session \/ e > EpochAt(sending.at)

(* The sender may send in the clear, or come to.                           *)
MayClear(k) == offers[k].version = 0 /\ \A j \in k .. receiving.at : ~Followed(j)
Passable == sender.pass \/ \E k \in 1 .. receiving.at : MayClear(k)

AllMayPass == receiving.at = 0 \/ offers[receiving.at].version = 0

(* What the sender uses or will use, and what is on its way, has a manager *)
(* or may pass.                                                            *)
PathsOpen ==
  /\ \A i \in DOMAIN managers : managers[i].expiry \in Nat
  /\ \A e \in 1 .. Reached : Used(e) => \E t \in Expiries(e) : Lasts(t)
  /\ Reached # 0 => Forever \in Expiries(Reached)
  /\ \A f \in SealedFrames : \E t \in Expiries(f.key[1]) : t >= f.at + MaxDelay
  /\ AllMayPass => allowPassThroughUntil = Forever
  /\ Passable => Lasts(allowPassThroughUntil)
  /\ \A f \in net : ~f.sealed => allowPassThroughUntil > f.at + MaxDelay

(* A manager knows what was heard of its epoch, and still accepts what is  *)
(* on its way.                                                             *)
StillAccepted(m, H, f) ==
  f.key[1] = m.epoch /\ (\E c \in H : c < IdOf(f)[2]) => Accepted(m, f.key[2], f.at + MaxDelay)

Follows(m, H) ==
  Remembers(m, H) /\ Generations(m, H) /\ \A f \in SealedFrames : StillAccepted(m, H, f)

AllFollowed ==
  \A i \in DOMAIN managers : Follows(managers[i], Heard(heard, managers[i].epoch))

InTime ==
  /\ OnTheWay /\ SentInOrder /\ Truncated /\ WithinRate
  /\ InStep /\ PathsOpen /\ AllFollowed

InTimeInv == ~outOfStep => InTime

(* The constants are numbers.                                              *)
LEMMA Numbers ==
  ASSUME ChannelAssumption
  PROVE  /\ GenerationWrap \in Nat \ {0} /\ NoncesPerGeneration \in Nat \ {0}
         /\ MaxGenerationGap \in Nat \ {0} /\ MaxMissingNonces \in Nat \ {0}
         /\ CryptorExpiry \in Nat \ {0} /\ FramesPerTick \in Nat \ {0} /\ Forever \in Nat \ {0}
         /\ MaxTime \in Nat \ {0} /\ MaxDelay \in Nat \ {0} /\ TransitionExpiry \in Nat \ {0}
         /\ MaxExecuteDelay \in Nat \ {0} /\ MaxEncryptAttempts \in Nat \ {0}
BY DEF ChannelAssumption

(* A frame's place in the count of its sender.                             *)
LEMMA IdTyped ==
  ASSUME ChannelAssumption, NEW f, f.key \in Nat \X Nat, f.nonce \in Nat
  PROVE  /\ IdOf(f)[1] = f.key[1] /\ IdOf(f)[2] \in Nat
         /\ f.key[1] \in Nat /\ f.key[2] \in Nat
         /\ f.key[2] = IdOf(f)[2] \div NoncesPerGeneration
<1> DEFINE k == f.key[2]
           s == f.nonce % NoncesPerGeneration
           N == NoncesPerGeneration
<1>2. N \in Nat \ {0} /\ k \in Nat /\ s \in 0 .. N - 1
  BY Numbers
<1>3. IdOf(f) = <<f.key[1], k * N + s>>
  BY DEF IdOf, ComputeWrappedBigNonce
<1> HIDE DEF k, s, N
<1>4. (k * N + s) \div N = k
  BY <1>2, Division
<1>5. k * N + s \in Nat
  BY <1>2
<1> QED
  BY <1>2, <1>3, <1>4, <1>5 DEF N, k

(* What ReplayInv says of the two clients.                                 *)
LEMMA Clients ==
  ASSUME ReplayInv
  PROVE  /\ OffersOK /\ ClientOK(sending) /\ ClientOK(receiving)
         /\ sending.at \in 0 .. Len(offers) /\ receiving.at \in 0 .. Len(offers)
         /\ sending.at \in Nat /\ receiving.at \in Nat
         /\ Len(offers) \in Nat /\ Reached \in Nat /\ EpochAt(sending.at) \in Nat
         /\ sender \in SenderType /\ sender.epoch \in Nat /\ sender.epoch <= EpochAt(sending.at)
         /\ sending.session \in {NoRatchet, EpochAt(sending.at)}
<1>1. /\ OffersOK /\ ClientOK(sending) /\ ClientOK(receiving)
      /\ sender \in SenderType /\ sender.epoch <= EpochAt(sending.at)
  BY DEF ReplayInv, TransitionOK, SenderOK
<1>2. /\ sending.at \in 0 .. Len(offers) /\ receiving.at \in 0 .. Len(offers)
      /\ sending.session \in {NoRatchet, EpochAt(sending.at)}
  BY <1>1 DEF ClientOK
<1>3. Len(offers) \in Nat /\ \A i \in 0 .. Len(offers) : EpochAt(i) \in Nat
  BY <1>1 DEF OffersOK
<1>4. sender.epoch \in Nat
  BY <1>1 DEF SenderType
<1> QED
  BY <1>1, <1>2, <1>3, <1>4 DEF Reached

(* Nothing else changes for the two clients and what they may use.         *)
LEMMA SameControl ==
  ASSUME UNCHANGED <<offers, sending, receiving, due, repeated>>,
         sender'.pass = sender.pass, sender'.epoch = sender.epoch
  PROVE  /\ Reached' = Reached /\ EpochAt(sending.at)' = EpochAt(sending.at)
         /\ (\A e : Used(e)' <=> Used(e)) /\ (\A t : Lasts(t)' <=> Lasts(t))
         /\ (Passable' <=> Passable) /\ (AllMayPass' <=> AllMayPass) /\ (InStep => InStep')
<1>1. Reached' = Reached /\ EpochAt(sending.at)' = EpochAt(sending.at)
  BY DEF Reached, EpochAt
<1>2. \A j : Followed(j)' <=> Followed(j)
  BY DEF Followed
<1>3. \A k : MayClear(k)' <=> MayClear(k)
  BY <1>2 DEF MayClear
<1>4. Passable' <=> Passable
  BY <1>3 DEF Passable
<1>5. InStep => InStep'
  <2>1. Followed(receiving.at)' <=> Followed(receiving.at)
    BY DEF Followed
  <2> QED
    BY <1>1, <1>2, <2>1 DEF InStep
<1>6. /\ (\A e : Used(e)' <=> Used(e)) /\ (\A t : Lasts(t)' <=> Lasts(t))
      /\ (AllMayPass' <=> AllMayPass)
  BY <1>1 DEF Used, Lasts, AllMayPass
<1> QED
  BY <1>1, <1>4, <1>5, <1>6

(* The clock of the steps in which time passes.                            *)
LEMMA TickTimes ==
  ASSUME ChannelAssumption, Timely, ReplayInv, OnTheWay, Ticks,
         \A f \in net' : (f \in net /\ now - f.at < MaxDelay) \/ f.at = now
  PROVE  OnTheWay'
<1>1. /\ now' = now + 1 /\ due' = due /\ now < MaxTime /\ now < due
      /\ now \in Nat /\ due \in Nat /\ \A f \in net : f.at \in Nat
  BY DEF Ticks, transition, ReplayInv, ClocksOK, SealedOK
<1>2. ASSUME NEW f \in net' PROVE f.at < now' /\ now' <= f.at + MaxDelay
  <2>1. CASE f \in net /\ now - f.at < MaxDelay
    <3>1. f.at \in Nat /\ f.at < now
      BY <1>1, <2>1 DEF OnTheWay
    <3> QED
      BY <1>1, <2>1, <3>1, Numbers
  <2>2. CASE f.at = now
    BY <1>1, <2>2, Numbers
  <2> QED
    BY <2>1, <2>2
<1> QED
  BY <1>1, <1>2, Numbers DEF OnTheWay

(* What the sender may put on its way in a tick, and how far it may count. *)
NewFrame(f) ==
  /\ f.at = now
  /\ IF f.sealed
     THEN /\ ~sender.pass /\ sender.epoch # NoRatchet /\ f.key[1] = sender.epoch
          /\ IdOf(f)[2] = Count(sender')
          /\ f.nonce \div NoncesPerGeneration = f.key[2] % GenerationWrap
     ELSE sender.pass

Counts ==
  /\ sender'.epoch = sender.epoch /\ sender'.pass = sender.pass
  /\ Count(sender) \in Nat /\ Count(sender') \in Nat
  /\ Count(sender) <= Count(sender') /\ Count(sender') <= Count(sender) + FramesPerTick

(* A tick: one frame more, and the others a tick older.                    *)
LEMMA TickKeeps ==
  ASSUME ChannelAssumption, Timely, ReplayInv, ReplayInv', KeysInv, InTime,
         Ticks, Counts,
         \A f \in net' : (f \in net /\ now - f.at < MaxDelay) \/ NewFrame(f)
  PROVE  InTime'
<1>1. /\ now' = now + 1 /\ due' = due /\ now < MaxTime /\ now < due
      /\ managers' = managers /\ heard' = heard /\ sending' = sending
      /\ allowPassThroughUntil' = allowPassThroughUntil
      /\ UNCHANGED <<offers, sending, receiving, due, repeated>>
  BY DEF Ticks, transition, decryptor, history
<1>2. /\ now \in Nat /\ due \in Nat /\ allowPassThroughUntil \in Nat
      /\ SealedOK /\ SealedOK'
      /\ sender.epoch \in Nat /\ Reached \in Nat /\ EpochAt(sending.at) \in Nat
      /\ sender.epoch <= EpochAt(sending.at)
      /\ sending.session \in {NoRatchet, EpochAt(sending.at)}
  BY Clients DEF ReplayInv, ClocksOK
<1>0. /\ Reached' = Reached /\ EpochAt(sending.at)' = EpochAt(sending.at) /\ InStep'
      /\ (\A e : Used(e)' <=> Used(e)) /\ (\A t : Lasts(t)' <=> Lasts(t))
      /\ (Passable' <=> Passable) /\ (AllMayPass' <=> AllMayPass)
  BY <1>1, SameControl DEF Counts, InTime
<1>3. \A f \in SealedFrames' : f \in SealedFrames \/ (f.sealed /\ NewFrame(f))
  BY DEF SealedFrames
<1>4. OnTheWay'
  BY TickTimes DEF InTime, NewFrame
<1>5. \A id \in Ids' : id \in Ids \/ (sender.epoch # NoRatchet /\ id[1] = sender.epoch
                                      /\ id[2] = Count(sender'))
  <2>1. ASSUME NEW f \in SealedFrames'
        PROVE  IdOf(f) \in Ids \/ (sender.epoch # NoRatchet /\ IdOf(f)[1] = sender.epoch
                                   /\ IdOf(f)[2] = Count(sender'))
    <3>1. IdOf(f)[1] = f.key[1]
      BY DEF IdOf
    <3> QED
      BY <1>3, <3>1 DEF Ids, NewFrame
  <2>2. Ids' = {IdOf(f) : f \in SealedFrames'} \cup heard'
    BY DEF Ids
  <2> QED
    BY <1>1, <2>1, <2>2 DEF Ids
<1>6. SentInOrder'
  <2>1. ASSUME NEW id \in Ids', id \in Ids PROVE NotAhead(id)'
    <3>1. NotAhead(id)
      BY <2>1 DEF InTime, SentInOrder
    <3>2. /\ id[1] = sender.epoch => id[2] <= Count(sender')
          /\ sending.session \notin {NoRatchet, sender.epoch} => id[1] < sending.session
      BY <3>1 DEF NotAhead, Counts
    <3> QED
      BY <1>0, <1>1, <3>1, <3>2 DEF NotAhead, Counts
  <2>2. ASSUME NEW id \in Ids', sender.epoch # NoRatchet, id[1] = sender.epoch,
               id[2] = Count(sender')
        PROVE  NotAhead(id)'
    <3>1. sender.epoch \in Nat \ {0} /\ sender.epoch <= Reached
      BY <1>2, <2>2 DEF InTime, InStep, NoRatchet
    <3>2. sending.session \notin {NoRatchet, sender.epoch} => sender.epoch < sending.session
      BY <1>2
    <3>3. Count(sender') \in Nat /\ Count(sender') <= Count(sender')
      BY DEF Counts
    <3> QED
      BY <1>0, <1>1, <1>2, <2>2, <3>1, <3>2, <3>3 DEF NotAhead, Counts
  <2> QED
    BY <1>5, <2>1, <2>2 DEF SentInOrder
<1>7. Truncated'
  <2>1. \A f \in SealedFrames' :
          f.nonce \div NoncesPerGeneration = f.key[2] % GenerationWrap
    BY <1>3 DEF NewFrame, InTime, Truncated
  <2> QED
    BY <2>1 DEF Truncated
<1>8. WithinRate'
  <2>1. ASSUME NEW i \in DOMAIN managers
        PROVE  /\ managers[i].created \in Nat /\ managers[i].created <= now + 1
               /\ \A id \in Ids' : id[1] = managers[i].epoch => Within(managers[i], id[2])'
               /\ sender.epoch = managers[i].epoch => Within(managers[i], Count(sender))'
    <3> DEFINE e == now - managers[i].created
    <3>1. managers[i].created \in Nat /\ managers[i].created <= now
      BY DEF InTime, WithinRate
    <3>2. e \in Nat /\ now + 1 - managers[i].created = e + 1
      BY <1>2, <3>1
    <3> HIDE DEF e
    <3>3. /\ FramesPerTick * (e + 1) = FramesPerTick * e + FramesPerTick
          /\ FramesPerTick * e \in Nat /\ FramesPerTick \in Nat
      BY <3>2, Numbers
    <3>4. \A n : Within(managers[i], n) <=> n <= FramesPerTick * e
      BY DEF Within, e
    <3>6. sender.epoch = managers[i].epoch => Count(sender') <= FramesPerTick * (e + 1)
      <4>1. sender.epoch = managers[i].epoch => Count(sender) <= FramesPerTick * e
        BY <3>4 DEF InTime, WithinRate
      <4> QED
        BY <3>3, <4>1 DEF Counts
    <3>7. ASSUME NEW id \in Ids', id[1] = managers[i].epoch
          PROVE  id[2] <= FramesPerTick * (e + 1)
      <4>1. CASE id \in Ids
        <5>1. id[2] <= FramesPerTick * e /\ id[2] \in Nat
          BY <3>4, <3>7, <4>1 DEF InTime, WithinRate, SentInOrder, NotAhead
        <5> QED
          BY <3>3, <5>1
      <4>2. CASE id[1] = sender.epoch /\ id[2] = Count(sender')
        BY <3>6, <3>7, <4>2
      <4> QED
        BY <1>5, <4>1, <4>2
    <3>8. now + 1 >= managers[i].created
      BY <1>2, <3>1
    <3> QED
      BY <1>1, <1>2, <3>1, <3>2, <3>6, <3>7, <3>8 DEF Within
  <2> QED
    BY <1>1, <2>1 DEF WithinRate, Counts
<1>9. PathsOpen'
  <2>1. \A e : Expiries(e)' = Expiries(e)
    BY <1>1 DEF Expiries
  <2>2. Expiries(Reached)' = Expiries(Reached)
    BY <1>0, <1>1 DEF Expiries
  <2>3. /\ \A e \in 1 .. Reached : Used(e) => \E t \in Expiries(e) : Lasts(t)
        /\ Reached # 0 => Forever \in Expiries(Reached)
        /\ AllMayPass => allowPassThroughUntil = Forever
        /\ Passable => Lasts(allowPassThroughUntil)
        /\ \A f \in SealedFrames : \E t \in Expiries(f.key[1]) : t >= f.at + MaxDelay
        /\ \A f \in net : ~f.sealed => allowPassThroughUntil > f.at + MaxDelay
        /\ \A i \in DOMAIN managers : managers[i].expiry \in Nat
    BY DEF InTime, PathsOpen
  <2>4. ASSUME NEW t, Lasts(t), t \in Nat PROVE t > now + MaxDelay
    <3>1. CASE t = Forever
      BY <1>1, <1>2, <3>1, Numbers DEF Timely
    <3>2. CASE t # Forever
      <4>1. due + TransitionExpiry <= t + MaxExecuteDelay
        BY <2>4, <3>2 DEF Lasts
      <4> QED
        BY <1>1, <1>2, <2>4, <4>1, Numbers DEF Timely
    <3> QED
      BY <3>1, <3>2
  <2>5. \A e : \A t \in Expiries(e) : t \in Nat
    BY DEF InTime, PathsOpen, Expiries
  <2>6. ASSUME NEW f \in SealedFrames'
        PROVE  \E t \in Expiries(f.key[1]) : t >= f.at + MaxDelay
    <3>1. CASE f \in SealedFrames
      BY <2>3, <3>1
    <3>2. CASE f.sealed /\ NewFrame(f)
      <4>1. PICK t \in Expiries(sender.epoch) : Lasts(t)
        <5>1. sender.epoch \in 1 .. Reached /\ Used(sender.epoch)
          BY <1>2, <3>2 DEF NewFrame, InTime, InStep, Used, NoRatchet
        <5> QED
          BY <2>3, <5>1
      <4>2. t \in Nat /\ t > now + MaxDelay
        BY <2>4, <2>5, <4>1
      <4>3. t >= now + MaxDelay
        BY <1>2, <4>2, Numbers
      <4> QED
        BY <3>2, <4>1, <4>3 DEF NewFrame
    <3> QED
      BY <1>3, <3>1, <3>2
  <2>7. ASSUME NEW f \in net', ~f.sealed
        PROVE  allowPassThroughUntil > f.at + MaxDelay
    BY <1>2, <2>3, <2>4, <2>7 DEF NewFrame, Passable
  <2>8. Lasts(allowPassThroughUntil)' <=> Lasts(allowPassThroughUntil)
    BY <1>1 DEF Lasts
  <2> QED
    BY <1>0, <1>1, <2>1, <2>2, <2>3, <2>6, <2>7, <2>8 DEF PathsOpen
<1>10. AllFollowed'
  <2>1. ASSUME NEW i \in DOMAIN managers, NEW f \in SealedFrames'
        PROVE  StillAccepted(managers[i], Heard(heard, managers[i].epoch), f)
    <3> DEFINE m == managers[i]
               H == Heard(heard, m.epoch)
    <3>1. CASE f \in SealedFrames
      BY <3>1 DEF InTime, AllFollowed, Follows
    <3>2. CASE f.sealed /\ NewFrame(f)
      <4> SUFFICES ASSUME f.key[1] = m.epoch, NEW c \in H
                   PROVE  m.newest <= f.key[2]
        BY DEF StillAccepted, Accepted
      <4>1. /\ m.last \in H /\ m.newest = m.last \div NoncesPerGeneration
        BY DEF InTime, AllFollowed, Follows, Remembers, Generations
      <4>2. PICK id \in heard : id[1] = m.epoch /\ id[2] = m.last
        BY <4>1 DEF Heard
      <4>3. NotAhead(id)
        BY DEF InTime, SentInOrder, Ids
      <4>4. m.last \in Nat /\ m.last <= Count(sender')
        BY <3>2, <4>2, <4>3 DEF NotAhead, NewFrame, Counts
      <4>5. f.key[2] = Count(sender') \div NoncesPerGeneration
        <5>1. f.key \in Nat \X Nat /\ f.nonce \in Nat
          BY <1>2, <3>2 DEF SealedFrames, SealedOK
        <5> QED
          BY <3>2, <5>1, IdTyped DEF NewFrame
      <4>6. m.last \div NoncesPerGeneration <= Count(sender') \div NoncesPerGeneration
        <5> DEFINE l == m.last
                   d == Count(sender')
        <5>1. l \in Nat /\ d \in Nat /\ l <= d
          BY <4>4 DEF Counts
        <5> HIDE DEF l, d
        <5> QED
          BY <5>1, Numbers, Growing DEF l, d
      <4> QED
        BY <4>1, <4>5, <4>6
    <3> QED
      BY <1>3, <3>1, <3>2
  <2>2. \A i \in DOMAIN managers :
          /\ Remembers(managers[i], Heard(heard, managers[i].epoch))
          /\ Generations(managers[i], Heard(heard, managers[i].epoch))
    BY DEF InTime, AllFollowed, Follows
  <2> QED
    BY <1>1, <2>1, <2>2 DEF AllFollowed, Follows
<1> QED
  BY <1>0, <1>4, <1>6, <1>7, <1>8, <1>9, <1>10 DEF InTime

(* The frame a sender seals is of the ratchet it has, and counts on.       *)
LEMMA EncryptKeeps ==
  ASSUME ChannelAssumption, Timely, ReplayInv, ReplayInv', KeysInv, NonceInv, InTime,
         Encrypt
  PROVE  InTime'
<1>1. sender \in SenderType /\ sender' \in SenderType
  BY DEF ReplayInv, SenderOK
<1>2. PICK k \in Attempts(At(now)) :
        /\ sender' = NextNonce(sender, k)
        /\ Send({f \in {[sealed |-> TRUE, at |-> now, nonce |-> sender'.nonce,
                         key |-> <<sender'.epoch, sender'.generation>>]} :
                 Fits(Ranges[At(now)], sender'.nonce)})
  BY DEF Encrypt
<1>3. k \in 1 .. NoncesPerGeneration /\ k <= FramesPerTick
  <2>1. k \in Nat /\ 1 <= k /\ k <= MaxEncryptAttempts
    BY Numbers DEF Attempts
  <2> QED
    BY <2>1, Numbers DEF ChannelAssumption, Timely
<1>4. PICK q, r, s \in Nat : Lap(sender, q, r, s)
  BY DEF NonceInv
<1>5. /\ \E u, v, w \in Nat : Lap(sender', u, v, w)
      /\ Count(sender') = Count(sender) + k
  BY <1>1, <1>2, <1>3, <1>4, NextNonceAdvances DEF Count
<1>6. Count(sender) \in Nat
  BY <1>1, BigNonceNat, Numbers DEF Count, SenderType
<1>7. sender'.epoch = sender.epoch /\ sender'.pass = sender.pass
  BY <1>1, <1>2 DEF NextNonce, SenderType
<1>8. Counts
  BY <1>3, <1>5, <1>6, <1>7, Numbers DEF Counts
<1>9. sender'.nonce \div NoncesPerGeneration = sender'.generation % GenerationWrap
  <2>1. PICK u, v, w \in Nat : Lap(sender', u, v, w)
    BY <1>5
  <2>2. (v * NoncesPerGeneration + w) \div NoncesPerGeneration = v
    BY <2>1, Numbers, Division DEF Lap
  <2>3. (u * GenerationWrap + v) % GenerationWrap = v
    BY <2>1, Numbers, Division DEF Lap
  <2> QED
    BY <2>1, <2>2, <2>3 DEF Lap
<1> DEFINE g == [sealed |-> TRUE, at |-> now, nonce |-> sender'.nonce,
                 key |-> <<sender'.epoch, sender'.generation>>]
<1>10. NewFrame(g)
  <2>1. IdOf(g)[2] = Count(sender')
    BY DEF IdOf, Count
  <2>2. ~sender.pass /\ sender.epoch # NoRatchet
    BY DEF Encrypt
  <2> QED
    BY <1>7, <1>9, <2>1, <2>2 DEF NewFrame
<1>11. \A f \in net' : (f \in net /\ now - f.at < MaxDelay) \/ f = g
  BY <1>2 DEF Send
<1> HIDE DEF g
<1>12. \A f \in net' : (f \in net /\ now - f.at < MaxDelay) \/ NewFrame(f)
  BY <1>10, <1>11
<1>13. Ticks
  BY DEF Encrypt
<1> QED
  BY <1>8, <1>12, <1>13, TickKeeps

(* A tick without a sealed frame.                                          *)
LEMMA PauseKeeps ==
  ASSUME ChannelAssumption, Timely, ReplayInv, ReplayInv', KeysInv, InTime,
         EncryptPassthrough \/ Quiet
  PROVE  InTime'
<1>1. sender \in SenderType /\ sender' = sender
  BY DEF ReplayInv, SenderOK, EncryptPassthrough, Quiet
<1>2. Counts
  <2>1. Count(sender) \in Nat
    BY <1>1, BigNonceNat, Numbers DEF Count, SenderType
  <2> QED
    BY <1>1, <2>1, Numbers DEF Counts
<1> DEFINE g == [sealed |-> FALSE, at |-> now]
<1>3. \A f \in net' : (f \in net /\ now - f.at < MaxDelay)
                      \/ (f = g /\ sender.pass)
  BY DEF EncryptPassthrough, Quiet, Send
<1>4. sender.pass => NewFrame(g)
  BY DEF NewFrame
<1> HIDE DEF g
<1>5. \A f \in net' : (f \in net /\ now - f.at < MaxDelay) \/ NewFrame(f)
  BY <1>3, <1>4
<1>6. Ticks
  BY DEF EncryptPassthrough, Quiet
<1> QED
  BY <1>2, <1>5, <1>6, TickKeeps

-----------------------------------------------------------------------------
(* A manager that is not expired stays in the list.                        *)
LEMMA UnexpiredStays ==
  ASSUME NEW S, managers \in Seq(S), NEW i \in DOMAIN managers,
         ~IsExpired(managers[i], now)
  PROVE  \E j \in DOMAIN Unexpired : Unexpired[j] = managers[i]
<1> DEFINE gone == {h \in DOMAIN managers : \A j \in 1 .. h : IsExpired(managers[j], now)}
           k == Cardinality(gone)
           n == Len(managers)
<1>1. n \in Nat /\ DOMAIN managers = 1 .. n /\ i \in 1 .. n
  OBVIOUS
<1>2. gone \subseteq 1 .. i - 1
  BY <1>1
<1>3. k \in Nat /\ k < i
  <2> HIDE DEF gone
  <2>1. IsFiniteSet(1 .. i - 1) /\ Cardinality(1 .. i - 1) = i - 1
    <3>1. i \in Int /\ 1 <= i /\ 1 \in Int /\ i - 1 \in Int
      BY <1>1
    <3>2. IsFiniteSet(1 .. i - 1) /\ Cardinality(1 .. i - 1) =
            IF 1 > i - 1 THEN 0 ELSE i - 1 - 1 + 1
      BY <3>1, FS_Interval
    <3> QED
      BY <3>1, <3>2
  <2>2. IsFiniteSet(gone) /\ Cardinality(gone) <= Cardinality(1 .. i - 1)
    BY <1>2, <2>1, FS_Subset
  <2> QED
    BY <1>1, <2>1, <2>2, FS_CardinalityType
<1>4. Unexpired = SubSeq(managers, k + 1, n)
  BY DEF Unexpired
<1> HIDE DEF k, gone
<1>5. i - k \in DOMAIN Unexpired /\ Unexpired[i - k] = managers[i]
  BY <1>1, <1>3, <1>4
<1> QED
  BY <1>5

(* What is on its way is not late, and what waits for it has not run out.  *)
LEMMA StillOnTime ==
  ASSUME ChannelAssumption, Timely, ReplayInv, OnTheWay
  PROVE  /\ now \in Nat /\ now < Forever
         /\ \A f \in net :
              /\ f.at \in Nat /\ f.at + MaxDelay \in Nat /\ now <= f.at + MaxDelay
              /\ f.at + MaxDelay <= now + CryptorExpiry /\ f.at + MaxDelay < Forever
         /\ \A f \in SealedFrames : f \in net /\ f.key \in Nat \X Nat /\ f.nonce \in Nat
<1>1. now \in Nat /\ \A f \in net : f.at \in Nat
  BY DEF ReplayInv, ClocksOK, SealedOK
<1>2. now <= MaxTime /\ \A f \in net : f.at < now /\ now <= f.at + MaxDelay
  BY DEF OnTheWay
<1>3. now < Forever
  BY <1>1, <1>2, Numbers DEF Timely
<1>4. \A f \in net :
        /\ f.at + MaxDelay \in Nat
        /\ f.at + MaxDelay <= now + CryptorExpiry /\ f.at + MaxDelay < Forever
  BY <1>1, <1>2, Numbers DEF Timely
<1>5. \A f \in SealedFrames : f \in net /\ f.key \in Nat \X Nat /\ f.nonce \in Nat
  BY DEF SealedFrames, ReplayInv, SealedOK
<1> QED
  BY <1>1, <1>2, <1>3, <1>4, <1>5

(* Whatever frame they are tried with, all managers still accept what is   *)
(* on its way.                                                             *)
LEMMA TriedFollow ==
  ASSUME ChannelAssumption, Timely, ReplayInv, OnTheWay,
         NEW ms, NEW last, Good(ms, heard, last, {}), NEW f \in SealedFrames,
         \A i \in DOMAIN ms : KeysOK(ms[i]) /\ Follows(ms[i], Heard(heard, ms[i].epoch))
  PROVE  LET results == Results(ms, f)
             id == IF Decrypted(results) THEN {IdOf(f)} ELSE {}
             ts == Tried(ms, results)
         IN /\ DOMAIN ts = DOMAIN ms
            /\ \A i \in DOMAIN ms :
                 /\ ts[i].epoch = ms[i].epoch /\ SameSpan(ms[i], ts[i])
                 /\ Follows(ts[i], Heard(heard \cup id, ms[i].epoch))
<1> DEFINE results == Results(ms, f)
           id == IF Decrypted(results) THEN {IdOf(f)} ELSE {}
           ts == Tried(ms, results)
<1>1. /\ f.key \in Nat \X Nat /\ f.nonce \in Nat
      /\ now \in Nat /\ now <= Forever
  BY StillOnTime
<1>2. /\ DOMAIN ts = DOMAIN ms
      /\ \A i \in DOMAIN ms :
           LET r == DecryptImpl(ms[i], f)
               H == Heard(heard, ms[i].epoch)
               G == Heard(heard \cup id, ms[i].epoch)
           IN /\ r.ok => ts[i] = r.after /\ G = H \cup {IdOf(f)[2]}
              /\ ~r.ok => ts[i] \in {ms[i], r.after} /\ G = H
  <2>1. DOMAIN ts = DOMAIN ms
    BY <1>1, TriedEach
  <2>2. ASSUME NEW i \in DOMAIN ms
        PROVE  LET r == DecryptImpl(ms[i], f)
                   H == Heard(heard, ms[i].epoch)
                   G == Heard(heard \cup id, ms[i].epoch)
               IN /\ ts[i] \in {ms[i], r.after}
                  /\ r.ok => ts[i] = r.after /\ G = H \cup {IdOf(f)[2]}
                  /\ ~r.ok => G = H
    BY SMTT(30), <1>1, TriedEach
  <2> QED
    BY <2>1, <2>2
<1> HIDE DEF results, id, ts
<1>3. ASSUME NEW i \in DOMAIN ms
      PROVE  /\ ts[i].epoch = ms[i].epoch /\ SameSpan(ms[i], ts[i])
             /\ Follows(ts[i], Heard(heard \cup id, ms[i].epoch))
  <2> DEFINE m == ms[i]
             r == DecryptImpl(m, f)
             H == Heard(heard, m.epoch)
             G == Heard(heard \cup id, m.epoch)
  <2>1. /\ r.ok \in BOOLEAN
        /\ r.ok => ts[i] = r.after /\ G = H \cup {IdOf(f)[2]}
        /\ ~r.ok => ts[i] \in {m, r.after} /\ G = H
        /\ r.after.epoch = m.epoch
    <3>1. Window(m, H)
      BY DEF Good
    <3>2. /\ r.ok => ts[i] = r.after /\ G = H \cup {IdOf(f)[2]}
          /\ ~r.ok => ts[i] \in {m, r.after} /\ G = H
      BY <1>2
    <3>3. r.ok \in BOOLEAN /\ r.after.epoch = m.epoch
      <4> HIDE DEF H, m
      <4> QED
        BY <1>1, <3>1, DecryptImplKeepsWindow
    <3> QED
      BY <3>2, <3>3
  <2>2. Window(m, H) /\ KeysOK(m) /\ Follows(m, H)
    BY DEF Good
  <2>3. /\ Remembers(r.after, G) /\ Generations(r.after, G) /\ SameSpan(m, r.after)
        /\ \A g \in Nat, until \in Nat, x \in Nat :
             /\ now <= until /\ until <= now + CryptorExpiry /\ until <= Forever
             /\ g = x \div NoncesPerGeneration
             /\ (\E c \in H : c < x) => Accepted(m, g, until)
             /\ \E c \in G : c < x
             => Accepted(r.after, g, until)
    <3>1. G = IF r.ok THEN H \cup {IdOf(f)[2]} ELSE H
      BY <2>1
    <3> HIDE DEF G, H, m
    <3> QED
      BY <1>1, <2>2, <3>1, DecryptImplAccepts DEF Follows, r
  <2> HIDE DEF r, G, H, m
  <2>4. ASSUME NEW e \in SealedFrames PROVE StillAccepted(r.after, G, e)
    <3>1. /\ e.key[2] \in Nat /\ IdOf(e)[2] \in Nat
          /\ e.key[2] = IdOf(e)[2] \div NoncesPerGeneration
      BY StillOnTime, IdTyped
    <3>2. /\ e.at + MaxDelay \in Nat /\ now <= e.at + MaxDelay
          /\ e.at + MaxDelay <= now + CryptorExpiry /\ e.at + MaxDelay <= Forever
      BY StillOnTime, Numbers
    <3>3. StillAccepted(m, H, e)
      BY <2>2 DEF Follows
    <3> QED
      BY <2>1, <2>3, <3>1, <3>2, <3>3 DEF StillAccepted
  <2>5. Follows(r.after, G)
    BY <2>3, <2>4 DEF Follows
  <2>6. ts[i] = r.after \/ (ts[i] = m /\ G = H)
    BY <2>1
  <2>7. ts[i].epoch = m.epoch /\ SameSpan(m, ts[i]) /\ Follows(ts[i], G)
    BY <2>1, <2>2, <2>3, <2>5, <2>6 DEF SameSpan
  <2> QED
    BY <2>7 DEF m, G
<1> QED
  BY <1>2, <1>3 DEF ts, id, results

(* A manager that is not expired is not waited for in vain.                *)
LEMMA LastsLong ==
  ASSUME ChannelAssumption, Timely, ReplayInv, OnTheWay, NEW t \in Nat, Lasts(t)
  PROVE  now <= t
<1>1. CASE t = Forever
  BY <1>1, StillOnTime, Numbers
<1>2. CASE t # Forever
  <2>1. due + TransitionExpiry <= t + MaxExecuteDelay /\ now <= due /\ now \in Nat /\ due \in Nat
    BY <1>2 DEF Lasts, OnTheWay, ReplayInv, ClocksOK
  <2> QED
    BY <2>1, Numbers DEF Timely
<1> QED
  BY <1>1, <1>2

(* Only managers that are expired are given up.                            *)
LEMMA ManagersPass ==
  ASSUME ChannelAssumption, Timely, ReplayInv, InTime,
         UNCHANGED <<now, sender, net, allowPassThroughUntil, transition>>, Ids' \subseteq Ids,
         \A j \in DOMAIN managers' : \E i \in DOMAIN managers :
           SameSpan(managers[i], managers'[j]) /\ managers'[j].epoch = managers[i].epoch,
         \A i \in DOMAIN managers : ~IsExpired(managers[i], now) =>
           \E j \in DOMAIN managers' : /\ managers'[j].epoch = managers[i].epoch
                                       /\ managers'[j].expiry = managers[i].expiry,
         AllFollowed'
  PROVE  InTime'
<1>1. /\ now' = now /\ sender' = sender /\ net' = net /\ sending' = sending
      /\ allowPassThroughUntil' = allowPassThroughUntil /\ due' = due
      /\ UNCHANGED <<offers, sending, receiving, due, repeated>>
      /\ SealedFrames' = SealedFrames
  BY DEF transition, SealedFrames
<1>2. /\ OnTheWay /\ SentInOrder /\ Truncated /\ WithinRate /\ InStep /\ PathsOpen
      /\ Reached \in Nat
  BY Clients DEF InTime
<1>3. /\ Reached' = Reached /\ EpochAt(sending.at)' = EpochAt(sending.at) /\ InStep'
      /\ (\A e : Used(e)' <=> Used(e)) /\ (\A t : Lasts(t)' <=> Lasts(t))
      /\ (Passable' <=> Passable) /\ (AllMayPass' <=> AllMayPass)
  BY <1>1, <1>2, SameControl
<1>8. OnTheWay' /\ SentInOrder' /\ Truncated'
  <2>1. OnTheWay' /\ Truncated'
    BY <1>1, <1>2 DEF OnTheWay, Truncated
  <2>2. ASSUME NEW id \in Ids PROVE NotAhead(id)'
    BY <1>1, <1>2, <1>3 DEF SentInOrder, NotAhead
  <2> QED
    BY <2>1, <2>2 DEF SentInOrder
<1>4. WithinRate'
  BY <1>1, <1>2 DEF WithinRate, Within, SameSpan
<1>5. ASSUME NEW e, NEW t \in Expiries(e), now <= t PROVE t \in Expiries(e)'
  <2>1. PICK i \in DOMAIN managers : managers[i].epoch = e /\ managers[i].expiry = t
    BY DEF Expiries
  <2>2. t \in Nat /\ now \in Nat
    BY <1>2, <2>1 DEF PathsOpen, ReplayInv, ClocksOK
  <2>3. ~IsExpired(managers[i], now)
    BY <1>5, <2>1, <2>2 DEF IsExpired
  <2> QED
    BY <2>1, <2>3 DEF Expiries
<1>6. \A e : \A t \in Expiries(e) : t \in Nat
  BY <1>2 DEF PathsOpen, Expiries
<1>7. PathsOpen'
  <2>1. \A i \in DOMAIN managers' : managers'[i].expiry \in Nat
    BY <1>2 DEF PathsOpen, SameSpan
  <2>2. ASSUME NEW e \in 1 .. Reached, Used(e) PROVE \E t \in Expiries(e)' : Lasts(t)
    BY <1>2, <1>5, <1>6, <2>2, LastsLong DEF PathsOpen
  <2>3. Reached # 0 => Forever \in Expiries(Reached)'
    <3>1. now <= Forever
      BY <1>2, StillOnTime, Numbers
    <3>2. PICK e : e = Reached
      OBVIOUS
    <3>3. e # 0 => Forever \in Expiries(e)'
      BY <1>2, <1>5, <3>1, <3>2 DEF PathsOpen
    <3> QED
      BY <1>3, <3>2, <3>3 DEF Expiries
  <2>4. ASSUME NEW f \in SealedFrames PROVE \E t \in Expiries(f.key[1])' : t >= f.at + MaxDelay
    <3>1. PICK t \in Expiries(f.key[1]) : t >= f.at + MaxDelay
      BY <1>2 DEF PathsOpen
    <3>2. now <= t
      BY <1>2, <1>6, <3>1, StillOnTime
    <3> QED
      BY <1>5, <3>1, <3>2
  <2>5. Lasts(allowPassThroughUntil)' <=> Lasts(allowPassThroughUntil)
    BY <1>1 DEF Lasts
  <2> QED
    BY <1>1, <1>2, <1>3, <2>1, <2>2, <2>3, <2>4, <2>5 DEF PathsOpen
<1> QED
  BY <1>3, <1>4, <1>7, <1>8 DEF InTime

(* A frame comes, for the first time or again.                             *)
LEMMA DecryptKeeps ==
  ASSUME ChannelAssumption, Timely, ReplayInv, KeysInv, InTime, NEW f \in net, Decrypt(f)
  PROVE  InTime'
<1> DEFINE ms == Unexpired
<1>1. /\ UNCHANGED <<now, sender, net, allowPassThroughUntil, transition>>
      /\ SealedFrames' = SealedFrames
  BY DEF Decrypt, SealedFrames
<1>2. Good(managers, heard, Reached, {}) /\ OnTheWay /\ AllFollowed
  BY DEF ReplayInv, InTime, InStep
<1>3. PICK S : managers \in Seq(S)
  BY <1>2 DEF Good
<1>4. /\ \A i \in DOMAIN ms : \E k \in DOMAIN managers : ms[i] = managers[k]
      /\ \A k \in DOMAIN managers : ~IsExpired(managers[k], now) =>
           \E i \in DOMAIN ms : ms[i] = managers[k]
  BY <1>3, UnexpiredIsSuffix, UnexpiredStays
<1>5. Good(ms, heard, Reached, {}) /\ \A i \in DOMAIN ms : KeysOK(ms[i])
  BY <1>2, UnexpiredGood, UnexpiredKeysOK
<1>6. \A i \in DOMAIN ms : Follows(ms[i], Heard(heard, ms[i].epoch))
  BY <1>2, <1>4 DEF AllFollowed
<1>7. CASE f.sealed
  <2> DEFINE results == Results(ms, f)
             id == IF Decrypted(results) THEN {IdOf(f)} ELSE {}
             ts == Tried(ms, results)
  <2>1. managers' = ts /\ heard' = heard \cup id /\ f \in SealedFrames
    BY <1>7 DEF Decrypt, SealedFrames
  <2>2. /\ DOMAIN ts = DOMAIN ms
        /\ \A i \in DOMAIN ms :
             /\ ts[i].epoch = ms[i].epoch /\ SameSpan(ms[i], ts[i])
             /\ Follows(ts[i], Heard(heard \cup id, ms[i].epoch))
    <3> HIDE DEF ms
    <3> QED
      BY <1>2, <1>5, <1>6, <2>1, TriedFollow
  <2>3. Ids' \subseteq Ids
    <3>1. id \subseteq {IdOf(e) : e \in SealedFrames}
      BY <2>1
    <3> QED
      BY <1>1, <2>1, <3>1 DEF Ids
  <2> HIDE DEF ms, ts, id
  <2>4. \A j \in DOMAIN managers' : \E i \in DOMAIN managers :
          SameSpan(managers[i], managers'[j]) /\ managers'[j].epoch = managers[i].epoch
    BY <1>4, <2>1, <2>2
  <2>5. \A i \in DOMAIN managers : ~IsExpired(managers[i], now) =>
          \E j \in DOMAIN managers' : /\ managers'[j].epoch = managers[i].epoch
                                      /\ managers'[j].expiry = managers[i].expiry
    BY <1>4, <2>1, <2>2 DEF SameSpan
  <2>6. AllFollowed'
    BY <1>1, <2>1, <2>2 DEF AllFollowed, Follows, StillAccepted
  <2> QED
    BY <1>1, <2>3, <2>4, <2>5, <2>6, ManagersPass
<1>8. CASE ~f.sealed
  <2>1. managers' \in {managers, ms} /\ heard' = heard
    BY <1>8 DEF Decrypt, history
  <2> HIDE DEF ms
  <2>2. Ids' \subseteq Ids
    BY <1>1, <2>1 DEF Ids
  <2>3. \A j \in DOMAIN managers' : \E i \in DOMAIN managers : managers'[j] = managers[i]
    BY <1>4, <2>1
  <2>4. \A i \in DOMAIN managers : ~IsExpired(managers[i], now) =>
          \E j \in DOMAIN managers' : managers'[j] = managers[i]
    BY <1>4, <2>1
  <2>5. AllFollowed'
    BY <1>1, <1>2, <2>1, <2>3 DEF AllFollowed, Follows, StillAccepted
  <2> QED
    BY <1>1, <2>2, <2>3, <2>4, <2>5, ManagersPass DEF SameSpan
<1> QED
  BY <1>7, <1>8


(* What is at most n is not the one after n, nor beyond it.                *)
LEMMA BelowNext ==
  ASSUME NEW n \in Nat, NEW x \in Nat, x <= n
  PROVE  x # n + 1 /\ x <= n + 1 /\ n <= n + 1 /\ n + 1 \in Nat \ {0}
OBVIOUS

(* One more index.                                                         *)
LEMMA OneMore ==
  ASSUME NEW n \in Nat, NEW k \in 1 .. n + 1
  PROVE  (k # n + 1 => k \in 1 .. n) /\ \A j \in k .. n : j \in k .. n + 1
OBVIOUS

(* The date by which the sender must have followed.                        *)
LEMMA DueInTime ==
  ASSUME ChannelAssumption, Timely, ReplayInv, OnTheWay, UNCHANGED <<now, net>>,
         due' = Earlier(due, now + MaxExecuteDelay)
  PROVE  /\ OnTheWay' /\ due' # Forever /\ due' <= now + MaxExecuteDelay /\ due' \in Nat
         /\ due # Forever => due' = due
<1>1. now \in Nat /\ due \in Nat /\ now <= MaxTime
  BY DEF ReplayInv, ClocksOK, OnTheWay
<1>2. now + MaxExecuteDelay < Forever
  BY <1>1, Numbers DEF Timely
<1>3. CASE due = Forever
  <2>1. due' = now + MaxExecuteDelay
    BY <1>1, <1>2, <1>3, Numbers DEF Earlier
  <2> QED
    BY <1>1, <1>2, <1>3, <2>1, Numbers DEF OnTheWay
<1>4. CASE due # Forever
  <2>1. due <= now + MaxExecuteDelay
    BY <1>4 DEF OnTheWay
  <2>2. due' = due
    BY <1>1, <2>1, Numbers DEF Earlier
  <2> QED
    BY <1>1, <1>4, <2>1, <2>2 DEF OnTheWay
<1> QED
  BY <1>3, <1>4

(* The receiver prepares an offer before the sender executes it.           *)
LEMMA PreparedFirst ==
  ASSUME ReplayInv, InStep, NEW i, i = receiving.at + 1
  PROVE  ~Followed(i) /\ Due(i) = Earlier(due, now + MaxExecuteDelay)
<1>1. ~Followed(i)
  <2>1. receiving.at \in Nat /\ sending.at \in Nat
    BY Clients
  <2> QED
    BY <2>1 DEF InStep, Followed
<1> QED
  BY <1>1 DEF Followed, Due

(* Another place of the receiver is nothing to what the sender has done.   *)
LEMMA ReceiverAlone ==
  ASSUME ReplayInv, InStep, UNCHANGED <<sender, offers, sending, repeated>>,
         receiving'.at = receiving.at + 1, due' # Forever, Reached <= Reached', Reached' \in Nat
  PROVE  InStep' /\ (\A e : Used(e)' <=> Used(e)) /\ \A j : Followed(j)' <=> Followed(j)
<1>1. \A j : Followed(j)' <=> Followed(j)
  BY DEF Followed
<1>2. \A e : Used(e)' <=> Used(e)
  BY DEF Used, EpochAt
<1>3. /\ sending.at \in Nat /\ receiving.at \in Nat /\ sender.epoch \in Nat /\ Reached \in Nat
      /\ sender.epoch <= Reached /\ repeated = {}
      /\ \A j \in 1 .. sending.at : Followed(j) => j <= receiving.at
  BY Clients DEF InStep
<1>4. sender.epoch <= Reached'
  BY <1>3
<1>5. \A j \in 1 .. sending.at : Followed(j) => j <= receiving.at + 1
  BY <1>3
<1> QED
  BY <1>1, <1>2, <1>3, <1>4, <1>5 DEF InStep

(* The old managers wait as long as what is sent before the transition may *)
(* take, and the new one for what is sent after it.                        *)
LEMMA PrepareRatchetKeeps ==
  ASSUME ChannelAssumption, Timely, ReplayInv, InTime, PrepareRatchet, ~outOfStep'
  PROVE  InTime'
<1>n. PICK n, e : n = Len(managers) /\ e = receiving'.session
  OBVIOUS
<1>o. PICK old \in Nat : old = Reached
  BY Clients
<1>r. PICK r \in Nat : r = receiving.at
  BY Clients
<1>0. n = Len(managers) /\ e = receiving'.session /\ old = Reached /\ r = receiving.at
  BY <1>n, <1>o, <1>r
<1> DEFINE i == r + 1
           fresh == NewManager(e, now)
           later == now + TransitionExpiry
           After(d) == {managers'[k].expiry : k \in {j \in DOMAIN managers' :
                                                       managers'[j].epoch = d}}
<1>1. /\ now' = now /\ sender' = sender /\ net' = net /\ heard' = heard
      /\ UNCHANGED <<offers, sending>> /\ receiving'.at = i /\ due' = Due(i)
      /\ receiving.at < Len(offers) /\ offers[i].version = 1
      /\ allowPassThroughUntil' = Earlier(allowPassThroughUntil, later)
      /\ SealedFrames' = SealedFrames /\ Ids' = Ids
  BY <1>0 DEF PrepareRatchet, Prepared, history, SealedFrames, Ids
<1>2. OnTheWay /\ SentInOrder /\ Truncated /\ WithinRate /\ InStep /\ PathsOpen /\ AllFollowed
  BY DEF InTime
<1>3. /\ now \in Nat /\ now <= MaxTime /\ allowPassThroughUntil \in Nat
      /\ later \in Nat /\ later < Forever /\ due \in Nat
      /\ old \in Nat /\ sender.epoch \in Nat /\ sender.epoch <= old
      /\ sending.at \in Nat
  <2>1. now \in Nat /\ now <= MaxTime /\ allowPassThroughUntil \in Nat /\ due \in Nat
    BY <1>2 DEF ReplayInv, ClocksOK, OnTheWay
  <2>2. sender.epoch \in Nat /\ sender.epoch <= old /\ sending.at \in Nat
    BY <1>0, <1>2, Clients DEF InStep
  <2>3. later \in Nat /\ later < Forever
    BY <2>1, Numbers DEF Timely
  <2> QED
    BY <1>0, <2>1, <2>2, <2>3
<1>4. /\ Reached' = old + 1 /\ e = old + 1 /\ repeated' = repeated
  BY <1>0, PreparedRatchet
<1>5. /\ OnTheWay' /\ due' # Forever /\ due' <= now + MaxExecuteDelay /\ due' \in Nat
      /\ due # Forever => due' = due
  BY <1>0, <1>1, <1>2, PreparedFirst, DueInTime
<1>6. InStep' /\ (\A d : Used(d)' <=> Used(d)) /\ \A j : Followed(j)' <=> Followed(j)
  <2>1. Reached <= Reached' /\ Reached' \in Nat
    BY <1>0, <1>4, BelowNext, AtMost
  <2> QED
    BY <1>0, <1>1, <1>2, <1>4, <1>5, <2>1, ReceiverAlone
<1>7. /\ n \in Nat /\ DOMAIN managers = 1 .. n /\ DOMAIN managers' = 1 .. n + 1
      /\ \A k \in 1 .. n : managers'[k] = [managers[k] EXCEPT !.expiry = later]
      /\ managers'[n + 1] = fresh
  <2>1. e # NoRatchet
    BY <1>3, <1>4 DEF NoRatchet
  <2> QED
    BY <1>0, <2>1, PreparedManagers
<1>8. ASSUME NEW k \in 1 .. n
      PROVE  LET m == managers[k]
                 o == managers'[k]
             IN /\ o.epoch = m.epoch /\ o.created = m.created /\ o.expiry = later
                /\ o.last = m.last /\ o.missing = m.missing /\ o.cryptors = m.cryptors
                /\ o.oldest = m.oldest /\ o.newest = m.newest
  <2>1. IsManager(managers[k])
    BY <1>7 DEF ReplayInv, Good, Window
  <2> QED
    BY <1>7, <2>1 DEF IsManager, Fields
<1>9. /\ fresh.epoch = old + 1 /\ fresh.created = now /\ fresh.expiry = Forever
      /\ fresh.last = NoNonce /\ fresh.missing = {} /\ fresh.cryptors = <<>>
      /\ fresh.newest = 0
  BY <1>4 DEF NewManager
<1> HIDE DEF fresh
<1>10. \A k \in DOMAIN managers' : k \in 1 .. n \/ k = n + 1
  <2>1. n \in Nat /\ DOMAIN managers' = 1 .. n + 1
    BY <1>7
  <2> QED
    BY <2>1, OneMore
<1>11. \A id \in Ids : id[1] \in Nat /\ id[1] <= old
  BY <1>0, <1>2 DEF SentInOrder, NotAhead
<1>12. SentInOrder' /\ Truncated'
  <2>1. ASSUME NEW id \in Ids PROVE NotAhead(id)'
    <3>1. id[1] <= old + 1 /\ NotAhead(id)
      BY <1>2, <1>3, <1>11 DEF SentInOrder
    <3>2. EpochAt(sending.at)' = EpochAt(sending.at)
      BY <1>1 DEF EpochAt
    <3> QED
      BY <1>1, <1>4, <3>1, <3>2 DEF NotAhead
  <2> QED
    BY <1>1, <1>2, <2>1 DEF SentInOrder, Truncated
<1>13. WithinRate'
  <2>1. ASSUME NEW k \in DOMAIN managers', NEW m, m = managers'[k]
        PROVE  /\ m.created \in Nat /\ m.created <= now
               /\ \A id \in Ids : id[1] = m.epoch => Within(m, id[2])
               /\ sender.epoch = m.epoch => Within(m, Count(sender))
    <3>1. CASE k \in 1 .. n
      BY <1>2, <1>7, <1>8, <2>1, <3>1 DEF WithinRate, Within
    <3>2. CASE k = n + 1
      <4>1. m.created = now /\ m.epoch = old + 1
        BY <1>7, <1>9, <2>1, <3>2
      <4>2. sender.epoch # old + 1 /\ \A id \in Ids : id[1] # old + 1
        BY <1>3, <1>11, BelowNext
      <4> QED
        BY <1>3, <4>1, <4>2
    <3> QED
      BY <1>10, <3>1, <3>2
  <2> QED
    BY <1>1, <2>1 DEF WithinRate, Within
<1>14. PathsOpen'
  <2>1. \A k \in DOMAIN managers' : managers'[k].expiry \in Nat
    BY <1>3, <1>7, <1>8, <1>9, <1>10, Numbers
  <2>2. ASSUME NEW d, NEW t \in Expiries(d) PROVE later \in After(d)
    <3>1. PICK k \in 1 .. n : managers[k].epoch = d
      BY <1>7 DEF Expiries
    <3>2. k \in DOMAIN managers'
      <4>1. DOMAIN managers' = 1 .. n + 1 /\ n \in Nat
        BY <1>7
      <4> QED
        BY <4>1
    <3> QED
      BY <1>8, <3>1, <3>2
  <2>3. Forever \in After(old + 1)
    <3>1. n + 1 \in DOMAIN managers'
      <4>1. DOMAIN managers' = 1 .. n + 1 /\ n \in Nat
        BY <1>7
      <4> QED
        BY <4>1
    <3> QED
      BY <1>7, <1>9, <3>1
  <2>4. due' + TransitionExpiry <= later + MaxExecuteDelay
    BY <1>3, <1>5, Numbers
  <2>5. \A f \in net : later > f.at + MaxDelay
    <3>1. \A f \in net : f.at \in Nat /\ f.at < now
      BY <1>2, StillOnTime DEF OnTheWay
    <3>2. MaxDelay <= TransitionExpiry
      BY Numbers DEF Timely
    <3> QED
      BY <1>3, <3>1, <3>2, Numbers
  <2>6. Passable' => Passable
    <3>1. ASSUME NEW k \in 1 .. i, MayClear(k)' PROVE k \in 1 .. receiving.at /\ MayClear(k)
      <4>1. offers[k].version = 0 /\ \A j \in k .. i : ~Followed(j)
        BY <1>1, <1>6, <3>1 DEF MayClear
      <4>2. k \in 1 .. receiving.at
        <5>1. k # r + 1
          BY SMTT(30), <1>1, <4>1
        <5> QED
          BY <1>0, <5>1, OneMore
      <4>3. \A j \in k .. receiving.at : j \in k .. i
        BY <1>0, OneMore
      <4> QED
        BY <4>1, <4>2, <4>3 DEF MayClear
    <3> QED
      BY <1>1, <3>1 DEF Passable
  <2>7. ASSUME Passable
        PROVE  due' + TransitionExpiry <= Earlier(allowPassThroughUntil, later) + MaxExecuteDelay
    <3>1. CASE allowPassThroughUntil < later
      <4>1. allowPassThroughUntil # Forever
        BY <1>3, <3>1, Numbers
      <4>2. due' + TransitionExpiry <= allowPassThroughUntil + MaxExecuteDelay
        BY <1>2, <1>5, <2>7, <4>1 DEF PathsOpen, Lasts
      <4> QED
        BY <3>1, <4>2 DEF Earlier
    <3>2. CASE ~(allowPassThroughUntil < later)
      BY <2>4, <3>2 DEF Earlier
    <3> QED
      BY <3>1, <3>2
  <2>8. \A f \in net : ~f.sealed => Earlier(allowPassThroughUntil, later) > f.at + MaxDelay
    BY <1>2, <2>5 DEF Earlier, PathsOpen
  <2>9. ASSUME NEW f \in SealedFrames PROVE \E t \in After(f.key[1]) : t >= f.at + MaxDelay
    <3>1. later >= f.at + MaxDelay
      BY <1>2, <1>3, <2>5, StillOnTime
    <3>2. \E t \in Expiries(f.key[1]) : TRUE
      BY <1>2 DEF PathsOpen
    <3> QED
      BY <2>2, <3>1, <3>2
  <2>10. ASSUME NEW d \in 1 .. old + 1, Used(d) PROVE \E t \in After(d) : Lasts(t)'
    <3>1. CASE d = old + 1
      BY <2>3, <3>1 DEF Lasts
    <3>2. CASE d # old + 1
      <4>1. d \in 1 .. old
        BY <1>3, <3>2
      <4>2. \E t \in Expiries(d) : TRUE
        BY <1>0, <1>2, <2>10, <4>1 DEF PathsOpen
      <4>3. later \in After(d)
        BY <2>2, <4>2
      <4>4. \A t : t = later => Lasts(t)'
        BY <1>5, <2>4 DEF Lasts
      <4> QED
        BY <4>3, <4>4
    <3> QED
      BY <3>1, <3>2
  <2>11. ~AllMayPass'
    <3>1. i # 0
      BY BelowNext
    <3> HIDE DEF i
    <3>2. receiving'.at = i /\ offers'[i].version = 1
      BY <1>1
    <3> QED
      BY <3>1, <3>2 DEF AllMayPass
  <2>12. Passable' => Lasts(allowPassThroughUntil)'
    BY <1>1, <1>5, <2>6, <2>7 DEF Lasts
  <2>13. \A d : Expiries(d)' = After(d)
    BY DEF Expiries
  <2>14. Forever \in Expiries(Reached)'
    BY <1>4, <2>3 DEF Expiries
  <2> HIDE DEF After
  <2> QED
    BY <1>1, <1>4, <1>6, <2>1, <2>8, <2>9, <2>10, <2>11, <2>12, <2>13, <2>14 DEF PathsOpen
<1>15. AllFollowed'
  <2>1. ASSUME NEW k \in DOMAIN managers', NEW m, m = managers'[k]
        PROVE  LET H == Heard(heard, m.epoch) IN
                 /\ Remembers(m, H) /\ Generations(m, H)
                 /\ \A f \in SealedFrames : StillAccepted(m, H, f)
    <3>1. CASE k \in 1 .. n
      <4>1. Follows(managers[k], Heard(heard, managers[k].epoch))
        BY <1>2, <1>7, <3>1 DEF AllFollowed
      <4> QED
        BY <1>8, <2>1, <3>1, <4>1
           DEF Follows, Remembers, Generations, StillAccepted, Accepted
    <3>2. CASE k = n + 1
      <4>1. m = fresh
        BY <1>7, <2>1, <3>2
      <4>2. Heard(heard, old + 1) = {}
        <5>1. \A id \in heard : id[1] # old + 1
          BY <1>0, <1>3, BelowNext DEF ReplayInv, HeardOK
        <5> QED
          BY <5>1 DEF Heard
      <4> QED
        BY <1>9, <4>1, <4>2 DEF Remembers, Generations, StillAccepted
    <3> QED
      BY <1>10, <3>1, <3>2
  <2> QED
    BY <1>1, <2>1 DEF AllFollowed, Follows, StillAccepted
<1> QED
  BY <1>5, <1>6, <1>12, <1>13, <1>14, <1>15 DEF InTime

(* The clients take a step, and nothing else: it is enough that what the   *)
(* sender uses then, and may still come to use, has a way through.         *)
LEMMA ControlKeeps ==
  ASSUME ReplayInv, InTime, UNCHANGED <<now, net, managers, heard>>, Reached' = Reached,
         OnTheWay', InStep',
         NEW a \in Nat, a = EpochAt(sending.at), NEW b \in Nat, b = EpochAt(sending.at)', a <= b,
         \/ sender'.epoch = sender.epoch /\ Count(sender') = Count(sender)
         \/ Count(sender') = 0 /\ \A id \in Ids : id[1] # sender'.epoch,
         sending'.session \notin {NoRatchet, sender'.epoch}
           => \A id \in Ids : id[1] < sending'.session,
         \A e \in 1 .. Reached : Used(e)' => \E t \in Expiries(e) : Lasts(t)',
         allowPassThroughUntil' \in {allowPassThroughUntil, Forever},
         AllMayPass' => allowPassThroughUntil' = Forever,
         Passable' => Lasts(allowPassThroughUntil)', ChannelAssumption, Timely
  PROVE  InTime'
<1>1. OnTheWay /\ SentInOrder /\ Truncated /\ WithinRate /\ PathsOpen /\ AllFollowed
  BY DEF InTime
<1>2. SealedFrames' = SealedFrames /\ Ids' = Ids
  BY DEF SealedFrames, Ids
<1>3. SentInOrder'
  <2>1. ASSUME NEW id \in Ids PROVE NotAhead(id)'
    <3>1. NotAhead(id) /\ id[1] \in Nat /\ id[2] \in Nat /\ id[1] <= a
      BY <1>1 DEF SentInOrder, NotAhead
    <3>2. id[1] <= b
      BY <3>1
    <3>3. id[1] = sender'.epoch => id[2] <= Count(sender')
      BY <3>1 DEF NotAhead
    <3> QED
      BY <3>1, <3>2, <3>3 DEF NotAhead
  <2> QED
    BY <1>2, <2>1 DEF SentInOrder
<1>4. Truncated'
  BY <1>1, <1>2 DEF Truncated
<1>5. WithinRate'
  <2>1. ASSUME NEW i \in DOMAIN managers
        PROVE  sender'.epoch = managers[i].epoch => Within(managers[i], Count(sender'))
    <3>1. CASE sender'.epoch = sender.epoch /\ Count(sender') = Count(sender)
      BY <1>1, <3>1 DEF WithinRate
    <3>2. CASE Count(sender') = 0
      <4>1. managers[i].created \in Nat /\ managers[i].created <= now /\ now \in Nat
        BY <1>1 DEF WithinRate, ReplayInv, ClocksOK
      <4>2. \A x \in Nat, y \in Nat : 0 <= x * y
        OBVIOUS
      <4>3. now - managers[i].created \in Nat
        BY <4>1
      <4> QED
        BY <3>2, <4>2, <4>3, Numbers DEF Within
    <3> QED
      BY <3>1, <3>2
  <2> QED
    BY <1>1, <1>2, <2>1 DEF WithinRate, Within
<1>6. PathsOpen'
  <2>1. \A e : Expiries(e)' = Expiries(e)
    BY DEF Expiries
  <2>2. \A f \in net : ~f.sealed => allowPassThroughUntil' > f.at + MaxDelay
    <3>1. allowPassThroughUntil' = allowPassThroughUntil \/ allowPassThroughUntil' = Forever
      OBVIOUS
    <3>2. \A f \in net : Forever > f.at + MaxDelay
      <4>1. ASSUME NEW f \in net PROVE Forever > f.at + MaxDelay
        <5>1. f.at \in Nat /\ f.at < now /\ now \in Nat /\ now <= MaxTime
          BY <1>1 DEF OnTheWay, ReplayInv, SealedOK, ClocksOK
        <5> QED
          BY <5>1, Numbers DEF Timely
      <4> QED
        BY <4>1
    <3> QED
      BY <1>1, <3>1, <3>2 DEF PathsOpen
  <2>3. Reached # 0 => Forever \in Expiries(Reached)
    BY <1>1 DEF PathsOpen
  <2>4. Reached' # 0 => Forever \in Expiries(Reached)'
    BY <2>3 DEF Expiries
  <2> QED
    BY <1>1, <1>2, <2>1, <2>2, <2>4 DEF PathsOpen
<1>7. AllFollowed'
  BY <1>1, <1>2 DEF AllFollowed, Follows, StillAccepted
<1> QED
  BY <1>3, <1>4, <1>5, <1>6, <1>7 DEF InTime

(* Steps after which the sender uses nothing that it did not before.       *)
LEMMA NothingNew ==
  ASSUME ChannelAssumption, Timely, ReplayInv, InTime,
         UNCHANGED <<now, net, managers, heard, sender, due, allowPassThroughUntil, repeated>>,
         Reached' = Reached, receiving'.at = receiving.at,
         sending'.at = sending.at, sending'.prepared = sending.prepared,
         sending'.session \in {sending.session, NoRatchet},
         EpochAt(sending.at)' = EpochAt(sending.at),
         \A k \in 1 .. receiving.at : offers'[k] = offers[k]
  PROVE  InTime'
<1>1. OnTheWay /\ SentInOrder /\ PathsOpen /\ InStep
  BY DEF InTime
<1>2. /\ \A j : Followed(j)' <=> Followed(j)
      /\ \A t : Lasts(t)' <=> Lasts(t)
  BY DEF Followed, Lasts
<1>3. OnTheWay'
  BY <1>1 DEF OnTheWay
<1>4. InStep'
  <2>1. Followed(receiving.at)' <=> Followed(receiving.at)
    BY DEF Followed
  <2> QED
    BY <1>1, <1>2, <2>1 DEF InStep
<1>5. PICK a \in Nat, r \in Nat : a = EpochAt(sending.at) /\ r = receiving.at
  <2>1. EpochAt(sending.at) \in Nat /\ receiving.at \in Nat
    BY Clients
  <2> QED
    BY <2>1
<1>6. a = EpochAt(sending.at)' /\ a <= a
  BY <1>5
<1>7. \A e \in 1 .. Reached : Used(e)' => Used(e)
  BY DEF Used, NoRatchet
<1>8. AllMayPass' <=> AllMayPass
  <2>1. r # 0 => r \in 1 .. r
    OBVIOUS
  <2> QED
    BY <1>5, <2>1 DEF AllMayPass
<1>9. Passable' <=> Passable
  <2>1. \A k \in 1 .. r : MayClear(k)' <=> MayClear(k)
    BY <1>2, <1>5 DEF MayClear
  <2> QED
    BY <1>5, <2>1 DEF Passable
<1>10. \A e \in 1 .. Reached : Used(e)' => \E t \in Expiries(e) : Lasts(t)'
  BY <1>1, <1>2, <1>7 DEF PathsOpen
<1>11. Passable' => Lasts(allowPassThroughUntil)'
  BY <1>1, <1>9 DEF PathsOpen, Lasts
<1>12. sending'.session \notin {NoRatchet, sender'.epoch}
         => \A id \in Ids : id[1] < sending'.session
  BY <1>1 DEF SentInOrder, NotAhead
<1>13. sender'.epoch = sender.epoch /\ Count(sender') = Count(sender)
  OBVIOUS
<1> QED
  BY <1>1, <1>3, <1>4, <1>5, <1>6, <1>8, <1>10, <1>11, <1>12, <1>13, ControlKeeps DEF PathsOpen

(* The server offers a transition, a client leaves its group, or the       *)
(* receiver executes what it has prepared.                                 *)
LEMMA AsideKeeps ==
  ASSUME ChannelAssumption, Timely, ReplayInv, InTime,
         Offer \/ PrepareEpoch \/ \E i \in DOMAIN offers : ReceiverExecute(i)
  PROVE  InTime'
<1>1. /\ Reached' = Reached /\ UNCHANGED <<now, net, managers, repeated, heard, twice>>
  BY ClientSteps DEF ClientStep
<1>2. OffersOK /\ ClientOK(sending) /\ ClientOK(receiving)
  BY Clients
<1>3. UNCHANGED <<sender, due, allowPassThroughUntil>>
  BY DEF Offer, PrepareEpoch, ReceiverExecute, decryptor
<1>4. CASE Offer
  <2>1. sending' = sending /\ receiving' = receiving
    BY <1>4 DEF Offer
  <2>2. PICK n \in Nat : n = Len(offers)
    BY Clients
  <2>3. sending.at \in 0 .. n /\ receiving.at \in 0 .. n
    BY <1>2, <2>2 DEF ClientOK
  <2>4. /\ \A i \in 0 .. n : EpochAt(i)' = EpochAt(i)
        /\ \A i \in 1 .. n : offers'[i] = offers[i]
    BY <1>2, <1>4, <2>2, OfferKeepsEpochs
  <2>5. EpochAt(sending.at)' = EpochAt(sending.at)
    <3>1. PICK s \in 0 .. n : s = sending.at
      BY <2>3
    <3>2. EpochAt(s)' = EpochAt(s)
      BY <2>4
    <3> QED
      BY <2>1, <3>1, <3>2 DEF EpochAt
  <2>6. \A k \in 1 .. receiving.at : offers'[k] = offers[k]
    <3>1. PICK r \in 0 .. n : r = receiving.at
      BY <2>3
    <3>2. 1 .. r \subseteq 1 .. n
      OBVIOUS
    <3> QED
      BY <2>4, <3>1, <3>2
  <2> QED
    BY <1>1, <1>3, <2>1, <2>5, <2>6, NothingNew
<1>5. CASE PrepareEpoch
  <2>1. /\ offers' = offers /\ sending' \in {sending, Initialised(sending)}
        /\ receiving' \in {receiving, Initialised(receiving)}
    BY <1>5 DEF PrepareEpoch
  <2>2. /\ sending'.at = sending.at /\ sending'.prepared = sending.prepared
        /\ sending'.session \in {sending.session, NoRatchet} /\ receiving'.at = receiving.at
    BY <1>2, <2>1, InitialisedClient
  <2>3. EpochAt(sending.at)' = EpochAt(sending.at)
    BY <2>1, <2>2 DEF EpochAt
  <2> QED
    BY <1>1, <1>3, <2>1, <2>2, <2>3, NothingNew
<1>6. ASSUME NEW i, ReceiverExecute(i) PROVE InTime'
  <2>1. offers' = offers /\ sending' = sending /\ receiving' = Executed(receiving, i)
    BY <1>6 DEF ReceiverExecute
  <2>2. receiving'.at = receiving.at
    BY <1>2, <2>1, ExecutedClient
  <2>3. EpochAt(sending.at)' = EpochAt(sending.at)
    BY <2>1 DEF EpochAt
  <2> QED
    BY <1>1, <1>3, <2>1, <2>2, <2>3, NothingNew
<1> QED
  BY <1>4, <1>5, <1>6

(* A receiver that prepares passthrough accepts anything in the clear.     *)
LEMMA PreparePassthroughKeeps ==
  ASSUME ChannelAssumption, Timely, ReplayInv, InTime, PreparePassthrough
  PROVE  InTime'
<1>1. /\ Reached' = Reached /\ UNCHANGED <<now, net, managers, repeated, heard, twice>>
  BY ClientSteps DEF ClientStep
<1>2. PICK r \in Nat : r = receiving.at
  <2>1. receiving.at \in Nat
    BY Clients
  <2> QED
    BY <2>1
<1>3. /\ UNCHANGED <<sender, offers, sending>> /\ due' = Due(r + 1)
      /\ allowPassThroughUntil' = Forever /\ receiving'.at = r + 1
  BY <1>2 DEF PreparePassthrough, Prepared
<1>4. OnTheWay /\ SentInOrder /\ PathsOpen /\ InStep
  BY DEF InTime
<1>5. /\ OnTheWay' /\ due' # Forever /\ (due # Forever => due' = due)
  BY <1>1, <1>2, <1>3, <1>4, PreparedFirst, DueInTime
<1>6. InStep' /\ \A e : Used(e)' <=> Used(e)
  <2>1. PICK R \in Nat : R = Reached
    BY Clients
  <2>2. Reached' \in Nat /\ Reached <= Reached'
    BY <1>1, <2>1
  <2> QED
    BY <1>1, <1>2, <1>3, <1>4, <1>5, <2>2, ReceiverAlone
<1>7. PICK a \in Nat : a = EpochAt(sending.at)
  BY Clients
<1>8. a = EpochAt(sending.at)' /\ a <= a
  BY <1>3, <1>7 DEF EpochAt
<1>9. \A e \in 1 .. Reached : Used(e)' => \E t \in Expiries(e) : Lasts(t)'
  <2>1. \A t : Lasts(t) => Lasts(t)'
    BY <1>5 DEF Lasts
  <2> QED
    BY <1>4, <1>6, <2>1 DEF PathsOpen
<1>10. Lasts(allowPassThroughUntil)'
  BY <1>3 DEF Lasts
<1>11. sending'.session \notin {NoRatchet, sender'.epoch}
         => \A id \in Ids : id[1] < sending'.session
  BY <1>3, <1>4 DEF SentInOrder, NotAhead
<1> QED
  BY <1>1, <1>3, <1>5, <1>6, <1>7, <1>8, <1>9, <1>10, <1>11, ControlKeeps

(* A transition the sender has prepared is not executed yet.               *)
LEMMA LaterKeeps ==
  ASSUME ChannelAssumption, Timely, ReplayInv, InTime, PrepareTransition,
         ~offers[sending'.at].atOnce
  PROVE  InTime'
<1>1. /\ Reached' = Reached /\ UNCHANGED <<now, net, managers, repeated, heard, twice>>
  BY ClientSteps DEF ClientStep
<1>2. PICK s \in Nat, a \in Nat : s = sending.at /\ a = EpochAt(s)
  <2>1. sending.at \in Nat /\ EpochAt(sending.at) \in Nat
    BY Clients
  <2> QED
    BY <2>1
<1>3. OnTheWay /\ SentInOrder /\ PathsOpen /\ InStep
  BY DEF InTime
<1>4. /\ sending' = Prepared(sending) /\ s < Len(offers)
      /\ UNCHANGED <<sender, due, allowPassThroughUntil, offers, receiving>>
  BY <1>2 DEF PrepareTransition, decryptor
<1>5. PICK b \in Nat : b = EpochAt(s + 1)
  BY <1>2, <1>4, Clients, PreparedClient
<1>6. /\ sending'.at = s + 1 /\ a <= b /\ s + 1 \notin sending.prepared
      /\ IF Fresh(s + 1) THEN sending'.session = b /\ a < b
         ELSE sending'.session = sending.session /\ b = a
  BY <1>2, <1>4, <1>5, Clients, PreparedClient
<1>7. sending'.prepared = sending.prepared \cup {s + 1}
  BY <1>2, <1>4, <1>6, Clients, PreparedClient
<1>8. b = EpochAt(sending.at)'
  BY <1>4, <1>5, <1>6 DEF EpochAt
<1>9. \A j \in Int : Followed(j)' <=> Followed(j)
  <2>1. ASSUME NEW j \in Int
        PROVE  /\ j <= s => j <= s + 1 /\ j # s + 1
               /\ j <= s + 1 /\ j # s + 1 => j <= s
    OBVIOUS
  <2> QED
    BY <1>2, <1>6, <1>7, <2>1 DEF Followed
<1>10. OnTheWay'
  BY <1>1, <1>3, <1>4 DEF OnTheWay
<1>11. InStep'
  <2>1. PICK r \in Nat : r = receiving.at
    <3>1. receiving.at \in Nat
      BY Clients
    <3> QED
      BY <3>1
  <2>2. ASSUME NEW j \in 1 .. s + 1, Followed(j)' PROVE j <= r
    <3>1. j \in Int /\ Followed(j)
      BY <1>9, <2>2
    <3>2. j \in 1 .. s
      BY <1>2, <3>1 DEF Followed
    <3> QED
      BY <1>2, <1>3, <2>1, <3>1, <3>2 DEF InStep
  <2>3. Followed(receiving.at)' <=> Followed(receiving.at)
    <3>1. Followed(r)' <=> Followed(r)
      BY <1>9
    <3> QED
      BY <1>4, <2>1, <3>1 DEF Followed
  <2>4. due' = Forever => receiving'.at = 0 \/ Followed(receiving.at)'
    BY <1>3, <1>4, <2>3 DEF InStep
  <2>5. \A j \in 1 .. sending'.at : Followed(j)' => j <= receiving'.at
    BY <1>4, <1>6, <2>1, <2>2
  <2> QED
    BY <1>1, <1>3, <1>4, <2>4, <2>5 DEF InStep
<1>12. sending'.session \notin {NoRatchet, sender'.epoch}
         => \A id \in Ids : id[1] < sending'.session
  <2>1. ASSUME NEW id \in Ids, sending'.session \notin {NoRatchet, sender.epoch}
        PROVE  id[1] < sending'.session
    <3>1. id[1] \in Nat /\ id[1] <= a /\ NotAhead(id)
      BY <1>2, <1>3 DEF SentInOrder, NotAhead
    <3> QED
      BY <1>6, <2>1, <3>1 DEF NotAhead
  <2> QED
    BY <1>4, <2>1
<1>13. \A e \in 1 .. Reached : Used(e)' => \E t \in Expiries(e) : Lasts(t)'
  <2>1. ASSUME NEW e \in 1 .. Reached, Used(e)' PROVE Used(e)
    <3>1. CASE e = sending'.session
      BY <1>2, <1>6, <3>1 DEF Used
    <3>2. CASE e > b
      BY <1>2, <1>6, <3>2 DEF Used
    <3> QED
      BY <1>4, <1>8, <2>1, <3>1, <3>2 DEF Used
  <2>2. \A t : Lasts(t)' <=> Lasts(t)
    BY <1>4 DEF Lasts
  <2> QED
    BY <1>3, <2>1, <2>2 DEF PathsOpen
<1>14. /\ AllMayPass' <=> AllMayPass
       /\ Lasts(allowPassThroughUntil)' <=> Lasts(allowPassThroughUntil)
  BY <1>4 DEF AllMayPass, Lasts
<1>15. Passable' => Passable
  <2>1. ASSUME NEW k \in 1 .. receiving.at, MayClear(k)' PROVE MayClear(k)
    <3>1. \A j \in k .. receiving.at : ~Followed(j)
      BY SMTT(30), <1>4, <1>9, <2>1 DEF MayClear
    <3> QED
      BY <1>4, <2>1, <3>1 DEF MayClear
  <2> QED
    BY <1>4, <2>1 DEF Passable
<1>16. Count(sender') = Count(sender)
  BY <1>4
<1>17. a = EpochAt(sending.at)
  BY <1>2
<1> QED
  BY <1>1, <1>3, <1>4, <1>6, <1>8, <1>10, <1>11, <1>12, <1>13, <1>14, <1>15, <1>16, <1>17,
     ControlKeeps DEF PathsOpen

(* A count that starts again is at nought.                                 *)
LEMMA CountOfNone == ASSUME ChannelAssumption PROVE ComputeWrappedBigNonce(0, 0) = 0
<1>1. NoncesPerGeneration \in Nat \ {0}
  BY Numbers
<1>2. \A n \in Nat \ {0} : (0 * n) + (0 % n) = 0
  OBVIOUS
<1> QED
  BY <1>1, <1>2 DEF ComputeWrappedBigNonce

(* An offer's version is one of the two.                                   *)
LEMMA Versions ==
  ASSUME OffersOK, NEW i \in 1 .. Len(offers)
  PROVE  offers[i].version \in {0, 1} /\ i \in Nat \ {0}
<1> DEFINE T == [version : {0, 1}, epoch : Nat, atOnce : BOOLEAN]
<1>1. offers \in Seq(T)
  BY DEF OffersOK
<1> HIDE DEF T
<1>2. offers[i] \in T /\ Len(offers) \in Nat
  BY <1>1
<1> QED
  BY <1>2 DEF T

(* The sender executes offer i, and no other.                              *)
Following(i) == ~Followed(i) /\ \A j \in Int : Followed(j)' <=> Followed(j) \/ j = i

(* The encryptor is set up for offer i, in its turn, with a ratchet that   *)
(* is new to it: what was sent before has its way through still, and what  *)
(* is sent from now on has the newest manager's, if i is the newest offer. *)
LEMMA SetUpKeeps ==
  ASSUME ChannelAssumption, Timely, ReplayInv, InTime, Reached' = Reached, ~outOfStep',
         NEW e \in Nat, e = sending'.session,
         NEW i \in Nat \ {0}, offers[i].version \in {0, 1}, SetUp(i, e),
         Following(i), i = receiving.at => Reached <= EpochAt(sending.at)',
         NEW a \in Nat, a = EpochAt(sending.at), NEW b \in Nat, b = EpochAt(sending.at)', a <= b,
         e \in {NoRatchet, b}, b = a => e \in {NoRatchet, sending.session}
  PROVE  InTime'
<1>0. PICK r \in Nat, s \in Nat, R \in Nat : r = receiving.at /\ s = sending.at /\ R = Reached
  <2>1. sending.at \in Nat /\ receiving.at \in Nat /\ Reached \in Nat
    BY Clients
  <2> QED
    BY <2>1
<1>1. OnTheWay /\ SentInOrder /\ PathsOpen /\ InStep
  BY DEF InTime
<1>2. /\ UNCHANGED <<now, net, managers, allowPassThroughUntil, offers, receiving, repeated,
                     heard, twice>>
      /\ due' = (IF i = r THEN Forever ELSE due)
      /\ IF offers[i].version = 0
         THEN /\ sender'.pass /\ sender'.epoch = sender.epoch
              /\ sender'.generation = sender.generation /\ sender'.nonce = sender.nonce
         ELSE /\ ~sender'.pass /\ sender'.epoch = e
              /\ sender'.generation = 0 /\ sender'.nonce = 0
  <2>1. SenderOK /\ ClocksOK /\ outOfStep \in BOOLEAN
    BY DEF ReplayInv, TransitionOK
  <2> QED
    BY <1>0, <2>1, SetUpSender
<1>3. /\ ~(i > r) /\ \A j \in i + 1 .. s : j \in sending.prepared
      /\ offers[i].version = 1 /\ e # NoRatchet => e # sender.epoch /\ ~(e > R)
  BY <1>0 DEF SetUp, Reached
<1>4. i <= r
  BY <1>0, <1>3
<1>5. ~Followed(i) /\ \A j \in Int : Followed(j)' <=> Followed(j) \/ j = i
  BY DEF Following
<1>6. \A j \in Int : Followed(j) => j < i
  <2>1. ASSUME NEW j \in Int, Followed(j) PROVE j < i
    <3>1. j <= s /\ j \notin sending.prepared /\ j # i
      BY <1>0, <1>5, <2>1 DEF Followed
    <3>2. j \notin i + 1 .. s
      BY <1>0, <1>3, <3>1
    <3> QED
      BY <1>0, <1>4, <3>1, <3>2
  <2> QED
    BY <2>1
<1>7. OnTheWay'
  <2>1. now \in Nat /\ due \in Nat /\ now <= MaxTime /\ now <= Forever
    <3>1. now \in Nat /\ due \in Nat /\ now <= MaxTime
      BY <1>0, <1>1 DEF ReplayInv, ClocksOK, OnTheWay
    <3> QED
      BY <3>1, Numbers DEF Timely
  <2>2. CASE i = r
    BY <1>0, <1>1, <1>2, <2>1, <2>2 DEF OnTheWay
  <2>3. CASE i # r
    BY <1>0, <1>1, <1>2, <2>1, <2>3 DEF OnTheWay
  <2> QED
    BY <2>2, <2>3
<1>8. InStep'
  <2>1. sender'.epoch <= R
    <3>1. sender.epoch <= R /\ 0 <= R
      BY <1>0, <1>1 DEF InStep
    <3>2. e # NoRatchet /\ offers[i].version = 1 => e <= R
      BY <1>0, <1>3
    <3> QED
      BY <1>0, <1>2, <3>1, <3>2 DEF NoRatchet
  <2>2. \A j \in Int : Followed(j)' => j <= r
    BY <1>0, <1>4, <1>5, <1>6
  <2>3. due' = Forever => r = 0 \/ Followed(receiving.at)'
    <3>1. r \in Int /\ (Followed(receiving.at)' <=> Followed(r)')
      BY <1>0, <1>2 DEF Followed
    <3>2. due = Forever => r = 0 \/ Followed(r)
      BY <1>0, <1>1 DEF InStep
    <3> QED
      BY <1>0, <1>2, <1>5, <3>1, <3>2
  <2>4. \A j \in 1 .. sending'.at : j \in Int
    OBVIOUS
  <2> QED
    BY <1>0, <1>1, <1>2, <2>1, <2>2, <2>3, <2>4 DEF InStep
<1>9. \A id \in Ids : /\ id[1] \in Nat \ {0} /\ id[1] <= a
                      /\ e \notin {NoRatchet, sender.epoch} => id[1] < e
  <2>1. ASSUME NEW id \in Ids, e \notin {NoRatchet, sender.epoch} PROVE id[1] < e
    <3>1. NotAhead(id) /\ id[1] \in Nat /\ id[1] <= a
      BY <1>0, <1>1 DEF SentInOrder, NotAhead
    <3>2. CASE b = a
      BY <2>1, <3>1, <3>2 DEF NotAhead
    <3>3. CASE b # a
      BY <2>1, <3>1, <3>3
    <3> QED
      BY <3>2, <3>3
  <2> QED
    BY <1>0, <1>1, <2>1 DEF SentInOrder, NotAhead
<1>10. \/ sender'.epoch = sender.epoch /\ Count(sender') = Count(sender)
       \/ Count(sender') = 0 /\ \A id \in Ids : id[1] # sender'.epoch
  <2>1. CASE offers[i].version = 0
    BY <1>0, <1>2, <2>1 DEF Count
  <2>2. CASE offers[i].version = 1
    <3>1. Count(sender') = 0
      BY <1>0, <1>2, <2>2, CountOfNone DEF Count
    <3>2. \A id \in Ids : id[1] # e
      BY <1>0, <1>3, <1>9, <2>2 DEF NoRatchet
    <3> QED
      BY <1>0, <1>2, <2>2, <3>1, <3>2
  <2> QED
    BY <2>1, <2>2
<1>11. e \notin {NoRatchet, sender'.epoch} => \A id \in Ids : id[1] < e
  BY <1>0, <1>2, <1>9
<1>12. \A d \in Int : Used(d)' => d = e \/ d > b
  BY <1>0, <1>2 DEF Used
<1>13. \A d \in 1 .. R : Used(d)' => \E t \in Expiries(d) : Lasts(t)'
  <2>1. ASSUME i = r, NEW d \in 1 .. R, Used(d)' PROVE \E t \in Expiries(d) : Lasts(t)'
    <3>1. d = R /\ R # 0
      BY <1>0, <1>12, <2>1 DEF NoRatchet
    <3>2. Forever \in Expiries(d)
      BY <1>0, <1>1, <3>1 DEF PathsOpen
    <3> QED
      BY <3>2 DEF Lasts
  <2>2. ASSUME i # r, NEW d \in 1 .. R, Used(d)' PROVE \E t \in Expiries(d) : Lasts(t)'
    <3>1. Used(d)
      <4>1. CASE b = a
        BY <1>0, <1>12, <2>2, <4>1 DEF Used, NoRatchet
      <4>2. CASE b # a
        <5>1. d > a
          BY <1>0, <1>12, <2>2, <4>2 DEF NoRatchet
        <5> QED
          BY <5>1 DEF Used
      <4> QED
        BY <4>1, <4>2
    <3>2. \A t : Lasts(t) => Lasts(t)'
      BY <1>0, <1>2, <2>2 DEF Lasts
    <3> QED
      BY <1>0, <1>1, <3>1, <3>2 DEF PathsOpen
  <2> QED
    BY <2>1, <2>2
<1>14. AllMayPass' <=> AllMayPass
  BY <1>0, <1>2 DEF AllMayPass
<1>15. Passable' => Lasts(allowPassThroughUntil)'
  <2>1. ASSUME i = r, Passable' PROVE allowPassThroughUntil = Forever
    <3>1. ASSUME NEW k \in 1 .. r PROVE ~MayClear(k)'
      <4>1. r \in k .. r /\ r \in Int
        OBVIOUS
      <4>2. Followed(r)'
        BY <1>0, <1>5, <2>1, <4>1
      <4> QED
        BY <1>0, <1>2, <4>1, <4>2 DEF MayClear
    <3>2. sender'.pass
      BY <1>0, <1>2, <2>1, <3>1 DEF Passable
    <3>3. offers[r].version = 0
      BY <1>0, <1>2, <2>1, <3>2
    <3> QED
      BY <1>0, <1>1, <3>3 DEF PathsOpen, AllMayPass
  <2>2. ASSUME i # r, Passable' PROVE Lasts(allowPassThroughUntil)'
    <3>1. ASSUME sender'.pass, ~sender.pass PROVE \E k \in 1 .. r : MayClear(k)
      <4>1. offers[i].version = 0
        BY <1>0, <1>2, <3>1
      <4>2. ASSUME NEW j \in i .. r PROVE ~Followed(j)
        <5>1. j \in Int /\ ~(j < i)
          BY <1>0, <1>4
        <5> QED
          BY <1>0, <1>6, <5>1
      <4>3. i \in 1 .. r
        BY <1>0, <1>4
      <4> QED
        BY <1>0, <4>1, <4>2, <4>3 DEF MayClear
    <3>2. ASSUME NEW k \in 1 .. r, MayClear(k)' PROVE MayClear(k)
      <4>1. \A j \in k .. r : j \in Int
        OBVIOUS
      <4> QED
        BY <1>0, <1>2, <1>5, <3>2, <4>1 DEF MayClear
    <3>3. Passable
      BY <1>0, <1>2, <2>2, <3>1, <3>2 DEF Passable
    <3>4. Lasts(allowPassThroughUntil)
      BY <1>0, <1>1, <3>3 DEF PathsOpen
    <3> QED
      BY <1>0, <1>2, <2>2, <3>4 DEF Lasts
  <2> QED
    BY <1>0, <1>2, <2>1, <2>2 DEF Lasts
<1>16. AllMayPass' => allowPassThroughUntil' = Forever
  BY <1>0, <1>1, <1>2, <1>14 DEF PathsOpen
<1> QED
  BY <1>0, <1>2, <1>7, <1>8, <1>10, <1>11, <1>13, <1>15, <1>16, ControlKeeps

(* The sender executes a transition it has prepared.                       *)
LEMMA ExecuteKeeps ==
  ASSUME ChannelAssumption, Timely, ReplayInv, InTime, ~outOfStep', NEW i, Execute(i)
  PROVE  InTime'
<1>1. i \in sending.prepared /\ sending' = Executed(sending, i) /\ SetUp(i, sending'.session)
  BY DEF Execute
<1>2. /\ OffersOK /\ ClientOK(sending) /\ ClientOK(receiving) /\ Len(offers) \in Nat
      /\ sending.at \in 0 .. Len(offers) /\ receiving.at \in 0 .. Len(offers)
  BY Clients
<1>3. i \in 1 .. Len(offers) /\ i <= sending.at
  BY <1>1, <1>2 DEF ClientOK
<1>4. i \in DOMAIN offers
  BY <1>2, <1>3 DEF OffersOK
<1>5. Reached' = Reached
  BY <1>4, ClientSteps DEF ClientStep
<1>6. /\ sending'.at = sending.at /\ sending'.prepared = sending.prepared \ {i}
      /\ sending'.session \in {NoRatchet, sending.session} /\ ClientOK(Executed(sending, i))
  BY <1>1, <1>2, ExecutedClient
<1>7. PICK e \in Nat : e = sending'.session
  BY <1>1, <1>6 DEF ClientOK
<1>8. PICK r \in Nat : r = receiving.at
  BY Clients
<1>9. PICK s \in Nat : s = sending.at
  BY Clients
<1>10. PICK R \in Nat : R = Reached
  BY Clients
<1>11. PICK a \in Nat : a = EpochAt(sending.at)
  BY Clients
<1>12. offers' = offers
  BY <1>1 DEF SetUp
<1>13. a = EpochAt(sending.at)' /\ a <= a /\ e \in {NoRatchet, sending.session}
  BY <1>6, <1>7, <1>11, <1>12 DEF EpochAt
<1>14. e \in {NoRatchet, a}
  BY <1>11, <1>13, Clients
<1>15. offers[i].version \in {0, 1} /\ i \in Nat \ {0}
  BY <1>2, <1>3, Versions
<1>16. Following(i)
  BY <1>1, <1>3, <1>6 DEF Followed, Following
<1>17. i = receiving.at => Reached <= EpochAt(sending.at)'
  <2>1. ASSUME i = r PROVE R <= a
    <3>1. r \in 0 .. Len(offers) /\ s \in 0 .. Len(offers) /\ r <= s
      BY <1>2, <1>3, <1>8, <1>9, <2>1
    <3>2. EpochAt(r) <= EpochAt(s)
      BY <1>2, <3>1 DEF OffersOK
    <3> QED
      BY <1>8, <1>9, <1>10, <1>11, <3>2 DEF Reached
  <2> QED
    BY <1>8, <1>10, <1>13, <2>1
<1> QED
  BY <1>1, <1>3, <1>5, <1>6, <1>7, <1>8, <1>9, <1>10, <1>11, <1>13, <1>14, <1>15, <1>16,
     <1>17, SetUpKeeps

(* The sender executes a transition at once.                               *)
LEMMA AtOnceKeeps ==
  ASSUME ChannelAssumption, Timely, ReplayInv, InTime, ~outOfStep', PrepareTransition,
         offers[sending'.at].atOnce
  PROVE  InTime'
<1>1. Reached' = Reached
  BY ClientSteps DEF ClientStep
<1>2. PICK s \in Nat, r \in Nat, R \in Nat : s = sending.at /\ r = receiving.at /\ R = Reached
  <2>1. sending.at \in Nat /\ receiving.at \in Nat /\ Reached \in Nat
    BY Clients
  <2> QED
    BY <2>1
<1>3. PICK a \in Nat : a = EpochAt(sending.at)
  BY Clients
<1>4. PICK i \in Nat : i = s + 1
  BY <1>2
<1>5. /\ sending' = Prepared(sending) /\ sending.at < Len(offers)
      /\ SetUp(sending'.at, sending'.session)
  BY DEF PrepareTransition
<1>6. PICK b \in Nat : b = EpochAt(i)
  BY <1>2, <1>4, <1>5, Clients, PreparedClient
<1>7. /\ sending'.at = i /\ i \in 1 .. Len(offers) /\ a <= b /\ i \notin sending.prepared
      /\ IF Fresh(i) THEN sending'.session = b /\ a < b
         ELSE sending'.session = sending.session /\ b = a
  BY <1>2, <1>3, <1>4, <1>5, <1>6, Clients, PreparedClient
<1>8. sending'.prepared = sending.prepared /\ sending.session \in {NoRatchet, a}
  BY <1>2, <1>3, <1>4, <1>5, <1>7, Clients, PreparedClient
<1>9. PICK e \in Nat : e = sending'.session
  BY <1>7, <1>8 DEF NoRatchet
<1>10. offers' = offers
  BY <1>5 DEF SetUp
<1>11. b = EpochAt(sending.at)'
  BY <1>6, <1>7, <1>10 DEF EpochAt
<1>12. e \in {NoRatchet, b} /\ (b = a => e \in {NoRatchet, sending.session})
  <2>1. CASE Fresh(i)
    <3>1. e = b /\ b # a
      BY <1>7, <1>9, <2>1
    <3> QED
      BY <3>1
  <2>2. CASE ~Fresh(i)
    <3>1. e = sending.session /\ b = a
      BY <1>7, <1>9, <2>2
    <3> QED
      BY <1>8, <3>1
  <2> QED
    BY <2>1, <2>2
<1>13. Following(i)
  <2>1. ASSUME NEW j \in Int
        PROVE  /\ j <= s => j <= i /\ j # i
               /\ j <= i /\ j # i => j <= s
    BY <1>4
  <2>2. ~(i <= s) /\ i <= i
    BY <1>4
  <2> QED
    BY <1>2, <1>7, <1>8, <2>1, <2>2 DEF Followed, Following
<1>14. i = receiving.at => Reached <= EpochAt(sending.at)'
  <2>1. b <= b
    OBVIOUS
  <2> QED
    BY <1>6, <1>11, <2>1 DEF Reached
<1>15. SetUp(i, e) /\ offers[i].version \in {0, 1} /\ i \in Nat \ {0}
  BY <1>5, <1>7, <1>9, Clients, Versions
<1> QED
  BY <1>1, <1>2, <1>3, <1>7, <1>9, <1>11, <1>12, <1>13, <1>14, <1>15, SetUpKeeps

(* At first nothing is on its way.                                         *)
LEMMA InTimeAtFirst ==
  ASSUME ChannelAssumption, Timely, Init PROVE InTime
<1>1. /\ now = 1 /\ net = {} /\ heard = {} /\ managers = <<>> /\ sender.epoch = NoRatchet
      /\ allowPassThroughUntil = Forever /\ due = Forever /\ repeated = {}
      /\ sending.at = 0 /\ receiving.at = 0 /\ sending.session = NoRatchet
  BY DEF Init
<1>2. SealedFrames = {} /\ Ids = {}
  BY <1>1 DEF SealedFrames, Ids
<1>3. OnTheWay
  BY SMTT(30), <1>1, Numbers DEF OnTheWay, Timely
<1>4. Reached = 0 /\ InStep
  BY <1>1 DEF Reached, EpochAt, InStep, NoRatchet
<1>5. PathsOpen
  BY <1>1, <1>2, <1>4 DEF PathsOpen, Lasts
<1> QED
  BY <1>1, <1>2, <1>3, <1>4, <1>5 DEF InTime, SentInOrder, Truncated, WithinRate, AllFollowed

(* A ratchet given out of step is not forgotten.                           *)
LEMMA StaysOutOfStep ==
  ASSUME ReplayInv, outOfStep, [Next]_vars PROVE outOfStep'
<1>1. CASE Encrypt \/ EncryptPassthrough \/ Quiet \/ UNCHANGED vars
  BY <1>1 DEF Encrypt, EncryptPassthrough, Quiet, Ticks, vars, transition
<1>2. ASSUME NEW f \in net, Decrypt(f) PROVE outOfStep'
  BY <1>2 DEF Decrypt, transition
<1>3. CASE Offer \/ PrepareEpoch \/ PreparePassthrough \/ PrepareRatchet
  BY <1>3 DEF Offer, PrepareEpoch, PreparePassthrough, PrepareRatchet
<1>4. CASE PrepareTransition
  BY <1>4 DEF PrepareTransition, SetUp
<1>5. ASSUME NEW i \in DOMAIN offers, Execute(i) \/ ReceiverExecute(i) PROVE outOfStep'
  BY <1>5 DEF Execute, ReceiverExecute, SetUp
<1> QED
  BY <1>1, <1>2, <1>3, <1>4, <1>5 DEF Next

(* Every step leaves what is on its way a manager that accepts it.         *)
LEMMA StepKeepsInTime ==
  ASSUME ChannelAssumption, Timely, ReplayInv, ReplayInv', KeysInv, NonceInv, InTimeInv, [Next]_vars
  PROVE  InTimeInv'
<1> SUFFICES ASSUME ~outOfStep' PROVE InTime'
  BY DEF InTimeInv
<1>1. InTime
  BY StaysOutOfStep DEF InTimeInv
<1>2. CASE UNCHANGED vars
  <2>1. UNCHANGED <<now, sender, net, managers, allowPassThroughUntil, offers, sending, receiving,
                    due, repeated, heard>>
    BY <1>2 DEF vars, decryptor, transition, history
  <2>2. Reached' = Reached /\ EpochAt(sending.at)' = EpochAt(sending.at)
    BY <2>1 DEF Reached, EpochAt
  <2> QED
    BY <1>1, <2>1, <2>2, NothingNew
<1>3. CASE Offer \/ PrepareEpoch \/ \E i \in DOMAIN offers : ReceiverExecute(i)
  BY <1>1, <1>3, AsideKeeps
<1>4. CASE PrepareTransition
  BY <1>1, <1>4, LaterKeeps, AtOnceKeeps
<1> QED
  BY <1>1, <1>2, <1>3, <1>4, EncryptKeeps, PauseKeeps, DecryptKeeps, PreparePassthroughKeeps,
     PrepareRatchetKeeps, ExecuteKeeps DEF Next

(* The largest of the numbers heard.                                       *)
LEMMA Newest ==
  ASSUME NEW H, H \subseteq Nat, NEW l \in H \cup {0}, \A n \in H : n <= l
  PROVE  Max({0} \cup H) = l
<1>1. l \in {0} \cup H /\ \A y \in {0} \cup H : l >= y
  OBVIOUS
<1>2. ASSUME NEW x \in {0} \cup H, \A y \in {0} \cup H : x >= y PROVE x = l
  <2>1. x \in Nat /\ l \in Nat /\ x >= l /\ l >= x
    BY <1>1, <1>2
  <2> QED
    BY <2>1
<1> DEFINE P(x) == x \in {0} \cup H /\ \A y \in {0} \cup H : x >= y
<1>3. P(CHOOSE x \in {0} \cup H : \A y \in {0} \cup H : x >= y)
  BY <1>1
<1> QED
  BY <1>2, <1>3 DEF Max

(* What is on its way is heard, then.                                      *)
LEMMA InTimeHears ==
  ASSUME ChannelAssumption, Timely, ReplayInv, KeysInv, InTime, FramesIntact
  PROVE  HeardThroughout
<1>1. /\ OnTheWay /\ SentInOrder /\ Truncated /\ WithinRate /\ PathsOpen /\ AllFollowed
      /\ repeated = {}
  BY DEF InTime, InStep
<1>2. ASSUME NEW f \in net, ~f.sealed PROVE PassesThrough(f)
  <2>1. allowPassThroughUntil > f.at + MaxDelay
    BY <1>1, <1>2 DEF PathsOpen
  <2>2. now <= f.at + MaxDelay /\ f.at + MaxDelay \in Nat /\ now \in Nat
        /\ allowPassThroughUntil \in Nat
    BY <1>1, StillOnTime DEF ReplayInv, ClocksOK
  <2> QED
    BY <1>2, <2>1, <2>2 DEF PassesThrough
<1>3. ASSUME NEW f \in net, f.sealed,
             NEW known, known = Heard(heard, f.key[1]), IdOf(f)[2] \notin known,
             known # {} => \E n \in known : n < IdOf(f)[2],
             Max({0} \cup known) <= IdOf(f)[2] + MaxMissingNonces,
             f.key[2] <= Max({0} \cup known) \div NoncesPerGeneration + MaxGenerationGap,
             \A i \in DOMAIN managers : managers[i].epoch = f.key[1] =>
               f.key[2] < managers[i].oldest + GenerationWrap
      PROVE  Decrypts(f)
  <2>1. /\ f \in SealedFrames /\ f.key \in Nat \X Nat /\ f.nonce \in Nat /\ f.at \in Nat
        /\ now \in Nat /\ now <= Forever /\ f.at + MaxDelay \in Nat /\ now <= f.at + MaxDelay
    BY <1>1, <1>3, StillOnTime DEF SealedFrames
  <2>2. IdOf(f)[1] = f.key[1] /\ IdOf(f)[2] \in Nat /\ f.key[2] \in Nat
    BY <2>1, IdTyped
  <2>3. PICK i \in DOMAIN managers :
          managers[i].epoch = f.key[1] /\ managers[i].expiry >= f.at + MaxDelay
    BY <1>1, <2>1 DEF PathsOpen, Expiries
  <2> DEFINE m == managers[i]
  <2>4. /\ Window(m, known) /\ KeysOK(m) /\ Follows(m, known)
        /\ \E S : managers \in Seq(S)
    BY <1>1, <1>3, <2>3 DEF ReplayInv, Good, KeysInv, AllFollowed
  <2>5. PICK j \in DOMAIN Unexpired : Unexpired[j] = m
    <3>1. m.expiry \in Nat
      BY <1>1 DEF PathsOpen
    <3>2. ~IsExpired(m, now)
      BY <2>1, <2>3, <3>1 DEF IsExpired
    <3> QED
      BY <2>4, <3>2, UnexpiredStays
  <2>6. m.created \in Nat /\ m.created <= now /\ IdOf(f)[2] <= FramesPerTick * (now - m.created)
    BY <1>1, <2>1, <2>2, <2>3 DEF WithinRate, Within, Ids
  <2>7. f.key[2] < m.oldest + GenerationWrap
    BY <1>3, <2>3
  <2>8. f.nonce \div NoncesPerGeneration = f.key[2] % GenerationWrap
    BY <1>1, <2>1 DEF Truncated
  <2>9. At(f.at) \in Legible
    BY <1>3 DEF FramesIntact, Intact
  <2>10. m.epoch = f.key[1]
    BY <2>3
  <2> HIDE DEF m
  <2>11. Remembers(m, known) /\ Generations(m, known)
    BY <2>4 DEF Follows
  <2>12. CASE known = {}
    <3>1. Max({0} \cup known) = 0
      BY <2>12, Newest
    <3>2. m.newest = 0 /\ 0 \div NoncesPerGeneration = 0
      BY <2>11, <2>12, Numbers DEF Generations
    <3>3. DecryptImpl(m, f).ok
      BY <1>3, <2>1, <2>4, <2>6, <2>7, <2>8, <2>9, <2>10, <2>11, <2>12, <3>1, <3>2, FrameOpens
    <3> QED
      BY <1>3, <2>5, <3>3 DEF Decrypts, Decrypted, Results
  <2>13. CASE known # {}
    <3>1. Max({0} \cup known) = m.last
      <4>1. m.last \in known /\ known \subseteq Nat /\ \A n \in known : n <= m.last
        BY <2>4, <2>11, <2>13 DEF Remembers, Window
      <4> QED
        BY <4>1, Newest
    <3>2. m.newest = m.last \div NoncesPerGeneration
      BY <2>11, <2>13 DEF Generations
    <3>3. Accepted(m, f.key[2], now)
      <4>1. Accepted(m, f.key[2], f.at + MaxDelay)
        BY <1>3, <2>1, <2>4, <2>10, <2>13 DEF Follows, StillAccepted
      <4>2. \A h \in DOMAIN m.cryptors : m.cryptors[h].expiry \in Nat
        BY <2>11 DEF Generations
      <4> QED
        BY <2>1, <4>1, <4>2 DEF Accepted
    <3>4. DecryptImpl(m, f).ok
      BY <1>3, <2>1, <2>4, <2>6, <2>7, <2>8, <2>9, <2>10, <2>11, <2>13, <3>1, <3>2, <3>3, FrameOpens
    <3> QED
      BY <1>3, <2>5, <3>4 DEF Decrypts, Decrypted, Results
  <2> QED
    BY <2>12, <2>13
<1> QED
  BY <1>2, <1>3 DEF HeardThroughout, Heard

-----------------------------------------------------------------------------
(* What a frame goes through on its way.                                   *)

(* What holds at first and from each number to the next holds of all.      *)
LEMMA Climbing ==
  ASSUME NEW n \in Nat, NEW S, 0 \in S, \A k \in 1 .. n : k - 1 \in S => k \in S
  PROVE  \A k \in 0 .. n : k \in S
<1> DEFINE T == {k \in 0 .. n : k \notin S}
<1> SUFFICES ASSUME T # {} PROVE FALSE
  OBVIOUS
<1>1. T \subseteq Nat /\ T # {}
  OBVIOUS
<1> HIDE DEF T
<1>2. PICK k \in T : \A j \in T : k <= j
  BY <1>1, Least
<1>3. k \in 1 .. n /\ k \notin S
  BY <1>2 DEF T
<1>4. k - 1 \in 0 .. n /\ ~(k <= k - 1)
  BY <1>3
<1>5. k - 1 \in S
  BY <1>2, <1>4 DEF T
<1> QED
  BY <1>3, <1>5

(* One sequence after the other.                                           *)
Joins(k, g, seqs) ==
  g[0] = <<>> /\ \A j \in 1 .. k : g[j] = g[j - 1] \o seqs[j]

LEMMA JoinsExist ==
  ASSUME NEW T, NEW seqs \in Seq(Seq(T))
  PROVE  \E g \in [0 .. Len(seqs) -> Seq(T)] : Joins(Len(seqs), g, seqs)
<1> DEFINE n == Len(seqs)
           S == {k \in 0 .. n : \E g \in [0 .. k -> Seq(T)] : Joins(k, g, seqs)}
<1>1. n \in Nat /\ \A k \in 1 .. n : seqs[k] \in Seq(T)
  OBVIOUS
<1>2. 0 \in S
  <2> DEFINE g == [j \in 0 .. 0 |-> <<>>]
  <2>1. g \in [0 .. 0 -> Seq(T)] /\ g[0] = <<>> /\ 1 .. 0 = {}
    OBVIOUS
  <2> HIDE DEF g
  <2>2. Joins(0, g, seqs)
    BY <2>1 DEF Joins
  <2> QED
    BY <1>1, <2>1, <2>2
<1>3. ASSUME NEW k \in 1 .. n, k - 1 \in S PROVE k \in S
  <2>1. PICK g \in [0 .. k - 1 -> Seq(T)] : Joins(k - 1, g, seqs)
    BY <1>3
  <2> DEFINE h == [j \in 0 .. k |-> IF j = k THEN g[k - 1] \o seqs[k] ELSE g[j]]
  <2>2. k - 1 \in 0 .. k - 1 /\ k \in 0 .. k /\ 0 \in 0 .. k - 1 /\ \A j \in 0 .. k : j # k => j \in 0 .. k - 1
    BY <1>1
  <2>3. g[k - 1] \o seqs[k] \in Seq(T)
    BY <1>1, <2>2
  <2>4. h \in [0 .. k -> Seq(T)]
    BY <2>2, <2>3
  <2>5. h[0] = <<>> /\ h[k] = h[k - 1] \o seqs[k]
    <3>1. k # 0 /\ k - 1 # k /\ 0 \in 0 .. k /\ k - 1 \in 0 .. k
      BY <1>1
    <3>2. h[0] = g[0] /\ h[k] = g[k - 1] \o seqs[k] /\ h[k - 1] = g[k - 1]
      BY <2>2, <3>1
    <3> QED
      BY <2>1, <3>2 DEF Joins
  <2>6. ASSUME NEW j \in 1 .. k - 1 PROVE h[j] = h[j - 1] \o seqs[j]
    <3>1. j \in 0 .. k /\ j - 1 \in 0 .. k /\ j # k /\ j - 1 # k
      BY <1>1
    <3>2. h[j] = g[j] /\ h[j - 1] = g[j - 1]
      BY <3>1
    <3> QED
      BY <2>1, <3>2 DEF Joins
  <2> HIDE DEF h
  <2>7. \A j \in 1 .. k : j = k \/ j \in 1 .. k - 1
    BY <1>1
  <2>8. Joins(k, h, seqs)
    BY <2>5, <2>6, <2>7 DEF Joins
  <2>9. k \in 0 .. n
    BY <1>1
  <2> QED
    BY <2>4, <2>8, <2>9
<1> HIDE DEF S
<1>4. n \in S
  <2>1. \A k \in 0 .. n : k \in S
    <3> HIDE DEF n
    <3> QED
      BY <1>1, <1>2, <1>3, Climbing
  <2> QED
    BY <1>1, <2>1
<1> QED
  BY <1>4 DEF S

LEMMA Flattened ==
  ASSUME NEW T, NEW seqs \in Seq(Seq(T))
  PROVE  \E g \in [0 .. Len(seqs) -> Seq(T)] :
           Joins(Len(seqs), g, seqs) /\ FlattenSeq(seqs) = g[Len(seqs)]
<1> DEFINE n == Len(seqs)
<1>1. n \in Nat /\ \A k \in 1 .. n : seqs[k] \in Seq(T)
  OBVIOUS
<1>2. PICK g \in [0 .. n -> Seq(T)] : Joins(n, g, seqs)
  BY JoinsExist
<1>3. CASE n = 0
  <2>1. FlattenSeq(seqs) = <<>>
    BY <1>3 DEF FlattenSeq
  <2> QED
    BY <1>2, <1>3, <2>1 DEF Joins
<1>4. CASE n # 0
  <2> DEFINE Eq(f) == f = [i \in 1 .. n |-> IF i = 1 THEN seqs[i] ELSE f[i - 1] \o seqs[i]]
             h == [i \in 1 .. n |-> g[i]]
             f == CHOOSE x : Eq(x)
  <2>1. g[1] = seqs[1]
    <3>1. g[1] = <<>> \o seqs[1] /\ seqs[1] \in Seq(T)
      <4>1. 1 \in 1 .. n /\ 1 - 1 = 0
        BY <1>1, <1>4
      <4> QED
        BY <1>1, <1>2, <4>1 DEF Joins
    <3>2. \A s \in Seq(T) : <<>> \o s = s
      OBVIOUS
    <3> QED
      BY <3>1, <3>2
  <2>2. Eq(h)
    <3>1. ASSUME NEW i \in 1 .. n
          PROVE  h[i] = IF i = 1 THEN seqs[i] ELSE h[i - 1] \o seqs[i]
      <4>1. CASE i = 1
        BY <2>1, <4>1
      <4>2. CASE i # 1
        <5>1. i - 1 \in 1 .. n
          BY <1>1, <4>2
        <5> QED
          BY <1>2, <4>2, <5>1 DEF Joins
      <4> QED
        BY <4>1, <4>2
    <3> QED
      BY <3>1
  <2>3. Eq(f)
    BY <2>2, Zenon
  <2>4. FlattenSeq(seqs) = f[n]
    BY <1>4 DEF FlattenSeq
  <2> HIDE DEF f, h
  <2>5. \A i \in 1 .. n : f[i] = IF i = 1 THEN seqs[i] ELSE f[i - 1] \o seqs[i]
    BY <2>3
  <2> DEFINE E == {i \in 0 .. n : i > 0 => f[i] = g[i]}
  <2>6. 0 \in E
    BY <1>1
  <2>7. ASSUME NEW i \in 1 .. n, i - 1 \in E PROVE i \in E
    <3>1. CASE i = 1
      BY <1>1, <2>1, <2>5, <3>1
    <3>2. CASE i # 1
      <4>1. f[i - 1] = g[i - 1] /\ i \in 0 .. n
        BY <1>1, <2>7, <3>2
      <4>2. f[i] = f[i - 1] \o seqs[i] /\ g[i] = g[i - 1] \o seqs[i]
        BY <1>2, <2>5, <3>2 DEF Joins
      <4> QED
        BY <4>1, <4>2
    <3> QED
      BY <3>1, <3>2
  <2>8. n \in E
    <3> HIDE DEF E
    <3>1. \A k \in 0 .. n : k \in E
      <4> HIDE DEF n
      <4> QED
        BY <1>1, <2>6, <2>7, Climbing
    <3> QED
      BY <1>1, <3>1
  <2>9. FlattenSeq(seqs) = g[n]
    BY <1>1, <1>4, <2>4, <2>8
  <2> QED
    BY <1>2, <2>9
<1> QED
  BY <1>3, <1>4

(* FoldLeft takes the greatest index off a set of them.                    *)
IsFold(k, it, pieces) ==
  it = [s \in SUBSET (1 .. k) |->
          IF s = {} THEN [at |-> 0, ranges |-> <<>>]
          ELSE RangesAfter(it[s \ {Max(s)}], pieces[Max(s)])]

LEMMA Greatest == ASSUME NEW k \in Nat, NEW s \in SUBSET (1 .. k), k \in s PROVE Max(s) = k
<1>1. k \in s /\ \A y \in s : k >= y
  OBVIOUS
<1>2. \A x \in s : (\A y \in s : x >= y) => x = k
  BY <1>1
<1> QED
  BY <1>1, <1>2 DEF Max

LEMMA FoldExists == ASSUME NEW n \in Nat, NEW pieces PROVE \E it : IsFold(n, it, pieces)
<1> DEFINE S == {k \in 0 .. n : \E it : IsFold(k, it, pieces)}
           first == [at |-> 0, ranges |-> <<>>]
<1>1. 0 \in S
  <2> DEFINE it == [s \in SUBSET (1 .. 0) |-> first]
  <2>1. \A s \in SUBSET (1 .. 0) : s = {}
    OBVIOUS
  <2>2. IsFold(0, it, pieces)
    BY <2>1 DEF IsFold
  <2> HIDE DEF it
  <2> QED
    BY <2>2
<1>2. ASSUME NEW k \in 1 .. n, k - 1 \in S PROVE k \in S
  <2>1. PICK it : IsFold(k - 1, it, pieces)
    BY <1>2
  <2> DEFINE h == [s \in SUBSET (1 .. k) |->
                     IF k \in s THEN RangesAfter(it[s \ {k}], pieces[k]) ELSE it[s]]
  <2>2. ASSUME NEW s \in SUBSET (1 .. k)
        PROVE  h[s] = IF s = {} THEN first ELSE RangesAfter(h[s \ {Max(s)}], pieces[Max(s)])
    <3>1. CASE k \in s
      <4>1. Max(s) = k /\ s \ {k} \in SUBSET (1 .. k) /\ k \notin s \ {k} /\ s # {}
        BY <3>1, Greatest
      <4>2. h[s \ {k}] = it[s \ {k}]
        BY <4>1
      <4> QED
        BY <3>1, <4>1, <4>2
    <3>2. CASE k \notin s
      <4>1. s \in SUBSET (1 .. k - 1)
        BY <3>2
      <4>2. it[s] = IF s = {} THEN first ELSE RangesAfter(it[s \ {Max(s)}], pieces[Max(s)])
        BY <2>1, <4>1 DEF IsFold
      <4>3. s \ {Max(s)} \in SUBSET (1 .. k) /\ k \notin s \ {Max(s)}
        BY <3>2
      <4>4. h[s] = it[s] /\ h[s \ {Max(s)}] = it[s \ {Max(s)}]
        BY <3>2, <4>3
      <4> QED
        BY <4>2, <4>4
    <3> QED
      BY <3>1, <3>2
  <2>3. h = [s \in SUBSET (1 .. k) |->
               IF s = {} THEN first ELSE RangesAfter(h[s \ {Max(s)}], pieces[Max(s)])]
    BY <2>2
  <2>4. IsFold(k, h, pieces)
    BY <2>3 DEF IsFold
  <2> HIDE DEF h
  <2>5. k \in 0 .. n
    OBVIOUS
  <2> QED
    BY <2>4, <2>5
<1> HIDE DEF S
<1>3. n \in S
  <2>1. \A k \in 0 .. n : k \in S
    BY <1>1, <1>2, Climbing
  <2> QED
    BY <2>1
<1> QED
  BY <1>3 DEF S

LEMMA FoldOfRanges ==
  ASSUME NEW pieces
  PROVE  UnencryptedRanges(pieces) =
           (LET iter[s \in SUBSET (DOMAIN pieces)] ==
                  IF s = {} THEN [at |-> 0, ranges |-> <<>>]
                  ELSE RangesAfter(iter[s \ {Max(s)}], pieces[Max(s)])
            IN  iter[DOMAIN pieces]).ranges
BY DEF UnencryptedRanges, FoldLeft, MapThenFoldSet

LEMMA RangesAdded ==
  ASSUME NEW T, NEW pieces \in Seq(T)
  PROVE  \E g : /\ g[0] = [at |-> 0, ranges |-> <<>>]
                /\ \A k \in 1 .. Len(pieces) : g[k] = RangesAfter(g[k - 1], pieces[k])
                /\ UnencryptedRanges(pieces) = g[Len(pieces)].ranges
<1> DEFINE n == Len(pieces)
           first == [at |-> 0, ranges |-> <<>>]
           it == CHOOSE x : IsFold(n, x, pieces)
           g == [k \in 0 .. n |-> it[1 .. k]]
<1>1. n \in Nat /\ DOMAIN pieces = 1 .. n
  OBVIOUS
<1>2. IsFold(n, it, pieces)
  BY <1>1, FoldExists, Zenon
<1>3. UnencryptedRanges(pieces) = it[1 .. n].ranges
  BY <1>1, FoldOfRanges DEF IsFold
<1> HIDE DEF it
<1>4. \A s \in SUBSET (1 .. n) :
        it[s] = IF s = {} THEN first ELSE RangesAfter(it[s \ {Max(s)}], pieces[Max(s)])
  BY <1>2 DEF IsFold
<1>5. g[0] = first
  <2>1. 1 .. 0 = {} /\ 0 \in 0 .. n
    BY <1>1
  <2> QED
    BY <1>4, <2>1
<1>6. ASSUME NEW k \in 1 .. n PROVE g[k] = RangesAfter(g[k - 1], pieces[k])
  <2>1. k \in 0 .. n /\ k - 1 \in 0 .. n /\ k \in 1 .. k
    BY <1>1
  <2>3. 1 .. k \in SUBSET (1 .. n) /\ (1 .. k) \ {k} = 1 .. k - 1
    BY <1>1
  <2>2. Max(1 .. k) = k
    BY <1>1, <2>1, Greatest
  <2> QED
    BY <1>4, <2>1, <2>2, <2>3
<1>7. g[n] = it[1 .. n]
  BY <1>1
<1> HIDE DEF g
<1> QED
  BY <1>3, <1>5, <1>6, <1>7

-----------------------------------------------------------------------------
(* How many places of X there are up to one.                               *)
Upto(X, p) == Cardinality({q \in X : q <= p})

LEMMA CountStep ==
  ASSUME NEW n \in Nat, NEW X \in SUBSET (1 .. n)
  PROVE  /\ Upto(X, 0) = 0 /\ Upto(X, n) = Cardinality(X)
         /\ \A p \in 0 .. n : Upto(X, p) \in Nat
         /\ \A p \in 1 .. n : Upto(X, p) = Upto(X, p - 1) + (IF p \in X THEN 1 ELSE 0)
<1>0. \A q \in X : q \in Int /\ 1 <= q /\ q <= n
  OBVIOUS
<1>1. ASSUME NEW p PROVE IsFiniteSet({q \in X : q <= p})
  <2>1. IsFiniteSet(1 .. n)
    BY FS_Interval
  <2> QED
    BY <2>1, FS_Subset
<1>2. \A p \in 0 .. n : Upto(X, p) \in Nat
  BY <1>1, FS_CardinalityType DEF Upto
<1>3. {q \in X : q <= 0} = {} /\ {q \in X : q <= n} = X
  <2>1. \A q \in X : ~(q <= 0) /\ q <= n
    BY <1>0
  <2> QED
    BY <2>1, Zenon
<1>4. ASSUME NEW p \in 1 .. n
      PROVE  Upto(X, p) = Upto(X, p - 1) + (IF p \in X THEN 1 ELSE 0)
  <2> DEFINE Y == {q \in X : q <= p - 1}
  <2>1. IsFiniteSet(Y) /\ p \notin Y
    <3>1. p \notin Y
      OBVIOUS
    <3>2. IsFiniteSet(Y)
      BY <1>1, Zenon
    <3> QED
      BY <3>1, <3>2
  <2>0. \A q \in X : q <= p <=> q = p \/ q <= p - 1
    BY <1>0
  <2>2. CASE p \in X
    <3>1. {q \in X : q <= p} = Y \cup {p}
      BY <2>0, <2>2
    <3> HIDE DEF Y
    <3>2. Cardinality(Y \cup {p}) = Cardinality(Y) + 1
      BY <2>1, FS_AddElement
    <3> QED
      BY <2>2, <3>1, <3>2 DEF Upto, Y
  <2>3. CASE p \notin X
    <3>1. {q \in X : q <= p} = Y
      BY <2>0, <2>3
    <3>2. p - 1 \in 0 .. n
      OBVIOUS
    <3> QED
      BY <1>2, <2>3, <3>1, <3>2 DEF Upto
  <2> QED
    BY <2>2, <2>3
<1> QED
  BY <1>2, <1>3, <1>4, FS_EmptySet DEF Upto

LEMMA CountRises ==
  ASSUME NEW n \in Nat, NEW X \in SUBSET (1 .. n), NEW p \in 0 .. n
  PROVE  /\ Upto(X, p) <= p /\ Upto(X, p) <= Cardinality(X) /\ Cardinality(X) \in Nat
         /\ p - Upto(X, p) <= n - Cardinality(X)
<1> DEFINE S == {k \in 0 .. n : Upto(X, k) <= k}
           R == {j \in 0 .. n : /\ Upto(X, n - j) <= Cardinality(X)
                                /\ n - j - Upto(X, n - j) <= n - Cardinality(X)}
<1>1. /\ Upto(X, 0) = 0 /\ Upto(X, n) = Cardinality(X) /\ n \in 0 .. n /\ 0 \in 0 .. n
      /\ \A k \in 0 .. n : Upto(X, k) \in Nat
      /\ \A k \in 1 .. n : Upto(X, k) = Upto(X, k - 1) + (IF k \in X THEN 1 ELSE 0)
  <2>1. n \in 0 .. n /\ 0 \in 0 .. n
    OBVIOUS
  <2> QED
    BY <2>1, CountStep, Zenon
<1>2. Cardinality(X) \in Nat
  BY <1>1
<1>3. \A k \in 0 .. n : k \in S
  <2>1. 0 \in S
    BY <1>1
  <2>2. ASSUME NEW k \in 1 .. n, k - 1 \in S PROVE k \in S
    <3>1. Upto(X, k - 1) \in Nat /\ Upto(X, k - 1) <= k - 1
      BY <1>1, <2>2
    <3> QED
      BY <1>1, <3>1
  <2> HIDE DEF S
  <2> QED
    BY <2>1, <2>2, Climbing
<1>4. \A k \in 0 .. n : k \in R
  <2>1. 0 \in R
    BY <1>1, <1>2
  <2>2. ASSUME NEW j \in 1 .. n, j - 1 \in R PROVE j \in R
    <3> DEFINE k == n - j + 1
    <3>1. k \in 1 .. n /\ k \in 0 .. n /\ k - 1 = n - j /\ n - (j - 1) = k /\ k - 1 \in 0 .. n
      OBVIOUS
    <3>2. Upto(X, k) = Upto(X, n - j) + (IF k \in X THEN 1 ELSE 0) /\ Upto(X, n - j) \in Nat
      BY <1>1, <3>1
    <3>3. Upto(X, k) <= Cardinality(X) /\ k - Upto(X, k) <= n - Cardinality(X)
      BY <2>2, <3>1
    <3> QED
      BY <1>2, <3>1, <3>2, <3>3
  <2> HIDE DEF R
  <2> QED
    BY <2>1, <2>2, Climbing
<1>5. n - p \in 0 .. n /\ n - (n - p) = p
  OBVIOUS
<1> QED
  BY <1>2, <1>3, <1>4, <1>5

(* The i-th place.                                                         *)
LEMMA Ranked ==
  ASSUME NEW n \in Nat, NEW X \in SUBSET (1 .. n), NEW i \in 1 .. Cardinality(X)
  PROVE  \E p \in X : Upto(X, p) = i
<1>1. /\ Upto(X, 0) = 0 /\ Upto(X, n) = Cardinality(X) /\ Cardinality(X) \in Nat /\ n \in 0 .. n
      /\ \A k \in 0 .. n : Upto(X, k) \in Nat
      /\ \A k \in 1 .. n : Upto(X, k) = Upto(X, k - 1) + (IF k \in X THEN 1 ELSE 0)
  BY CountStep
<1> DEFINE T == {k \in 0 .. n : Upto(X, k) >= i}
<1>2. T \subseteq Nat /\ n \in T
  BY <1>1
<1> HIDE DEF T
<1>3. PICK p \in T : \A k \in T : p <= k
  BY <1>2, Least
<1>4. p \in 1 .. n /\ Upto(X, p) >= i
  BY <1>1, <1>3 DEF T
<1>5. p - 1 \in 0 .. n /\ p - 1 \notin T
  BY <1>3, <1>4
<1>6. Upto(X, p - 1) < i
  BY <1>1, <1>5 DEF T
<1>7. p \in X /\ Upto(X, p) = i
  BY <1>1, <1>4, <1>5, <1>6
<1> QED
  BY <1>7

CountsRest(n, X, Y) ==
  /\ \A p \in 0 .. n : Upto(Y, p) = p - Upto(X, p)
  /\ Cardinality(Y) = n - Cardinality(X)

LEMMA Others ==
  ASSUME NEW n \in Nat, NEW X \in SUBSET (1 .. n), NEW Y, Y = (1 .. n) \ X
  PROVE  CountsRest(n, X, Y)
<1> DEFINE S == {p \in 0 .. n : Upto(Y, p) = p - Upto(X, p)}
<1>1. Y \in SUBSET (1 .. n)
  OBVIOUS
<1>2. /\ Upto(X, 0) = 0 /\ Upto(X, n) = Cardinality(X)
      /\ \A p \in 0 .. n : Upto(X, p) \in Nat
      /\ \A p \in 1 .. n : Upto(X, p) = Upto(X, p - 1) + (IF p \in X THEN 1 ELSE 0)
  BY CountStep
<1>3. /\ Upto(Y, 0) = 0 /\ Upto(Y, n) = Cardinality(Y)
      /\ \A p \in 1 .. n : Upto(Y, p) = Upto(Y, p - 1) + (IF p \in Y THEN 1 ELSE 0)
  <2>1. ASSUME NEW Z \in SUBSET (1 .. n)
        PROVE  /\ Upto(Z, 0) = 0 /\ Upto(Z, n) = Cardinality(Z)
               /\ \A p \in 1 .. n : Upto(Z, p) = Upto(Z, p - 1) + (IF p \in Z THEN 1 ELSE 0)
    BY CountStep
  <2> QED
    BY <1>1, <2>1
<1>4. 0 \in S
  BY <1>2, <1>3
<1>5. ASSUME NEW p \in 1 .. n, p - 1 \in S PROVE p \in S
  <2>1. p - 1 \in 0 .. n /\ p \in 0 .. n /\ (p \in Y <=> p \notin X)
    OBVIOUS
  <2>2. Upto(Y, p - 1) = p - 1 - Upto(X, p - 1) /\ Upto(X, p - 1) \in Nat
    BY <1>2, <1>5, <2>1
  <2>4. Upto(X, p) = Upto(X, p - 1) + (IF p \in X THEN 1 ELSE 0)
        /\ Upto(Y, p) = Upto(Y, p - 1) + (IF p \in Y THEN 1 ELSE 0)
    BY <1>2, <1>3
  <2>3. Upto(Y, p) = p - Upto(X, p)
    BY <2>1, <2>2, <2>4
  <2> QED
    BY <2>1, <2>3
<1> HIDE DEF S
<1>6. \A p \in 0 .. n : p \in S
  BY <1>4, <1>5, Climbing
<1>7. \A p \in 0 .. n : Upto(Y, p) = p - Upto(X, p)
  BY <1>6 DEF S
<1>8. Upto(Y, n) = n - Upto(X, n)
  <2>1. n \in 0 .. n
    OBVIOUS
  <2> QED
    BY <1>7, <2>1
<1> QED
  BY <1>2, <1>3, <1>7, <1>8 DEF CountsRest

(* What X does not reach does not count.                                   *)
CountsOn(n, X, l, Z) ==
  /\ Z \in SUBSET (1 .. n + l) /\ X \in SUBSET (1 .. n + l)
  /\ \A p \in 0 .. n : Upto(Z, p) = Upto(X, p)
  /\ \A j \in 0 .. l : Upto(Z, n + j) = Cardinality(X) + j /\ Upto(X, n + j) = Cardinality(X)
  /\ Cardinality(Z) = Cardinality(X) + l

LEMMA CountOfMore ==
  ASSUME NEW n \in Nat, NEW X \in SUBSET (1 .. n), NEW l \in Nat
  PROVE  CountsOn(n, X, l, X \cup (n + 1 .. n + l))
<1> DEFINE Z == X \cup (n + 1 .. n + l)
<1>0. \A q \in X : q \in Int /\ 1 <= q /\ q <= n
  OBVIOUS
<1>1. Z \in SUBSET (1 .. n + l) /\ X \in SUBSET (1 .. n + l) /\ n + l \in Nat
  OBVIOUS
<1>2. ASSUME NEW p \in 0 .. n PROVE Upto(Z, p) = Upto(X, p)
  <2>1. \A q \in n + 1 .. n + l : ~(q <= p)
    OBVIOUS
  <2>2. {q \in Z : q <= p} = {q \in X : q <= p}
    BY <2>1
  <2> QED
    BY <2>2 DEF Upto
<1>3. ASSUME NEW j \in 0 .. l PROVE Upto(X, n + j) = Cardinality(X)
  <2>1. \A q \in X : q <= n + j
    BY <1>0
  <2>2. {q \in X : q <= n + j} = X
    BY <2>1, Zenon
  <2> QED
    BY <2>2 DEF Upto
<1>20. \A j \in 1 .. l : n + j \in Z
  OBVIOUS
<1> HIDE DEF Z
<1>4. Cardinality(X) \in Nat
  <2>1. n \in 0 .. n
    OBVIOUS
  <2> QED
    BY <2>1, CountRises
<1>5. /\ Upto(Z, n + l) = Cardinality(Z)
      /\ \A p \in 1 .. n + l : Upto(Z, p) = Upto(Z, p - 1) + (IF p \in Z THEN 1 ELSE 0)
  <2> DEFINE m == n + l
  <2>1. m \in Nat /\ Z \in SUBSET (1 .. m)
    BY <1>1
  <2> HIDE DEF m
  <2>2. \A W \in SUBSET (1 .. m) :
          /\ Upto(W, m) = Cardinality(W)
          /\ \A p \in 1 .. m : Upto(W, p) = Upto(W, p - 1) + (IF p \in W THEN 1 ELSE 0)
    BY <2>1, CountStep
  <2>3. /\ Upto(Z, m) = Cardinality(Z)
        /\ \A p \in 1 .. m : Upto(Z, p) = Upto(Z, p - 1) + (IF p \in Z THEN 1 ELSE 0)
    BY <2>1, <2>2
  <2> QED
    BY <2>3 DEF m
<1> DEFINE S == {j \in 0 .. l : Upto(Z, n + j) = Cardinality(X) + j}
<1>6. 0 \in S
  <2>1. n \in 0 .. n /\ 0 \in 0 .. l /\ n + 0 = n
    OBVIOUS
  <2>2. Upto(Z, n) = Cardinality(X)
    BY <1>2, <1>3, <2>1
  <2> QED
    BY <1>4, <2>1, <2>2
<1>7. ASSUME NEW j \in 1 .. l, j - 1 \in S PROVE j \in S
  <2>1. n + j \in 1 .. n + l /\ n + j \in Z /\ n + j - 1 = n + (j - 1) /\ j \in 0 .. l
    BY <1>20
  <2>2. Upto(Z, n + (j - 1)) = Cardinality(X) + (j - 1)
    BY <1>7
  <2>3. Upto(Z, n + j) = Upto(Z, n + (j - 1)) + 1
    <3>1. Upto(Z, n + j) = Upto(Z, n + j - 1) + (IF n + j \in Z THEN 1 ELSE 0)
      <4> DEFINE p == n + j
      <4>1. p \in 1 .. n + l /\ p - 1 = n + j - 1
        BY <2>1
      <4> HIDE DEF p
      <4>2. Upto(Z, p) = Upto(Z, p - 1) + (IF p \in Z THEN 1 ELSE 0)
        BY <1>5, <4>1, Zenon
      <4> QED
        BY <4>1, <4>2 DEF p
    <3> QED
      BY <2>1, <3>1
  <2>4. Upto(Z, n + j) = Cardinality(X) + j
    BY <1>4, <2>2, <2>3
  <2> QED
    BY <2>1, <2>4
<1> HIDE DEF S
<1>8. \A j \in 0 .. l : j \in S
  BY <1>6, <1>7, Climbing
<1>9. \A j \in 0 .. l : Upto(Z, n + j) = Cardinality(X) + j
  BY <1>8 DEF S
<1>10. Cardinality(Z) = Cardinality(X) + l
  <2>1. l \in 0 .. l
    OBVIOUS
  <2> QED
    BY <1>5, <1>9, <2>1
<1> QED
  BY <1>1, <1>2, <1>3, <1>9, <1>10 DEF Z, CountsOn

-----------------------------------------------------------------------------
(* Two sequences woven into one: C at the places of X, S at the others.    *)
Woven(X, A, C, S) ==
  /\ X \in SUBSET (1 .. Len(A))
  /\ Len(C) = Cardinality(X) /\ Len(A) = Len(C) + Len(S)
  /\ \A p \in 1 .. Len(A) :
       A[p] = IF p \in X THEN C[Upto(X, p)] ELSE S[p - Upto(X, p)]

LEMMA WovenPlaces ==
  ASSUME NEW T, NEW A \in Seq(T), NEW C \in Seq(T), NEW S \in Seq(T), NEW X, Woven(X, A, C, S)
  PROVE  \A p \in 1 .. Len(A) :
           /\ Upto(X, p) \in 0 .. Len(C) /\ p - Upto(X, p) \in 0 .. Len(S)
           /\ p \in X => Upto(X, p) \in 1 .. Len(C)
           /\ p \notin X => p - Upto(X, p) \in 1 .. Len(S)
<1> DEFINE n == Len(A)
<1>1. /\ n \in Nat /\ Len(C) \in Nat /\ Len(S) \in Nat /\ X \in SUBSET (1 .. n)
      /\ Len(C) = Cardinality(X) /\ n = Len(C) + Len(S)
  BY DEF Woven
<1> HIDE DEF n
<1>2. /\ \A p \in 0 .. n : Upto(X, p) \in Nat
      /\ \A p \in 1 .. n : Upto(X, p) = Upto(X, p - 1) + (IF p \in X THEN 1 ELSE 0)
  BY <1>1, CountStep
<1>3. ASSUME NEW p \in 1 .. n
      PROVE  /\ Upto(X, p) \in 0 .. Len(C) /\ p - Upto(X, p) \in 0 .. Len(S)
             /\ p \in X => Upto(X, p) \in 1 .. Len(C)
             /\ p \notin X => p - Upto(X, p) \in 1 .. Len(S)
  <2>1. p \in 0 .. n /\ p - 1 \in 0 .. n
    BY <1>1
  <2>2. /\ Upto(X, p) <= p /\ Upto(X, p) <= Len(C) /\ p - Upto(X, p) <= n - Len(C)
        /\ Upto(X, p - 1) <= p - 1
    BY <1>1, <2>1, CountRises
  <2>3. Upto(X, p) \in Nat /\ Upto(X, p - 1) \in Nat
    BY <1>2, <2>1
  <2>4. CASE p \in X
    <3>1. Upto(X, p) = Upto(X, p - 1) + 1
      BY <1>2, <2>4
    <3> QED
      BY <1>1, <2>2, <2>3, <2>4, <3>1
  <2>5. CASE p \notin X
    <3>1. Upto(X, p) = Upto(X, p - 1) + 0
      BY <1>2, <2>5
    <3> QED
      BY <1>1, <2>2, <2>3, <2>5, <3>1
  <2> QED
    BY <2>4, <2>5
<1> QED
  BY <1>3 DEF n

LEMMA WovenClear ==
  ASSUME NEW T, NEW A \in Seq(T), NEW C \in Seq(T), NEW S \in Seq(T), NEW X, Woven(X, A, C, S),
         NEW b \in Seq(T)
  PROVE  Woven(X \cup (Len(A) + 1 .. Len(A) + Len(b)), A \o b, C \o b, S)
<1> DEFINE n == Len(A)
           l == Len(b)
           Z == X \cup (n + 1 .. n + l)
<1>1. /\ n \in Nat /\ l \in Nat /\ Len(C) \in Nat /\ Len(S) \in Nat /\ X \in SUBSET (1 .. n)
      /\ Len(C) = Cardinality(X) /\ n = Len(C) + Len(S)
  BY DEF Woven
<1>2. /\ Len(A \o b) = n + l /\ Len(C \o b) = Len(C) + l
      /\ \A p \in 1 .. n : (A \o b)[p] = A[p]
      /\ \A j \in 1 .. l : (A \o b)[n + j] = b[j] /\ (C \o b)[Len(C) + j] = b[j]
      /\ \A k \in 1 .. Len(C) : (C \o b)[k] = C[k]
  OBVIOUS
<1>3. \A p \in 1 .. n :
        /\ A[p] = IF p \in X THEN C[Upto(X, p)] ELSE S[p - Upto(X, p)]
        /\ p \in X => Upto(X, p) \in 1 .. Len(C)
  BY WovenPlaces DEF Woven
<1>0. n \in Nat /\ l \in Nat /\ Len(C) \in Nat /\ Len(S) \in Nat /\ n = Len(C) + Len(S)
  BY <1>1
<1> HIDE DEF n, l
<1>4. /\ Z \in SUBSET (1 .. n + l)
      /\ \A p \in 0 .. n : Upto(Z, p) = Upto(X, p)
      /\ \A j \in 0 .. l : Upto(Z, n + j) = Cardinality(X) + j
      /\ Cardinality(Z) = Cardinality(X) + l
  <2>1. n \in Nat /\ l \in Nat /\ X \in SUBSET (1 .. n)
    BY <1>0, <1>1
  <2>2. CountsOn(n, X, l, X \cup (n + 1 .. n + l))
    BY <2>1, CountOfMore, Zenon
  <2> QED
    BY <2>2 DEF CountsOn
<1>5. ASSUME NEW p \in 1 .. n + l
      PROVE  (A \o b)[p] = IF p \in Z THEN (C \o b)[Upto(Z, p)] ELSE S[p - Upto(Z, p)]
  <2>1. CASE p \in 1 .. n
    <3>1. Upto(Z, p) = Upto(X, p) /\ (p \in Z <=> p \in X)
      <4>1. p \in 0 .. n /\ p \notin n + 1 .. n + l
        BY <1>1, <2>1
      <4> QED
        BY <1>4, <4>1
    <3> QED
      BY <1>2, <1>3, <2>1, <3>1
  <2>2. CASE p \notin 1 .. n
    <3>1. PICK j \in 1 .. l : p = n + j
      <4>1. p - n \in 1 .. l /\ p = n + (p - n)
        BY <1>0, <2>2
      <4> QED
        BY <4>1
    <3>2. p \in Z /\ j \in 0 .. l
      BY <1>1, <3>1
    <3>3. Upto(Z, p) = Len(C) + j
      BY <1>1, <1>4, <3>1, <3>2
    <3> HIDE DEF Z
    <3> QED
      BY <1>2, <3>1, <3>2, <3>3
  <2> QED
    BY <2>1, <2>2
<1>6. Woven(Z, A \o b, C \o b, S)
  <2>1. Len(A \o b) = n + l /\ Len(C \o b) = Cardinality(Z) /\ n + l = Len(C \o b) + Len(S)
    BY <1>1, <1>2, <1>4
  <2> HIDE DEF Z
  <2> QED
    BY <1>4, <1>5, <2>1 DEF Woven
<1> QED
  BY <1>6 DEF n, l

LEMMA WovenSecret ==
  ASSUME NEW T, NEW A \in Seq(T), NEW C \in Seq(T), NEW S \in Seq(T), NEW X, Woven(X, A, C, S),
         NEW b \in Seq(T)
  PROVE  Woven(X, A \o b, C, S \o b)
<1> DEFINE n == Len(A)
           l == Len(b)
<1>1. /\ n \in Nat /\ l \in Nat /\ Len(C) \in Nat /\ Len(S) \in Nat /\ X \in SUBSET (1 .. n)
      /\ Len(C) = Cardinality(X) /\ n = Len(C) + Len(S)
  BY DEF Woven
<1>2. /\ Len(A \o b) = n + l /\ Len(S \o b) = Len(S) + l
      /\ \A p \in 1 .. n : (A \o b)[p] = A[p]
      /\ \A j \in 1 .. l : (A \o b)[n + j] = b[j] /\ (S \o b)[Len(S) + j] = b[j]
      /\ \A k \in 1 .. Len(S) : (S \o b)[k] = S[k]
  OBVIOUS
<1>3. \A p \in 1 .. n :
        /\ A[p] = IF p \in X THEN C[Upto(X, p)] ELSE S[p - Upto(X, p)]
        /\ p \notin X => p - Upto(X, p) \in 1 .. Len(S)
  BY WovenPlaces DEF Woven
<1>0. n \in Nat /\ l \in Nat /\ Len(C) \in Nat /\ Len(S) \in Nat /\ n = Len(C) + Len(S)
  BY <1>1
<1> HIDE DEF n, l
<1>4. /\ X \in SUBSET (1 .. n + l)
      /\ \A j \in 0 .. l : Upto(X, n + j) = Cardinality(X)
  <2>1. n \in Nat /\ l \in Nat /\ X \in SUBSET (1 .. n)
    BY <1>0, <1>1
  <2>2. CountsOn(n, X, l, X \cup (n + 1 .. n + l))
    BY <2>1, CountOfMore, Zenon
  <2> QED
    BY <2>2 DEF CountsOn
<1>5. ASSUME NEW p \in 1 .. n + l
      PROVE  (A \o b)[p] = IF p \in X THEN C[Upto(X, p)] ELSE (S \o b)[p - Upto(X, p)]
  <2>1. CASE p \in 1 .. n
    BY <1>2, <1>3, <2>1
  <2>2. CASE p \notin 1 .. n
    <3>1. PICK j \in 1 .. l : p = n + j
      <4>1. p - n \in 1 .. l /\ p = n + (p - n)
        BY <1>0, <2>2
      <4> QED
        BY <4>1
    <3>2. p \notin X /\ j \in 0 .. l
      BY <1>1, <2>2, <3>1
    <3>3. Upto(X, p) = Len(C)
      BY <1>1, <1>4, <3>1, <3>2
    <3>4. p - Upto(X, p) = Len(S) + j
      <4>1. j \in Int
        BY <1>0
      <4>2. n + j - Len(C) = Len(S) + j
        BY <1>0, <4>1
      <4>3. PICK c : c = Upto(X, p)
        OBVIOUS
      <4>4. p - c = Len(S) + j
        BY <1>0, <3>1, <3>3, <4>1, <4>2, <4>3
      <4> QED
        BY <4>3, <4>4, Zenon
    <3> QED
      BY <1>2, <3>1, <3>2, <3>4
  <2> QED
    BY <2>1, <2>2
<1>6. n + l = Len(C) + Len(S \o b)
  BY <1>1, <1>2
<1> QED
  BY <1>1, <1>2, <1>4, <1>5, <1>6 DEF Woven

-----------------------------------------------------------------------------
(* The ranges are in order and cover what was clear.                       *)
RangeType == [offset : Nat, size : Nat]
PieceType(T) == [clear : BOOLEAN, bytes : Seq(T)]

LEMMA CoveredPlaces ==
  ASSUME NEW r, NEW p
  PROVE  p \in Covered(r) <=> \E i \in DOMAIN r : p \in r[i].offset + 1 .. r[i].offset + r[i].size
BY DEF Covered

LEMMA RangeFields ==
  ASSUME NEW r \in Seq(RangeType)
  PROVE  /\ Len(r) \in Nat /\ DOMAIN r = 1 .. Len(r)
         /\ \A i \in 1 .. Len(r) : r[i] \in RangeType /\ r[i].offset \in Nat /\ r[i].size \in Nat
<1>1. Len(r) \in Nat /\ DOMAIN r = 1 .. Len(r) /\ \A i \in 1 .. Len(r) : r[i] \in RangeType
  OBVIOUS
<1>2. \A x \in RangeType : x.offset \in Nat /\ x.size \in Nat
  BY DEF RangeType
<1> QED
  BY <1>1, <1>2

LEMMA RangeAdded ==
  ASSUME NEW at \in Nat, NEW ranges \in Seq(RangeType), ValidRanges(ranges, at),
         NEW piece, Len(piece.bytes) \in Nat
  PROVE  LET r == AddRange(ranges, piece, at) IN
         /\ r \in Seq(RangeType) /\ ValidRanges(r, at + Len(piece.bytes))
         /\ Covered(r) = Covered(ranges) \cup (at + 1 .. at + Len(piece.bytes))
<1> DEFINE r == AddRange(ranges, piece, at)
           k == Len(ranges)
           l == Len(piece.bytes)
<1>0. k \in Nat /\ l \in Nat
  OBVIOUS
<1>1. /\ k \in Nat /\ DOMAIN ranges = 1 .. k /\ l \in Nat
      /\ \A i \in 1 .. k : ranges[i].offset \in Nat /\ ranges[i].size \in Nat
  BY RangeFields
<1>2. /\ \A i \in 1 .. k : i < k => ranges[i].offset + ranges[i].size <= ranges[i + 1].offset
      /\ k > 0 => ranges[k].offset + ranges[k].size <= at
  BY <1>1 DEF ValidRanges
<1>3. CASE ranges # <<>> /\ ranges[k].offset + ranges[k].size = at
  <2>1. r = [ranges EXCEPT ![k].size = @ + l]
    BY <1>3 DEF AddRange
  <2>2. k \in 1 .. k /\ ranges[k] \in RangeType
    BY <1>3
  <2>0. PICK o \in Nat, z \in Nat : ranges[k].offset = o /\ ranges[k].size = z
    BY <1>1, <2>2
  <2>8. o + z = at
    BY <1>3, <2>0
  <2>3. r \in Seq(RangeType) /\ Len(r) = k
    <3>1. [ranges[k] EXCEPT !.size = @ + l] \in RangeType
      BY <1>1, <2>2 DEF RangeType
    <3>2. r = [ranges EXCEPT ![k] = [ranges[k] EXCEPT !.size = @ + l]]
      BY <2>1, <2>2
    <3>3. \A x \in RangeType : [ranges EXCEPT ![k] = x] \in Seq(RangeType)
                                /\ Len([ranges EXCEPT ![k] = x]) = k
      BY <2>2
    <3> QED
      BY <3>1, <3>2, <3>3
  <2>4. /\ \A i \in 1 .. k : i # k => r[i] = ranges[i]
        /\ r[k].offset = o /\ r[k].size = z + l
    BY <2>0, <2>1, <2>2 DEF RangeType
  <2> HIDE DEF r
  <2>5. ValidRanges(r, at + l)
    <3>1. ASSUME NEW i \in 1 .. k, i < k PROVE r[i].offset + r[i].size <= r[i + 1].offset
      <4>1. i + 1 \in 1 .. k /\ r[i] = ranges[i] /\ r[i + 1].offset = ranges[i + 1].offset
        <5>1. i + 1 \in 1 .. k /\ i # k
          BY <1>0, <3>1
        <5> QED
          BY <2>0, <2>4, <5>1
      <4> QED
        BY <1>2, <3>1, <4>1
    <3>2. r[k].offset + r[k].size <= at + l
      BY <1>0, <2>4, <2>8
    <3>3. DOMAIN r = 1 .. k /\ Len(r) = k
      BY <2>3
    <3>4. \A i \in 1 .. k : i < k \/ i = k
      BY SMTT(30), <1>0
    <3> QED
      BY <3>1, <3>2, <3>3, <3>4 DEF ValidRanges
  <2>6. ASSUME NEW p PROVE p \in Covered(r) <=> p \in Covered(ranges) \cup (at + 1 .. at + l)
    <3>1. p \in r[k].offset + 1 .. r[k].offset + r[k].size
            <=> \/ p \in ranges[k].offset + 1 .. ranges[k].offset + ranges[k].size
                \/ p \in at + 1 .. at + l
      <4>1. p \in o + 1 .. o + (z + l) <=> p \in o + 1 .. o + z \/ p \in at + 1 .. at + l
        BY <1>0, <2>8
      <4> QED
        BY <2>0, <2>4, <4>1
    <3>2. DOMAIN r = 1 .. k
      BY <2>3
    <3> QED
      BY <1>1, <2>2, <2>4, <3>1, <3>2, CoveredPlaces
  <2>7. Covered(r) = Covered(ranges) \cup (at + 1 .. at + l)
    BY <2>6
  <2> QED
    BY <2>3, <2>5, <2>7 DEF r
<1>4. CASE ~(ranges # <<>> /\ ranges[k].offset + ranges[k].size = at)
  <2> DEFINE new == [offset |-> at, size |-> l]
  <2>1. r = Append(ranges, new)
    BY <1>4 DEF AddRange
  <2>2. new \in RangeType /\ new.offset = at /\ new.size = l
    BY <1>1 DEF RangeType
  <2> HIDE DEF new
  <2>3. /\ r \in Seq(RangeType) /\ Len(r) = k + 1 /\ r[k + 1] = new
        /\ \A i \in 1 .. k : r[i] = ranges[i]
    BY <2>1, <2>2
  <2> HIDE DEF r
  <2>4. ValidRanges(r, at + l)
    <3>1. ASSUME NEW i \in 1 .. k PROVE r[i].offset + r[i].size <= r[i + 1].offset
      <4>1. CASE i < k
        <5>1. i + 1 \in 1 .. k
          BY <1>1, <4>1
        <5> QED
          BY <1>2, <2>3, <4>1, <5>1
      <4>2. CASE i = k
        BY <1>1, <1>2, <2>2, <2>3, <4>2
      <4> QED
        BY <1>1, <4>1, <4>2
    <3>2. r[k + 1].offset + r[k + 1].size <= at + l
      BY <1>1, <2>2, <2>3
    <3>3. DOMAIN r = 1 .. k + 1 /\ Len(r) = k + 1
      BY <2>3
    <3>4. \A i \in 1 .. k + 1 : (i < k + 1 /\ i \in 1 .. k) \/ (i = k + 1 /\ ~(i < k + 1))
      BY <1>1
    <3> QED
      BY <3>1, <3>2, <3>3, <3>4 DEF ValidRanges
  <2>5. ASSUME NEW p PROVE p \in Covered(r) <=> p \in Covered(ranges) \cup (at + 1 .. at + l)
    <3>1. DOMAIN r = 1 .. k + 1 /\ k + 1 \in 1 .. k + 1 /\ \A i \in 1 .. k + 1 : i \in 1 .. k \/ i = k + 1
      BY <1>1, <2>3
    <3>2. \A i \in 1 .. k : i \in 1 .. k + 1
      BY <1>1
    <3>3. p \in Covered(r) <=> \E i \in 1 .. k + 1 : p \in r[i].offset + 1 .. r[i].offset + r[i].size
      BY <2>3, <3>1, CoveredPlaces
    <3>4. p \in Covered(ranges)
            <=> \E i \in 1 .. k : p \in ranges[i].offset + 1 .. ranges[i].offset + ranges[i].size
      BY <1>1, CoveredPlaces
    <3>5. r[k + 1].offset = at /\ r[k + 1].size = l
      BY <2>2, <2>3
    <3> QED
      BY <2>3, <3>1, <3>2, <3>3, <3>4, <3>5
  <2>6. Covered(r) = Covered(ranges) \cup (at + 1 .. at + l)
    BY <2>5
  <2> QED
    BY <2>3, <2>4, <2>6 DEF r
<1> QED
  BY <1>3, <1>4

(* A frame after k of its pieces.                                          *)
CutUp(T, r, A, C, S) ==
  /\ A \in Seq(T) /\ C \in Seq(T) /\ S \in Seq(T)
  /\ r.at = Len(A) /\ r.ranges \in Seq(RangeType) /\ ValidRanges(r.ranges, Len(A))
  /\ Woven(Covered(r.ranges), A, C, S)

LEMMA PieceCut ==
  ASSUME NEW T, NEW piece \in PieceType(T), NEW r, NEW A, NEW C, NEW S, CutUp(T, r, A, C, S)
  PROVE  CutUp(T, RangesAfter(r, piece), A \o piece.bytes,
               C \o (IF piece.clear = TRUE THEN piece.bytes ELSE <<>>),
               S \o (IF piece.clear = FALSE THEN piece.bytes ELSE <<>>))
<1> DEFINE b == piece.bytes
           n == RangesAfter(r, piece)
<1>1. piece.clear \in BOOLEAN /\ b \in Seq(T) /\ Len(b) \in Nat
  BY DEF PieceType
<1>2. /\ A \in Seq(T) /\ C \in Seq(T) /\ S \in Seq(T) /\ Len(A) \in Nat
      /\ r.at = Len(A) /\ r.ranges \in Seq(RangeType) /\ ValidRanges(r.ranges, Len(A))
      /\ Woven(Covered(r.ranges), A, C, S)
  BY DEF CutUp
<1>3. /\ n.at = Len(A) + Len(b)
      /\ n.ranges = IF piece.clear THEN AddRange(r.ranges, piece, Len(A)) ELSE r.ranges
  BY <1>2 DEF RangesAfter
<1> HIDE DEF n
<1>4. /\ A \o b \in Seq(T) /\ C \o b \in Seq(T) /\ S \o b \in Seq(T)
      /\ Len(A \o b) = Len(A) + Len(b) /\ C \o <<>> = C /\ S \o <<>> = S
  BY <1>1, <1>2
<1>5. CASE piece.clear
  <2>1. /\ n.ranges \in Seq(RangeType) /\ ValidRanges(n.ranges, Len(A) + Len(b))
        /\ Covered(n.ranges) = Covered(r.ranges) \cup (Len(A) + 1 .. Len(A) + Len(b))
    BY <1>1, <1>2, <1>3, <1>5, RangeAdded
  <2>2. Woven(Covered(n.ranges), A \o b, C \o b, S)
    <3>1. Woven(Covered(r.ranges) \cup (Len(A) + 1 .. Len(A) + Len(b)), A \o b, C \o b, S)
      BY <1>1, <1>2, WovenClear
    <3> QED
      BY <2>1, <3>1
  <2>3. CutUp(T, n, A \o b, C \o b, S \o <<>>)
    BY <1>2, <1>3, <1>4, <2>1, <2>2 DEF CutUp
  <2> QED
    BY <1>5, <2>3 DEF n
<1>6. CASE ~piece.clear
  <2>1. ValidRanges(r.ranges, Len(A) + Len(b))
    <3> DEFINE s == r.ranges
    <3>1. \A i \in DOMAIN s : s[i].offset \in Nat /\ s[i].size \in Nat
      BY <1>2, RangeFields
    <3>2. ASSUME NEW i \in DOMAIN s, ~(i < Len(s)) PROVE s[i].offset + s[i].size <= Len(A) + Len(b)
      <4>1. s[i].offset + s[i].size <= Len(A)
        BY <1>2, <3>2 DEF ValidRanges
      <4> QED
        BY SMTT(30), <1>1, <1>2, <3>1, <4>1
    <3> QED
      BY <1>2, <3>2 DEF ValidRanges
  <2>2. Woven(Covered(r.ranges), A \o b, C, S \o b)
    BY <1>1, <1>2, WovenSecret
  <2>3. n.ranges = r.ranges
    BY <1>3, <1>6
  <2>4. CutUp(T, n, A \o b, C \o <<>>, S \o b)
    BY <1>2, <1>3, <1>4, <2>1, <2>2, <2>3 DEF CutUp
  <2>5. piece.clear = FALSE
    BY <1>1, <1>6
  <2> QED
    BY <2>4, <2>5 DEF n
<1> QED
  BY <1>5, <1>6

LEMMA PiecesCut ==
  ASSUME NEW T, NEW pieces \in Seq(PieceType(T))
  PROVE  \E r : /\ r.ranges = UnencryptedRanges(pieces)
                /\ CutUp(T, r, FlattenSeq([k \in DOMAIN pieces |-> pieces[k].bytes]),
                         BytesOf(pieces, TRUE), BytesOf(pieces, FALSE))
<1> DEFINE n == Len(pieces)
           a == [k \in DOMAIN pieces |-> pieces[k].bytes]
           c == [k \in DOMAIN pieces |-> IF pieces[k].clear = TRUE THEN pieces[k].bytes ELSE <<>>]
           s == [k \in DOMAIN pieces |-> IF pieces[k].clear = FALSE THEN pieces[k].bytes ELSE <<>>]
<1>1. n \in Nat /\ DOMAIN pieces = 1 .. n /\ \A k \in 1 .. n : pieces[k] \in PieceType(T)
  OBVIOUS
<1>2. \A k \in 1 .. n : pieces[k].bytes \in Seq(T) /\ pieces[k].clear \in BOOLEAN
  BY <1>1 DEF PieceType
<1>3. /\ a \in Seq(Seq(T)) /\ Len(a) = n /\ c \in Seq(Seq(T)) /\ Len(c) = n
      /\ s \in Seq(Seq(T)) /\ Len(s) = n
  <2>1. /\ a \in [1 .. n -> Seq(T)] /\ c \in [1 .. n -> Seq(T)] /\ s \in [1 .. n -> Seq(T)]
    BY <1>1, <1>2
  <2> HIDE DEF n, a, c, s
  <2> QED
    BY <1>1, <2>1
<1>4. \A k \in 1 .. n :
        /\ a[k] = pieces[k].bytes
        /\ c[k] = IF pieces[k].clear = TRUE THEN pieces[k].bytes ELSE <<>>
        /\ s[k] = IF pieces[k].clear = FALSE THEN pieces[k].bytes ELSE <<>>
  BY <1>1
<1>5. BytesOf(pieces, TRUE) = FlattenSeq(c) /\ BytesOf(pieces, FALSE) = FlattenSeq(s)
  BY DEF BytesOf
<1>6. PICK r : /\ r[0] = [at |-> 0, ranges |-> <<>>]
               /\ \A k \in 1 .. n : r[k] = RangesAfter(r[k - 1], pieces[k])
               /\ UnencryptedRanges(pieces) = r[n].ranges
  BY RangesAdded
<1> HIDE DEF n, a, c, s
<1>7. PICK A : Joins(n, A, a) /\ FlattenSeq(a) = A[n]
  BY <1>3, Flattened
<1>8. PICK C : Joins(n, C, c) /\ FlattenSeq(c) = C[n]
  BY <1>3, Flattened
<1>9. PICK S : Joins(n, S, s) /\ FlattenSeq(s) = S[n]
  BY <1>3, Flattened
<1> DEFINE K == {k \in 0 .. n : CutUp(T, r[k], A[k], C[k], S[k])}
<1>10. 0 \in K
  <2>1. A[0] = <<>> /\ C[0] = <<>> /\ S[0] = <<>>
    BY <1>7, <1>8, <1>9 DEF Joins
  <2>2. Covered(<<>>) = {} /\ ValidRanges(<<>>, 0)
    BY DEF Covered, ValidRanges
  <2>3. Woven({}, <<>>, <<>>, <<>>)
    BY FS_EmptySet DEF Woven
  <2>4. CutUp(T, [at |-> 0, ranges |-> <<>>], <<>>, <<>>, <<>>)
    <3>1. PICK z : z = [at |-> 0, ranges |-> <<>>]
      OBVIOUS
    <3>2. z.at = 0 /\ z.ranges = <<>> /\ Len(<<>>) = 0 /\ <<>> \in Seq(RangeType) /\ <<>> \in Seq(T)
      BY <3>1
    <3>3. CutUp(T, z, <<>>, <<>>, <<>>)
      BY <2>2, <2>3, <3>2 DEF CutUp
    <3> QED
      BY <3>1, <3>3
  <2> QED
    BY <1>1, <1>6, <2>1, <2>4
<1>11. ASSUME NEW k \in 1 .. n, k - 1 \in K PROVE k \in K
  <2>1. CutUp(T, r[k - 1], A[k - 1], C[k - 1], S[k - 1]) /\ k \in 0 .. n
    BY <1>1, <1>11
  <2>2. A[k] = A[k - 1] \o a[k] /\ C[k] = C[k - 1] \o c[k] /\ S[k] = S[k - 1] \o s[k]
    BY <1>7, <1>8, <1>9 DEF Joins
  <2>3. r[k] = RangesAfter(r[k - 1], pieces[k]) /\ pieces[k] \in PieceType(T)
    BY <1>1, <1>6
  <2>4. CutUp(T, r[k], A[k], C[k], S[k])
    <3>1. CutUp(T, RangesAfter(r[k - 1], pieces[k]), A[k - 1] \o pieces[k].bytes,
               C[k - 1] \o (IF pieces[k].clear = TRUE THEN pieces[k].bytes ELSE <<>>),
               S[k - 1] \o (IF pieces[k].clear = FALSE THEN pieces[k].bytes ELSE <<>>))
      BY <2>1, <2>3, PieceCut
    <3> QED
      BY <1>4, <2>2, <2>3, <3>1
  <2> QED
    BY <2>1, <2>4
<1> HIDE DEF K
<1>12. \A k \in 0 .. n : k \in K
  BY <1>1, <1>10, <1>11, Climbing
<1>13. CutUp(T, r[n], A[n], C[n], S[n])
  <2>1. n \in 0 .. n
    BY <1>1
  <2> QED
    BY <1>12, <2>1 DEF K
<1>14. a = [k \in DOMAIN pieces |-> pieces[k].bytes]
  BY DEF a
<1> QED
  BY <1>5, <1>6, <1>7, <1>8, <1>9, <1>13, <1>14

-----------------------------------------------------------------------------
(* What is put together on one side is taken apart on the other.           *)
MarkedBody(X, A) == [p \in 1 .. Len(A) |-> [cipher |-> p \notin X, byte |-> A[p]]]

LEMMA MarkedBytes ==
  ASSUME NEW T, NEW s \in Seq(T), NEW c \in BOOLEAN
  PROVE  /\ Marked(s, c) = [i \in 1 .. Len(s) |-> [cipher |-> c, byte |-> s[i]]]
         /\ Marked(s, c) \in Seq([cipher : BOOLEAN, byte : T]) /\ Len(Marked(s, c)) = Len(s)
         /\ \A i \in 1 .. Len(s) : Marked(s, c)[i] = [cipher |-> c, byte |-> s[i]]
<1>1. Len(s) \in Nat /\ DOMAIN s = 1 .. Len(s) /\ \A i \in 1 .. Len(s) : s[i] \in T
  OBVIOUS
<1>2. Marked(s, c) = [i \in 1 .. Len(s) |-> [cipher |-> c, byte |-> s[i]]]
  BY <1>1 DEF Marked
<1>3. Marked(s, c) \in [1 .. Len(s) -> [cipher : BOOLEAN, byte : T]]
  BY <1>1, <1>2
<1>4. \A i \in 1 .. Len(s) : Marked(s, c)[i] = [cipher |-> c, byte |-> s[i]]
  BY <1>2
<1> DEFINE m == Marked(s, c)
           k == Len(s)
           U == [cipher : BOOLEAN, byte : T]
<1>5. k \in Nat /\ m \in [1 .. k -> U]
  BY <1>1, <1>3
<1>6. m \in Seq(U) /\ Len(m) = k
  <2> HIDE DEF m, k, U
  <2> QED
    BY <1>5
<1> QED
  BY <1>2, <1>4, <1>6

LEMMA PutTogether ==
  ASSUME NEW T, NEW A \in Seq(T), NEW C \in Seq(T), NEW S \in Seq(T),
         NEW ranges, Woven(Covered(ranges), A, C, S)
  PROVE  Reconstruct(ranges, Marked(C, FALSE), Marked(S, TRUE)) = MarkedBody(Covered(ranges), A)
<1> DEFINE X == Covered(ranges)
           c == Marked(C, FALSE)
           s == Marked(S, TRUE)
<1>1. Len(A) = Len(C) + Len(S) /\ Len(A) \in Nat
      /\ \A p \in 1 .. Len(A) : A[p] = IF p \in X THEN C[Upto(X, p)] ELSE S[p - Upto(X, p)]
  BY DEF Woven
<1>2. \A p \in 1 .. Len(A) : /\ p \in X => Upto(X, p) \in 1 .. Len(C)
                             /\ p \notin X => p - Upto(X, p) \in 1 .. Len(S)
  BY WovenPlaces
<1>3. /\ Len(c) = Len(C) /\ Len(s) = Len(S)
      /\ \A i \in 1 .. Len(C) : c[i] = [cipher |-> FALSE, byte |-> C[i]]
      /\ \A i \in 1 .. Len(S) : s[i] = [cipher |-> TRUE, byte |-> S[i]]
  BY MarkedBytes
<1>4. Reconstruct(ranges, c, s) =
        [p \in 1 .. Len(c) + Len(s) |-> IF p \in X THEN c[Upto(X, p)] ELSE s[p - Upto(X, p)]]
  BY DEF Reconstruct, Upto
<1> HIDE DEF c, s, X
<1>5. ASSUME NEW p \in 1 .. Len(A)
      PROVE  (IF p \in X THEN c[Upto(X, p)] ELSE s[p - Upto(X, p)])
               = [cipher |-> p \notin X, byte |-> A[p]]
  <2>1. CASE p \in X
    <3>1. c[Upto(X, p)] = [cipher |-> FALSE, byte |-> C[Upto(X, p)]] /\ A[p] = C[Upto(X, p)]
      BY <1>1, <1>2, <1>3, <2>1
    <3>2. (p \notin X) = FALSE
      BY <2>1
    <3> QED
      BY <2>1, <3>1, <3>2
  <2>2. CASE p \notin X
    <3>1. /\ s[p - Upto(X, p)] = [cipher |-> TRUE, byte |-> S[p - Upto(X, p)]]
          /\ A[p] = S[p - Upto(X, p)]
      BY <1>1, <1>2, <1>3, <2>2
    <3>2. (p \notin X) = TRUE
      BY <2>2
    <3> QED
      BY <2>2, <3>1, <3>2
  <2> QED
    BY <2>1, <2>2
<1>6. Len(c) + Len(s) = Len(A)
  BY <1>1, <1>3
<1> QED
  BY <1>4, <1>5, <1>6 DEF MarkedBody, c, s, X

Place(X, i) == CHOOSE p \in X : Cardinality({q \in X : q <= p}) = i

PartAt(frame, X) == [i \in 1 .. Cardinality(X) |-> frame.body[Place(X, i)]]

LEMMA PlaceCounts ==
  ASSUME NEW n \in Nat, NEW X \in SUBSET (1 .. n), NEW i \in 1 .. Cardinality(X)
  PROVE  Place(X, i) \in X /\ Upto(X, Place(X, i)) = i
<1>1. \E p \in X : Upto(X, p) = i
  BY Ranked
<1> QED
  BY <1>1, Zenon DEF Place, Upto

LEMMA TakenApart ==
  ASSUME NEW T, NEW A \in Seq(T), NEW C \in Seq(T), NEW S \in Seq(T),
         NEW frame, frame.body = MarkedBody(Covered(frame.ranges), A),
         Woven(Covered(frame.ranges), A, C, S)
  PROVE  PartOf(frame, TRUE) = Marked(C, FALSE) /\ PartOf(frame, FALSE) = Marked(S, TRUE)
<1> DEFINE X == Covered(frame.ranges)
           n == Len(A)
           Y == (1 .. n) \ X
           body == frame.body
<1>1. /\ n \in Nat /\ Len(C) \in Nat /\ Len(S) \in Nat /\ X \in SUBSET (1 .. n)
      /\ Len(C) = Cardinality(X) /\ n = Len(C) + Len(S)
      /\ \A p \in 1 .. n : A[p] = IF p \in X THEN C[Upto(X, p)] ELSE S[p - Upto(X, p)]
  BY DEF Woven
<1>2. DOMAIN body = 1 .. n /\ \A p \in 1 .. n : body[p] = [cipher |-> p \notin X, byte |-> A[p]]
  BY DEF MarkedBody
<1>3. /\ {p \in DOMAIN body : (p \in X) = TRUE} = X
      /\ {p \in DOMAIN body : (p \in X) = FALSE} = Y
  BY <1>1, <1>2
<1>4. /\ PartOf(frame, TRUE) = [i \in 1 .. Cardinality(X) |-> body[Place(X, i)]]
      /\ PartOf(frame, FALSE) = [i \in 1 .. Cardinality(Y) |-> body[Place(Y, i)]]
  <2>1. /\ PartOf(frame, TRUE) = PartAt(frame, {p \in DOMAIN body : (p \in X) = TRUE})
        /\ PartOf(frame, FALSE) = PartAt(frame, {p \in DOMAIN body : (p \in X) = FALSE})
    BY DEF PartOf, PartAt, Place
  <2> HIDE DEF X, Y, body
  <2>2. PartOf(frame, TRUE) = PartAt(frame, X) /\ PartOf(frame, FALSE) = PartAt(frame, Y)
    BY <1>3, <2>1
  <2> QED
    BY <2>2 DEF PartAt, body
<1> HIDE DEF X, n, Y, body
<1>5. Cardinality(Y) = Len(S) /\ Y \in SUBSET (1 .. n) /\ \A p \in 0 .. n : Upto(Y, p) = p - Upto(X, p)
  <2>1. Y = (1 .. n) \ X
    BY DEF Y
  <2>2. /\ \A p \in 0 .. n : Upto(Y, p) = p - Upto(X, p)
        /\ Cardinality(Y) = n - Cardinality(X)
    <3>1. CountsRest(n, X, Y)
      BY <1>1, <2>1, Others
    <3> QED
      BY <3>1 DEF CountsRest
  <2>3. n - Cardinality(X) = Len(S)
    BY <1>1
  <2> QED
    BY <2>1, <2>2, <2>3
<1>6. ASSUME NEW i \in 1 .. Len(C) PROVE body[Place(X, i)] = [cipher |-> FALSE, byte |-> C[i]]
  <2>1. PICK p : p = Place(X, i)
    OBVIOUS
  <2>2. p \in X /\ Upto(X, p) = i
    BY <1>1, <2>1, PlaceCounts
  <2>3. p \in 1 .. n /\ A[p] = C[i] /\ (p \notin X) = FALSE
    BY <1>1, <2>2
  <2> QED
    BY <1>2, <2>1, <2>3
<1>7. ASSUME NEW i \in 1 .. Len(S) PROVE body[Place(Y, i)] = [cipher |-> TRUE, byte |-> S[i]]
  <2>1. PICK p : p = Place(Y, i)
    OBVIOUS
  <2>2. p \in Y /\ Upto(Y, p) = i
    BY <1>1, <1>5, <2>1, PlaceCounts
  <2>3. p \in 1 .. n /\ p \in 0 .. n /\ (p \notin X) = TRUE
    BY <1>1, <2>2 DEF Y
  <2>4. A[p] = S[i]
    BY <1>1, <1>5, <2>2, <2>3
  <2> QED
    BY <1>2, <2>1, <2>3, <2>4
<1>8. Marked(C, FALSE) = [i \in 1 .. Len(C) |-> [cipher |-> FALSE, byte |-> C[i]]]
  BY MarkedBytes
<1>9. Marked(S, TRUE) = [i \in 1 .. Len(S) |-> [cipher |-> TRUE, byte |-> S[i]]]
  BY MarkedBytes
<1>10. PartOf(frame, TRUE) = Marked(C, FALSE)
  BY <1>1, <1>4, <1>6, <1>8
<1>11. PartOf(frame, FALSE) = Marked(S, TRUE)
  BY <1>4, <1>5, <1>7, <1>9
<1> QED
  BY <1>10, <1>11

LEMMA Remainder ==
  ASSUME NEW b \in Nat, NEW n \in 0 .. b - 1 PROVE n % b = n
OBVIOUS

LEMMA AllSerialized ==
  ASSUME NEW T, NEW r \in Seq(T), ByteValues \in Nat, RangesSize(r) \in 0 .. ByteValues - 1
  PROVE  SerializeUnencryptedRanges(r) = r
<1> DEFINE n == Len(r)
           fits == {k \in 0 .. n : RangesSize(SubSeq(r, 1, k)) <= UnencryptedRangesSize(r)}
           last == CHOOSE k \in fits : \A j \in fits : j <= k
<1>1. n \in Nat /\ SubSeq(r, 1, n) = r
  OBVIOUS
<1>2. UnencryptedRangesSize(r) = RangesSize(r)
  BY Remainder DEF UnencryptedRangesSize
<1>3. n \in fits
  <2>1. n \in 0 .. n /\ RangesSize(r) <= UnencryptedRangesSize(r)
    BY <1>1, <1>2
  <2> QED
    BY <1>1, <2>1
<1>4. n \in fits /\ \A j \in fits : j \in Int /\ j <= n
  <2>1. \A j \in fits : j \in 0 .. n
    OBVIOUS
  <2> HIDE DEF fits
  <2> QED
    BY <1>1, <1>3, <2>1
<1>5. SerializeUnencryptedRanges(r) = SubSeq(r, 1, last)
  BY DEF SerializeUnencryptedRanges
<1> HIDE DEF fits, n
<1>6. last \in fits /\ \A j \in fits : j <= last
  BY <1>4
<1> HIDE DEF last
<1>7. last = n
  BY <1>1, <1>4, <1>6
<1> QED
  BY <1>1, <1>5, <1>7

(* A frame is opened as it was, if its ranges fit a byte.                  *)
LEMMA OpenedAsSealed ==
  ASSUME NEW T, NEW pieces \in Seq(PieceType(T)), ByteValues \in Nat,
         RangesSize(UnencryptedRanges(pieces)) \in 0 .. ByteValues - 1
  PROVE  /\ Opens(Sealed(pieces))
         /\ Opened(Sealed(pieces)) = FlattenSeq([k \in DOMAIN pieces |-> pieces[k].bytes])
<1> DEFINE A == FlattenSeq([k \in DOMAIN pieces |-> pieces[k].bytes])
           C == BytesOf(pieces, TRUE)
           S == BytesOf(pieces, FALSE)
           ranges == UnencryptedRanges(pieces)
           frame == Sealed(pieces)
<1>1. /\ A \in Seq(T) /\ C \in Seq(T) /\ S \in Seq(T)
      /\ ranges \in Seq(RangeType) /\ ValidRanges(ranges, Len(A))
      /\ Woven(Covered(ranges), A, C, S)
  <2>1. PICK r : r.ranges = ranges /\ CutUp(T, r, A, C, S)
    BY PiecesCut
  <2> HIDE DEF A, C, S, ranges
  <2> QED
    BY <2>1 DEF CutUp
<1>2. SerializeUnencryptedRanges(ranges) = ranges
  BY <1>1, AllSerialized
<1>3. /\ frame.body = Reconstruct(ranges, Marked(C, FALSE), Marked(S, TRUE))
      /\ frame.ranges = ranges
      /\ frame.tag = [clear |-> Marked(C, FALSE), cipher |-> Marked(S, TRUE)]
  BY <1>2 DEF Sealed
<1> HIDE DEF A, C, S, ranges, frame
<1>4. frame.body = MarkedBody(Covered(ranges), A)
  <2>1. Reconstruct(ranges, Marked(C, FALSE), Marked(S, TRUE)) = MarkedBody(Covered(ranges), A)
    BY <1>1, PutTogether
  <2> QED
    BY <1>3, <2>1
<1>5. PartOf(frame, TRUE) = Marked(C, FALSE) /\ PartOf(frame, FALSE) = Marked(S, TRUE)
  BY <1>1, <1>3, <1>4, TakenApart
<1>6. Len(frame.body) = Len(A) /\ DOMAIN frame.body = 1 .. Len(A)
      /\ \A p \in 1 .. Len(A) : frame.body[p].byte = A[p]
  BY <1>1, <1>4 DEF MarkedBody
<1>7. Opens(frame)
  BY <1>1, <1>3, <1>5, <1>6 DEF Opens
<1>8. Opened(frame) = Unmarked(frame.body)
  BY <1>3, <1>5 DEF Opened
<1>9. Unmarked(frame.body) = A
  <2>1. A = [p \in 1 .. Len(A) |-> A[p]]
    BY <1>1
  <2> QED
    BY <1>6, <2>1 DEF Unmarked
<1> QED
  BY <1>7, <1>8, <1>9 DEF A, frame

-----------------------------------------------------------------------------
(* Whatever the codec, a frame is cut into pieces of its bytes, and those  *)
(* of start codes and sizes.                                               *)
Written == Byte \cup {"0", "1", "size"}

LEMMA FlatType ==
  ASSUME NEW T, NEW seqs \in Seq(Seq(T)) PROVE FlattenSeq(seqs) \in Seq(T)
<1>1. PICK g \in [0 .. Len(seqs) -> Seq(T)] : FlattenSeq(seqs) = g[Len(seqs)]
  BY Flattened
<1>2. Len(seqs) \in 0 .. Len(seqs)
  OBVIOUS
<1> QED
  BY <1>1, <1>2

LEMMA FamilyType ==
  ASSUME NEW T, NEW s \in Seq(T), NEW U, NEW f, f = [i \in DOMAIN s |-> f[i]],
         \A i \in DOMAIN s : f[i] \in U
  PROVE  f \in Seq(U)
<1>1. DOMAIN s = 1 .. Len(s) /\ Len(s) \in Nat
  OBVIOUS
<1>2. f \in [1 .. Len(s) -> U]
  BY <1>1
<1> QED
  BY <1>1, <1>2

LEMMA UnitFields ==
  ASSUME NEW u \in Unit
  PROVE  /\ u.coded \in BOOLEAN /\ u.sized \in BOOLEAN
         /\ u.header \in Seq(Written) /\ u.payload \in Seq(Written)
         /\ u.header \o u.payload \in Seq(Written)
<1>1. u.coded \in BOOLEAN /\ u.sized \in BOOLEAN /\ u.header \in Seq(Byte) /\ u.payload \in Seq(Byte)
  BY DEF Unit
<1>2. \A s \in Seq(Byte) : s \in Seq(Written)
  BY DEF Written
<1>3. u.header \in Seq(Written) /\ u.payload \in Seq(Written)
  BY <1>1, <1>2
<1>4. \A s, t \in Seq(Written) : s \o t \in Seq(Written)
  OBVIOUS
<1> QED
  BY <1>1, <1>3, <1>4

LEMMA PieceTyped ==
  ASSUME NEW s \in Seq(Written)
  PROVE  Clear(s) \in PieceType(Written) /\ Secret(s) \in PieceType(Written)
BY DEF Clear, Secret, PieceType

LEMMA ElementAt == ASSUME NEW T, NEW s \in Seq(T), NEW i \in DOMAIN s PROVE s[i] \in T
OBVIOUS

LEMMA StartCodeTyped == StartCode \in Seq(Written)
BY DEF StartCode, Written

LEMMA SizeTyped ==
  ASSUME NEW n \in Nat PROVE [k \in 1 .. Leb128Size(n) |-> "size"] \in Seq(Written)
<1>1. Leb128Size(n) \in Nat
  BY DEF Leb128Size
<1>2. "size" \in Written
  BY DEF Written
<1> QED
  BY <1>1, <1>2

LEMMA FrameCut ==
  ASSUME NEW codec, NEW units \in Seq(Unit), codec = "VP8" => units # <<>>
  PROVE  ProcessFrame(codec, units) \in Seq(PieceType(Written))
<1> DEFINE P == PieceType(Written)
<1>0. /\ \A s \in Seq(Written) : Clear(s) \in P /\ Secret(s) \in P
      /\ \A i \in DOMAIN units : units[i] \in Unit
  BY PieceTyped, ElementAt
<1> HIDE DEF P
<1>1. ProcessFrameH26X(units) \in Seq(P)
  <2> DEFINE Of(i) == IF units[i].coded
                      THEN <<Clear(StartCode), Clear(units[i].header), Secret(units[i].payload)>>
                      ELSE <<Clear(StartCode), Clear(units[i].header \o units[i].payload)>>
             f == [i \in DOMAIN units |-> Of(i)]
  <2>1. ASSUME NEW i \in DOMAIN units PROVE Of(i) \in Seq(P)
    <3>1. /\ Clear(StartCode) \in P /\ Clear(units[i].header) \in P /\ Secret(units[i].payload) \in P
          /\ Clear(units[i].header \o units[i].payload) \in P
      BY <1>0, UnitFields, StartCodeTyped
    <3>2. \A x, y, z \in P : <<x, y, z>> \in Seq(P) /\ <<x, y>> \in Seq(P)
      OBVIOUS
    <3> QED
      BY <3>1, <3>2
  <2> HIDE DEF Of
  <2>2. f = [i \in DOMAIN units |-> f[i]] /\ \A i \in DOMAIN units : f[i] \in Seq(P)
    BY <2>1
  <2> HIDE DEF f
  <2>3. FlattenSeq(f) \in Seq(P)
    BY <2>2, FamilyType, FlatType
  <2> QED
    BY <2>3 DEF ProcessFrameH26X, Pieces, f, Of
<1>2. ProcessFrameAv1(units) \in Seq(P)
  <2> DEFINE SizeOf(i) == IF units[i].sized /\ i < Len(units)
                          THEN <<Clear([k \in 1 .. Leb128Size(Len(units[i].payload)) |-> "size"])>>
                          ELSE <<>>
             Of(i) == IF ~units[i].coded THEN <<>>
                      ELSE <<Clear(units[i].header)>> \o SizeOf(i) \o <<Secret(units[i].payload)>>
             f == [i \in DOMAIN units |-> Of(i)]
  <2>1. ASSUME NEW i \in DOMAIN units PROVE Of(i) \in Seq(P)
    <3>1. Clear(units[i].header) \in P /\ Secret(units[i].payload) \in P
      BY <1>0, UnitFields
    <3>2. Clear([k \in 1 .. Leb128Size(Len(units[i].payload)) |-> "size"]) \in P
      <4>1. Len(units[i].payload) \in Nat
        BY <1>0, UnitFields
      <4> QED
        BY <1>0, <4>1, SizeTyped
    <3>3. SizeOf(i) \in Seq(P)
      <4>1. \A x \in P : <<x>> \in Seq(P) /\ <<>> \in Seq(P)
        OBVIOUS
      <4> QED
        BY <3>2, <4>1
    <3>4. \A x, y \in P : \A s \in Seq(P) : <<x>> \o s \o <<y>> \in Seq(P) /\ <<>> \in Seq(P)
      OBVIOUS
    <3> HIDE DEF SizeOf
    <3> QED
      BY <3>1, <3>3, <3>4
  <2> HIDE DEF Of
  <2>2. f = [i \in DOMAIN units |-> f[i]] /\ \A i \in DOMAIN units : f[i] \in Seq(P)
    BY <2>1
  <2> HIDE DEF f
  <2>3. FlattenSeq(f) \in Seq(P)
    BY <2>2, FamilyType, FlatType
  <2> QED
    BY <2>3 DEF ProcessFrameAv1, Pieces, f, Of, SizeOf
<1>3. units # <<>> => ProcessFrameVp8(units) \in Seq(P)
  <2>1. ASSUME units # <<>> PROVE <<Clear(units[1].header), Secret(units[1].payload)>> \in Seq(P)
    <3>1. units[1] \in Unit
      BY <2>1
    <3>2. Clear(units[1].header) \in P /\ Secret(units[1].payload) \in P
      BY <1>0, <3>1, UnitFields
    <3> QED
      BY <3>2
  <2> QED
    BY <2>1 DEF ProcessFrameVp8
<1>4. ProcessFrameWhole(units) \in Seq(P)
  <2> DEFINE f == [i \in DOMAIN units |-> units[i].header \o units[i].payload]
  <2>1. f = [i \in DOMAIN units |-> f[i]] /\ \A i \in DOMAIN units : f[i] \in Seq(Written)
    BY <1>0, UnitFields
  <2> HIDE DEF f
  <2>2. Secret(FlattenSeq(f)) \in P
    BY <1>0, <2>1, FamilyType, FlatType
  <2>3. <<Secret(FlattenSeq(f))>> \in Seq(P)
    BY <2>2
  <2> QED
    BY <2>3 DEF ProcessFrameWhole, f
<1>5. ProcessFrame(codec, units) \in Seq(P)
  <2>1. CASE codec \in {"H264", "H265"}
    BY <1>1, <2>1 DEF ProcessFrame
  <2>2. CASE codec = "AV1"
    BY <1>2, <2>2 DEF ProcessFrame
  <2>3. CASE codec = "VP8"
    BY <1>3, <2>3 DEF ProcessFrame
  <2>4. CASE codec \notin {"H264", "H265", "AV1", "VP8"}
    BY <1>4, <2>4 DEF ProcessFrame
  <2> QED
    BY <2>1, <2>2, <2>3, <2>4
<1> QED
  BY <1>5 DEF P

-----------------------------------------------------------------------------
(* The ranges of each frame fit a byte.                                    *)
RangesFit == \A i \in DOMAIN Frames : RangesSize(Ranges[i]) \in 0 .. ByteValues - 1

LEMMA AllIntact == ASSUME RangesFit PROVE \A i \in DOMAIN Frames : i \in Intact
<1> SUFFICES ASSUME NEW i \in DOMAIN Frames PROVE i \in Intact
  OBVIOUS
<1>1. ByteValues \in Nat
  BY FormatAssumption DEF FormatAssumption
<1>2. Cut[i] \in Seq(PieceType(Written))
  <2>1. Frames[i].units \in Seq(Unit) /\ (Frames[i].codec = "VP8" => Frames[i].units # <<>>)
    <3>1. Frames[i] \in [codec : Codecs, silence : BOOLEAN, units : Seq(Unit)]
      BY FramesAssumption, ElementAt DEF FramesAssumption
    <3>2. Frames[i].units \in Seq(Unit)
      BY <3>1
    <3> QED
      BY <3>2, FramesAssumption DEF FramesAssumption
  <2> QED
    BY <2>1, FrameCut DEF Cut
<1>3. RangesSize(UnencryptedRanges(Cut[i])) \in 0 .. ByteValues - 1
  BY DEF RangesFit, Ranges
<1>4. /\ Opens(Sealed(Cut[i]))
      /\ Opened(Sealed(Cut[i])) = FlattenSeq([k \in DOMAIN Cut[i] |-> Cut[i][k].bytes])
  BY <1>1, <1>2, <1>3, OpenedAsSealed
<1>5. Wire[i] = Sealed(Cut[i])
  BY DEF Wire
<1> QED
  BY <1>4, <1>5 DEF Intact, Legible

LEMMA Chosen == ASSUME NEW t \in Nat PROVE At(t) \in DOMAIN Frames
<1>1. Len(Frames) \in Nat \ {0} /\ DOMAIN Frames = 1 .. Len(Frames)
  BY FramesAssumption DEF FramesAssumption
<1>2. \A n \in Nat \ {0} : (t % n) + 1 \in 1 .. n
  OBVIOUS
<1> QED
  BY <1>1, <1>2 DEF At

(* What is decrypted is what the codec was given (ProcessFrame,            *)
(* AddUnencryptedBytes, SerializeUnencryptedRanges, ParseFrame,            *)
(* Reconstruct): whatever a frame of whatever codec is made of, if its     *)
(* ranges fit the byte that holds their size.                              *)
THEOREM FramesWhole == ASSUME RangesFit PROVE Spec => []FramesIntact
<1>1. TypeOK => FramesIntact
  BY AllIntact, Chosen DEF TypeOK, FramesIntact
<1> QED
  BY <1>1, ChannelTypeCorrect, PTL

-----------------------------------------------------------------------------
(* A frame on its way is decrypted, whatever was lost, repeated and        *)
(* reordered before, wherever generations wrap and expire, and whichever   *)
(* transitions are under way (CleanupExpiredCryptors, GetCryptor,          *)
(* CanProcessNonce, TransitionToKeyRatchet): as long as no client is given *)
(* a ratchet it had and no transition is executed before the receiver      *)
(* prepared it or after a later one, if the times are Timely, and the      *)
(* ranges of every frame fit a byte.                                       *)
THEOREM HeardInTime ==
  ASSUME Timely, RangesFit PROVE Spec => []InTimeHeard
<1>1. Init => InTimeInv /\ KeysInv /\ NonceInv
  <2>1. ASSUME Init PROVE Lap(sender, 0, 0, 0) /\ KeysInv
    BY <2>1, ChannelAssumption DEF Init, Lap, KeysInv, NoRatchet, ChannelAssumption
  <2> QED
    BY <2>1, ChannelAssumption, InTimeAtFirst DEF NonceInv, InTimeInv
<1>2. InTimeInv /\ KeysInv /\ NonceInv /\ ReplayInv /\ ReplayInv' /\ [Next]_vars
        => InTimeInv' /\ KeysInv' /\ NonceInv'
  BY ChannelAssumption, StepKeepsInTime, StepKeepsKeysInv, StepKeepsNonceInv
<1>3. InTimeInv /\ KeysInv /\ ReplayInv /\ FramesIntact => InTimeHeard
  BY ChannelAssumption, InTimeHears DEF InTimeInv, InTimeHeard
<1>4. Spec => []FramesIntact
  BY FramesWhole
<1> QED
  BY <1>1, <1>2, <1>3, <1>4, ChannelInvariant, PTL DEF Spec
=============================================================================
