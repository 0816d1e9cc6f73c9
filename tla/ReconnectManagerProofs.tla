------------------------ MODULE ReconnectManagerProofs ------------------------
(***************************************************************************)
(* For any number of timer slots and any times: at most one stable timer   *)
(* will reset the attempts, and it is the one stableTimerTask refers to.   *)
(* What is sleeping and not cancelled was stored last, because whoever     *)
(* stores another timer, or none, cancels the one that is stored.          *)
(* For any cap and any number of attempts: the delays double up to the cap *)
(* and stay there.                                                         *)
(* For any connections and any number of other threads: no heartbeat loop  *)
(* gives up a connection that answers, as long as no threads met.          *)
(***************************************************************************)
EXTENDS ReconnectManager, HeartbeatManager, TLAPS
Order == INSTANCE WellFoundedInduction

(* The part of the type invariant the argument needs.                      *)
TimersOK ==
  /\ timer \in [Timer -> {"off", "asleep", "woken"}]
  /\ cancelled \in [Timer -> BOOLEAN]

TimerInv == TimersOK /\ OneTimer

-----------------------------------------------------------------------------
(* stableTimerTask?.cancel() cancels every timer that was asleep.          *)
LEMMA CutEndsAll ==
  ASSUME TimerInv
  PROVE  /\ Cut \in [Timer -> BOOLEAN]
         /\ \A k \in Timer : timer[k] = "asleep" => Cut[k]
<1>1. Cut \in [Timer -> BOOLEAN]
  BY DEF TimerInv, TimersOK, Cut
<1>2. ASSUME NEW k \in Timer, timer[k] = "asleep" PROVE Cut[k]
  <2>1. Cut[k] = (cancelled[k] \/ k = stableTimer)
    BY DEF Cut
  <2> QED
    BY <1>2, <2>1 DEF TimerInv, OneTimer
<1> QED
  BY <1>1, <1>2

(* A connection that comes up replaces the timer.                          *)
LEMMA ConnectionSucceededKeepsInv ==
  ASSUME TimerInv, ConnectionSucceeded PROVE TimerInv'
<1>1. PICK k \in Timer : /\ timer' = [timer EXCEPT ![k] = "asleep"]
                         /\ stableTimer' = k /\ cancelled' = [Cut EXCEPT ![k] = FALSE]
  BY DEF ConnectionSucceeded
<1>2. cancelled' \in [Timer -> BOOLEAN]
  BY <1>1, CutEndsAll, Zenon
<1>3. timer' \in [Timer -> {"off", "asleep", "woken"}]
  BY <1>1 DEF TimerInv, TimersOK
<1>4. ASSUME NEW j \in Timer, timer'[j] = "asleep", ~cancelled'[j] PROVE j = stableTimer'
  <2>1. CASE j = k
    BY <1>1, <2>1
  <2>2. CASE j # k
    <3>1. timer[j] = "asleep"
      BY <1>1, <1>4, <2>2 DEF TimerInv, TimersOK
    <3>2. cancelled'[j] = Cut[j]
      BY <1>1, <2>2, CutEndsAll, Zenon
    <3> QED
      BY <1>4, <3>1, <3>2, CutEndsAll
  <2> QED
    BY <2>1, <2>2
<1> QED
  BY <1>2, <1>3, <1>4 DEF TimerInv, TimersOK, OneTimer

(* A timer that wakes up sleeps no longer.                                 *)
LEMMA WakeKeepsInv ==
  ASSUME TimerInv, NEW k \in Timer, Wake(k) PROVE TimerInv'
<1>1. PICK s \in {"off", "woken"} : timer' = [timer EXCEPT ![k] = s]
  BY DEF Wake
<1>2. UNCHANGED <<stableTimer, cancelled>>
  BY DEF Wake
<1>3. TimersOK'
  BY <1>1, <1>2 DEF TimerInv, TimersOK
<1>4. \A j \in Timer : timer'[j] = "asleep" => timer[j] = "asleep"
  BY <1>1 DEF TimerInv, TimersOK
<1> QED
  BY <1>2, <1>3, <1>4 DEF TimerInv, OneTimer

(* Where the stored timer is cancelled and none is stored, none is left.   *)
LEMMA CutKeepsInv ==
  ASSUME TimerInv, cancelled' = Cut, TimersOK',
         \A j \in Timer : timer'[j] = "asleep" => timer[j] = "asleep"
  PROVE  TimerInv'
BY CutEndsAll DEF TimerInv, OneTimer

(* reset() is called by a timer past its sleep.                            *)
LEMMA ResetKeepsInv ==
  ASSUME TimerInv, NEW k \in Timer, Reset(k) PROVE TimerInv'
<1>1. timer' = [timer EXCEPT ![k] = "off"] /\ cancelled' = Cut
  BY DEF Reset
<1>2. TimersOK'
  BY <1>1, CutEndsAll DEF TimerInv, TimersOK
<1>3. \A j \in Timer : timer'[j] = "asleep" => timer[j] = "asleep"
  BY <1>1 DEF TimerInv, TimersOK
<1> QED
  BY <1>1, <1>2, <1>3, CutKeepsInv

(* stop() leaves the sleeping timers to their cancellation.                *)
LEMMA StopKeepsInv ==
  ASSUME TimerInv, Stop PROVE TimerInv'
<1>1. timer' = timer /\ cancelled' = Cut
  BY DEF Stop
<1>2. TimersOK'
  BY <1>1, CutEndsAll DEF TimerInv, TimersOK
<1> QED
  BY <1>1, <1>2, CutKeepsInv

(* However connections come up, drop and are given up, one timer at most   *)
(* will reset the attempts, and stop() can cancel it (reset, stop and      *)
(* connectionSucceeded of ReconnectManager.swift).                         *)
THEOREM NewestTimerOnly == Spec => []OneTimer
<1>1. Init => TimerInv
  BY DEF Init, TimerInv, TimersOK, OneTimer
<1>2. TimerInv /\ [Next]_vars => TimerInv'
  <2> SUFFICES ASSUME TimerInv, [Next]_vars PROVE TimerInv'
    OBVIOUS
  <2>1. CASE NextDelay \/ Drop \/ Tick \/ UNCHANGED vars
    <3>1. UNCHANGED <<stableTimer, timer, cancelled>>
      BY <2>1 DEF NextDelay, Drop, Tick, vars
    <3> QED
      BY <3>1 DEF TimerInv, TimersOK, OneTimer
  <2>2. CASE ConnectionSucceeded
    BY <2>2, ConnectionSucceededKeepsInv
  <2>3. CASE Stop
    BY <2>3, StopKeepsInv
  <2>4. ASSUME NEW k \in Timer, Wake(k) PROVE TimerInv'
    BY <2>4, WakeKeepsInv
  <2>5. ASSUME NEW k \in Timer, Reset(k) PROVE TimerInv'
    BY <2>5, ResetKeepsInv
  <2> QED
    BY <2>1, <2>2, <2>3, <2>4, <2>5 DEF Next
<1>3. TimerInv => OneTimer
  BY DEF TimerInv
<1> QED
  BY <1>1, <1>2, <1>3, PTL DEF Spec

-----------------------------------------------------------------------------
(* The back-off.  Power and Doubling are recursive functions: that there   *)
(* is a function each of them describes, and what it computes, is shown by *)
(* the least number for which it would fail.                               *)

(* A set of natural numbers that is not empty has a least element.         *)
LEMMA Smallest ==
  ASSUME NEW T, T \subseteq Nat, T # {} PROVE \E x \in T : \A y \in T : x <= y
<1> DEFINE R == {ss \in Nat \X Nat : ss[1] < ss[2]}
<1>1. Order!IsWellFoundedOn(R, Nat)
  BY Order!NatLessThanWellFounded DEF Order!OpToRel
<1> HIDE DEF R
<1>2. PICK x \in T : \A y \in T : ~(<<y, x>> \in R)
  BY <1>1, Order!WFMin, Zenon
<1>3. \A y \in T : ~(y < x)
  BY <1>2 DEF R
<1> QED
  BY <1>3

(* A set with 0, and with the successor of whatever it has, has them all.  *)
LEMMA AllNumbers ==
  ASSUME NEW T, 0 \in T, \A n \in Nat : n \in T => n + 1 \in T
  PROVE  \A n \in Nat : n \in T
<1> SUFFICES ASSUME NEW m \in Nat, m \notin T PROVE FALSE
  OBVIOUS
<1> DEFINE S == {n \in Nat : n \notin T}
<1>1. PICK x \in S : \A y \in S : x <= y
  <2>1. S \subseteq Nat /\ S # {}
    OBVIOUS
  <2> HIDE DEF S
  <2> QED
    BY <2>1, Smallest
<1>2. x \in Nat /\ x \notin T /\ x # 0
  OBVIOUS
<1>3. x - 1 \in Nat
  BY <1>2
<1>4. x - 1 \in T
  BY <1>1, <1>3
<1> QED
  BY <1>2, <1>3, <1>4

(* Power as far as n.                                                      *)
PowerTo(h, n) ==
  /\ h \in [0 .. n -> Nat] /\ h[0] = 1
  /\ \A i \in 1 .. n : h[i] = 2 * h[i - 1]

(* There is one for every n, and they agree.                               *)
LEMMA PowersExist == \A n \in Nat : \E h : PowerTo(h, n)
<1> DEFINE T == {n \in Nat : \E h : PowerTo(h, n)}
<1>1. 0 \in T
  <2>1. PowerTo([i \in 0 .. 0 |-> 1], 0)
    BY DEF PowerTo
  <2> QED
    BY <2>1
<1>2. ASSUME NEW n \in Nat, n \in T PROVE n + 1 \in T
  <2>1. PICK h : PowerTo(h, n)
    BY <1>2
  <2> DEFINE k == [i \in 0 .. n + 1 |-> IF i = n + 1 THEN 2 * h[n] ELSE h[i]]
  <2>2. k \in [0 .. n + 1 -> Nat] /\ k[0] = 1
    BY <2>1 DEF PowerTo
  <2>3. ASSUME NEW i \in 1 .. n + 1 PROVE k[i] = 2 * k[i - 1]
    <3>1. i - 1 \in 0 .. n /\ i - 1 # n + 1 /\ i \in 0 .. n + 1
      OBVIOUS
    <3>2. k[i - 1] = h[i - 1]
      BY <3>1
    <3>3. CASE i = n + 1
      BY <3>1, <3>2, <3>3
    <3>4. CASE i # n + 1
      <4>1. i \in 1 .. n
        BY <3>4
      <4> QED
        BY <2>1, <3>1, <3>2, <3>4, <4>1 DEF PowerTo
    <3> QED
      BY <3>3, <3>4
  <2>4. PowerTo(k, n + 1)
    BY <2>2, <2>3 DEF PowerTo
  <2> QED
    BY <2>4
<1> HIDE DEF T
<1>3. \A n \in Nat : n \in T
  BY <1>1, <1>2, AllNumbers
<1> QED
  BY <1>3 DEF T

LEMMA PowersAgree ==
  ASSUME NEW n \in Nat, NEW m \in Nat, NEW h, NEW k, PowerTo(h, n), PowerTo(k, m)
  PROVE  \A i \in Nat : i <= n /\ i <= m => h[i] = k[i]
<1> DEFINE T == {i \in Nat : i <= n /\ i <= m => h[i] = k[i]}
<1>1. 0 \in T
  BY DEF PowerTo
<1>2. ASSUME NEW i \in Nat, i \in T PROVE i + 1 \in T
  <2> SUFFICES ASSUME i + 1 <= n, i + 1 <= m PROVE h[i + 1] = k[i + 1]
    OBVIOUS
  <2>1. i + 1 \in 1 .. n /\ i + 1 \in 1 .. m /\ (i + 1) - 1 = i
    OBVIOUS
  <2>2. h[i + 1] = 2 * h[i] /\ k[i + 1] = 2 * k[i]
    BY <2>1 DEF PowerTo
  <2> QED
    BY <1>2, <2>2
<1> HIDE DEF T
<1>3. \A i \in Nat : i \in T
  BY <1>1, <1>2, AllNumbers
<1> QED
  BY <1>3 DEF T

(* pow(2, n) doubles, and starts with 1.                                   *)
LEMMA PowerDoubles ==
  /\ Power \in [Nat -> Nat] /\ Power[0] = 1
  /\ \A n \in Nat : Power[n + 1] = 2 * Power[n]
<1> DEFINE to(n) == CHOOSE h : PowerTo(h, n)
           all == [n \in Nat |-> to(n)[n]]
           Described(f) == f = [n \in Nat |-> IF n = 0 THEN 1 ELSE 2 * f[n - 1]]
<1>1. \A n \in Nat : PowerTo(to(n), n)
  BY PowersExist
<1> HIDE DEF to
<1>2. \A n \in Nat : all[n] \in Nat
  BY <1>1 DEF PowerTo
<1>3. all[0] = 1
  BY <1>1 DEF PowerTo
<1>4. ASSUME NEW n \in Nat, n # 0 PROVE all[n] = 2 * all[n - 1]
  <2>1. n - 1 \in Nat /\ n \in 1 .. n /\ n - 1 <= n
    BY <1>4
  <2>2. to(n)[n] = 2 * to(n)[n - 1]
    BY <1>1, <2>1 DEF PowerTo
  <2>3. to(n)[n - 1] = to(n - 1)[n - 1]
    BY <1>1, <2>1, PowersAgree
  <2> QED
    BY <2>1, <2>2, <2>3
<1>5. Described(all)
  <2>1. \A n \in Nat : all[n] = IF n = 0 THEN 1 ELSE 2 * all[n - 1]
    BY <1>3, <1>4
  <2> DEFINE a == all
  <2>2. a = [n \in Nat |-> a[n]]
    OBVIOUS
  <2> QED
    BY <2>1, <2>2
<1>6. Power = CHOOSE f : Described(f)
  BY DEF Power
<1> HIDE DEF Described
<1>7. Described(Power)
  BY <1>5, <1>6
<1>8. Power = [n \in Nat |-> IF n = 0 THEN 1 ELSE 2 * Power[n - 1]]
  BY <1>7 DEF Described
<1>9. \A n \in Nat : Power[n] = IF n = 0 THEN 1 ELSE 2 * Power[n - 1]
  BY <1>8
<1>10. Power[0] = 1 /\ \A n \in Nat : Power[n + 1] = 2 * Power[n]
  BY <1>9
<1>11. \A n \in Nat : Power[n] \in Nat
  <2> DEFINE T == {n \in Nat : Power[n] \in Nat}
  <2>1. 0 \in T /\ \A n \in Nat : n \in T => n + 1 \in T
    BY <1>10
  <2> HIDE DEF T
  <2>2. \A n \in Nat : n \in T
    BY <2>1, AllNumbers
  <2> QED
    BY <2>2 DEF T
<1> QED
  BY <1>8, <1>10, <1>11

(* What the code computes by the clamped exponent is what is promised: the *)
(* cap holds from where the exponent is clamped, because it is not above   *)
(* the power the clamp leaves.                                             *)
Capped == [n \in Nat |-> CappedDelay(n + 1)]

LEMMA CappedDoubles ==
  ASSUME ReconnectAssumption
  PROVE  Capped = [n \in Nat |-> IF n = 0 THEN 1 ELSE Lesser(2 * Capped[n - 1], MaxDelay)]
<1>0. /\ MaxExponent \in Nat /\ MaxDelay \in Nat /\ MaxDelay > 0
      /\ MaxDelay <= Power[MaxExponent]
  BY DEF ReconnectAssumption
<1>1. ASSUME NEW n \in Nat
      PROVE  Capped[n] = Lesser(Power[Lesser(n, MaxExponent)], MaxDelay)
  BY DEF Capped, CappedDelay
<1>2. Capped[0] = 1
  BY <1>0, <1>1, PowerDoubles DEF Lesser
<1>3. ASSUME NEW n \in Nat PROVE Capped[n + 1] = Lesser(2 * Capped[n], MaxDelay)
  <2>1. Power[n] \in Nat /\ Power[n + 1] = 2 * Power[n] /\ Power[MaxExponent] \in Nat
        /\ Power[n + 1] \in Nat
    BY PowerDoubles
  <2>2. CASE n < MaxExponent
    <3>1. Lesser(n, MaxExponent) = n /\ Lesser(n + 1, MaxExponent) = n + 1
      BY <1>0, <2>2 DEF Lesser
    <3>2. Capped[n] = Lesser(Power[n], MaxDelay) /\ Capped[n + 1] = Lesser(Power[n + 1], MaxDelay)
      BY <1>1, <3>1
    <3> QED
      BY <1>0, <2>1, <3>2 DEF Lesser
  <2>3. CASE n >= MaxExponent
    <3>1. Lesser(n, MaxExponent) = MaxExponent /\ Lesser(n + 1, MaxExponent) = MaxExponent
      BY <1>0, <2>3 DEF Lesser
    <3>2. Lesser(Power[MaxExponent], MaxDelay) = MaxDelay
      BY <1>0, <2>1 DEF Lesser
    <3>3. Capped[n] = MaxDelay /\ Capped[n + 1] = MaxDelay
      BY <1>1, <3>1, <3>2
    <3> QED
      BY <1>0, <3>3 DEF Lesser
  <2> QED
    BY <2>2, <2>3
<1>4. ASSUME NEW n \in Nat
      PROVE  Capped[n] = IF n = 0 THEN 1 ELSE Lesser(2 * Capped[n - 1], MaxDelay)
  <2>1. CASE n = 0
    BY <1>2, <2>1
  <2>2. CASE n # 0
    <3>1. n - 1 \in Nat /\ (n - 1) + 1 = n
      BY <2>2
    <3> QED
      BY <1>3, <2>2, <3>1
  <2> QED
    BY <2>1, <2>2
<1>5. Capped = [n \in Nat |-> Capped[n]]
  BY DEF Capped
<1> QED
  BY <1>4, <1>5

LEMMA DelayAsTold ==
  ASSUME ReconnectAssumption PROVE \A n \in Nat : CappedDelay(n + 1) = Doubling[n]
<1> DEFINE Described(f) == f = [n \in Nat |-> IF n = 0 THEN 1 ELSE Lesser(2 * f[n - 1], MaxDelay)]
<1>1. Described(Capped)
  BY CappedDoubles
<1>2. Doubling = CHOOSE f : Described(f)
  BY DEF Doubling
<1>3. Described(Doubling)
  <2> HIDE DEF Described
  <2> QED
    BY <1>1, <1>2
<1> DEFINE T == {n \in Nat : Capped[n] = Doubling[n]}
<1>4. /\ Capped[0] = 1 /\ Doubling[0] = 1
      /\ \A n \in Nat : n # 0 => Capped[n] = Lesser(2 * Capped[n - 1], MaxDelay)
      /\ \A n \in Nat : n # 0 => Doubling[n] = Lesser(2 * Doubling[n - 1], MaxDelay)
  BY <1>1, <1>3
<1>5. 0 \in T
  BY <1>4
<1>6. ASSUME NEW n \in Nat, n \in T PROVE n + 1 \in T
  <2>1. n + 1 # 0 /\ (n + 1) - 1 = n
    OBVIOUS
  <2>2. Capped[n + 1] = Lesser(2 * Capped[n], MaxDelay)
    BY <1>4, <2>1
  <2>3. Doubling[n + 1] = Lesser(2 * Doubling[n], MaxDelay)
    BY <1>4, <2>1
  <2> QED
    BY <1>6, <2>2, <2>3
<1> HIDE DEF T
<1>7. \A n \in Nat : n \in T
  BY <1>5, <1>6, AllNumbers
<1> QED
  BY <1>7 DEF T, Capped

(* Whatever connects and drops in between, the delays an application is    *)
(* told of double from the base delay to the cap and stay there            *)
(* (nextDelay of ReconnectManager.swift).                                  *)
THEOREM DelaysDouble == Spec => BackOffDoubles
<1> DEFINE Told == delay' # delay => attempts' > 0 /\ delay' = Doubling[attempts' - 1]
<1>1. Init => attempts \in Nat
  BY DEF Init
<1>2. attempts \in Nat /\ [Next]_vars => (attempts \in Nat)'
  BY DEF Next, NextDelay, ConnectionSucceeded, Wake, Reset, Stop, Drop, Tick, vars
<1>3. attempts \in Nat /\ [Next]_vars => [Told]_vars
  <2> SUFFICES ASSUME attempts \in Nat, Next, delay' # delay PROVE Told
    OBVIOUS
  <2>1. attempts' = attempts + 1 /\ delay' = CappedDelay(attempts')
    BY DEF Next, NextDelay, ConnectionSucceeded, Wake, Reset, Stop, Drop, Tick
  <2>2. delay' = Doubling[attempts]
    BY <2>1, DelayAsTold, ReconnectAssumption
  <2> QED
    BY <2>1, <2>2
<1> HIDE DEF Told
<1>4. Spec => [][Told]_vars
  BY <1>1, <1>2, <1>3, PTL DEF Spec
<1> QED
  BY <1>4 DEF BackOffDoubles, Told

-----------------------------------------------------------------------------
(* HeartbeatManager.                                                       *)

(* A loop that will beat again.                                            *)
Live(m) == loop[m] \in {"delay", "sleep", "awake"} /\ ~cut[m]

(* What a thread is about, and where connections come from.                *)
Jobs ==
  /\ \A t \in Thread : Busy(t) => job[t] # "none"
  /\ \A t \in Thread : pc[t] \in {"install", "store"} => job[t] = "hello"
  /\ \A t \in Thread : job[t] = "hello" /\ pc[t] \in {"take", "stop", "install"} =>
       t \in Connection /\ loop[t] = "none"
  /\ conn \in dialled \cup {Nobody}
  /\ line # "closed" => conn # Nobody

(* A loop that has not beaten misses nothing; one that awoke to a missing  *)
(* acknowledgement was not stopped since.                                  *)
Pending ==
  /\ \A m \in Connection : loop[m] \in {"none", "delay"} => ~ackPending[m]
  /\ \A m \in Connection : loop[m] = "awake" /\ ackPending[m] => ~cut[m]

(* A loop can be cancelled, but for a moment.                              *)
Stored == \A m \in Connection : Live(m) => stored[m] \/ pc[m] = "store"

(* Until threads meet, every loop is found: its manager is the gateway's   *)
(* or with a thread that stops it, and there is none when Hello starts one. *)
Found == ~met =>
  /\ ~Meeting
  /\ \A m \in Connection : Live(m) =>
       m = heartbeatLock \/ \E t \in Thread : pc[t] = "stop" /\ hand[t] = m
  /\ \A t \in Thread : job[t] = "hello" /\ pc[t] \in {"stop", "install"} => heartbeatLock = Nobody

(* On a connection that answers, what the gateway's manager waits for is   *)
(* on its way, and no loop that awoke waits.                               *)
Answered == ~met /\ line = "open" =>
  /\ \A m \in Connection : loop[m] = "sleep" /\ ackPending[m] /\ ~cut[m] /\ m = heartbeatLock =>
       sequence[m] \in beats \/ <<conn, sequence[m]>> \in answers
  /\ \A m \in Connection : ~(loop[m] = "awake" /\ ackPending[m])

BeatInv == HeartbeatTypeOK /\ Jobs /\ Pending /\ Stored /\ Found /\ Answered

-----------------------------------------------------------------------------
(* Nothing beats, waits or dials in the beginning.                         *)
LEMMA InitBeatInv == ASSUME HeartbeatAssumption, HeartbeatInit PROVE BeatInv
<1>1. HeartbeatTypeOK
  BY DEF HeartbeatInit, HeartbeatTypeOK
<1>2. Jobs /\ Pending /\ Stored
  BY DEF HeartbeatInit, Jobs, Busy, Pending, Stored, Live, Thread
<1>3. Found /\ Answered
  BY DEF HeartbeatInit, Found, Meeting, Busy, Live, Answered
<1> QED
  BY <1>1, <1>2, <1>3 DEF BeatInv

(* Threads that have not met before a step and not in it.                  *)
LEMMA NotMet == ASSUME Watch, ~met' PROVE ~met /\ ~Meeting' /\ ~Replacing
  BY DEF Watch

-----------------------------------------------------------------------------
(* Connections.                                                            *)

LEMMA DialKeepsInv ==
  ASSUME HeartbeatAssumption, BeatInv, NEW c \in Connection, Dial(c), Watch PROVE BeatInv'
<1>1. /\ UNCHANGED <<heartbeatLock, sequence, ackPending, stored, loop, cut, beats, pc, job, hand>>
      /\ Brief /\ redial' = FALSE /\ c \notin dialled /\ dialled' = dialled \cup {c}
      /\ conn' = c /\ line' = "open" /\ answers' = {}
  BY DEF Dial, loopVars
<1>2. HeartbeatTypeOK'
  BY <1>1 DEF BeatInv, HeartbeatTypeOK, Watch
<1>3. Jobs' /\ Pending' /\ Stored'
  BY <1>1 DEF BeatInv, Jobs, Busy, Pending, Stored, Live, HeartbeatAssumption
<1>4. Found'
  BY <1>1, NotMet DEF BeatInv, Found, Meeting, Busy, Live
<1>5. ASSUME ~met', NEW m \in Connection PROVE ~Live(m) /\ m # heartbeatLock
  <2>1. ~met /\ ~Replacing
    BY <1>5, NotMet
  <2>2. c # conn /\ c # Nobody
    BY <1>1 DEF BeatInv, Jobs, HeartbeatAssumption
  <2>3. heartbeatLock = Nobody
    BY <1>1, <2>1, <2>2 DEF Replacing
  <2> QED
    BY <1>1, <2>1, <2>3 DEF BeatInv, Found, Brief, HeartbeatAssumption
<1>6. Answered'
  BY <1>1, <1>5 DEF BeatInv, Pending, Answered, Live
<1> QED
  BY <1>2, <1>3, <1>4, <1>6 DEF BeatInv

LEMMA LineKeepsInv ==
  ASSUME BeatInv, FallSilent \/ (\E t \in Thread : Disconnected(t)), Watch PROVE BeatInv'
<1>1. /\ UNCHANGED <<heartbeatLock, sequence, ackPending, stored, loop, cut, beats, answers,
                     conn, dialled, hand>>
      /\ line' \in {"open", "silent", "closed"} /\ redial' \in BOOLEAN
      /\ line' = "open" => line = "open"
      /\ line' # "closed" => line # "closed"
  BY DEF FallSilent, Disconnected, loopVars, lineVars, BeatInv, HeartbeatTypeOK
<1>2. /\ \A t \in Thread : /\ pc'[t] \in {"idle", pc[t]} /\ job'[t] \in {"none", job[t]}
                           /\ Busy(t)' => Busy(t) /\ job'[t] = job[t] /\ pc'[t] = pc[t]
                           /\ pc[t] # "disconnected" => pc'[t] = pc[t] /\ job'[t] = job[t]
      /\ pc' \in [Thread -> {"idle", "take", "stop", "install", "store", "leave", "disconnected"}]
      /\ job' \in [Thread -> {"none", "hello", "close", "call", "timeout"}]
  BY DEF FallSilent, Disconnected, End, Busy, BeatInv, HeartbeatTypeOK
<1>3. HeartbeatTypeOK'
  BY <1>1, <1>2 DEF BeatInv, HeartbeatTypeOK, Watch
<1>4. Jobs'
  BY <1>1, <1>2 DEF BeatInv, Jobs, Busy
<1>5. Pending' /\ Stored'
  BY <1>1, <1>2 DEF BeatInv, Pending, Stored, Live, Thread
<1>6. Found'
  BY <1>1, <1>2, NotMet DEF BeatInv, Found, Live, Busy
<1>7. Answered'
  BY <1>1, NotMet DEF BeatInv, Answered
<1> QED
  BY <1>3, <1>4, <1>5, <1>6, <1>7 DEF BeatInv

(* A thread that was idle begins.                                          *)
LEMMA BeginKeepsInv ==
  ASSUME HeartbeatAssumption, BeatInv, Watch, Close \/ Hello \/ (\E t \in Stopper : Call(t))
  PROVE  BeatInv'
<1>1. /\ UNCHANGED <<heartbeatLock, sequence, ackPending, stored, loop, cut, beats, answers,
                     conn, dialled, redial, hand>>
      /\ line' \in {line, "closed"}
  BY DEF Close, Hello, Call, loopVars, lineVars
<1>2. PICK t \in Thread, what \in {"hello", "close", "call"} :
        /\ Begin(t, what)
        /\ what = "hello" => t \in Connection /\ loop[t] = "none"
  <2>1. CASE Close \/ Hello
    BY <2>1 DEF Close, Hello, Thread, BeatInv, HeartbeatTypeOK
  <2>2. CASE \E t \in Stopper : Call(t)
    BY <2>2 DEF Call, Thread
  <2> QED
    BY <2>1, <2>2
<1>3. /\ pc[t] = "idle" /\ pc'[t] = "take" /\ job'[t] = what
      /\ \A u \in Thread \ {t} : pc'[u] = pc[u] /\ job'[u] = job[u]
      /\ pc' \in [Thread -> {"idle", "take", "stop", "install", "store", "leave", "disconnected"}]
      /\ job' \in [Thread -> {"none", "hello", "close", "call", "timeout"}]
  BY <1>2 DEF Begin, BeatInv, HeartbeatTypeOK
<1>4. HeartbeatTypeOK'
  BY <1>1, <1>3 DEF BeatInv, HeartbeatTypeOK, Watch
<1>5. Jobs'
  BY <1>1, <1>2, <1>3 DEF BeatInv, Jobs, Busy
<1>6. Pending' /\ Stored'
  BY <1>1, <1>3 DEF BeatInv, Pending, Stored, Live, Thread
<1>7. Found'
  BY <1>1, <1>3, NotMet DEF BeatInv, Found, Live
<1>8. Answered'
  BY <1>1, NotMet DEF BeatInv, Answered
<1> QED
  BY <1>4, <1>5, <1>6, <1>7, <1>8 DEF BeatInv

-----------------------------------------------------------------------------
(* stopHeartbeats and startHeartbeats.                                     *)

LEMMA TakeManagerKeepsInv ==
  ASSUME HeartbeatAssumption, BeatInv, NEW t \in Thread, TakeManager(t), Watch PROVE BeatInv'
<1>1. /\ UNCHANGED <<sequence, ackPending, stored, loop, cut, beats, answers, conn, line,
                     dialled, redial, job>>
      /\ pc[t] = "take" /\ pc' = [pc EXCEPT ![t] = "stop"]
      /\ hand' = [hand EXCEPT ![t] = heartbeatLock] /\ heartbeatLock' = Nobody
  BY DEF TakeManager, Step, loopVars, lineVars
<1>2. HeartbeatTypeOK'
  BY <1>1 DEF BeatInv, HeartbeatTypeOK, Watch
<1>3. /\ pc'[t] = "stop" /\ hand'[t] = heartbeatLock
      /\ \A u \in Thread \ {t} : pc'[u] = pc[u] /\ hand'[u] = hand[u]
  BY <1>1 DEF BeatInv, HeartbeatTypeOK
<1>4. Jobs'
  BY <1>1, <1>3 DEF BeatInv, Jobs, Busy
<1>5. Pending' /\ Stored'
  BY <1>1, <1>3 DEF BeatInv, Pending, Stored, Live, Thread
<1>6. Found'
  BY <1>1, <1>3, NotMet DEF BeatInv, Found, Live
<1>7. Answered'
  BY <1>1, NotMet DEF BeatInv, Answered, HeartbeatAssumption
<1> QED
  BY <1>2, <1>4, <1>5, <1>6, <1>7 DEF BeatInv

LEMMA StopManagerKeepsInv ==
  ASSUME HeartbeatAssumption, BeatInv, NEW t \in Thread, StopManager(t), Watch PROVE BeatInv'
<1>1. /\ UNCHANGED <<heartbeatLock, sequence, loop, beats, answers, conn, line, dialled, redial, job>>
      /\ pc[t] = "stop" /\ pc' = [pc EXCEPT ![t] = Following[job[t]]]
      /\ hand' = [hand EXCEPT ![t] = Nobody]
  BY DEF StopManager, Step, loopVars, lineVars
<1>2. /\ {ackPending', stored', cut'} \subseteq [Connection -> BOOLEAN]
      /\ \A m \in Connection \ {hand[t]} :
           ackPending'[m] = ackPending[m] /\ stored'[m] = stored[m] /\ cut'[m] = cut[m]
      /\ \A m \in Connection : m = hand[t] =>
           /\ ~ackPending'[m] /\ ~stored'[m] /\ cut'[m] = (cut[m] \/ stored[m])
  <2>1. CASE hand[t] = Nobody
    BY <2>1 DEF StopManager, BeatInv, HeartbeatTypeOK, HeartbeatAssumption
  <2>2. CASE hand[t] # Nobody
    <3>1. /\ ackPending' = [ackPending EXCEPT ![hand[t]] = FALSE]
          /\ stored' = [stored EXCEPT ![hand[t]] = FALSE]
          /\ cut' = [cut EXCEPT ![hand[t]] = @ \/ stored[hand[t]]]
      BY <2>2 DEF StopManager
    <3>2. /\ ackPending \in [Connection -> BOOLEAN] /\ stored \in [Connection -> BOOLEAN]
          /\ cut \in [Connection -> BOOLEAN] /\ hand[t] \in Connection
      BY <2>2 DEF BeatInv, HeartbeatTypeOK
    <3>3. (cut[hand[t]] \/ stored[hand[t]]) \in BOOLEAN
      BY <3>2
    <3> QED
      BY <3>1, <3>2, <3>3
  <2> QED
    BY <2>1, <2>2
<1>3. job[t] \in {"hello", "close", "call", "timeout"}
  BY <1>1 DEF BeatInv, HeartbeatTypeOK, Jobs, Busy
<1>4. /\ pc'[t] = Following[job[t]] /\ pc'[t] \in {"install", "leave", "disconnected"}
      /\ pc'[t] = "install" => job[t] = "hello"
      /\ pc' \in [Thread -> {"idle", "take", "stop", "install", "store", "leave", "disconnected"}]
      /\ \A u \in Thread \ {t} : pc'[u] = pc[u] /\ hand'[u] = hand[u]
      /\ hand' \in [Thread -> Connection \cup {Nobody}]
  BY <1>1, <1>3 DEF Following, BeatInv, HeartbeatTypeOK
<1>5. HeartbeatTypeOK'
  BY <1>1, <1>2, <1>4 DEF BeatInv, HeartbeatTypeOK, Watch
<1>6. Jobs'
  BY <1>1, <1>4 DEF BeatInv, Jobs, Busy
<1>7. Pending'
  BY <1>1, <1>2 DEF BeatInv, Pending
<1>8. \A m \in Connection : Live(m)' => Live(m)
  BY <1>1, <1>2 DEF Live
<1>9. Stored'
  <2>1. ASSUME NEW m \in Connection, Live(m)' PROVE stored'[m] \/ pc'[m] = "store"
    BY <2>1, <1>1, <1>2, <1>4, <1>8 DEF BeatInv, Stored, Live, Thread
  <2> QED
    BY <2>1 DEF Stored
<1>10. Found'
  <2>1. ASSUME ~met', NEW m \in Connection, m = hand[t], Live(m)' PROVE FALSE
    <3>1. Live(m) /\ ~stored[m]
      BY <2>1, <1>1, <1>2, <1>8 DEF Live
    <3>2. pc[m] = "store" /\ m \in Thread
      BY <3>1 DEF BeatInv, Stored, Thread
    <3>3. job[m] = "hello" /\ m # t
      BY <3>2, <1>1 DEF BeatInv, Jobs
    <3>4. ~Meeting
      BY <2>1, NotMet DEF BeatInv, Found
    <3> QED
      BY <3>2, <3>3, <3>4, <1>1 DEF Meeting, Busy
  <2> QED
    BY <2>1, <1>1, <1>4, <1>8, NotMet DEF BeatInv, Found
<1>11. Answered'
  BY <1>1, <1>2, NotMet DEF BeatInv, Answered, Pending
<1> QED
  BY <1>5, <1>6, <1>7, <1>9, <1>10, <1>11 DEF BeatInv

LEMMA InstallKeepsInv ==
  ASSUME HeartbeatAssumption, BeatInv, NEW t \in Connection, Install(t), Watch PROVE BeatInv'
<1>1. /\ UNCHANGED <<sequence, ackPending, stored, cut, beats, answers, conn, line, dialled,
                     redial, job, hand>>
      /\ pc[t] = "install" /\ pc' = [pc EXCEPT ![t] = "store"]
      /\ heartbeatLock' = t /\ loop' = [loop EXCEPT ![t] = "delay"]
  BY DEF Install, Step, lineVars
<1>2. t \in Thread /\ job[t] = "hello" /\ loop[t] = "none"
  BY <1>1 DEF Thread, BeatInv, Jobs
<1>3. HeartbeatTypeOK'
  BY <1>1, <1>2 DEF BeatInv, HeartbeatTypeOK, Watch
<1>4. /\ pc'[t] = "store" /\ \A u \in Thread \ {t} : pc'[u] = pc[u]
      /\ loop'[t] = "delay" /\ \A m \in Connection \ {t} : loop'[m] = loop[m]
  BY <1>1, <1>2 DEF BeatInv, HeartbeatTypeOK
<1>5. Jobs'
  BY <1>1, <1>2, <1>4 DEF BeatInv, Jobs, Busy
<1>6. Pending' /\ Stored'
  BY <1>1, <1>2, <1>4 DEF BeatInv, Pending, Stored, Live, Thread
<1>7. ASSUME ~met' PROVE heartbeatLock = Nobody /\ ~met
  BY <1>7, <1>1, <1>2, NotMet DEF BeatInv, Found
<1>8. Found'
  <2>1. ASSUME ~met', NEW u \in Thread, job'[u] = "hello", pc'[u] \in {"stop", "install"} PROVE FALSE
    <3>1. u # t /\ Busy(u)' /\ Busy(t)'
      BY <2>1, <1>4 DEF Busy
    <3> QED
      BY <2>1, <3>1, <1>2, NotMet DEF Meeting
  <2>2. ASSUME ~met', NEW m \in Connection, Live(m)'
        PROVE  m = heartbeatLock' \/ \E u \in Thread : pc'[u] = "stop" /\ hand'[u] = m
    <3>1. CASE m = t
      BY <3>1, <1>1
    <3>2. CASE m # t
      <4>1. Live(m) /\ m # heartbeatLock
        BY <2>2, <3>2, <1>1, <1>4, <1>7 DEF Live, HeartbeatAssumption
      <4>2. PICK u \in Thread : pc[u] = "stop" /\ hand[u] = m
        BY <4>1, <2>2, <1>7 DEF BeatInv, Found
      <4> QED
        BY <4>2, <1>1, <1>4
    <3> QED
      BY <3>1, <3>2
  <2> QED
    BY <2>1, <2>2, NotMet DEF Found
<1>9. Answered'
  BY <1>1, <1>4, <1>7 DEF BeatInv, Answered, HeartbeatAssumption
<1> QED
  BY <1>3, <1>5, <1>6, <1>8, <1>9 DEF BeatInv

LEMMA StoreKeepsInv ==
  ASSUME HeartbeatAssumption, BeatInv, NEW t \in Connection, Store(t), Watch PROVE BeatInv'
<1>1. /\ UNCHANGED <<heartbeatLock, sequence, loop, cut, beats, answers, conn, line, dialled,
                     redial, hand>>
      /\ pc[t] = "store" /\ pc' = [pc EXCEPT ![t] = "idle"] /\ job' = [job EXCEPT ![t] = "none"]
      /\ stored' = [stored EXCEPT ![t] = TRUE] /\ ackPending' = [ackPending EXCEPT ![t] = FALSE]
  BY DEF Store, End, loopVars, lineVars
<1>2. HeartbeatTypeOK' /\ t \in Thread
  BY <1>1 DEF BeatInv, HeartbeatTypeOK, Watch, Thread
<1>3. /\ pc'[t] = "idle" /\ job'[t] = "none" /\ stored'[t] /\ ~ackPending'[t]
      /\ \A u \in Thread \ {t} : pc'[u] = pc[u] /\ job'[u] = job[u]
      /\ \A m \in Connection \ {t} : stored'[m] = stored[m] /\ ackPending'[m] = ackPending[m]
  BY <1>1, <1>2 DEF BeatInv, HeartbeatTypeOK
<1>4. Jobs'
  BY <1>1, <1>3 DEF BeatInv, Jobs, Busy
<1>5. Pending' /\ Stored'
  BY <1>1, <1>3 DEF BeatInv, Pending, Stored, Live, Thread
<1>6. Found'
  BY <1>1, <1>3, NotMet DEF BeatInv, Found, Live
<1>7. Answered'
  BY <1>1, <1>3, NotMet DEF BeatInv, Answered
<1> QED
  BY <1>2, <1>4, <1>5, <1>6, <1>7 DEF BeatInv

LEMMA LeaveKeepsInv ==
  ASSUME HeartbeatAssumption, BeatInv, NEW t \in Thread, Leave(t), Watch PROVE BeatInv'
<1>1. /\ UNCHANGED <<heartbeatLock, sequence, ackPending, stored, loop, cut, beats, dialled, hand>>
      /\ conn' = Nobody /\ line' = "closed" /\ answers' = {} /\ redial' \in BOOLEAN
      /\ pc[t] = "leave"
      /\ \/ pc' = [pc EXCEPT ![t] = "take"] /\ job' = [job EXCEPT ![t] = "close"]
         \/ pc' = [pc EXCEPT ![t] = "idle"] /\ job' = [job EXCEPT ![t] = "none"]
  BY DEF Leave, End, loopVars, BeatInv, HeartbeatTypeOK
<1>2. HeartbeatTypeOK'
  BY <1>1 DEF BeatInv, HeartbeatTypeOK, Watch
<1>3. /\ pc'[t] \in {"idle", "take"} /\ job'[t] \in {"none", "close"}
      /\ pc'[t] # "idle" => job'[t] # "none"
      /\ \A u \in Thread \ {t} : pc'[u] = pc[u] /\ job'[u] = job[u]
  BY <1>1 DEF BeatInv, HeartbeatTypeOK
<1>4. Jobs'
  BY <1>1, <1>3 DEF BeatInv, Jobs, Busy
<1>5. Pending' /\ Stored'
  BY <1>1, <1>3 DEF BeatInv, Pending, Stored, Live, Thread
<1>6. Found'
  BY <1>1, <1>3, NotMet DEF BeatInv, Found, Live
<1>7. Answered'
  BY <1>1 DEF Answered
<1> QED
  BY <1>2, <1>4, <1>5, <1>6, <1>7 DEF BeatInv

-----------------------------------------------------------------------------
(* The loop.                                                               *)

(* Awoken on a connection that answers, a loop has its acknowledgement: it *)
(* is the gateway's manager's, and nothing is on its way any more.         *)
LEMMA WakeUpKeepsInv ==
  ASSUME HeartbeatAssumption, BeatInv, NEW m \in Connection, WakeUp(m), Watch PROVE BeatInv'
<1>1. /\ UNCHANGED <<heartbeatLock, sequence, ackPending, stored, cut, beats, answers, conn,
                     line, dialled, redial, pc, job, hand>>
      /\ ~cut[m] /\ (loop[m] = "delay" \/ (loop[m] = "sleep" /\ Prompt))
      /\ loop' = [loop EXCEPT ![m] = "awake"]
  BY DEF WakeUp, lineVars
<1>2. HeartbeatTypeOK'
  BY <1>1 DEF BeatInv, HeartbeatTypeOK, Watch
<1>3. loop'[m] = "awake" /\ \A k \in Connection \ {m} : loop'[k] = loop[k]
  BY <1>1 DEF BeatInv, HeartbeatTypeOK
<1>4. Jobs'
  BY <1>1, <1>3 DEF BeatInv, Jobs, Busy
<1>5. Pending' /\ Stored'
  BY <1>1, <1>3 DEF BeatInv, Pending, Stored, Live
<1>6. \A k \in Connection : Live(k)' => Live(k)
  BY <1>1, <1>3 DEF Live
<1>7. Found'
  BY <1>1, <1>6, NotMet DEF BeatInv, Found
<1>8. ASSUME ~met', line = "open", ackPending[m] PROVE FALSE
  <2>1. loop[m] = "sleep" /\ Prompt
    BY <1>1, <1>8 DEF BeatInv, Pending
  <2>2. beats = {} /\ answers = {} /\ Brief
    BY <1>8, <2>1 DEF Prompt
  <2>3. Live(m)
    BY <1>1, <2>1 DEF Live
  <2>4. m = heartbeatLock
    BY <1>8, <2>2, <2>3, NotMet DEF BeatInv, Found, Brief
  <2> QED
    BY <1>1, <1>8, <2>1, <2>2, <2>4, NotMet DEF BeatInv, Answered
<1>9. Answered'
  BY <1>1, <1>3, <1>8, NotMet DEF BeatInv, Answered
<1> QED
  BY <1>2, <1>4, <1>5, <1>7, <1>9 DEF BeatInv

LEMMA EndLoopKeepsInv ==
  ASSUME HeartbeatAssumption, BeatInv, NEW m \in Connection, EndLoop(m), Watch PROVE BeatInv'
<1>1. /\ UNCHANGED <<heartbeatLock, sequence, ackPending, stored, cut, beats, answers, conn,
                     line, dialled, redial, pc, job, hand>>
      /\ loop[m] # "none" /\ loop' = [loop EXCEPT ![m] = "ended"]
  BY DEF EndLoop, lineVars
<1>2. HeartbeatTypeOK'
  BY <1>1 DEF BeatInv, HeartbeatTypeOK, Watch
<1>3. loop'[m] = "ended" /\ \A k \in Connection \ {m} : loop'[k] = loop[k]
  BY <1>1 DEF BeatInv, HeartbeatTypeOK
<1>4. Jobs' /\ Pending' /\ Stored'
  BY <1>1, <1>3 DEF BeatInv, Jobs, Busy, Pending, Stored, Live
<1>5. Found' /\ Answered'
  BY <1>1, <1>3, NotMet DEF BeatInv, Found, Live, Answered
<1> QED
  BY <1>2, <1>4, <1>5 DEF BeatInv

LEMMA BeatKeepsInv ==
  ASSUME HeartbeatAssumption, BeatInv, NEW m \in Connection, Beat(m), Watch PROVE BeatInv'
<1>1. /\ UNCHANGED <<heartbeatLock, stored, cut, answers, conn, line, dialled, redial, pc, job, hand>>
      /\ loop[m] = "awake" /\ loop' = [loop EXCEPT ![m] = "sleep"]
      /\ sequence' = [sequence EXCEPT ![m] = @ + 1] /\ beats' = beats \cup {sequence'[m]}
      /\ ackPending' = [ackPending EXCEPT ![m] = TRUE]
  BY DEF Beat, lineVars
<1>2. /\ loop'[m] = "sleep" /\ sequence'[m] = sequence[m] + 1 /\ sequence[m] \in Nat
      /\ \A k \in Connection \ {m} : /\ loop'[k] = loop[k] /\ ackPending'[k] = ackPending[k]
                                     /\ sequence'[k] = sequence[k]
  BY <1>1 DEF BeatInv, HeartbeatTypeOK
<1>3. HeartbeatTypeOK'
  <2>1. sequence' \in [Connection -> Nat] /\ beats' \subseteq Nat
    <3>1. sequence \in [Connection -> Nat] /\ beats \subseteq Nat /\ sequence[m] + 1 \in Nat
      BY <1>2 DEF BeatInv, HeartbeatTypeOK
    <3>2. sequence' = [sequence EXCEPT ![m] = sequence[m] + 1]
      BY <1>1
    <3>3. sequence' \in [Connection -> Nat]
      BY <3>1, <3>2
    <3> QED
      BY <1>1, <1>2, <3>1, <3>3
  <2>2. ackPending' \in [Connection -> BOOLEAN] /\ loop' \in [Connection -> {"none", "delay", "sleep", "awake", "ended"}]
    BY <1>1 DEF BeatInv, HeartbeatTypeOK
  <2> QED
    BY <1>1, <2>1, <2>2 DEF BeatInv, HeartbeatTypeOK, Watch
<1>4. Jobs' /\ Pending' /\ Stored'
  BY <1>1, <1>2 DEF BeatInv, Jobs, Busy, Pending, Stored, Live
<1>5. \A k \in Connection : Live(k)' => Live(k)
  BY <1>1, <1>2 DEF Live
<1>6. Found'
  BY <1>1, <1>5, NotMet DEF BeatInv, Found
<1>7. Answered'
  BY <1>1, <1>2, NotMet DEF BeatInv, Answered
<1> QED
  BY <1>3, <1>4, <1>6, <1>7 DEF BeatInv

LEMMA AlarmKeepsInv ==
  ASSUME HeartbeatAssumption, BeatInv, NEW m \in Connection, Alarm(m), Watch PROVE BeatInv'
<1>1. /\ UNCHANGED <<heartbeatLock, sequence, ackPending, stored, cut, beats, answers, conn,
                     line, dialled, redial, hand>>
      /\ loop[m] = "awake" /\ loop' = [loop EXCEPT ![m] = "ended"]
  BY DEF Alarm, lineVars
<1>2. PICK t \in Thread : Begin(t, "timeout")
  BY DEF Alarm, Thread
<1>3. /\ pc[t] = "idle" /\ pc'[t] = "take" /\ job'[t] = "timeout"
      /\ \A u \in Thread \ {t} : pc'[u] = pc[u] /\ job'[u] = job[u]
      /\ pc' \in [Thread -> {"idle", "take", "stop", "install", "store", "leave", "disconnected"}]
      /\ job' \in [Thread -> {"none", "hello", "close", "call", "timeout"}]
  BY <1>2 DEF Begin, BeatInv, HeartbeatTypeOK
<1>4. loop'[m] = "ended" /\ \A k \in Connection \ {m} : loop'[k] = loop[k]
  BY <1>1 DEF BeatInv, HeartbeatTypeOK
<1>5. HeartbeatTypeOK'
  BY <1>1, <1>3 DEF BeatInv, HeartbeatTypeOK, Watch
<1>6. Jobs'
  BY <1>1, <1>3, <1>4 DEF BeatInv, Jobs, Busy
<1>7. Pending' /\ Stored'
  BY <1>1, <1>3, <1>4 DEF BeatInv, Pending, Stored, Live, Thread
<1>8. \A k \in Connection : Live(k)' => Live(k)
  BY <1>1, <1>4 DEF Live
<1>9. Found'
  BY <1>1, <1>3, <1>8, NotMet DEF BeatInv, Found
<1>10. Answered'
  BY <1>1, <1>4, NotMet DEF BeatInv, Answered
<1> QED
  BY <1>5, <1>6, <1>7, <1>9, <1>10 DEF BeatInv

LEMMA SendBeatKeepsInv ==
  ASSUME HeartbeatAssumption, BeatInv, NEW n \in beats, SendBeat(n), Watch PROVE BeatInv'
<1>1. /\ UNCHANGED <<heartbeatLock, sequence, ackPending, stored, loop, cut, conn, line, dialled,
                     redial, pc, job, hand>>
      /\ beats' = beats \ {n}
      /\ answers' = IF line = "open" THEN answers \cup {<<conn, n>>} ELSE answers
  BY DEF SendBeat, lineVars
<1>2. HeartbeatTypeOK'
  BY <1>1 DEF BeatInv, HeartbeatTypeOK, Jobs, Watch
<1>3. Jobs' /\ Pending' /\ Stored'
  BY <1>1 DEF BeatInv, Jobs, Busy, Pending, Stored, Live
<1>4. Found' /\ Answered'
  BY <1>1, NotMet DEF BeatInv, Found, Live, Answered
<1> QED
  BY <1>2, <1>3, <1>4 DEF BeatInv

LEMMA ReceiveAckKeepsInv ==
  ASSUME HeartbeatAssumption, BeatInv, NEW a \in answers, ReceiveAck(a), Watch PROVE BeatInv'
<1>1. /\ UNCHANGED <<heartbeatLock, sequence, stored, loop, cut, beats, conn, line, dialled,
                     redial, pc, job, hand>>
      /\ conn = a[1] /\ answers' = answers \ {a}
      /\ ackPending' = [m \in Connection |->
           ackPending[m] /\ ~(m = heartbeatLock /\ sequence[m] = a[2])]
  BY DEF ReceiveAck, loopVars, lineVars
<1>2. HeartbeatTypeOK'
  BY <1>1 DEF BeatInv, HeartbeatTypeOK, Watch
<1>3. Jobs' /\ Pending' /\ Stored'
  BY <1>1 DEF BeatInv, Jobs, Busy, Pending, Stored, Live
<1>4. Found'
  BY <1>1, NotMet DEF BeatInv, Found, Live
<1>5. Answered'
  <2>1. a = <<a[1], a[2]>>
    BY DEF BeatInv, HeartbeatTypeOK
  <2>2. \A m \in Connection :
          ackPending'[m] => ackPending[m] /\ ~(m = heartbeatLock /\ sequence[m] = a[2])
    BY <1>1
  <2>3. \A m \in Connection : ackPending'[m] /\ m = heartbeatLock => <<conn, sequence[m]>> # a
    BY <2>1, <2>2
  <2> QED
    BY <1>1, <2>2, <2>3, NotMet DEF BeatInv, Answered
<1> QED
  BY <1>2, <1>3, <1>4, <1>5 DEF BeatInv

-----------------------------------------------------------------------------
LEMMA BeatStep == ASSUME HeartbeatAssumption, BeatInv, [HeartbeatNext]_beatVars PROVE BeatInv'
<1>1. CASE UNCHANGED beatVars
  <2>1. HeartbeatTypeOK'
    BY <1>1 DEF beatVars, BeatInv, HeartbeatTypeOK
  <2>2. Jobs' /\ Pending' /\ Stored' /\ Found' /\ Answered'
    BY <1>1 DEF beatVars, BeatInv, Jobs, Busy, Pending, Stored, Live, Found, Meeting, Answered
  <2> QED
    BY <2>1, <2>2 DEF BeatInv
<1>2. ASSUME HeartbeatNext PROVE BeatInv'
  <2>1. Watch
    BY <1>2 DEF HeartbeatNext
  <2>2. CASE FallSilent \/ Close \/ Hello \/ \E t \in Stopper : Call(t)
    BY <2>1, <2>2, LineKeepsInv, BeginKeepsInv
  <2>3. ASSUME NEW c \in Connection, Dial(c) \/ LoopStep(c) PROVE BeatInv'
    BY <2>1, <2>3, DialKeepsInv, WakeUpKeepsInv, EndLoopKeepsInv, BeatKeepsInv, AlarmKeepsInv
       DEF LoopStep
  <2>4. ASSUME NEW t \in Thread, ThreadStep(t) PROVE BeatInv'
    BY <2>1, <2>4, TakeManagerKeepsInv, StopManagerKeepsInv, LeaveKeepsInv, LineKeepsInv,
       InstallKeepsInv, StoreKeepsInv DEF ThreadStep
  <2>5. CASE (\E n \in beats : SendBeat(n)) \/ (\E a \in answers : ReceiveAck(a))
    BY <2>1, <2>5, SendBeatKeepsInv, ReceiveAckKeepsInv
  <2> QED
    BY <1>2, <2>2, <2>3, <2>4, <2>5 DEF HeartbeatNext
<1> QED
  BY <1>1, <1>2

(* The invariant holds throughout.                                         *)
LEMMA BeatInvHolds == HeartbeatSpec => []BeatInv
BY InitBeatInv, BeatStep, HeartbeatAssumption, PTL DEF HeartbeatSpec

(* The gateway's managers, their loops and their threads stay in their     *)
(* types.                                                                  *)
THEOREM HeartbeatTypeCorrect == HeartbeatSpec => []HeartbeatTypeOK
<1>1. BeatInv => HeartbeatTypeOK
  BY DEF BeatInv
<1> QED
  BY <1>1, BeatInvHolds, PTL

(* However many connections are dialled and dropped, and however many      *)
(* calls and time-outs there are: no loop raises the alarm on a connection *)
(* that answers, unless threads have met (HeartbeatManager.start).         *)
THEOREM NeverFalselyAlarmed == HeartbeatSpec => NoFalseAlarm
<1> DEFINE Justified ==
      \A m \in Connection : loop[m] = "awake" /\ loop'[m] = "ended" => line # "open" \/ met
<1>1. ASSUME BeatInv, [HeartbeatNext]_beatVars PROVE [Justified]_beatVars
  <2>1. CASE UNCHANGED beatVars
    BY <2>1
  <2>2. CASE HeartbeatNext
    <3> SUFFICES ASSUME NEW m \in Connection, loop[m] = "awake", loop'[m] = "ended"
                 PROVE  line # "open" \/ met
      OBVIOUS
    <3>1. Alarm(m)
      <4>1. \A k \in Connection : LoopStep(k) => loop' = [loop EXCEPT ![k] = loop'[k]]
        BY DEF LoopStep, WakeUp, EndLoop, Beat, Alarm, BeatInv, HeartbeatTypeOK
      <4>2. (\E k \in Connection : LoopStep(k)) \/ UNCHANGED loop
              \/ \E t \in Connection : Install(t)
        BY <2>2 DEF HeartbeatNext, FallSilent, Close, Hello, Dial, Call, ThreadStep, TakeManager,
           StopManager, Leave, Disconnected, Store, SendBeat, ReceiveAck, loopVars
      <4>3. ~ \E t \in Connection : Install(t)
        BY <1>1 DEF Install, BeatInv, HeartbeatTypeOK
      <4>4. ASSUME NEW k \in Connection, LoopStep(k) PROVE Alarm(m)
        <5>1. k = m
          BY <1>1, <4>1, <4>4 DEF BeatInv, HeartbeatTypeOK
        <5> QED
          BY <1>1, <4>4, <5>1 DEF LoopStep, WakeUp, EndLoop, Beat, BeatInv, HeartbeatTypeOK
      <4> QED
        BY <4>2, <4>3, <4>4
    <3> QED
      BY <1>1, <3>1 DEF Alarm, BeatInv, Answered
  <2> QED
    BY <1>1, <2>1, <2>2
<1>2. [][HeartbeatNext]_beatVars /\ []BeatInv => [][Justified]_beatVars
  BY <1>1, PTL
<1> QED
  BY <1>2, BeatInvHolds, PTL DEF HeartbeatSpec, NoFalseAlarm
=============================================================================
