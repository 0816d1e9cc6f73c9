-------------------------- MODULE ReconnectManager --------------------------
(***************************************************************************)
(* The back-off of the gateway (Sources/Gateway/ReconnectManager.swift): a *)
(* count of attempts that grows with every retry and that a timer resets   *)
(* once a connection has been up for a while.  The gateway is here only as *)
(* far as it calls the manager: nextDelay in every reconnect task,         *)
(* connectionSucceeded when a session starts or resumes, stop in           *)
(* disconnect().  A connection that drops calls nothing.                   *)
(*                                                                         *)
(* Delays are in the unit of the base delay; jitter is added to them and   *)
(* left out.                                                               *)
(***************************************************************************)
EXTENDS Integers

CONSTANTS
  Timer,       \* slots for stable timers: one that ended is used again
  None,
  Stable,      \* frames of time a connection has to be up: 10 s in the code
  MaxDelay,    \* maxReconnectDelay in units of baseReconnectDelay
  MaxExponent, \* 10 in the code
  MaxAttempts  \* bound: attempts

(* pow(2, n)                                                               *)
Power[n \in Nat] == IF n = 0 THEN 1 ELSE 2 * Power[n - 1]

ASSUME ReconnectAssumption ==
  /\ None \notin Timer /\ {MaxExponent, MaxAttempts} \subseteq Nat
  /\ {Stable, MaxDelay} \subseteq Nat \ {0} /\ MaxDelay <= Power[MaxExponent]

VARIABLES
  attempts,
  stableTimer, \* stableTimerTask
  timer,       \* of each task: off, asleep, or past its sleep
  left,        \* of each task: what is left of its sleep
  cancelled,   \* of each task
  delay,       \* the delay nextDelay returned last, 0 before
  up, age      \* the connection, and for how long it has been up

vars == <<attempts, stableTimer, timer, left, cancelled, delay, up, age>>

Init ==
  /\ attempts = 0 /\ stableTimer = None /\ delay = 0
  /\ timer = [k \in Timer |-> "off"] /\ left = [k \in Timer |-> 0]
  /\ cancelled = [k \in Timer |-> FALSE]
  /\ up = FALSE /\ age = 0

Lesser(a, b) == IF a <= b THEN a ELSE b

(* The delay before the n-th attempt.                                      *)
CappedDelayLate(n) == Lesser(Power[Lesser(n, MaxExponent)], MaxDelay)  \* mutant: one too many
CappedDelay(n) == Lesser(Power[Lesser(n - 1, MaxExponent)], MaxDelay)

(* stableTimerTask?.cancel()                                               *)
CutNothing == cancelled  \* mutant: the old timer is forgotten, not cancelled
Cut == [k \in Timer |-> cancelled[k] \/ k = stableTimer]

-----------------------------------------------------------------------------
NextDelay ==
  /\ ~up /\ attempts < MaxAttempts
  /\ attempts' = attempts + 1 /\ delay' = CappedDelay(attempts')
  /\ UNCHANGED <<stableTimer, timer, left, cancelled, up, age>>

ConnectionSucceeded == \E k \in Timer :
  /\ ~up /\ up' = TRUE /\ age' = 0
  /\ timer[k] = "off"
  /\ timer' = [timer EXCEPT ![k] = "asleep"] /\ left' = [left EXCEPT ![k] = Stable]
  /\ stableTimer' = k /\ cancelled' = [Cut EXCEPT ![k] = FALSE]
  /\ UNCHANGED <<attempts, delay>>

(* Task.sleep returns, or throws when its task is cancelled; past it       *)
(* nothing looks at isCancelled any more.                                  *)
Wake(k) ==
  /\ timer[k] = "asleep"
  /\ \/ cancelled[k] /\ timer' = [timer EXCEPT ![k] = "off"]
     \/ left[k] = 0 /\ timer' = [timer EXCEPT ![k] = "woken"]
  /\ UNCHANGED <<attempts, stableTimer, left, cancelled, delay, up, age>>

ResetTimerOnly(k) ==  \* mutant: the attempts are not reset
  /\ timer[k] = "woken" /\ timer' = [timer EXCEPT ![k] = "off"]
  /\ stableTimer' = None /\ cancelled' = Cut
  /\ UNCHANGED <<attempts, left, delay, up, age>>

Reset(k) ==
  /\ timer[k] = "woken" /\ timer' = [timer EXCEPT ![k] = "off"]
  /\ attempts' = 0 /\ stableTimer' = None /\ cancelled' = Cut
  /\ UNCHANGED <<left, delay, up, age>>

(* disconnect() calls stop(); a drop does not.                             *)
Stop ==
  /\ stableTimer' = None /\ cancelled' = Cut /\ up' = FALSE
  /\ UNCHANGED <<attempts, timer, left, delay, age>>

Drop ==
  /\ up /\ up' = FALSE
  /\ UNCHANGED <<attempts, stableTimer, timer, left, cancelled, delay, age>>

(* Time passes for the sleeping tasks and for the connection.              *)
Tick ==
  /\ left' = [k \in Timer |-> IF timer[k] = "asleep" /\ left[k] > 0 THEN left[k] - 1 ELSE left[k]]
  /\ age' = IF up THEN Lesser(age + 1, Stable) ELSE age
  /\ UNCHANGED <<attempts, stableTimer, timer, cancelled, delay, up>>

Next == \/ NextDelay \/ ConnectionSucceeded \/ Stop \/ Drop \/ Tick
        \/ \E k \in Timer : Wake(k) \/ Reset(k)

Spec == Init /\ [][Next]_vars

(* Time passes, and the tasks there are run.                               *)
Fairness == WF_vars(Tick) /\ \A k \in Timer : WF_vars(Wake(k)) /\ WF_vars(Reset(k))

-----------------------------------------------------------------------------
(* Properties.                                                             *)

(* Every variable has its type.                                            *)
TypeOK ==
  /\ attempts \in 0 .. MaxAttempts /\ stableTimer \in Timer \cup {None}
  /\ timer \in [Timer -> {"off", "asleep", "woken"}] /\ left \in [Timer -> 0 .. Stable]
  /\ cancelled \in [Timer -> BOOLEAN]
  /\ delay \in 0 .. MaxDelay /\ up \in BOOLEAN /\ age \in 0 .. Stable

(* However many connections come up within one Stable, only the newest of  *)
(* their timers will reset the attempts, and stop() can cancel it.         *)
OneTimer == \A k \in Timer : timer[k] = "asleep" /\ ~cancelled[k] => k = stableTimer

(* The delays an application is told of: doubling from one base delay to   *)
(* the cap, and there forever.                                             *)
Doubling[n \in Nat] == IF n = 0 THEN 1 ELSE Lesser(2 * Doubling[n - 1], MaxDelay)
BackOffDoubles == [][delay' # delay => attempts' > 0 /\ delay' = Doubling[attempts' - 1]]_vars

(* Whatever dropped and reconnected before: a connection that stays up     *)
(* starts the back-off over.                                               *)
StableResets == <>[]up => <>[](attempts = 0)

-----------------------------------------------------------------------------
(* What a message in the code says and the code does not do.               *)

(* ReconnectManager.swift:50 "Connection verified stable. Resetting        *)
(* reconnect attempts.": attempts are reset only by a connection that has  *)
(* been up for Stable.                                                     *)
ResetOnlyWhenStable == [][attempts' < attempts => up /\ age = Stable]_vars
=============================================================================
