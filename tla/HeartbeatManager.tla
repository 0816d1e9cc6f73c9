--------------------------- MODULE HeartbeatManager ---------------------------
(***************************************************************************)
(* The heartbeats of the gateway (Sources/Gateway/Heartbeat.swift) and the *)
(* threads that start and stop them (Sources/Gateway/VoiceGateway.swift).  *)
(* Each Hello makes a new manager, so a manager is named by the connection *)
(* that greeted; its loop beats on whatever connection is the gateway's at *)
(* the time, and answers go to whatever manager is the gateway's.          *)
(*                                                                         *)
(* A thread is the event loop of a connection, which handles its Hello and *)
(* its close, or a call of the application or a time-out task.  All of     *)
(* them run stopHeartbeats, which takes the manager in one step and stops  *)
(* it in the next.  A connection is one of three things: open, silent      *)
(* (it answers nothing any more, and nobody has been told) or closed.      *)
(***************************************************************************)
EXTENDS Naturals

CONSTANTS
  Connection,  \* each is dialled once; it names its manager, too
  Stopper,     \* slots for calls of disconnect, updateServer and time-out tasks
  Nobody,      \* no connection, no manager
  MaxBeats     \* bound: heartbeats of one manager while the connection is open

ASSUME HeartbeatAssumption == Nobody \notin Connection \cup Stopper /\ MaxBeats \in Nat

VARIABLES
  heartbeatLock,          \* the gateway's manager
  sequence, ackPending,   \* HeartbeatState of each manager, and
  stored,                 \* whether its task is there to be cancelled
  loop, cut,              \* the task of each manager, and whether it is cancelled
  beats,                  \* tasks that will send a heartbeat: its number
  answers,                \* acknowledgements on their way: connection and number
  conn, line, dialled,    \* connectionLock; what that connection is; used ones
  redial,                 \* a reconnect task or connect() will dial
  pc, job, hand,          \* of each thread: next step, what for, manager it took
  met                     \* history: threads met, or a connection was replaced

beatVars == <<heartbeatLock, sequence, ackPending, stored, loop, cut, beats, answers,
              conn, line, dialled, redial, pc, job, hand, met>>
lineVars == <<conn, line, dialled>>
loopVars == <<sequence, loop, beats>>

Thread == Connection \cup Stopper

HeartbeatInit ==
  /\ heartbeatLock = Nobody /\ beats = {} /\ answers = {}
  /\ sequence = [m \in Connection |-> 0] /\ ackPending = [m \in Connection |-> FALSE]
  /\ stored = [m \in Connection |-> FALSE] /\ cut = [m \in Connection |-> FALSE]
  /\ loop = [m \in Connection |-> "none"]
  /\ conn = Nobody /\ line = "closed" /\ dialled = {} /\ redial = TRUE
  /\ pc = [t \in Thread |-> "idle"] /\ job = [t \in Thread |-> "none"]
  /\ hand = [t \in Thread |-> Nobody] /\ met = FALSE

(* What the code does not rule out and its heartbeats do not survive: a    *)
(* Hello handled while another thread stops heartbeats, and a connection   *)
(* replaced by a late reconnect while its heartbeats go on.                *)
Busy(t) == pc[t] # "idle"
Meeting == \E t, u \in Thread : t # u /\ Busy(t) /\ Busy(u) /\ job[t] = "hello"
Replacing == conn' \notin {conn, Nobody} /\ heartbeatLock # Nobody
Watch == met' = (met \/ Meeting' \/ Replacing)

Begin(t, what) ==
  /\ pc[t] = "idle"
  /\ pc' = [pc EXCEPT ![t] = "take"] /\ job' = [job EXCEPT ![t] = what]

Step(t, from, to) == pc[t] = from /\ pc' = [pc EXCEPT ![t] = to] /\ UNCHANGED job

End(t, from) ==
  /\ pc[t] = from /\ pc' = [pc EXCEPT ![t] = "idle"] /\ job' = [job EXCEPT ![t] = "none"]

-----------------------------------------------------------------------------
(* Connections come and go.                                                *)

(* Within stopHeartbeats and startHeartbeats nothing is awaited: no dial   *)
(* and no interval passes meanwhile.                                       *)
Brief == \A t \in Thread : pc[t] \notin {"stop", "install", "store"}

Dial(c) ==
  /\ Brief /\ redial /\ redial' = FALSE /\ c \notin dialled
  /\ dialled' = dialled \cup {c} /\ conn' = c /\ line' = "open" /\ answers' = {}
  /\ UNCHANGED <<heartbeatLock, ackPending, stored, cut, pc, job, hand, loopVars>>

(* The other side stops answering, or closes and the event loop hears it.  *)
FallSilent ==
  /\ line = "open" /\ line' = "silent"
  /\ UNCHANGED <<heartbeatLock, ackPending, stored, cut, answers, conn, dialled, redial,
                 pc, job, hand, loopVars>>

Close ==
  /\ conn # Nobody /\ line # "closed" /\ line' = "closed" /\ Begin(conn, "close")
  /\ UNCHANGED <<heartbeatLock, ackPending, stored, cut, answers, conn, dialled, redial,
                 hand, loopVars>>

Hello ==
  /\ conn # Nobody /\ line = "open" /\ loop[conn] = "none" /\ Begin(conn, "hello")
  /\ UNCHANGED <<heartbeatLock, ackPending, stored, cut, answers, redial, hand, lineVars, loopVars>>

(* disconnect() or updateServer(), one at a time, of what is connected.    *)
Call(t) ==
  /\ conn # Nobody /\ Begin(t, "call") /\ \A u \in Stopper : job[u] # "call"
  /\ UNCHANGED <<heartbeatLock, ackPending, stored, cut, answers, redial, hand, lineVars, loopVars>>

-----------------------------------------------------------------------------
(* stopHeartbeats, at the beginning of all of them.                        *)

TakeManager(t) ==
  /\ Step(t, "take", "stop")
  /\ hand' = [hand EXCEPT ![t] = heartbeatLock] /\ heartbeatLock' = Nobody
  /\ UNCHANGED <<ackPending, stored, cut, answers, redial, lineVars, loopVars>>

Following == [hello |-> "install", close |-> "disconnected", call |-> "leave", timeout |-> "leave"]

(* HeartbeatManager.stop: only a task that is stored can be cancelled.     *)
StopUncancelled(t) ==  \* mutant: the task is forgotten, not cancelled
  /\ Step(t, "stop", Following[job[t]])
  /\ IF hand[t] = Nobody THEN UNCHANGED <<ackPending, stored, cut>>
     ELSE /\ ackPending' = [ackPending EXCEPT ![hand[t]] = FALSE]
          /\ stored' = [stored EXCEPT ![hand[t]] = FALSE] /\ UNCHANGED cut
  /\ hand' = [hand EXCEPT ![t] = Nobody]
  /\ UNCHANGED <<heartbeatLock, answers, redial, lineVars, loopVars>>

StopManager(t) ==
  /\ Step(t, "stop", Following[job[t]])
  /\ IF hand[t] = Nobody THEN UNCHANGED <<ackPending, stored, cut>>
     ELSE /\ ackPending' = [ackPending EXCEPT ![hand[t]] = FALSE]
          /\ stored' = [stored EXCEPT ![hand[t]] = FALSE]
          /\ cut' = [cut EXCEPT ![hand[t]] = @ \/ stored[hand[t]]]
  /\ hand' = [hand EXCEPT ![t] = Nobody]
  /\ UNCHANGED <<heartbeatLock, answers, redial, lineVars, loopVars>>

(* startHeartbeats: the manager is the gateway's and its task runs before  *)
(* that task is stored and can be cancelled.                               *)
Install(t) ==
  /\ Step(t, "install", "store")
  /\ heartbeatLock' = t /\ loop' = [loop EXCEPT ![t] = "delay"]
  /\ UNCHANGED <<sequence, ackPending, stored, cut, beats, answers, redial, hand, lineVars>>

Store(t) ==
  /\ End(t, "store")
  /\ stored' = [stored EXCEPT ![t] = TRUE] /\ ackPending' = [ackPending EXCEPT ![t] = FALSE]
  /\ UNCHANGED <<heartbeatLock, cut, answers, redial, hand, lineVars, loopVars>>

(* A call and a time-out take the connection and close it; the application *)
(* may dial again, the time-out goes on with handleDisconnect.             *)
Leave(t) ==
  /\ conn' = Nobody /\ line' = "closed" /\ answers' = {}
  /\ \/ /\ job[t] = "timeout" /\ pc[t] = "leave" /\ pc' = [pc EXCEPT ![t] = "take"]
        /\ job' = [job EXCEPT ![t] = "close"] /\ UNCHANGED redial
     \/ job[t] = "call" /\ End(t, "leave") /\ redial' \in BOOLEAN
  /\ UNCHANGED <<heartbeatLock, ackPending, stored, cut, dialled, hand, loopVars>>

(* handleDisconnect goes on: it reconnects or not.                         *)
Disconnected(t) ==
  /\ End(t, "disconnected") /\ redial' \in {redial, TRUE}
  /\ UNCHANGED <<heartbeatLock, ackPending, stored, cut, answers, hand, lineVars, loopVars>>

-----------------------------------------------------------------------------
(* The loop of a manager.                                                  *)

(* Heartbeats and answers of an open connection take less than the         *)
(* interval.                                                               *)
Prompt == line = "open" => beats = {} /\ answers = {} /\ Brief

(* A sleep is over and the task not cancelled: the loop goes on, whatever  *)
(* is cancelled from now on.                                               *)
WakeUp(m) ==
  /\ ~cut[m]
  /\ \/ loop[m] = "delay"
     \/ loop[m] = "sleep" /\ Prompt /\ (sequence[m] < MaxBeats \/ line # "open" \/ ackPending[m])
  /\ loop' = [loop EXCEPT ![m] = "awake"]
  /\ UNCHANGED <<heartbeatLock, sequence, ackPending, stored, cut, beats, answers, redial,
                 pc, job, hand, lineVars>>

(* A cancelled task: its sleep throws, or the loop ends.                   *)
EndLoop(m) ==
  /\ cut[m] /\ loop[m] \in {"delay", "sleep"} /\ loop' = [loop EXCEPT ![m] = "ended"]
  /\ UNCHANGED <<heartbeatLock, sequence, ackPending, stored, cut, beats, answers, redial,
                 pc, job, hand, lineVars>>

Beat(m) ==
  /\ loop[m] = "awake" /\ ~ackPending[m]
  /\ sequence' = [sequence EXCEPT ![m] = @ + 1] /\ ackPending' = [ackPending EXCEPT ![m] = TRUE]
  /\ beats' = beats \cup {sequence'[m]} /\ loop' = [loop EXCEPT ![m] = "sleep"]
  /\ UNCHANGED <<heartbeatLock, stored, cut, answers, redial, pc, job, hand, lineVars>>

AlarmUnheard(m) ==  \* mutant: the loop ends and nobody is told
  /\ loop[m] = "awake" /\ ackPending[m] /\ loop' = [loop EXCEPT ![m] = "ended"]
  /\ UNCHANGED <<heartbeatLock, sequence, ackPending, stored, cut, beats, answers, redial,
                 pc, job, hand, lineVars>>

(* A missed acknowledgement: onTimeout starts a task.                      *)
Alarm(m) ==
  /\ loop[m] = "awake" /\ ackPending[m] /\ loop' = [loop EXCEPT ![m] = "ended"]
  /\ \E t \in Stopper : Begin(t, "timeout")
  /\ UNCHANGED <<heartbeatLock, sequence, ackPending, stored, cut, beats, answers, redial,
                 hand, lineVars>>

(* The task of sendHeartbeat: on the connection there is by now.           *)
SendBeat(n) ==
  /\ n \in beats /\ beats' = beats \ {n}
  /\ answers' = IF line = "open" THEN answers \cup {<<conn, n>>} ELSE answers
  /\ UNCHANGED <<heartbeatLock, sequence, ackPending, stored, cut, loop, redial,
                 pc, job, hand, lineVars>>

(* The event loop hands an acknowledgement to the gateway's manager.       *)
ReceiveAck(a) ==
  /\ a \in answers /\ conn = a[1] /\ ~Busy(conn) /\ answers' = answers \ {a}
  /\ ackPending' = [m \in Connection |->
       ackPending[m] /\ ~(m = heartbeatLock /\ sequence[m] = a[2])]
  /\ UNCHANGED <<heartbeatLock, stored, cut, redial, pc, job, hand, lineVars, loopVars>>

-----------------------------------------------------------------------------
ThreadStep(t) == \/ TakeManager(t) \/ StopManager(t) \/ Leave(t) \/ Disconnected(t)
                 \/ t \in Connection /\ (Install(t) \/ Store(t))

LoopStep(m) == WakeUp(m) \/ EndLoop(m) \/ Beat(m) \/ Alarm(m)

HeartbeatNext ==
  /\ \/ FallSilent \/ Close \/ Hello
     \/ \E c \in Connection : Dial(c) \/ LoopStep(c)
     \/ \E t \in Stopper : Call(t)
     \/ \E t \in Thread : ThreadStep(t)
     \/ \E n \in beats : SendBeat(n)
     \/ \E a \in answers : ReceiveAck(a)
  /\ Watch

HeartbeatSpec == HeartbeatInit /\ [][HeartbeatNext]_beatVars

(* Threads and loops run on; nobody has to dial, call or answer.           *)
HeartbeatFairness ==
  /\ \A t \in Thread : WF_beatVars(ThreadStep(t) /\ Watch)
  /\ \A m \in Connection : WF_beatVars(LoopStep(m) /\ Watch)

-----------------------------------------------------------------------------
(* Properties.                                                             *)

(* Every variable has its type.                                            *)
HeartbeatTypeOK ==
  /\ heartbeatLock \in Connection \cup {Nobody} /\ conn \in Connection \cup {Nobody}
  /\ sequence \in [Connection -> Nat]
  /\ {ackPending, stored, cut} \subseteq [Connection -> BOOLEAN]
  /\ loop \in [Connection -> {"none", "delay", "sleep", "awake", "ended"}]
  /\ beats \subseteq Nat /\ answers \subseteq Connection \X Nat
  /\ line \in {"open", "silent", "closed"} /\ dialled \subseteq Connection
  /\ {redial, met} \subseteq BOOLEAN
  /\ pc \in [Thread -> {"idle", "take", "stop", "install", "store", "leave", "disconnected"}]
  /\ job \in [Thread -> {"none", "hello", "close", "call", "timeout"}]
  /\ hand \in [Thread -> Connection \cup {Nobody}]

(* A connection that answers is never taken for dead: no manager raises    *)
(* the alarm while it is open, however connections were dropped and dialled *)
(* before, if no threads met and no connection in use was replaced.        *)
NoFalseAlarm == [][
  \A m \in Connection : loop[m] = "awake" /\ loop'[m] = "ended" => line # "open" \/ met]_beatVars

(* A connection that has greeted and then falls silent is given up, with   *)
(* the same exception.                                                     *)
Beating(c) == conn = c /\ loop[c] # "none" /\ ~Busy(c)
SilenceNoticed == []~met =>
  \A c \in Connection : Beating(c) /\ line = "silent" ~> conn # c \/ line # "silent"

-----------------------------------------------------------------------------
(* What the log message of Heartbeat.swift:58 says and the code does not   *)
(* do: "Zombie connection detected: missed heartbeat ACK".                 *)
ZombiesOnly == [][
  \A m \in Connection : loop[m] = "awake" /\ loop'[m] = "ended" => line # "open"]_beatVars
=============================================================================
