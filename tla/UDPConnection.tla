---------------------------- MODULE UDPConnection ----------------------------
(***************************************************************************)
(* One UDPConnection (Sources/UDP/UDPConnection.swift) as VoiceGateway     *)
(* uses it: the handshake task calls connect and discoverIP once, threads  *)
(* of the gateway may call close() at any time, the event loop delivers    *)
(* datagrams, and a time-out task races all of them.  Each of them takes   *)
(* the continuation out of discoveryLock in one critical section and acts  *)
(* on it after the lock is released.                                       *)
(*                                                                         *)
(* Datagrams are lost by never arriving.  send() changes nothing.          *)
(***************************************************************************)
EXTENDS Naturals

CONSTANT Owner  \* threads of the gateway that call close()

ASSUME OwnerAssumption == Owner \cap {"timeout", "handler", "timer", "reader"} = {}

Closer == Owner \cup {"timeout", "handler"}  \* the last two: Task { await self.close() }

VARIABLES
  ustate,    \* stateMachine
  channel,   \* channelLock (and remoteAddressLock) hold a channel
  socket,    \* the datagram socket itself
  caller,    \* the task in connect and discoverIP
  stored,    \* discoveryLock: its four fields are set and cleared together
  requested, \* a discovery request went out
  retrying,  \* the retry task runs
  timer,     \* the time-out task
  reader,    \* handleIncomingMessage on the event loop
  closer,    \* every execution of close()
  hand,      \* who took the continuation and has not resumed it yet
  outcome    \* what the continuation was resumed with

discoveryVars == <<stored, requested, retrying, timer, outcome>>
vars == <<ustate, channel, socket, caller, discoveryVars, reader, closer, hand>>

UDPState == {"idle", "connecting", "discovering", "ready"}
Results == {"ok", "malformed", "timeout", "closed"}
Taker == Closer \cup {"timer", "reader"}

Init == /\ ustate = "idle" /\ channel = FALSE /\ socket = "none"
        /\ caller = "new"
        /\ stored = FALSE /\ requested = FALSE /\ retrying = FALSE
        /\ timer = "off" /\ reader = "idle"
        /\ closer = [c \in Closer |-> "none"]
        /\ hand = [p \in Taker |-> FALSE]
        /\ outcome = "none"

-----------------------------------------------------------------------------
(* connect: its own close() finds nothing to close in a new object.        *)

Connect == /\ caller = "new" /\ caller' = "binding"
           /\ ustate' = "connecting"
           /\ UNCHANGED <<channel, socket, discoveryVars, reader, closer, hand>>

BindOk == /\ caller = "binding" /\ caller' = "bound"
          /\ socket' = "open" /\ channel' = TRUE
          /\ UNCHANGED <<ustate, discoveryVars, reader, closer, hand>>

(* No socket, or one that has closed again: its channel has no remote      *)
(* address, and does not get into channelLock.                             *)
BindFail == /\ caller = "binding" /\ caller' = "failed"
            /\ ustate' = "idle" /\ socket' \in {"none", "closed"}
            /\ UNCHANGED <<channel, discoveryVars, reader, closer, hand>>

(* discoverIP: the check, the transition and the suspension are three      *)
(* steps; a close() may come between any two.                              *)
CheckActive ==
  /\ caller = "bound"
  /\ caller' = IF ustate \in {"connecting", "ready"} THEN "active" ELSE "failed"
  /\ UNCHANGED <<ustate, channel, socket, discoveryVars, reader, closer, hand>>

StartDiscovering ==
  /\ caller = "active" /\ caller' = "suspending"
  /\ ustate' = "discovering"
  /\ UNCHANGED <<channel, socket, discoveryVars, reader, closer, hand>>

(* withCheckedThrowingContinuation, in one critical section.               *)
SuspendUntimed ==  \* mutant: no time-out task
  /\ caller = "suspending" /\ caller' = "waiting"
  /\ stored' = TRUE /\ requested' = channel /\ retrying' = TRUE
  /\ UNCHANGED <<ustate, channel, socket, timer, reader, closer, hand, outcome>>

Suspend ==
  /\ caller = "suspending" /\ caller' = "waiting"
  /\ stored' = TRUE /\ requested' = channel
  /\ retrying' = TRUE /\ timer' = "armed"
  /\ UNCHANGED <<ustate, channel, socket, reader, closer, hand, outcome>>

-----------------------------------------------------------------------------
(* discoveryLock.write { ... }: whoever comes first gets the continuation. *)

TakeKeeping(p) == hand' = [hand EXCEPT ![p] = stored] /\ UNCHANGED stored  \* mutant
Take(p) == stored' = FALSE /\ hand' = [hand EXCEPT ![p] = stored]

(* Past the lock: cancel the tasks and resume.  A time-out task that woke  *)
(* up is past cancelling.                                                  *)
ResumeUncancelled(p, r) ==  \* mutant: the tasks run on
  /\ outcome' = IF hand[p] THEN r ELSE outcome
  /\ hand' = [hand EXCEPT ![p] = FALSE]
  /\ UNCHANGED <<retrying, timer>>

Resume(p, r) ==
  /\ IF hand[p] THEN /\ retrying' = FALSE
                     /\ timer' = IF timer = "armed" THEN "off" ELSE timer
                     /\ outcome' = r
                ELSE UNCHANGED <<retrying, timer, outcome>>
  /\ hand' = [hand EXCEPT ![p] = FALSE]

-----------------------------------------------------------------------------
(* handleIncomingMessage: expectedSSRC is read in one critical section, the *)
(* rest is taken in a second one.  74 bytes that do not parse, audio or    *)
(* not, are "malformed"; everything else goes to onAudioPacket.            *)

Receive(kind) ==
  /\ reader = "idle" /\ socket = "open" /\ stored
  /\ kind = "answer" => requested
  /\ reader' = kind
  /\ UNCHANGED <<ustate, channel, socket, caller, discoveryVars, closer, hand>>

ReaderTakes ==
  /\ reader \in {"answer", "malformed"}
  /\ reader' = IF reader = "answer" THEN "succeed" ELSE "fail"
  /\ Take("reader")
  /\ UNCHANGED <<ustate, channel, socket, caller, requested, retrying, timer, closer, outcome>>

ReaderSucceeds ==
  /\ reader = "succeed" /\ reader' = "idle"
  /\ Resume("reader", "ok")
  /\ ustate' = IF hand["reader"] THEN "ready" ELSE ustate
  /\ UNCHANGED <<channel, socket, caller, stored, requested, closer>>

ReaderFails ==
  /\ reader = "fail" /\ reader' = "idle"
  /\ Resume("reader", "malformed")
  /\ ustate' = IF hand["reader"] THEN "idle" ELSE ustate
  /\ closer' = [closer EXCEPT !["handler"] = "idle"]
  /\ UNCHANGED <<channel, socket, caller, stored, requested>>

-----------------------------------------------------------------------------
(* The time-out task.  It closes the connection whether or not it still    *)
(* found a continuation.                                                   *)

TimerFires ==
  /\ timer = "armed" /\ timer' = "take"
  /\ UNCHANGED <<ustate, channel, socket, caller, stored, requested, retrying,
                 reader, closer, hand, outcome>>

TimerTakes ==
  /\ timer = "take" /\ timer' = "resume"
  /\ Take("timer")
  /\ UNCHANGED <<ustate, channel, socket, caller, requested, retrying, reader, closer, outcome>>

TimerResumes ==
  /\ timer = "resume" /\ timer' = "off"
  /\ retrying' = (retrying /\ ~hand["timer"])
  /\ outcome' = IF hand["timer"] THEN "timeout" ELSE outcome
  /\ hand' = [hand EXCEPT !["timer"] = FALSE]
  /\ closer' = [closer EXCEPT !["timeout"] = "idle"]
  /\ UNCHANGED <<ustate, channel, socket, caller, stored, requested, reader>>

-----------------------------------------------------------------------------
(* close(): become idle, take the continuation, resume it, take the        *)
(* channel, close it.                                                      *)

CloserAt(c, pc, next) == closer[c] = pc /\ closer' = [closer EXCEPT ![c] = next]

OwnerCloses(c) ==
  /\ c \in Owner /\ CloserAt(c, "none", "idle")
  /\ UNCHANGED <<ustate, channel, socket, caller, discoveryVars, reader, hand>>

CloseIdle(c) ==
  /\ CloserAt(c, "idle", "take")
  /\ ustate' = "idle"
  /\ UNCHANGED <<channel, socket, caller, discoveryVars, reader, hand>>

CloseTakes(c) ==
  /\ CloserAt(c, "take", "resume")
  /\ Take(c)
  /\ UNCHANGED <<ustate, channel, socket, caller, requested, retrying, timer, reader, outcome>>

CloseResumes(c) ==
  /\ CloserAt(c, "resume", "channel")
  /\ Resume(c, "closed")
  /\ UNCHANGED <<ustate, channel, socket, caller, stored, requested, reader>>

CloseDropsChannel(c) ==  \* mutant: forgets the channel it took
  /\ CloserAt(c, "channel", "done") /\ channel' = FALSE
  /\ UNCHANGED <<ustate, socket, caller, discoveryVars, reader, hand>>

CloseTakesChannel(c) ==
  /\ CloserAt(c, "channel", IF channel THEN "close" ELSE "done")
  /\ channel' = FALSE
  /\ UNCHANGED <<ustate, socket, caller, discoveryVars, reader, hand>>

CloseChannel(c) ==
  /\ CloserAt(c, "close", "done")
  /\ socket' = "closed"
  /\ UNCHANGED <<ustate, channel, caller, discoveryVars, reader, hand>>

(* UDPFrameHandler.errorCaught closes the socket and tells nobody.         *)
SocketError ==
  /\ socket = "open" /\ socket' = "closed"
  /\ UNCHANGED <<ustate, channel, caller, discoveryVars, reader, closer, hand>>

-----------------------------------------------------------------------------
CallerStep == Connect \/ BindOk \/ BindFail \/ CheckActive \/ StartDiscovering \/ Suspend
ReaderStep == ReaderTakes \/ ReaderSucceeds \/ ReaderFails
TimerStep == TimerFires \/ TimerTakes \/ TimerResumes
CloserStep(c) == \/ CloseIdle(c) \/ CloseTakes(c) \/ CloseResumes(c)
                 \/ CloseTakesChannel(c) \/ CloseChannel(c)

Next == \/ CallerStep \/ ReaderStep \/ TimerStep
        \/ \E kind \in {"answer", "malformed"} : Receive(kind)
        \/ \E c \in Closer : OwnerCloses(c) \/ CloserStep(c)
        \/ SocketError

Spec == Init /\ [][Next]_vars

(* Tasks and handlers run on, the timer's sleep ends; no datagram has to   *)
(* arrive and nobody has to call close().                                  *)
Fairness == /\ WF_vars(CallerStep) /\ WF_vars(ReaderStep) /\ WF_vars(TimerStep)
            /\ \A c \in Closer : WF_vars(CloserStep(c))
FairSpec == Spec /\ Fairness

-----------------------------------------------------------------------------
FlagType == /\ channel \in BOOLEAN /\ stored \in BOOLEAN
            /\ requested \in BOOLEAN /\ retrying \in BOOLEAN

PlaceType ==
  /\ ustate \in UDPState /\ socket \in {"none", "open", "closed"}
  /\ caller \in {"new", "binding", "bound", "active", "suspending", "waiting", "failed"}
  /\ timer \in {"off", "armed", "take", "resume"}
  /\ reader \in {"idle", "answer", "malformed", "succeed", "fail"}
  /\ outcome \in Results \cup {"none"}

CloserType == closer \in [Closer -> {"none", "idle", "take", "resume", "channel", "close", "done"}]

HandType == hand \in [Taker -> BOOLEAN]

TypeOK == FlagType /\ PlaceType /\ CloserType /\ HandType

(* The continuation of discoverIP is in one place: the lock, one hand, or  *)
(* already resumed.  Resuming it twice is a crash.                         *)
OneHolder ==
  /\ \A p, q \in Taker : hand[p] /\ hand[q] => p = q
  /\ \A p \in Taker : hand[p] => ~stored /\ outcome = "none"
  /\ stored => outcome = "none"

(* ... and it is never lost: while discoverIP waits, it is in the lock     *)
(* with a time-out task to come, or in the hand of someone.                *)
NotForgotten ==
  caller = "waiting" /\ outcome = "none" =>
    (stored /\ timer \in {"armed", "take"}) \/ \E p \in Taker : hand[p]

(* The retry and time-out tasks do not outlive the discovery: once it is   *)
(* over, nothing sends requests and no fresh time-out is pending.          *)
TasksOwned == retrying \/ timer = "armed" => stored \/ \E p \in Taker : hand[p]

(* An open socket is in channelLock or in the hands of the close() that    *)
(* took it.                                                                *)
NoOrphanSocket == socket = "open" => channel \/ \E c \in Closer : closer[c] = "close"

Continuation == INSTANCE OneShot WITH
  NoResult <- "none", asked <- (caller = "waiting"), result <- outcome

(* discoverIP's continuation behaves like the one it is written against:   *)
(* resumed once, never again, with one result.                             *)
ResumedOnce == Continuation!Spec

(* discoverIP always returns or throws: at the latest, its time-out does.  *)
DiscoveryEnds == Continuation!Resumed

(* A close() that starts after connect() has the socket closed in the end. *)
CloseCloses ==
  \A c \in Owner : (closer[c] = "idle" /\ socket = "open") ~> socket = "closed"

(* A discovery that "completed successfully" leaves a usable connection    *)
(* until someone closes it (the log line of handleIncomingMessage).        *)
SuccessKept ==
  outcome = "ok" /\ (\A c \in Owner : closer[c] = "none") => ustate = "ready" /\ channel
=============================================================================
