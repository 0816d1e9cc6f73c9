----------------------------- MODULE AudioPlayer -----------------------------
(***************************************************************************)
(* AudioPlayer (Sources/Voice/AudioPlayer.swift) with its FrameSchedulers  *)
(* and one QueueManager.  An actor is a thread of the application inside a *)
(* call of the player or the queue, or the task of a scheduler inside a    *)
(* tick.  pause, resume, stop and startTrack hold stateLock throughout and *)
(* are one step each; play, skip and handleTrackFinished hold no lock from *)
(* one step to the next.                                                   *)
(*                                                                         *)
(* A source is a number of frames.  Volume, encoding and sending change    *)
(* nothing here; of the events only the end of a track leaves a trace.     *)
(***************************************************************************)
EXTENDS QueueManager

CONSTANTS
  Thread, Task, Scheduler,  \* slots: an ended task's is used again
  Calls,     \* which calls the application makes
  MaxCalls,  \* bound: how many
  MaxFrames, \* bound: frames of a source
  MaxList    \* bound: tracks enqueued

VARIABLES
  state,      \* stateLock
  current,    \* currentTrackLock
  scheduler,  \* schedulerLock
  queued,     \* activeQueueLock holds the queue
  running,    \* of each scheduler: running
  owned,      \* of each scheduler: task
  home,       \* of each task: the scheduler it loops for
  cancelled,  \* of each task
  pc, held,   \* of each actor: what it does next, with which track
  seen,       \* of each actor: what advance() or skip() has read
  frames,     \* of each source: frames left
  calls,      \* calls made
  quiet,      \* history: stop() was the last word of the application
  finished    \* history: the current track has been reported finished

schedVars == <<scheduler, running, owned, home, cancelled>>
history == <<quiet, finished>>
vars == <<queueVars, state, current, schedVars, queued, pc, held, seen, frames,
          calls, history>>

Actor == Thread \cup Task
PlayerState == {"stopped", "playing", "paused"}
Call == {"play", "playQueue", "pause", "resume", "stop", "skip",
         "enqueue", "clear", "setLoopMode", "setIndex"}
Nothing == [count |-> 0, move |-> "none"]

ASSUME PlayerAssumption ==
  /\ Thread \cap Task = {} /\ None \notin Task \cup Scheduler
  /\ Calls \subseteq Call /\ {MaxCalls, MaxFrames, MaxList} \subseteq Nat

Live(k) == pc[k] # "idle"
FreeTask == {k \in Task : ~Live(k)}
FreeScheduler == {s \in Scheduler \ {scheduler} : \A k \in Task : Live(k) => home[k] # s}

Init ==
  /\ QueueInit
  /\ state = "stopped" /\ current = None /\ scheduler = None /\ queued = FALSE
  /\ running = [s \in Scheduler |-> FALSE] /\ owned = [s \in Scheduler |-> None]
  /\ home = [k \in Task |-> None] /\ cancelled = [k \in Task |-> FALSE]
  /\ pc = [a \in Actor |-> "idle"] /\ held = [a \in Actor |-> None]
  /\ seen = [a \in Actor |-> Nothing]
  /\ frames \in [Track -> 0 .. MaxFrames]
  /\ calls = 0 /\ quiet = FALSE /\ finished = FALSE

(* Where an actor is when its call or its tick is over.                    *)
Rest(a) == IF a \in Task THEN "loop" ELSE "idle"

Goes(a, p, x) == pc' = [pc EXCEPT ![a] = p] /\ held' = [held EXCEPT ![a] = x]

-----------------------------------------------------------------------------
(* FrameScheduler.                                                         *)

(* stop(): running, then the task, under the player's stateLock.           *)
StoppedRunning == [s \in Scheduler |-> IF s = scheduler THEN FALSE ELSE running[s]]
StoppedOwned == [s \in Scheduler |-> IF s = scheduler THEN None ELSE owned[s]]
StoppedTasksNot == cancelled  \* mutant: the task is left to see running itself
StoppedTasks ==
  [k \in Task |-> cancelled[k] \/ (scheduler # None /\ owned[scheduler] = k)]

(* start() of scheduler s with a new task k, given what the schedulers and *)
(* their tasks are like before it.                                         *)
Started(s, k, run, own, cut) ==
  /\ running' = [run EXCEPT ![s] = TRUE]
  /\ owned' = [own EXCEPT ![s] = k]
  /\ home' = [home EXCEPT ![k] = s]
  /\ cancelled' = [cut EXCEPT ![k] = FALSE]

(* The head of the loop; a sleep that is cancelled ends it as well.        *)
Loop(k) ==
  /\ pc[k] = "loop"
  /\ Goes(k, IF cancelled[k] \/ ~running[home[k]] THEN "idle" ELSE "tick", None)
  /\ UNCHANGED <<queueVars, state, current, schedVars, queued, seen, frames, calls, history>>

-----------------------------------------------------------------------------
(* The four operations that hold stateLock.                                *)

(* startTrack(held[a]), a call of play, skip or handleTrackFinished; it    *)
(* replaces the scheduler, whatever the state was.                         *)
StartTrackOverOld(a) ==  \* mutant: the old scheduler is not stopped
  /\ pc[a] = "start"
  /\ state' = "playing" /\ current' = held[a]
  /\ \E s \in FreeScheduler, k \in FreeTask :
       /\ scheduler' = s
       /\ Started(s, k, running, owned, cancelled)
       /\ pc' = [pc EXCEPT ![a] = Rest(a), ![k] = "loop"]
  /\ held' = [held EXCEPT ![a] = None]
  /\ finished' = FALSE /\ quiet' = (quiet /\ a \in Task)
  /\ UNCHANGED <<queueVars, queued, seen, frames, calls>>

StartTrack(a) ==
  /\ pc[a] = "start"
  /\ state' = "playing" /\ current' = held[a]
  /\ \E s \in FreeScheduler, k \in FreeTask :
       /\ scheduler' = s
       /\ Started(s, k, StoppedRunning, StoppedOwned, StoppedTasks)
       /\ pc' = [pc EXCEPT ![a] = Rest(a), ![k] = "loop"]
  /\ held' = [held EXCEPT ![a] = None]
  /\ finished' = FALSE /\ quiet' = (quiet /\ a \in Task)
  /\ UNCHANGED <<queueVars, queued, seen, frames, calls>>

StopKeepsTrack(a) ==  \* mutant: the current track is left
  /\ pc[a] = "stop" /\ Goes(a, Rest(a), None)
  /\ state' = "stopped" /\ scheduler' = None
  /\ running' = StoppedRunning /\ owned' = StoppedOwned /\ cancelled' = StoppedTasks
  /\ UNCHANGED <<queueVars, current, queued, home, seen, frames, calls, history>>

(* stop(), also at the end of play, skip and handleTrackFinished.          *)
Stop(a) ==
  /\ pc[a] = "stop" /\ Goes(a, Rest(a), None)
  /\ state' = "stopped" /\ current' = None /\ scheduler' = None
  /\ running' = StoppedRunning /\ owned' = StoppedOwned /\ cancelled' = StoppedTasks
  /\ UNCHANGED <<queueVars, queued, home, seen, frames, calls, history>>

Pause(a) ==
  /\ pc[a] = "pause" /\ Goes(a, "idle", None)
  /\ IF state = "playing"
     THEN /\ state' = "paused"
          /\ running' = StoppedRunning /\ owned' = StoppedOwned /\ cancelled' = StoppedTasks
     ELSE UNCHANGED <<state, running, owned, cancelled>>
  /\ UNCHANGED <<queueVars, current, scheduler, home, queued, seen, frames, calls, history>>

ResumePlay(a) ==
  /\ pc[a] = "resume"
  /\ IF state = "paused"
     THEN \E k \in FreeTask :
            /\ state' = "playing"
            /\ Started(scheduler, k, running, owned, cancelled)
            /\ pc' = [pc EXCEPT ![a] = "idle", ![k] = "loop"]
     ELSE pc' = [pc EXCEPT ![a] = "idle"] /\ UNCHANGED <<state, running, owned, home, cancelled>>
  /\ UNCHANGED <<queueVars, current, scheduler, queued, held, seen, frames, calls, history>>

-----------------------------------------------------------------------------
(* A tick.                                                                 *)

(* The guards on state and track: two reads, but what they see together    *)
(* was true together at some moment between them.                          *)
Tick(k) ==
  /\ pc[k] = "tick"
  /\ IF state = "playing" /\ current # None THEN Goes(k, "read", current)
                                             ELSE Goes(k, "loop", None)
  /\ UNCHANGED <<queueVars, state, current, schedVars, queued, seen, frames, calls, history>>

(* The source answers after a suspension; a frame is sent.                 *)
Read(k) ==
  /\ pc[k] = "read"
  /\ IF frames[held[k]] > 0
     THEN frames' = [frames EXCEPT ![held[k]] = @ - 1] /\ Goes(k, "loop", None)
     ELSE UNCHANGED frames /\ Goes(k, "ended", held[k])
  /\ UNCHANGED <<queueVars, state, current, schedVars, queued, seen, calls, history>>

(* handleTrackFinished: the guard and the event ...                        *)
EndedUnguarded(k) ==  \* mutant: a task of a former track ends the present one
  /\ pc[k] = "ended" /\ Goes(k, "finish", None)
  /\ finished' = TRUE
  /\ UNCHANGED <<queueVars, state, current, schedVars, queued, seen, frames, calls, quiet>>

Ended(k) ==
  /\ pc[k] = "ended"
  /\ IF current = held[k]
     THEN Goes(k, "finish", None) /\ finished' = TRUE
     ELSE Goes(k, "loop", None) /\ UNCHANGED finished
  /\ UNCHANGED <<queueVars, state, current, schedVars, queued, seen, frames, calls, quiet>>

(* ... then the queue, if one is active.                                   *)
Finish(k) ==
  /\ pc[k] = "finish"
  /\ Goes(k, IF queued THEN "advance" ELSE "stop", None)
  /\ UNCHANGED <<queueVars, state, current, schedVars, queued, seen, frames, calls, history>>

-----------------------------------------------------------------------------
(* QueueManager's advance() and skip() inside the player's operations.     *)

Captures(a, what) ==
  /\ seen' = [seen EXCEPT ![a] = what]
  /\ Goes(a, IF what.move = "none" THEN "stop" ELSE "index", None)
  /\ UNCHANGED <<queueVars, state, current, schedVars, queued, frames, calls, history>>

Advance(a) == pc[a] = "advance" /\ Captures(a, SeenByAdvance)
Skip(a) == pc[a] = "skip" /\ Captures(a, SeenBySkip)

WriteIndex(a) ==
  /\ pc[a] = "index" /\ Goes(a, "look", None)
  /\ index' = IndexAfter(seen[a])
  /\ seen' = [seen EXCEPT ![a] = Nothing]
  /\ UNCHANGED <<list, mode, state, current, schedVars, queued, frames, calls, history>>

(* The queue's currentTrack, and which of the player's operations follows. *)
Look(a) ==
  /\ pc[a] \in {"look", "first"}
  /\ Goes(a, IF CurrentInList # None THEN "start"
             ELSE IF pc[a] = "first" THEN "advance" ELSE "stop", CurrentInList)
  /\ UNCHANGED <<queueVars, state, current, schedVars, queued, seen, frames, calls, history>>

-----------------------------------------------------------------------------
(* The application's calls.                                                *)

Begin(t, call) ==
  /\ pc[t] = "idle" /\ call \in Calls /\ calls < MaxCalls /\ calls' = calls + 1

Play(t) == \E x \in Track :
  /\ Begin(t, "play") /\ Goes(t, "start", x)
  /\ queued' = FALSE /\ quiet' = FALSE
  /\ UNCHANGED <<queueVars, state, current, schedVars, seen, frames, finished>>

PlayQueue(t) ==
  /\ Begin(t, "playQueue") /\ Goes(t, "first", None)
  /\ queued' = TRUE /\ quiet' = FALSE
  /\ UNCHANGED <<queueVars, state, current, schedVars, seen, frames, finished>>

CallSkip(t) ==
  /\ Begin(t, "skip") /\ quiet' = FALSE
  /\ IF queued /\ current # None
     THEN Goes(t, "skip", None)
     ELSE UNCHANGED <<pc, held>>
  /\ UNCHANGED <<queueVars, state, current, schedVars, queued, seen, frames, finished>>

CallStateful(t) == \E call \in {"pause", "resume", "stop"} :
  /\ Begin(t, call) /\ Goes(t, call, None)
  /\ quiet' = (call = "stop" \/ (call = "pause" /\ quiet))
  /\ UNCHANGED <<queueVars, state, current, schedVars, queued, seen, frames, finished>>

CallQueue(t) ==
  /\ \/ Begin(t, "enqueue") /\ Len(list) < MaxList /\ pc' = pc /\ \E x \in Track : Enqueue(x)
     \/ Begin(t, "clear") /\ pc' = [pc EXCEPT ![t] = "reset"] /\ ClearList
     \/ Begin(t, "setLoopMode") /\ pc' = pc /\ \E m \in LoopMode : SetLoopMode(m)
     \/ Begin(t, "setIndex") /\ pc' = pc /\ \E i \in 0 .. MaxList : SetIndex(i)
  /\ UNCHANGED <<state, current, schedVars, queued, held, seen, frames, history>>

Reset(t) ==
  /\ pc[t] = "reset" /\ pc' = [pc EXCEPT ![t] = "idle"] /\ ResetIndex
  /\ UNCHANGED <<state, current, schedVars, queued, held, seen, frames, calls, history>>

Step(a) == \/ StartTrack(a) \/ Stop(a) \/ Advance(a) \/ Skip(a) \/ WriteIndex(a) \/ Look(a)

TaskStep(k) == \/ Loop(k) \/ Tick(k) \/ Read(k) \/ Ended(k) \/ Finish(k) \/ Step(k)

ThreadStep(t) == \/ Pause(t) \/ ResumePlay(t) \/ Reset(t) \/ Step(t)

Application(t) == \/ Play(t) \/ PlayQueue(t) \/ CallSkip(t) \/ CallStateful(t) \/ CallQueue(t)

Next == \/ \E k \in Task : TaskStep(k)
        \/ \E t \in Thread : ThreadStep(t) \/ Application(t)

Spec == Init /\ [][Next]_vars

(* Swift runs the tasks there are, a source answers, and a call that was   *)
(* made runs to its end; nobody has to make one.                           *)
FairSpec == /\ Spec
            /\ \A k \in Task : WF_vars(TaskStep(k))
            /\ \A t \in Thread : WF_vars(ThreadStep(t))

-----------------------------------------------------------------------------
(* Properties.                                                             *)

QueueType == list \in Seq(Track) /\ index \in Nat /\ mode \in LoopMode
PlayerType ==
  /\ state \in PlayerState /\ current \in Track \cup {None}
  /\ scheduler \in Scheduler \cup {None} /\ queued \in BOOLEAN
  /\ frames \in [Track -> Nat] /\ calls \in Nat
  /\ quiet \in BOOLEAN /\ finished \in BOOLEAN
TaskType ==
  /\ running \in [Scheduler -> BOOLEAN] /\ owned \in [Scheduler -> Task \cup {None}]
  /\ home \in [Task -> Scheduler \cup {None}] /\ cancelled \in [Task -> BOOLEAN]
Place == {"idle", "loop", "tick", "read", "ended", "finish", "advance", "skip",
          "index", "look", "first", "start", "stop", "pause", "resume", "reset"}
ActorType ==
  /\ pc \in [Actor -> Place] /\ held \in [Actor -> Track \cup {None}]
  /\ seen \in [Actor -> [count : Nat, move : Move]]

(* Every variable has its type; the index may be anything from 0 up.       *)
TypeOK == QueueType /\ PlayerType /\ TaskType /\ ActorType

Ticking == {k \in Task : Live(k) /\ ~cancelled[k]}

(* However often playback is started, paused and resumed while old ticks   *)
(* still wait for their sources, one task at most goes on ticking, and it  *)
(* is the one a later stop or pause will cancel.                           *)
OneTicker == \A k \in Ticking : scheduler # None /\ owned[scheduler] = k

(* The player plays exactly as long as such a task exists: nothing plays   *)
(* on when the state says paused or stopped, and a player that says        *)
(* playing has not been left without a task.                               *)
PlayingTicks == state = "playing" <=> Ticking # {}

(* currentTrack is set exactly while there is something to resume or stop. *)
TrackHeld == state = "stopped" <=> current = None

(* Book/TRACKS_AND_METADATA.md:50, "song played all the way through": the  *)
(* current track is reported finished only when its source has come to its *)
(* end, however late the tick of an earlier track wakes up.                *)
FinishedMeansPlayedOut ==
  finished => current = None \/ frames[current] = 0

(* A source that is read to its end ends the playback, track by track,     *)
(* unless a loop mode says otherwise: the hand-over from one track to the  *)
(* next never gets lost between the tick that saw the end, its guard and   *)
(* the calls of the application that come between.                         *)
PlaybackEnds == state = "playing" ~> (state # "playing" \/ mode # "off")

-----------------------------------------------------------------------------
(* What the documentation says and the code does not do.                   *)

(* Book/USAGE.md:65 has stop() "stop playing entirely and clean up": once  *)
(* it has returned and nothing else was called, the player stays stopped.  *)
StoppedStaysStopped == quiet /\ (\A t \in Thread : pc[t] = "idle") => state = "stopped"

(* Book/USAGE.md:81 has the player "run through the queue automatically":  *)
(* the end of a track is acted upon once, or the queue advances past a     *)
(* track that never plays.                                                 *)
FinishesOnce == \A j, k \in Task : pc[j] = "finish" /\ pc[k] = "finish" => j = k
=============================================================================
