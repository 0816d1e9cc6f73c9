------------------------- MODULE AudioPlayerProofs -------------------------
(***************************************************************************)
(* Proofs about AudioPlayer, for any number of threads, tasks, schedulers, *)
(* tracks and calls: at most one task ticks and stop or pause will reach   *)
(* it (OneTicker), the player says playing exactly as long as there is one *)
(* (PlayingTicks), a track is held exactly until the player is stopped     *)
(* (TrackHeld) and reported finished only at the end of its source         *)
(* (FinishedMeansPlayedOut).                                               *)
(*                                                                         *)
(* None of these is inductive.  Schedules ties the player's state to its   *)
(* scheduler, the scheduler to the task it owns, and the task back to the  *)
(* scheduler it loops for; InHand says what an actor carries from one of   *)
(* its steps to the next.                                                  *)
(***************************************************************************)
EXTENDS AudioPlayer, TLAPS

StoppedIsEmpty == /\ state = "stopped" <=> current = None
                  /\ state = "stopped" <=> scheduler = None

(* A scheduler that was replaced, or paused, has let go of its task.       *)
OthersIdle ==
  \A s \in Scheduler : s # scheduler \/ state # "playing" => owned[s] = None

OwnerTicks ==
  state = "playing" => /\ owned[scheduler] \in Ticking
                       /\ home[owned[scheduler]] = scheduler
                       /\ running[scheduler]

OnlyOwnerTicks == \A k \in Ticking : state = "playing" /\ owned[scheduler] = k

Schedules == StoppedIsEmpty /\ OthersIdle /\ OwnerTicks /\ OnlyOwnerTicks

InHand == \A a \in Actor :
  /\ pc[a] \in {"start", "read", "ended"} => held[a] # None
  /\ pc[a] = "ended" => frames[held[a]] = 0

IInv == TypeOK /\ Schedules /\ InHand /\ FinishedMeansPlayedOut

-----------------------------------------------------------------------------
(* Types.                                                                  *)

(* Whoever goes somewhere goes to a place there is.                        *)
LEMMA GoesType ==
  ASSUME ActorType, NEW a \in Actor, NEW p \in Place, NEW x \in Track \cup {None},
         Goes(a, p, x), UNCHANGED seen
  PROVE  ActorType'
  BY DEF ActorType, Goes

(* What a call of FrameScheduler.stop() leaves has the types it had.       *)
LEMMA StoppedType ==
  ASSUME TaskType
  PROVE  /\ StoppedRunning \in [Scheduler -> BOOLEAN]
         /\ StoppedOwned \in [Scheduler -> Task \cup {None}]
         /\ StoppedTasks \in [Task -> BOOLEAN]
  <1>1. StoppedRunning \in [Scheduler -> BOOLEAN]
    BY Zenon DEF TaskType, StoppedRunning
  <1>2. StoppedOwned \in [Scheduler -> Task \cup {None}]
    BY DEF TaskType, StoppedOwned
  <1>3. StoppedTasks \in [Task -> BOOLEAN]
    <2>1. \A k \in Task : (cancelled[k] \/ (scheduler # None /\ owned[scheduler] = k)) \in BOOLEAN
      BY Zenon
    <2> QED BY <2>1, Zenon DEF StoppedTasks
  <1> QED BY <1>1, <1>2, <1>3

(* So has what FrameScheduler.start() makes of them.                       *)
LEMMA StartedType ==
  ASSUME NEW s \in Scheduler \cup {None}, NEW k \in Task, TaskType,
         NEW run \in [Scheduler -> BOOLEAN], NEW own \in [Scheduler -> Task \cup {None}],
         NEW cut \in [Task -> BOOLEAN], Started(s, k, run, own, cut)
  PROVE  TaskType'
  <1>1. running' \in [Scheduler -> BOOLEAN]
    BY Zenon DEF Started
  <1>2. owned' \in [Scheduler -> Task \cup {None}]
    BY DEF Started
  <1>3. home' \in [Task -> Scheduler \cup {None}]
    BY DEF Started, TaskType
  <1>4. cancelled' \in [Task -> BOOLEAN]
    BY Zenon DEF Started
  <1> QED BY <1>1, <1>2, <1>3, <1>4 DEF TaskType

(* The operations that hold stateLock keep the types.                      *)
LEMMA LockedType ==
  ASSUME TypeOK, NEW a \in Actor, StartTrack(a) \/ Stop(a) \/ Pause(a) \/ ResumePlay(a)
  PROVE  TypeOK'
  <1> USE DEF TypeOK
  <1>1. ASSUME StartTrack(a) PROVE TypeOK'
    <2>1. PICK s \in FreeScheduler, k \in FreeTask :
            /\ scheduler' = s
            /\ Started(s, k, StoppedRunning, StoppedOwned, StoppedTasks)
            /\ pc' = [pc EXCEPT ![a] = Rest(a), ![k] = "loop"]
      BY <1>1 DEF StartTrack
    <2>2. s \in Scheduler /\ k \in Task /\ k \in Actor
      BY DEF FreeScheduler, FreeTask, Actor
    <2>3. QueueType'
      BY <1>1 DEF StartTrack, QueueType, queueVars
    <2>4. PlayerType'
      BY <1>1, <2>1, <2>2 DEF StartTrack, PlayerType, PlayerState, ActorType
    <2>5. TaskType'
      BY <2>1, <2>2, StoppedType, StartedType
    <2>6. ActorType'
      BY <1>1, <2>1, <2>2 DEF StartTrack, ActorType, Place, Rest
    <2> QED BY <2>3, <2>4, <2>5, <2>6
  <1>2. ASSUME Stop(a) PROVE TypeOK'
    <2>1. QueueType' /\ PlayerType'
      BY <1>2 DEF Stop, QueueType, queueVars, PlayerType, PlayerState, history
    <2>2. TaskType'
      BY <1>2, StoppedType, Zenon DEF Stop, TaskType
    <2>3. ActorType'
      BY <1>2, GoesType DEF Stop, Rest, Place
    <2> QED BY <2>1, <2>2, <2>3
  <1>3. ASSUME Pause(a) PROVE TypeOK'
    <2>1. QueueType' /\ PlayerType'
      BY <1>3 DEF Pause, QueueType, queueVars, PlayerType, PlayerState, history
    <2>2. TaskType'
      BY <1>3, StoppedType, Zenon DEF Pause, TaskType
    <2>3. ActorType'
      BY <1>3, GoesType DEF Pause, Place
    <2> QED BY <2>1, <2>2, <2>3
  <1>4. ASSUME ResumePlay(a) PROVE TypeOK'
    <2>1. QueueType' /\ PlayerType'
      BY <1>4 DEF ResumePlay, QueueType, queueVars, PlayerType, PlayerState, history
    <2>2. TaskType' /\ ActorType'
      <3>1. CASE state = "paused"
        <4>1. PICK k \in FreeTask :
                /\ Started(scheduler, k, running, owned, cancelled)
                /\ pc' = [pc EXCEPT ![a] = "idle", ![k] = "loop"]
          BY <1>4, <3>1 DEF ResumePlay
        <4>2. k \in Task /\ k \in Actor
          BY DEF FreeTask, Actor
        <4>3. TaskType'
          <5>1. /\ running \in [Scheduler -> BOOLEAN] /\ cancelled \in [Task -> BOOLEAN]
                /\ owned \in [Scheduler -> Task \cup {None}]
                /\ scheduler \in Scheduler \cup {None}
            BY DEF TaskType, PlayerType
          <5> QED BY <4>1, <4>2, <5>1, StartedType
        <4>4. ActorType'
          BY <1>4, <4>1, <4>2 DEF ResumePlay, ActorType, Place
        <4> QED BY <4>3, <4>4
      <3>2. CASE state # "paused"
        <4>1. TaskType'
          BY <1>4, <3>2, Zenon DEF ResumePlay, TaskType
        <4>2. ActorType'
          BY <1>4, <3>2 DEF ResumePlay, ActorType, Place
        <4> QED BY <4>1, <4>2
      <3> QED BY <3>1, <3>2
    <2> QED BY <2>1, <2>2
  <1> QED BY <1>1, <1>2, <1>3, <1>4

(* So do the steps of a tick and of the queue.                             *)
LEMMA UnlockedType ==
  ASSUME TypeOK, NEW a \in Actor,
         \/ Loop(a) \/ Tick(a) \/ Read(a) \/ Ended(a) \/ Finish(a)
         \/ Advance(a) \/ Skip(a) \/ WriteIndex(a) \/ Look(a)
  PROVE  TypeOK'
  <1> USE DEF TypeOK
  <1>1. ASSUME Loop(a) PROVE TypeOK'
    <2>1. ActorType'
      BY <1>1, GoesType DEF Loop, Place
    <2> QED BY <1>1, <2>1 DEF Loop, QueueType, queueVars, PlayerType, TaskType, schedVars, history
  <1>2. ASSUME Tick(a) PROVE TypeOK'
    <2>1. ActorType'
      BY <1>2, GoesType DEF Tick, Place, PlayerType
    <2> QED BY <1>2, <2>1 DEF Tick, QueueType, queueVars, PlayerType, TaskType, schedVars, history
  <1>3. ASSUME Read(a) PROVE TypeOK'
    <2>1. ActorType'
      BY <1>3, GoesType DEF Read, Place, ActorType
    <2>2. frames' \in [Track -> Nat]
      BY <1>3 DEF Read, PlayerType
    <2> QED BY <1>3, <2>1, <2>2 DEF Read, QueueType, queueVars, PlayerType, TaskType, schedVars, history
  <1>4. ASSUME Ended(a) PROVE TypeOK'
    <2>1. ActorType'
      BY <1>4, GoesType DEF Ended, Place
    <2> QED BY <1>4, <2>1 DEF Ended, QueueType, queueVars, PlayerType, TaskType, schedVars
  <1>5. ASSUME Finish(a) PROVE TypeOK'
    <2>1. ActorType'
      BY <1>5, GoesType DEF Finish, Place
    <2> QED BY <1>5, <2>1 DEF Finish, QueueType, queueVars, PlayerType, TaskType, schedVars, history
  <1>6. ASSUME NEW what \in [count : Nat, move : Move], Captures(a, what) PROVE TypeOK'
    <2>1. pc' \in [Actor -> Place] /\ held' \in [Actor -> Track \cup {None}]
      BY <1>6 DEF Captures, Goes, Place, ActorType
    <2>2. seen' \in [Actor -> [count : Nat, move : Move]]
      BY <1>6 DEF Captures, ActorType
    <2>3. ActorType'
      BY <2>1, <2>2 DEF ActorType
    <2> QED BY <1>6, <2>3 DEF Captures, QueueType, queueVars, PlayerType, TaskType, schedVars, history
  <1>7. SeenByAdvance \in [count : Nat, move : Move] /\ SeenBySkip \in [count : Nat, move : Move]
    BY DEF SeenByAdvance, SeenBySkip, Move, QueueType, LoopMode
  <1>8. ASSUME WriteIndex(a) PROVE TypeOK'
    <2>1. seen[a].move \in Move /\ seen[a].count \in Nat
      BY DEF ActorType
    <2>2. index' \in Nat
      BY <1>8, <2>1 DEF WriteIndex, IndexAfter, Move, QueueType
    <2>3. pc' \in [Actor -> Place] /\ held' \in [Actor -> Track \cup {None}]
      BY <1>8 DEF WriteIndex, Goes, Place, ActorType
    <2>4. seen' \in [Actor -> [count : Nat, move : Move]]
      BY <1>8 DEF WriteIndex, ActorType, Nothing, Move
    <2>5. ActorType'
      BY <2>3, <2>4 DEF ActorType
    <2> QED BY <1>8, <2>2, <2>5 DEF WriteIndex, QueueType, PlayerType, TaskType, schedVars, history
  <1>9. ASSUME Look(a) PROVE TypeOK'
    <2>1. CurrentInList \in Track \cup {None}
      BY DEF CurrentInList, CurrentOf, QueueType
    <2>2. ActorType'
      BY <1>9, <2>1, GoesType DEF Look, Place
    <2> QED BY <1>9, <2>2 DEF Look, QueueType, queueVars, PlayerType, TaskType, schedVars, history
  <1> QED BY <1>1, <1>2, <1>3, <1>4, <1>5, <1>6, <1>7, <1>8, <1>9 DEF Advance, Skip

(* And the calls of the application.                                       *)
LEMMA CallType ==
  ASSUME TypeOK, NEW t \in Thread, Application(t) \/ Reset(t)
  PROVE  TypeOK'
  <1> USE DEF TypeOK
  <1>a. t \in Actor
    BY DEF Actor
  <1>1. ASSUME Play(t) PROVE TypeOK'
    <2>1. ActorType'
      BY <1>1, <1>a, GoesType DEF Play, Place
    <2>2. quiet' \in BOOLEAN /\ queued' \in BOOLEAN /\ finished' \in BOOLEAN
      BY <1>1, Zenon DEF Play, PlayerType
    <2>3. PlayerType'
      BY <1>1, <2>2 DEF Play, Begin, PlayerType, schedVars
    <2> QED BY <1>1, <2>1, <2>3 DEF Play, QueueType, queueVars, TaskType, schedVars
  <1>2. ASSUME PlayQueue(t) PROVE TypeOK'
    <2>1. ActorType'
      BY <1>2, <1>a, GoesType DEF PlayQueue, Place
    <2>2. quiet' \in BOOLEAN /\ queued' \in BOOLEAN /\ finished' \in BOOLEAN
      BY <1>2, Zenon DEF PlayQueue, PlayerType
    <2>3. PlayerType'
      BY <1>2, <2>2 DEF PlayQueue, Begin, PlayerType, schedVars
    <2> QED BY <1>2, <2>1, <2>3 DEF PlayQueue, QueueType, queueVars, TaskType, schedVars
  <1>3. ASSUME CallSkip(t) PROVE TypeOK'
    <2>1. ActorType'
      BY <1>3, <1>a, GoesType DEF CallSkip, Place, ActorType
    <2>2. quiet' \in BOOLEAN /\ queued' \in BOOLEAN /\ finished' \in BOOLEAN
      BY <1>3, Zenon DEF CallSkip, PlayerType
    <2>3. PlayerType'
      BY <1>3, <2>2 DEF CallSkip, Begin, PlayerType, schedVars
    <2> QED BY <1>3, <2>1, <2>3 DEF CallSkip, QueueType, queueVars, TaskType, schedVars
  <1>4. ASSUME CallStateful(t) PROVE TypeOK'
    <2>1. ActorType'
      BY <1>4, <1>a, GoesType DEF CallStateful, Place
    <2>2. quiet' \in BOOLEAN
      BY <1>4, Zenon DEF CallStateful, PlayerType
    <2> QED BY <1>4, <2>1, <2>2 DEF CallStateful, Begin, QueueType, queueVars, PlayerType,
                                    TaskType, schedVars
  <1>5. ASSUME CallQueue(t) PROVE TypeOK'
    <2>1. QueueType'
      <3>1. CASE \E x \in Track : Enqueue(x)
        BY <3>1 DEF Enqueue, QueueType
      <3>2. CASE ClearList
        BY <3>2 DEF ClearList, QueueType
      <3>3. CASE \E m \in LoopMode : SetLoopMode(m)
        BY <3>3 DEF SetLoopMode, QueueType
      <3>4. CASE \E i \in 0 .. MaxList : SetIndex(i)
        BY <3>4 DEF SetIndex, QueueType
      <3> QED BY <1>5, <3>1, <3>2, <3>3, <3>4 DEF CallQueue
    <2>2. ActorType'
      BY <1>5, <1>a DEF CallQueue, ActorType, Place
    <2> QED BY <1>5, <2>1, <2>2 DEF CallQueue, Begin, PlayerType, TaskType, schedVars, history
  <1>6. ASSUME Reset(t) PROVE TypeOK'
    <2>1. ActorType'
      BY <1>6, <1>a DEF Reset, ActorType, Place
    <2> QED BY <1>6, <2>1 DEF Reset, ResetIndex, QueueType, PlayerType, TaskType, schedVars, history
  <1> QED BY <1>1, <1>2, <1>3, <1>4, <1>5, <1>6 DEF Application

(* Every step keeps the types.                                             *)
LEMMA NextType == TypeOK /\ [Next]_vars => TypeOK'
  <1> SUFFICES ASSUME TypeOK, [Next]_vars PROVE TypeOK'
    OBVIOUS
  <1>1. CASE UNCHANGED vars
    BY <1>1 DEF vars, queueVars, schedVars, history, TypeOK, QueueType, PlayerType, TaskType, ActorType
  <1>2. ASSUME NEW k \in Task, TaskStep(k) PROVE TypeOK'
    BY <1>2, LockedType, UnlockedType DEF TaskStep, Step, Actor
  <1>3. ASSUME NEW t \in Thread, ThreadStep(t) PROVE TypeOK'
    BY <1>3, LockedType, UnlockedType, CallType DEF ThreadStep, Step, Actor
  <1> QED BY <1>1, <1>2, <1>3, CallType DEF Next

-----------------------------------------------------------------------------
(* Schedules.                                                              *)

(* Whoever is sent somewhere is there, and nobody else has moved.          *)
LEMMA Gone ==
  ASSUME TypeOK, NEW a \in Actor, NEW p, NEW x, Goes(a, p, x)
  PROVE  /\ pc'[a] = p /\ held'[a] = x
         /\ \A b \in Actor \ {a} : pc'[b] = pc[b] /\ held'[b] = held[b]
  BY DEF TypeOK, ActorType, Goes

(* A step within a tick or a call: state, track and schedulers are as they *)
(* were, and the same tasks are alive.                                     *)
LEMMA SameSchedules ==
  ASSUME Schedules, UNCHANGED <<state, current, schedVars>>,
         \A k \in Task : Live(k)' <=> Live(k)
  PROVE  Schedules'
  <1>1. Ticking' = Ticking
    BY DEF Ticking, schedVars
  <1> QED BY <1>1 DEF Schedules, StoppedIsEmpty, OthersIdle, OwnerTicks, OnlyOwnerTicks, schedVars

(* A task leaves its loop only when cancelled, or when its scheduler has   *)
(* stopped, which that of the owner has not.                               *)
LEMMA LoopSchedules == ASSUME TypeOK, Schedules, NEW k \in Task, Loop(k) PROVE Schedules'
  <1>1. UNCHANGED <<state, current, scheduler, running, owned, home, cancelled>>
    BY DEF Loop, schedVars
  <1>2. \A j \in Task : Live(j)' => Live(j)
    BY Gone DEF Loop, Live, Actor
  <1>3. \A j \in Task : Live(j) /\ ~Live(j)' => j = k /\ (cancelled[k] \/ ~running[home[k]])
    BY Gone DEF Loop, Live, Actor
  <1>4. Ticking' \subseteq Ticking
    BY <1>1, <1>2 DEF Ticking
  <1>5. OwnerTicks'
    BY <1>1, <1>3 DEF Schedules, OwnerTicks, Ticking
  <1> QED BY <1>1, <1>4, <1>5 DEF Schedules, StoppedIsEmpty, OthersIdle, OnlyOwnerTicks

(* startTrack replaces the scheduler: the task of the old one is           *)
(* cancelled, and that was the only one ticking.                           *)
LEMMA StartSchedules ==
  ASSUME TypeOK, Schedules, InHand, NEW a \in Actor, StartTrack(a)
  PROVE  Schedules'
  <1>1. PICK s \in FreeScheduler, k \in FreeTask :
          /\ scheduler' = s
          /\ Started(s, k, StoppedRunning, StoppedOwned, StoppedTasks)
          /\ pc' = [pc EXCEPT ![a] = Rest(a), ![k] = "loop"]
    BY DEF StartTrack
  <1>2. /\ s \in Scheduler /\ k \in Task /\ s # scheduler /\ pc[k] = "idle"
        /\ k \in Actor /\ k # a /\ None \notin Scheduler
    BY PlayerAssumption DEF FreeScheduler, FreeTask, Live, Actor, StartTrack
  <1>3. state' = "playing" /\ scheduler' = s /\ current' # None
    BY <1>1 DEF StartTrack, InHand
  <1>4. StoppedIsEmpty'
    BY <1>2, <1>3 DEF StoppedIsEmpty
  <1>5. /\ owned'[s] = k /\ \A r \in Scheduler \ {s} : owned'[r] = None
    BY <1>1, <1>2 DEF Started, StoppedOwned, Schedules, OthersIdle
  <1>6. OthersIdle'
    BY <1>3, <1>5 DEF OthersIdle
  <1>7. /\ home'[k] = s /\ running'[s] /\ ~cancelled'[k] /\ pc'[k] = "loop"
    <2>1. home'[k] = s /\ pc'[k] = "loop"
      BY <1>1, <1>2 DEF Started, TypeOK, TaskType, ActorType
    <2>2. running'[s] /\ ~cancelled'[k]
      BY <1>1, <1>2, Zenon DEF Started, StoppedRunning, StoppedTasks
    <2> QED BY <2>1, <2>2
  <1>8. OwnerTicks'
    BY <1>2, <1>3, <1>5, <1>7 DEF OwnerTicks, Ticking, Live
  <1>9. ASSUME NEW j \in Task, j # k, Live(j)' PROVE cancelled'[j]
    <2>1. Live(j)
      BY <1>1, <1>2, <1>9 DEF Live, TypeOK, ActorType, Actor, StartTrack
    <2>2. cancelled[j] \/ (scheduler # None /\ owned[scheduler] = j)
      BY <2>1 DEF Schedules, StoppedIsEmpty, OnlyOwnerTicks, Ticking
    <2>3. cancelled'[j] = StoppedTasks[j]
      BY <1>1, <1>9, Zenon DEF Started, StoppedTasks
    <2> QED BY <2>2, <2>3, Zenon DEF StoppedTasks
  <1>10. OnlyOwnerTicks'
    BY <1>3, <1>5, <1>9 DEF OnlyOwnerTicks, Ticking
  <1> QED BY <1>4, <1>6, <1>8, <1>10 DEF Schedules

(* FrameScheduler.stop() cancels the only task that ticks, and the player  *)
(* is not playing afterwards.                                              *)
LEMMA StoppedSchedules ==
  ASSUME TypeOK, Schedules, state' # "playing", NEW a \in Actor, Live(a), NEW p, Goes(a, p, None),
         owned' = StoppedOwned, cancelled' = StoppedTasks
  PROVE  OthersIdle' /\ OwnerTicks' /\ OnlyOwnerTicks'
  <1>1. OthersIdle'
    BY DEF StoppedOwned, Schedules, OthersIdle
  <1>2. ASSUME NEW j \in Task, Live(j)' PROVE cancelled'[j]
    <2>1. Live(j)
      BY <1>2, Gone DEF Live, Actor
    <2>2. cancelled[j] \/ (scheduler # None /\ owned[scheduler] = j)
      BY <2>1 DEF Schedules, StoppedIsEmpty, OnlyOwnerTicks, Ticking
    <2> QED BY <2>2, Zenon DEF StoppedTasks
  <1> QED BY <1>1, <1>2 DEF OwnerTicks, OnlyOwnerTicks, Ticking

(* stop() lets go of the scheduler and the track together.                 *)
LEMMA StopSchedules == ASSUME TypeOK, Schedules, NEW a \in Actor, Stop(a) PROVE Schedules'
  <1>1. StoppedIsEmpty'
    BY DEF Stop, StoppedIsEmpty
  <1> QED BY <1>1, StoppedSchedules DEF Stop, Schedules, Live

(* pause() keeps both.                                                     *)
LEMMA PauseSchedules == ASSUME TypeOK, Schedules, NEW t \in Thread, Pause(t) PROVE Schedules'
  <1>1. CASE state = "playing"
    <2>1. state' = "paused" /\ UNCHANGED <<current, scheduler>>
      BY <1>1 DEF Pause
    <2>2. StoppedIsEmpty'
      BY <1>1, <2>1 DEF Schedules, StoppedIsEmpty
    <2> QED BY <1>1, <2>1, <2>2, StoppedSchedules DEF Pause, Schedules, Live, Actor
  <1>2. CASE state # "playing"
    BY <1>2, PlayerAssumption, Gone, SameSchedules DEF Pause, schedVars, Live, Actor
  <1> QED BY <1>1, <1>2

(* resume() gives the scheduler, which has no task, a new one.             *)
LEMMA ResumeSchedules == ASSUME TypeOK, Schedules, NEW t \in Thread, ResumePlay(t) PROVE Schedules'
  <1>1. CASE state = "paused"
    <2>1. PICK k \in FreeTask :
            /\ Started(scheduler, k, running, owned, cancelled)
            /\ pc' = [pc EXCEPT ![t] = "idle", ![k] = "loop"]
      BY <1>1 DEF ResumePlay
    <2>2. state' = "playing" /\ UNCHANGED <<current, scheduler>>
      BY <1>1 DEF ResumePlay
    <2>3. /\ scheduler \in Scheduler /\ k \in Task /\ pc[k] = "idle" /\ k # t
      BY <1>1, PlayerAssumption
         DEF FreeTask, Live, Schedules, StoppedIsEmpty, TypeOK, PlayerType
    <2>4. StoppedIsEmpty'
      BY <1>1, <2>2 DEF Schedules, StoppedIsEmpty
    <2>5. /\ owned'[scheduler] = k /\ home'[k] = scheduler
          /\ \A r \in Scheduler \ {scheduler} : owned'[r] = None
      BY <1>1, <2>1, <2>3 DEF Started, Schedules, OthersIdle, TypeOK, TaskType
    <2>6. running'[scheduler] /\ ~cancelled'[k]
      BY <2>1, <2>3, Zenon DEF Started, TypeOK, TaskType
    <2>7. pc'[k] = "loop" /\ \A j \in Task \ {k} : pc'[j] = pc[j]
      BY <2>1, <2>3, PlayerAssumption DEF TypeOK, ActorType, Actor
    <2>8. \A j \in Task \ {k} : Live(j) => cancelled'[j]
      <3>1. \A j \in Task \ {k} : Live(j) => cancelled[j]
        BY <1>1 DEF Schedules, OnlyOwnerTicks, Ticking
      <3> QED BY <2>1, <3>1, Zenon DEF Started, TypeOK, TaskType
    <2>9. OthersIdle'
      BY <2>2, <2>5 DEF OthersIdle
    <2>10. OwnerTicks'
      BY <2>2, <2>3, <2>5, <2>6, <2>7 DEF OwnerTicks, Ticking, Live
    <2>11. OnlyOwnerTicks'
      BY <2>2, <2>5, <2>7, <2>8 DEF OnlyOwnerTicks, Ticking, Live
    <2> QED BY <2>4, <2>9, <2>10, <2>11 DEF Schedules
  <1>2. CASE state # "paused"
    <2>1. \A k \in Task : pc'[k] = pc[k]
      BY <1>2, PlayerAssumption DEF ResumePlay, TypeOK, ActorType, Actor
    <2> QED BY <1>2, <2>1, SameSchedules DEF ResumePlay, schedVars, Live
  <1> QED BY <1>1, <1>2

(* A step of a tick or of the queue leaves the player alone, and its actor *)
(* alive.                                                                  *)
LEMMA UnlockedSchedules ==
  ASSUME TypeOK, Schedules, NEW a \in Actor,
         \/ Tick(a) \/ Read(a) \/ Ended(a) \/ Finish(a)
         \/ Advance(a) \/ Skip(a) \/ WriteIndex(a) \/ Look(a)
  PROVE  Schedules'
  <1>1. UNCHANGED <<state, current, schedVars>>
    BY DEF Tick, Read, Ended, Finish, Advance, Skip, Captures, WriteIndex, Look
  <1>2. /\ pc[a] # "idle"
        /\ \E p \in Place \ {"idle"} : \E x : Goes(a, p, x)
    BY DEF Tick, Read, Ended, Finish, Advance, Skip, Captures, WriteIndex, Look, Place
  <1>3. \A k \in Task : Live(k)' <=> Live(k)
    BY <1>2, Gone DEF Live, Actor
  <1> QED BY <1>1, <1>3, SameSchedules

(* A call only moves a thread.                                             *)
LEMMA CallSchedules ==
  ASSUME TypeOK, Schedules, NEW t \in Thread, Application(t) \/ Reset(t)
  PROVE  Schedules'
  <1>1. UNCHANGED <<state, current, schedVars>>
    BY DEF Application, Reset, Play, PlayQueue, CallSkip, CallStateful, CallQueue
  <1>2. \A k \in Task : pc'[k] = pc[k]
    BY PlayerAssumption DEF Application, Reset, Play, PlayQueue, CallSkip, CallStateful, CallQueue,
                            Goes, TypeOK, ActorType, Actor
  <1> QED BY <1>1, <1>2, SameSchedules DEF Live

(* Every step keeps Schedules.                                             *)
LEMMA NextSchedules == TypeOK /\ Schedules /\ InHand /\ [Next]_vars => Schedules'
  <1> SUFFICES ASSUME TypeOK, Schedules, InHand, [Next]_vars PROVE Schedules'
    OBVIOUS
  <1>1. CASE UNCHANGED vars
    BY <1>1, SameSchedules DEF vars, schedVars, Live
  <1>2. ASSUME NEW k \in Task, TaskStep(k) PROVE Schedules'
    BY <1>2, LoopSchedules, UnlockedSchedules, StartSchedules, StopSchedules DEF TaskStep, Step, Actor
  <1>3. ASSUME NEW t \in Thread, ThreadStep(t) PROVE Schedules'
    BY <1>3, PauseSchedules, ResumeSchedules, CallSchedules, UnlockedSchedules, StartSchedules,
       StopSchedules DEF ThreadStep, Step, Actor
  <1> QED BY <1>1, <1>2, <1>3, CallSchedules DEF Next

-----------------------------------------------------------------------------
(* What an actor has in hand.                                              *)

(* An actor that goes somewhere with the right track, while no source gets *)
(* longer: what the others have in hand is still right.                    *)
LEMMA GoneInHand ==
  ASSUME TypeOK, InHand, NEW a \in Actor, NEW p, NEW x, Goes(a, p, x),
         \A b \in Track : frames[b] = 0 => frames'[b] = 0,
         p \in {"start", "read", "ended"} => x # None,
         p = "ended" => frames'[x] = 0
  PROVE  InHand'
  <1>1. ASSUME NEW b \in Actor \ {a}, pc[b] = "ended" PROVE frames'[held[b]] = 0
    <2>1. held[b] \in Track
      BY <1>1 DEF InHand, TypeOK, ActorType
    <2> QED BY <1>1, <2>1 DEF InHand
  <1> QED BY <1>1, Gone DEF InHand

(* Every step keeps InHand.                                                *)
LEMMA NextInHand == TypeOK /\ InHand /\ [Next]_vars => InHand'
  <1> SUFFICES ASSUME TypeOK, InHand, [Next]_vars PROVE InHand'
    OBVIOUS
  <1>1. CASE UNCHANGED vars
    BY <1>1 DEF vars, InHand
  <1>2. ASSUME NEW a \in Actor, StartTrack(a) PROVE InHand'
    <2>1. PICK k \in FreeTask : pc' = [pc EXCEPT ![a] = Rest(a), ![k] = "loop"]
      BY <1>2 DEF StartTrack
    <2>2. \A b \in Actor : pc'[b] \in {"idle", "loop"} \/ (b # a /\ pc'[b] = pc[b])
      BY <2>1 DEF Rest, TypeOK, ActorType
    <2>3. \A b \in Actor \ {a} : held'[b] = held[b]
      BY <1>2 DEF StartTrack, TypeOK, ActorType
    <2> QED BY <1>2, <2>2, <2>3 DEF InHand, StartTrack
  <1>3. ASSUME NEW a \in Actor, ResumePlay(a) PROVE InHand'
    <2>1. \A b \in Actor : pc'[b] \in {"idle", "loop"} \/ pc'[b] = pc[b]
      <3>1. CASE state = "paused"
        BY <1>3, <3>1 DEF ResumePlay, TypeOK, ActorType
      <3>2. CASE state # "paused"
        BY <1>3, <3>2 DEF ResumePlay, TypeOK, ActorType
      <3> QED BY <3>1, <3>2
    <2> QED BY <1>3, <2>1 DEF InHand, ResumePlay
  <1>4. ASSUME NEW a \in Actor,
               Loop(a) \/ Tick(a) \/ Finish(a) \/ Stop(a) \/ Pause(a) \/ Advance(a) \/ Skip(a)
                 \/ WriteIndex(a) \/ Look(a)
        PROVE InHand'
    <2>1. UNCHANGED frames
      BY <1>4 DEF Loop, Tick, Finish, Stop, Pause, Advance, Skip, Captures, WriteIndex, Look
    <2>2. \E p \in Place \ {"ended"} : \E x :
             Goes(a, p, x) /\ (p \in {"start", "read"} => x # None)
      BY <1>4 DEF Loop, Tick, Finish, Stop, Pause, Advance, Skip, Captures, WriteIndex, Look, Rest, Place
    <2> QED BY <2>1, <2>2, GoneInHand
  <1>5. ASSUME NEW a \in Actor, Read(a) PROVE InHand'
    <2>1. held[a] \in Track
      BY <1>5 DEF Read, InHand, TypeOK, ActorType
    <2>2. \A b \in Track : frames[b] = 0 => frames'[b] = 0
      BY <1>5, <2>1 DEF Read, TypeOK, PlayerType
    <2>3. CASE frames[held[a]] > 0
      BY <1>5, <2>2, <2>3, GoneInHand DEF Read
    <2>4. CASE ~(frames[held[a]] > 0)
      <3>1. frames'[held[a]] = 0 /\ Goes(a, "ended", held[a])
        BY <1>5, <2>1, <2>4 DEF Read, TypeOK, PlayerType
      <3> QED BY <2>1, <2>2, <3>1, NoneIsNoTrack, GoneInHand
    <2> QED BY <2>3, <2>4
  <1>6. ASSUME NEW a \in Actor, Ended(a) PROVE InHand'
    BY <1>6, GoneInHand DEF Ended
  <1>7. ASSUME NEW t \in Thread, Application(t) \/ Reset(t) PROVE InHand'
    <2>1. UNCHANGED frames /\ t \in Actor
      BY <1>7 DEF Application, Reset, Play, PlayQueue, CallSkip, CallStateful, CallQueue, Actor
    <2>2. CASE \E p \in Place \ {"ended", "read"}, x \in Track \cup {None} :
                  Goes(t, p, x) /\ (p = "start" => x # None)
      BY <2>1, <2>2, GoneInHand
    <2>3. CASE UNCHANGED held /\ \A b \in Actor : pc'[b] \in {"idle", "reset"} \/ pc'[b] = pc[b]
      BY <2>1, <2>3 DEF InHand
    <2>4. ASSUME Play(t) \/ PlayQueue(t) \/ CallSkip(t) \/ CallStateful(t) PROVE InHand'
      BY <2>1, <2>2, <2>3, <2>4, NoneIsNoTrack DEF Play, PlayQueue, CallSkip, CallStateful, Place
    <2>5. ASSUME CallQueue(t) \/ Reset(t) PROVE InHand'
      BY <2>1, <2>3, <2>5 DEF CallQueue, Reset, TypeOK, ActorType
    <2> QED BY <1>7, <2>4, <2>5 DEF Application
  <1> QED BY <1>1, <1>2, <1>3, <1>4, <1>5, <1>6, <1>7 DEF Next, TaskStep, ThreadStep, Step, Actor

-----------------------------------------------------------------------------
(* What has been reported finished.                                        *)

(* A track is finished at its end, and a source does not get longer.       *)
LEMMA NextFinished ==
  TypeOK /\ InHand /\ FinishedMeansPlayedOut /\ [Next]_vars => FinishedMeansPlayedOut'
  <1> SUFFICES ASSUME TypeOK, InHand, FinishedMeansPlayedOut, [Next]_vars
               PROVE  FinishedMeansPlayedOut'
    OBVIOUS
  <1>1. CASE UNCHANGED vars
    BY <1>1 DEF vars, history, FinishedMeansPlayedOut
  <1>2. ASSUME NEW k \in Task, Ended(k) PROVE FinishedMeansPlayedOut'
    BY <1>2 DEF Ended, InHand, Actor, FinishedMeansPlayedOut
  <1>3. ASSUME NEW k \in Task, Read(k) PROVE FinishedMeansPlayedOut'
    <2>1. held[k] \in Track /\ UNCHANGED <<current, finished>>
      BY <1>3 DEF Read, InHand, TypeOK, ActorType, Actor, history
    <2>2. \A b \in Track : frames[b] = 0 => frames'[b] = 0
      BY <1>3, <2>1 DEF Read, TypeOK, PlayerType
    <2> QED BY <2>1, <2>2 DEF FinishedMeansPlayedOut, TypeOK, PlayerType
  <1>4. ASSUME NEW a \in Actor, StartTrack(a) \/ Stop(a) PROVE FinishedMeansPlayedOut'
    BY <1>4 DEF StartTrack, Stop, FinishedMeansPlayedOut
  <1>5. ASSUME NEW a \in Actor,
               \/ Loop(a) \/ Tick(a) \/ Finish(a) \/ Pause(a) \/ ResumePlay(a)
               \/ Advance(a) \/ Skip(a) \/ WriteIndex(a) \/ Look(a)
               \/ Application(a) \/ Reset(a)
        PROVE FinishedMeansPlayedOut'
    <2>1. UNCHANGED <<finished, current, frames>>
      BY <1>5 DEF Loop, Tick, Finish, Pause, ResumePlay, Advance, Skip, Captures, WriteIndex, Look,
                  Reset, Application, Play, PlayQueue, CallSkip, CallStateful, CallQueue, history
    <2> QED BY <2>1 DEF FinishedMeansPlayedOut
  <1> QED BY <1>1, <1>2, <1>3, <1>4, <1>5 DEF Next, TaskStep, ThreadStep, Step, Actor

-----------------------------------------------------------------------------
(* The theorems.                                                           *)

(* Initially the player is stopped and empty.                              *)
LEMMA InitIInv == Init => IInv
  <1> SUFFICES ASSUME Init PROVE IInv
    OBVIOUS
  <1>1. QueueType /\ PlayerType /\ TaskType
    <2>1. frames \in [Track -> Nat]
      BY PlayerAssumption DEF Init
    <2>2. QueueType
      BY DEF Init, QueueInit, QueueType, LoopMode
    <2>3. PlayerType
      BY <2>1 DEF Init, PlayerType, PlayerState
    <2>4. TaskType
      BY Zenon DEF Init, TaskType
    <2> QED BY <2>2, <2>3, <2>4
  <1>2. ActorType
    BY DEF Init, ActorType, Place, Nothing, Move
  <1>3. Schedules
    BY PlayerAssumption DEF Init, Schedules, StoppedIsEmpty, OthersIdle, OwnerTicks, OnlyOwnerTicks,
                            Ticking, Live, Actor
  <1>4. InHand /\ FinishedMeansPlayedOut
    BY DEF Init, InHand, FinishedMeansPlayedOut
  <1> QED BY <1>1, <1>2, <1>3, <1>4 DEF IInv, TypeOK

(* The invariant holds throughout.                                         *)
THEOREM Invariance == Spec => []IInv
  <1>1. IInv /\ [Next]_vars => IInv'
    BY NextType, NextSchedules, NextInHand, NextFinished DEF IInv
  <1> QED BY <1>1, InitIInv, PTL DEF Spec

(* Every variable keeps its type.                                          *)
THEOREM TypeCorrect == Spec => []TypeOK
  <1>1. IInv => TypeOK
    BY DEF IInv
  <1> QED BY <1>1, Invariance, PTL

(* One task at most ticks, and the player's stop or pause will cancel it.  *)
THEOREM NeverTwoTickers == Spec => []OneTicker
  <1>1. IInv => OneTicker
    BY DEF IInv, Schedules, StoppedIsEmpty, OnlyOwnerTicks, OneTicker
  <1> QED BY <1>1, Invariance, PTL

(* The player says playing exactly while a task ticks.                     *)
THEOREM PlaysWhilePlaying == Spec => []PlayingTicks
  <1>1. IInv => PlayingTicks
    BY DEF IInv, Schedules, OwnerTicks, OnlyOwnerTicks, PlayingTicks
  <1> QED BY <1>1, Invariance, PTL

(* A track is held exactly until the player is stopped.                    *)
THEOREM TrackUntilStopped == Spec => []TrackHeld
  <1>1. IInv => TrackHeld
    BY DEF IInv, Schedules, StoppedIsEmpty, TrackHeld
  <1> QED BY <1>1, Invariance, PTL

(* What is reported finished has been played out.                          *)
THEOREM FinishedAtTheEnd == Spec => []FinishedMeansPlayedOut
  <1>1. IInv => FinishedMeansPlayedOut
    BY DEF IInv
  <1> QED BY <1>1, Invariance, PTL
=============================================================================
