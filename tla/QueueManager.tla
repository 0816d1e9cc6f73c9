---------------------------- MODULE QueueManager ----------------------------
(***************************************************************************)
(* The play queue (Sources/Voice/QueueManager.swift): a list of tracks, an *)
(* index into it and a loop mode, each under a lock of its own.  The index *)
(* is the code's, counted from 0; on a list of n tracks, n means "at the   *)
(* end" and nothing keeps the index from growing beyond n.                 *)
(*                                                                         *)
(* advance() and skip() are cut where they let go of a lock: they read     *)
(* mode and list (Seen), then write the index (IndexAfter), then read list *)
(* and index for the current track.  The two reads of Seen are one step.   *)
(***************************************************************************)
EXTENDS Integers, Sequences

CONSTANTS Track, None

ASSUME NoneIsNoTrack == None \notin Track

VARIABLES
  list,   \* the tracks
  index,  \* currentIndex
  mode    \* loopMode

queueVars == <<list, index, mode>>

LoopMode == {"off", "track", "queue"}

QueueInit == list = <<>> /\ index = 0 /\ mode = "off"

(* currentTrack: None for an index outside the list.                       *)
CurrentOf(tracks, i) == IF i \in 0 .. Len(tracks) - 1 THEN tracks[i + 1] ELSE None

CurrentInList == CurrentOf(list, index)

(* What advance() or skip() will do to the index, decided on the mode and  *)
(* the list it reads first: nothing at all for an empty list, stay, one    *)
(* on, or one on with a wrap at the count seen now.                        *)
Move == {"none", "stay", "on", "wrap"}

SeenByAdvance ==
  [count |-> Len(list),
   move |-> IF list = <<>> THEN "none"
            ELSE CASE mode = "track" -> "stay"
                   [] mode = "queue" -> "wrap"
                   [] mode = "off"   -> "on"]

SeenBySkip ==
  [count |-> Len(list),
   move |-> IF list = <<>> THEN "none" ELSE IF mode = "queue" THEN "wrap" ELSE "on"]

IndexAlwaysWraps(seen) ==  \* mutant: the end of the list is the end of a loop
  IF seen.move \in {"on", "wrap"} THEN IF index + 1 >= seen.count THEN 0 ELSE index + 1
  ELSE index

IndexAfter(seen) ==
  CASE seen.move = "on"   -> index + 1
    [] seen.move = "wrap" -> IF index + 1 >= seen.count THEN 0 ELSE index + 1
    [] seen.move \in {"stay", "none"} -> index

-----------------------------------------------------------------------------
(* The calls an application makes on the queue itself.                     *)

Enqueue(x) == list' = Append(list, x) /\ UNCHANGED <<index, mode>>

ClearList == list' = <<>> /\ UNCHANGED <<index, mode>>  \* clear, then
ResetIndex == index' = 0 /\ UNCHANGED <<list, mode>>    \* its second lock

SetLoopMode(m) == mode' = m /\ UNCHANGED <<list, index>>

(* setIndex refuses an index outside the list it saw.                      *)
SetIndex(i) == i \in 0 .. Len(list) - 1 /\ index' = i /\ UNCHANGED <<list, mode>>
=============================================================================
