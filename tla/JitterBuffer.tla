---------------------------- MODULE JitterBuffer ----------------------------
(***************************************************************************)
(* The jitter buffer of one SSRC (Sources/Voice/JitterBuffer.swift) between *)
(* a speaker, a network and the Opus decoder.  Time goes by in frames of   *)
(* 20 ms: the speaker sends at most one packet in each, and the dispatch   *)
(* loop, when it runs, hands out one frame at the end of each.  Packets    *)
(* are numbered from 1 as they are sent; what the code sees of a number is *)
(* its sequence, which wraps.                                              *)
(*                                                                         *)
(* buffer is a bag: the code keeps it sorted by Diff, but looks only for   *)
(* the first packet when it starts and for given sequences afterwards.     *)
(* The actor runs push, stop and a dispatch one at a time; a loop that was *)
(* cancelled in its sleep dispatches nothing, so one flag stands for the   *)
(* loops there may be.                                                     *)
(***************************************************************************)
EXTENDS Integers, Sequences, FiniteSets, Bags

CONSTANTS
  Modulus,    \* size of the sequence space: 65536 in the code
  Depth,      \* bufferDepth
  Overflow,   \* most packets held after a dispatch: bufferDepth * 5 in the code
  Base,       \* what the speaker's sequence starts from
  Silence,    \* may the speaker leave a frame out?
  MaxPacket,  \* bound: packets sent
  MaxDelay,   \* bound: frames a packet spends in the network, if it is not lost
  Copies,     \* bound: times the network delivers a packet
  MaxFrame    \* bound: frames of time

ASSUME JitterAssumption ==
  /\ {Modulus, Depth, Overflow, Copies} \subseteq Nat \ {0} /\ Modulus % 2 = 0
  /\ {Base, MaxPacket, MaxDelay, MaxFrame} \subseteq Nat /\ Silence \in BOOLEAN

VARIABLES
  buffer,       \* bag of packets
  expected,     \* expectedSequence, None when nil
  isBuffering,
  dispatching,  \* a dispatch loop is running
  now,          \* frames of time gone by
  sentAt,       \* of each packet: the frame it was sent in, None before
  spoke,        \* the speaker has sent its packet of this frame
  network,      \* packets under way, with copies
  delay,        \* history: how long the first copy of each packet took
  repeated,     \* history: a packet has come twice
  played,       \* history: the packets played, in order
  since,        \* history: how many were played before the last stop()
  missed        \* history: unheard packets dropped as late, younger than the first played since

actorVars == <<buffer, expected, isBuffering, dispatching>>
worldVars == <<now, sentAt, spoke, network, delay, repeated>>
jitterVars == <<actorVars, worldVars, played, since, missed>>

Packet == 1 .. MaxPacket
None == -1
Sequence(n) == (Base + n) % Modulus
Sent == {n \in Packet : sentAt[n] # None}
Next1 == 1 + (IF Sent = {} THEN 0 ELSE CHOOSE n \in Sent : \A m \in Sent : m <= n)

(* diff: the 16-bit difference, read as a signed number.                   *)
DiffUnsigned(s1, s2) == s1 - s2  \* mutant: the difference of two Ints
Diff(s1, s2) ==
  LET d == (s1 - s2) % Modulus IN IF d >= Modulus \div 2 THEN d - Modulus ELSE d

(* A packet that may be first in the sorted buffer.                        *)
First(b) ==
  {n \in BagToSet(b) : \A m \in BagToSet(b) : Diff(Sequence(n), Sequence(m)) <= 0}

(* BagCardinality, without its recursion: as many copies as there are.     *)
Count(b) == Cardinality(UNION {{n} \X (1 .. b[n]) : n \in BagToSet(b)})
OneOf(n) == SetToBag({n})
Only(b, S) == [n \in BagToSet(b) \cap S |-> b[n]]

JitterInit ==
  /\ buffer = EmptyBag /\ expected = None /\ isBuffering = TRUE /\ dispatching = FALSE
  /\ now = 0 /\ sentAt = [n \in Packet |-> None] /\ spoke = FALSE
  /\ network = EmptyBag /\ delay = [n \in Packet |-> None] /\ repeated = FALSE
  /\ played = <<>> /\ since = 0 /\ missed = {}

-----------------------------------------------------------------------------
(* The speaker and the network.                                            *)

Send ==
  /\ ~spoke /\ Next1 \in Packet
  /\ sentAt' = [sentAt EXCEPT ![Next1] = now] /\ spoke' = TRUE
  /\ \E c \in 0 .. Copies : network' = IF c = 0 THEN network
                                       ELSE network (+) [n \in {Next1} |-> c]
  /\ UNCHANGED <<actorVars, now, delay, repeated, played, since, missed>>

-----------------------------------------------------------------------------
(* The actor.                                                              *)

Push(n) ==
  /\ BagIn(n, network) /\ network' = network (-) OneOf(n)
  /\ delay' = [delay EXCEPT ![n] = IF @ = None THEN now - sentAt[n] ELSE @]
  /\ repeated' = (repeated \/ delay[n] # None)
  /\ buffer' = buffer (+) OneOf(n)
  /\ IF isBuffering /\ Count(buffer') >= Depth
     THEN /\ isBuffering' = FALSE /\ dispatching' = TRUE
          /\ \E f \in First(buffer') : expected' = Sequence(f)
     ELSE UNCHANGED <<isBuffering, dispatching, expected>>
  /\ UNCHANGED <<now, sentAt, spoke, played, since, missed>>

(* dispatchNextFrame on what it hands out, keeps and drops, and stop() if  *)
(* it still keeps too much.                                                *)
WantedFirst == First(buffer)  \* mutant: whatever is oldest
Wanted == {n \in BagToSet(buffer) : Sequence(n) = expected}

Kept(b) == Only(b, {n \in Packet : Diff(Sequence(n), expected) >= 0})

After(b, p) ==
  IF Count(b) > Overflow
  THEN /\ buffer' = EmptyBag /\ expected' = None
       /\ isBuffering' = TRUE /\ dispatching' = FALSE
       /\ since' = Len(p)
  ELSE /\ buffer' = b /\ expected' = (expected + 1) % Modulus
       /\ UNCHANGED <<isBuffering, dispatching, since>>

ElementsOf(p) == {p[i] : i \in 1 .. Len(p)}
Unheard(dropped, p) ==
  {n \in dropped \ ElementsOf(p) : Len(p) > since /\ n > p[since + 1]}

Dispatched(b, p) ==
  /\ After(Kept(b), p)
  /\ played' = p
  /\ missed' = missed \cup Unheard(BagToSet(b) \ BagToSet(Kept(b)), p)

DispatchNextFrame ==
  IF Wanted = {} THEN Dispatched(buffer, played)
  ELSE \E n \in Wanted : Dispatched(buffer (-) OneOf(n), Append(played, n))

(* A frame of time: the loop dispatches, if there is one, and what has     *)
(* been under way for too long is lost.                                    *)
Frame ==
  /\ now < MaxFrame /\ now' = now + 1
  /\ spoke \/ Silence \/ Next1 \notin Packet
  /\ spoke' = FALSE
  /\ network' = Only(network, {n \in Sent : now - sentAt[n] < MaxDelay})
  /\ IF dispatching THEN DispatchNextFrame ELSE UNCHANGED <<actorVars, played, since, missed>>
  /\ UNCHANGED <<sentAt, delay, repeated>>

JitterNext == Send \/ Frame \/ \E n \in Packet : Push(n)

JitterSpec == JitterInit /\ [][JitterNext]_jitterVars

-----------------------------------------------------------------------------
(* Properties.                                                             *)

(* Every variable has its type; a loop runs exactly while the buffer does  *)
(* not wait to fill up and knows what it expects.                          *)
JitterTypeOK ==
  /\ IsABag(buffer) /\ BagToSet(buffer) \subseteq Sent
  /\ expected \in {None} \cup 0 .. Modulus - 1
  /\ isBuffering \in BOOLEAN /\ dispatching = ~isBuffering
  /\ (expected = None) = isBuffering
  /\ now \in 0 .. MaxFrame /\ sentAt \in [Packet -> {None} \cup 0 .. MaxFrame]
  /\ spoke \in BOOLEAN /\ IsABag(network) /\ BagToSet(network) \subseteq Sent
  /\ delay \in [Packet -> {None} \cup 0 .. MaxDelay] /\ repeated \in BOOLEAN
  /\ played \in Seq(Packet) /\ since \in 0 .. Len(played) /\ missed \subseteq Packet

(* Whatever the network reorders, repeats or loses, and wherever the       *)
(* sequence wraps: from one filling of the buffer to the next, packets are *)
(* played in the order they were sent in and none is played twice.         *)
PlaysForward == \A i \in since + 2 .. Len(played) : played[i - 1] < played[i]

Paused == \E n, m \in Sent : m = n + 1 /\ sentAt[m] > sentAt[n] + 1

(* What the delay of Depth frames is for: as long as the speaker talks     *)
(* without a pause and no packet comes twice, a packet is missed only if   *)
(* it took at least Depth frames or is older than the first that was       *)
(* played.  (A repeated packet counts towards the filling of the buffer,   *)
(* which then starts a frame too early.)                                   *)
DelayAbsorbsJitter == ~Paused /\ ~repeated => \A n \in missed : delay[n] >= Depth

-----------------------------------------------------------------------------
(* What the documentation says and the code does not do.                   *)

(* Book/ADVANCED.md:25 knows only one loss, "a packet straight up          *)
(* disappears": of a speaker who may pause, too, every packet that comes   *)
(* within the delay is heard.                                              *)
HeardAfterPause == \A n \in missed : delay[n] >= Depth

(* Book/ADVANCED.md:24, "they play in perfect chronological order": also   *)
(* across an overflow, which starts the buffer afresh.                     *)
ForwardAcrossResets == \A i \in 2 .. Len(played) : played[i - 1] < played[i]
=============================================================================
