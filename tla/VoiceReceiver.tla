---------------------------- MODULE VoiceReceiver ----------------------------
(***************************************************************************)
(* VoiceReceiver (Sources/Voice/VoiceReceiver.swift) with the jitter       *)
(* buffers it creates, for the SSRCs of one user.  Every packet is a task  *)
(* of its own; removeUser runs in the gateway's event handler and takes    *)
(* one lock after the other; a buffer's dispatch loop runs from the packet *)
(* that fills it to its stop().  JitterBuffer is what a buffer does with   *)
(* its packets; here it is only how full it is and whether its loop runs.  *)
(***************************************************************************)
EXTENDS Naturals

CONSTANTS
  Ssrc,
  Packet,    \* slots for packet tasks: an ended task's is used again
  Buffer,    \* jitter buffers that are ever created
  None,
  Depth,     \* bufferDepth
  MaxPackets \* bound: packets that arrive

ASSUME ReceiverAssumption ==
  None \notin Buffer \cup Ssrc /\ Depth \in Nat \ {0} /\ MaxPackets \in Nat

VARIABLES
  mapped,   \* SSRCs in the gateway's ssrcToUserIdLock, all of this user
  table,    \* jitterBuffers
  decoders, \* SSRCs that have a decoder
  pc, ssrc, \* of each packet task
  target,   \* of each packet task: the buffer it was given
  of,       \* of each buffer: its SSRC, None before it is created
  filled,   \* of each buffer: packets before it starts
  looping,  \* of each buffer: its dispatch loop runs
  stopping, \* buffers whose stop() is a task that has not run yet
  remover,  \* removeUser
  arrived,  \* packets arrived
  removed,  \* history: removeUser has been called
  raced     \* history: a packet was handled while removeUser ran or later

packetVars == <<pc, ssrc, target>>
bufferVars == <<of, filled, looping>>
vars == <<mapped, table, decoders, packetVars, bufferVars, stopping, remover,
          arrived, removed, raced>>

Init ==
  /\ mapped = {} /\ table = [s \in Ssrc |-> None] /\ decoders = {}
  /\ pc = [p \in Packet |-> "idle"] /\ ssrc = [p \in Packet |-> None]
  /\ target = [p \in Packet |-> None]
  /\ of = [b \in Buffer |-> None] /\ filled = [b \in Buffer |-> 0]
  /\ looping = [b \in Buffer |-> FALSE]
  /\ stopping = {} /\ remover = "idle"
  /\ arrived = 0 /\ removed = FALSE /\ raced = FALSE

-----------------------------------------------------------------------------
(* The gateway maps an SSRC when it speaks and never takes it back; its    *)
(* event handler also runs removeUser, so the two do not overlap.          *)
Speaking(s) ==
  /\ remover = "idle"
  /\ mapped' = mapped \cup {s}
  /\ UNCHANGED <<table, decoders, packetVars, bufferVars, stopping, remover,
                 arrived, removed, raced>>

(* handleIncomingPacket: a task; parsing and the user of its SSRC; the     *)
(* decryption, which may suspend it; the buffer; the actor's push.         *)
Arrive(p, s) ==
  /\ pc[p] = "idle" /\ arrived < MaxPackets /\ arrived' = arrived + 1
  /\ pc' = [pc EXCEPT ![p] = "lookup"] /\ ssrc' = [ssrc EXCEPT ![p] = s]
  /\ raced' = (raced \/ removed)
  /\ UNCHANGED <<mapped, table, decoders, target, bufferVars, stopping, remover, removed>>

Lookup(p) ==
  /\ pc[p] = "lookup"
  /\ pc' = [pc EXCEPT ![p] = IF ssrc[p] \in mapped THEN "decrypt" ELSE "idle"]
  /\ UNCHANGED <<mapped, table, decoders, ssrc, target, bufferVars, stopping, remover,
                 arrived, removed, raced>>

DecryptFails(p) ==
  /\ pc[p] = "decrypt" /\ pc' = [pc EXCEPT ![p] = "idle"]
  /\ UNCHANGED <<mapped, table, decoders, ssrc, target, bufferVars, stopping, remover,
                 arrived, removed, raced>>

(* getOrCreateJitterBuffer, under its lock.                                *)
GetOrCreateFresh(p) ==  \* mutant: only a buffer that still fills up is taken
  /\ pc[p] = "decrypt" /\ pc' = [pc EXCEPT ![p] = "push"]
  /\ IF table[ssrc[p]] # None /\ ~looping[table[ssrc[p]]]
     THEN target' = [target EXCEPT ![p] = table[ssrc[p]]] /\ UNCHANGED <<table, of>>
     ELSE \E b \in Buffer :
            /\ of[b] = None /\ of' = [of EXCEPT ![b] = ssrc[p]]
            /\ table' = [table EXCEPT ![ssrc[p]] = b]
            /\ target' = [target EXCEPT ![p] = b]
  /\ UNCHANGED <<mapped, decoders, ssrc, filled, looping, stopping, remover,
                 arrived, removed, raced>>

GetOrCreate(p) ==
  /\ pc[p] = "decrypt" /\ pc' = [pc EXCEPT ![p] = "push"]
  /\ IF table[ssrc[p]] # None
     THEN target' = [target EXCEPT ![p] = table[ssrc[p]]] /\ UNCHANGED <<table, of>>
     ELSE \E b \in Buffer :
            /\ of[b] = None /\ of' = [of EXCEPT ![b] = ssrc[p]]
            /\ table' = [table EXCEPT ![ssrc[p]] = b]
            /\ target' = [target EXCEPT ![p] = b]
  /\ UNCHANGED <<mapped, decoders, ssrc, filled, looping, stopping, remover,
                 arrived, removed, raced>>

Push(p) ==
  /\ pc[p] = "push" /\ pc' = [pc EXCEPT ![p] = "idle"]
  /\ LET b == target[p] IN
       /\ filled' = [filled EXCEPT ![b] = IF looping[b] THEN @ ELSE @ + 1]
       /\ looping' = [looping EXCEPT ![b] = @ \/ filled[b] + 1 >= Depth]
  /\ target' = [target EXCEPT ![p] = None]
  /\ UNCHANGED <<mapped, table, decoders, ssrc, of, stopping, remover, arrived, removed, raced>>

(* A frame of a running loop, a packet or the lack of one: the callback    *)
(* gets or creates the decoder of the buffer's SSRC.                       *)
Dispatch(b) ==
  /\ looping[b] /\ decoders' = decoders \cup {of[b]}
  /\ UNCHANGED <<mapped, table, packetVars, bufferVars, stopping, remover,
                 arrived, removed, raced>>

-----------------------------------------------------------------------------
(* removeUser, once: the decoders, then the buffers, whose stop() is left  *)
(* to a task each.                                                         *)
RemoveDecoders ==
  /\ remover = "idle" /\ ~removed /\ remover' = "buffers" /\ removed' = TRUE
  /\ decoders' = decoders \ mapped
  /\ raced' = (raced \/ \E p \in Packet : pc[p] # "idle")
  /\ UNCHANGED <<mapped, table, packetVars, bufferVars, stopping, arrived>>

RemoveBuffersUnstopped ==  \* mutant: a buffer that is dropped is not stopped
  /\ remover = "buffers" /\ remover' = "idle"
  /\ table' = [s \in Ssrc |-> IF s \in mapped THEN None ELSE table[s]]
  /\ UNCHANGED <<mapped, decoders, packetVars, bufferVars, stopping, arrived, removed, raced>>

RemoveBuffers ==
  /\ remover = "buffers" /\ remover' = "idle"
  /\ stopping' = stopping \cup ({table[s] : s \in mapped} \ {None})
  /\ table' = [s \in Ssrc |-> IF s \in mapped THEN None ELSE table[s]]
  /\ UNCHANGED <<mapped, decoders, packetVars, bufferVars, arrived, removed, raced>>

StopBuffer(b) ==
  /\ b \in stopping /\ stopping' = stopping \ {b}
  /\ filled' = [filled EXCEPT ![b] = 0] /\ looping' = [looping EXCEPT ![b] = FALSE]
  /\ UNCHANGED <<mapped, table, decoders, packetVars, of, remover, arrived, removed, raced>>

Next ==
  \/ \E s \in Ssrc : Speaking(s) \/ \E p \in Packet : Arrive(p, s)
  \/ \E p \in Packet : Lookup(p) \/ DecryptFails(p) \/ GetOrCreate(p) \/ Push(p)
  \/ \E b \in Buffer : Dispatch(b) \/ StopBuffer(b)
  \/ RemoveDecoders \/ RemoveBuffers

Spec == Init /\ [][Next]_vars

-----------------------------------------------------------------------------
(* Properties.                                                             *)

(* Every variable has its type.                                            *)
TypeOK ==
  /\ mapped \subseteq Ssrc /\ table \in [Ssrc -> Buffer \cup {None}] /\ decoders \subseteq Ssrc
  /\ pc \in [Packet -> {"idle", "lookup", "decrypt", "push"}]
  /\ ssrc \in [Packet -> Ssrc \cup {None}] /\ target \in [Packet -> Buffer \cup {None}]
  /\ of \in [Buffer -> Ssrc \cup {None}] /\ filled \in [Buffer -> 0 .. Depth]
  /\ looping \in [Buffer -> BOOLEAN] /\ stopping \subseteq Buffer
  /\ remover \in {"idle", "buffers"} /\ arrived \in 0 .. MaxPackets
  /\ removed \in BOOLEAN /\ raced \in BOOLEAN

(* Until the user is removed, and however many of its packets are handled  *)
(* at a time, an SSRC has one buffer: two loops would feed one decoder.    *)
OneLoopPerSsrc ==
  ~removed => \A b, c \in Buffer : looping[b] /\ looping[c] /\ of[b] = of[c] => b = c

(* removeUser leaves no buffer behind and, once the stop tasks have run,   *)
(* no loop, if no packet of the user was being handled meanwhile.          *)
RemovalStopsLoops ==
  removed /\ remover = "idle" /\ ~raced =>
    \A b \in Buffer : looping[b] => b \in stopping \/ of[b] \notin mapped

-----------------------------------------------------------------------------
(* What a message in the code says and the code does not do.               *)

Quiescent == removed /\ remover = "idle" /\ stopping = {} /\ \A p \in Packet : pc[p] = "idle"

(* VoiceReceiver.swift:123 "Cleaned up decoder and jitter buffer state for *)
(* user": when removeUser and everything it started are done, no loop runs *)
(* for the user.                                                           *)
LoopsCleanedUp == Quiescent => \A b \in Buffer : ~looping[b]

(* The same of the decoders.                                               *)
DecodersCleanedUp == Quiescent /\ ~raced => decoders \cap mapped = {}
=============================================================================
