--------------------------- MODULE MCVoiceReceiver ---------------------------
(***************************************************************************)
(* The two directions of a client's audio: VoiceReceiver with a user of    *)
(* two SSRCs and two packets at a time, VoiceTransporter with two frames   *)
(* at a time and a call that starts or stops speaking.  They share no lock *)
(* and no task, so their interleavings add nothing: a behaviour runs one   *)
(* of them and leaves the other as it began.                               *)
(***************************************************************************)
EXTENDS VoiceReceiver, VoiceTransporter, TLC

CONSTANTS x, y, p1, p2, b1, b2, b3, b4, f1, f2, k1
MCSsrc == {x, y}
MCPacket == {p1, p2}
MCBuffer == {b1, b2, b3, b4}
MCSender == {f1, f2}
MCSymmetry == Permutations(MCSsrc) \cup Permutations(MCPacket) \cup Permutations(MCSender)

VARIABLE part
MCInit == Init /\ TransporterInit /\ part \in {"receive", "send"}

MCNext ==
  \/ part = "receive" /\ Next /\ UNCHANGED <<sendVars, part>>
  \/ part = "send" /\ TransporterNext /\ UNCHANGED <<vars, part>>

MCSpec == MCInit /\ [][MCNext]_<<vars, sendVars, part>>
=============================================================================
