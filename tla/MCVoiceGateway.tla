--------------------------- MODULE MCVoiceGateway ---------------------------
(* Small instances of VoiceGateway for TLC.  Every run that declares a     *)
(* symmetry uses all the values the symmetry permutes.                     *)
EXTENDS VoiceGateway, TLC

CONSTANTS c1, c2, u1, u2, t1, t2, t3

MCConn == {c1, c2}
MCUdp == {u1, u2}
MCThread == {t1, t2, t3}
MCSymmetry == Permutations(MCConn) \cup Permutations(MCUdp) \cup Permutations(MCThread)
MCOneUdpSymmetry == Permutations(MCConn) \cup Permutations(MCThread)
=============================================================================
