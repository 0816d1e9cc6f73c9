--------------------------- MODULE MCUDPConnection ---------------------------
(* UDPConnection closed by up to two threads of the gateway.               *)
EXTENDS UDPConnection, TLC

CONSTANTS g1, g2

MCOwner == {g1, g2}
MCSymmetry == Permutations(MCOwner)
=============================================================================
