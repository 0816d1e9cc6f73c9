--------------------------- MODULE MCJitterBuffer ---------------------------
(* JitterBuffer with a small sequence space.                               *)
EXTENDS JitterBuffer
=============================================================================
