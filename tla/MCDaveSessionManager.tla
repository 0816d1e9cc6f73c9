----------------------- MODULE MCDaveSessionManager -----------------------
(* Instances of DaveSessionManager for TLC.                                *)
EXTENDS DaveSessionManager
=============================================================================
