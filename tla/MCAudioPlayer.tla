---------------------------- MODULE MCAudioPlayer ----------------------------
(* AudioPlayer with two threads, two tracks, and two slots for tasks and   *)
(* for schedulers.                                                         *)
EXTENDS AudioPlayer, TLC

CONSTANTS a, b, t1, t2, k1, k2, s1, s2

MCTrack == {a, b}
MCThread == {t1, t2}
MCTask == {k1, k2}
MCScheduler == {s1, s2}
=============================================================================
