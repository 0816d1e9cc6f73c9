------------------------- MODULE MCReconnectManager -------------------------
(***************************************************************************)
(* The two parts of the gateway that keep time: ReconnectManager with      *)
(* two timers, HeartbeatManager with two connections and one more thread.  *)
(* They share no lock and no task, so their interleavings add nothing: a   *)
(* behaviour runs one of them and leaves the other as it began.            *)
(***************************************************************************)
EXTENDS ReconnectManager, HeartbeatManager

CONSTANTS k1, k2, c1, c2
MCTimer == {k1, k2}
MCConnection == {c1, c2}

VARIABLE part
MCInit == Init /\ HeartbeatInit /\ part \in {"reconnect", "heartbeat"}

(* Nothing more is claimed of heartbeats once threads have met, and nothing *)
(* can happen to them after the last connection.                            *)
Over == met \/ (line = "closed" /\ dialled = Connection)

MCNext ==
  \/ part = "reconnect" /\ Next /\ UNCHANGED <<beatVars, part>>
  \/ part = "heartbeat" /\ ~Over /\ HeartbeatNext /\ UNCHANGED <<vars, part>>

MCSpec ==
  /\ MCInit /\ [][MCNext]_<<vars, beatVars, part>>
  /\ \/ part = "reconnect" /\ Fairness
     \/ part = "heartbeat" /\ HeartbeatFairness
=============================================================================
