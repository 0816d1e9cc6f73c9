------------------------- MODULE VoiceGatewayProofs -------------------------
(* What VoiceGateway guarantees for any number of connections, sockets,    *)
(* threads, calls and faults.                                              *)
EXTENDS VoiceGateway, TLAPS

(* A WebSocket that is being dialled has not delivered its Hello.          *)
DialsAnew == \A c \in Conn : ws[c] = "dialing" => c \notin greeted

IInv == TypeOK /\ DialsAnew /\ ReconnectNotAbandoned /\ TakenOnce /\ ResumeNeedsSession

-----------------------------------------------------------------------------
(* The thread records the actions build are of the right type.             *)
LEMMA AtType ==
  ASSUME NEW pc \in Pc
  PROVE  At(pc) \in ThreadState
  BY DEF At, Idle, ThreadState

(* So is the record of a thread with nothing to do.                        *)
LEMMA IdleType == Idle \in ThreadState
  BY DEF Idle, ThreadState, Pc

(* What a drop writes, the thread that handles it included, has its type.  *)
LEMMA DroppingType ==
  ASSUME TypeOK, NEW t \in Thread, NEW c \in Conn \cup {NoConn},
         NEW todo \in {"resume", "identify", "permanent"}, Dropping(t, todo, c)
  PROVE  thread' \in [Thread -> ThreadState] /\ beating' \in BOOLEAN
  BY DEF TypeOK, FieldType, ThreadType, Dropping, Goto, At, Idle, ThreadState, Pc

(* The same with the decision whether to resume.                           *)
LEMMA DroppedType ==
  ASSUME TypeOK, NEW t \in Thread, NEW c \in Conn \cup {NoConn},
         NEW why \in {"other", "invalid", "permanent"}, Dropped(t, why, c)
  PROVE  thread' \in [Thread -> ThreadState] /\ beating' \in BOOLEAN /\ resumePending' \in BOOLEAN
  <1>1. PICK todo \in {"resume", "identify", "permanent"} : Dropping(t, todo, c)
    BY DEF Dropped
  <1>2. resumePending' \in BOOLEAN
    BY DEF Dropped, TypeOK, FieldType
  <1> QED BY <1>1, <1>2, DroppingType

(* Closing a WebSocket keeps the types of the network's variables.         *)
LEMMA CloseType ==
  ASSUME TypeOK, NEW c \in Conn \cup {NoConn}, Close(c)
  PROVE  /\ ws' \in [Conn -> {"dialing", "open", "closed"}]
         /\ greeted' \subseteq Conn
         /\ srv' \in [Conn -> {"new", "identified", "readied", "selected", "resuming", "live"}]
  BY DEF TypeOK, NetType, Close

(* A new generation keeps the threads' type.                               *)
LEMMA AdvancedType ==
  ASSUME TypeOK
  PROVE  Advanced(thread) \in [Thread -> ThreadState]
  BY DEF TypeOK, ThreadType, Advanced, ThreadState

(* So does cancelling all tasks before it (cancelAllTasks).                *)
LEMMA CancelledType ==
  ASSUME TypeOK
  PROVE  Advanced(Cancelled) \in [Thread -> ThreadState]
  <1>1. Cancelled \in [Thread -> ThreadState]
    BY IdleType DEF TypeOK, ThreadType, Cancelled
  <1> QED BY <1>1 DEF Advanced, ThreadState

-----------------------------------------------------------------------------
(* Initially every variable has its type.                                  *)
LEMMA InitType == Init => TypeOK
  <1> SUFFICES ASSUME Init PROVE TypeOK
    OBVIOUS
  <1>1. FieldType
    BY DEF Init, FieldType, GatewayState
  <1>2. ThreadType
    BY IdleType DEF Init, ThreadType
  <1>3. NetType
    BY DEF Init, NetType
  <1>4. CountType
    BY BoundAssumption DEF Init, CountType
  <1>5. HistoryType
    BY DEF Init, HistoryType
  <1> QED BY <1>1, <1>2, <1>3, <1>4, <1>5 DEF TypeOK

(* Every step keeps every variable's type.                                 *)
LEMMA StepType ==
  ASSUME TypeOK, [Next]_vars
  PROVE  TypeOK'
  <1> USE BoundAssumption, TypeOK DEF TypeOK
  <1>1. ASSUME NEW t \in Thread, NEW op \in AllOps, Disconnect(t, op) PROVE TypeOK'
    <2>1. FieldType'
      BY <1>1 DEF Disconnect, GatewayState, FieldType
    <2>2. ThreadType'
      BY <1>1 DEF Disconnect, Goto, At, Idle, ThreadState, Pc, AllOps, ThreadType
    <2>3. NetType'
      BY <1>1 DEF Disconnect, netVars, NetType
    <2>4. CountType'
      BY <1>1 DEF Disconnect, Call, CountType
    <2>5. HistoryType'
      BY <1>1 DEF Disconnect, HistoryType
    <2> QED BY <2>1, <2>2, <2>3, <2>4, <2>5 DEF TypeOK
  <1>2. ASSUME NEW t \in Thread, UpdateServer(t) PROVE TypeOK'
    <2>1. FieldType'
      BY <1>2 DEF UpdateServer, Taken, GatewayState, FieldType
    <2>2. ThreadType'
      BY <1>2, CancelledType DEF UpdateServer, At, Idle, ThreadState, Pc, AllOps, FieldType, ThreadType
    <2>3. NetType'
      BY <1>2 DEF UpdateServer, netVars, NetType
    <2>4. CountType'
      BY <1>2 DEF UpdateServer, Call, CountType
    <2>5. HistoryType'
      BY <1>2 DEF UpdateServer, HistoryType
    <2> QED BY <2>1, <2>2, <2>3, <2>4, <2>5 DEF TypeOK
  <1>3. ASSUME NEW t \in Thread, HeartbeatTimeout(t) PROVE TypeOK'
    <2>1. FieldType'
      BY <1>3 DEF HeartbeatTimeout, FieldType
    <2>2. ThreadType'
      BY <1>3 DEF HeartbeatTimeout, Goto, At, Idle, ThreadState, Pc, ThreadType
    <2>3. NetType'
      BY <1>3 DEF HeartbeatTimeout, netVars, NetType
    <2>4. CountType'
      BY <1>3 DEF HeartbeatTimeout, Fault, CountType
    <2>5. HistoryType'
      BY <1>3 DEF HeartbeatTimeout, history, HistoryType
    <2> QED BY <2>1, <2>2, <2>3, <2>4, <2>5 DEF TypeOK
  <1>4. ASSUME NEW t \in Thread, DisconnectCut(t) PROVE TypeOK'
    <2>1. FieldType'
      BY <1>4 DEF DisconnectCut, Taken, FieldType
    <2>2. ThreadType'
      <3>1. [thread[t] EXCEPT !.pc = "closeConn", !.conn = conn] \in ThreadState
        BY DEF FieldType, ThreadType, ThreadState, Pc
      <3> QED BY <1>4, <3>1, CancelledType DEF DisconnectCut, ThreadType
    <2>3. NetType'
      BY <1>4 DEF DisconnectCut, netVars, NetType
    <2>4. CountType'
      BY <1>4 DEF DisconnectCut, CountType
    <2>5. HistoryType'
      BY <1>4 DEF DisconnectCut, HistoryType
    <2> QED BY <2>1, <2>2, <2>3, <2>4, <2>5 DEF TypeOK
  <1>5. ASSUME NEW t \in Thread, CloseConn(t) PROVE TypeOK'
    <2>1. FieldType'
      BY <1>5 DEF CloseConn, FieldType
    <2>2. ThreadType'
      <3>1. [thread[t] EXCEPT !.pc = "closeUdp", !.conn = NoConn, !.udp = udp] \in ThreadState
        BY DEF FieldType, ThreadType, ThreadState, Pc
      <3> QED BY <1>5, <3>1 DEF CloseConn, Goto, ThreadType
    <2>3. NetType'
      BY <1>5, CloseType DEF CloseConn, ThreadType, ThreadState, NetType
    <2>4. CountType'
      BY <1>5 DEF CloseConn, CountType
    <2>5. HistoryType'
      BY <1>5 DEF CloseConn, history, HistoryType
    <2> QED BY <2>1, <2>2, <2>3, <2>4, <2>5 DEF TypeOK
  <1>6. ASSUME NEW t \in Thread, CloseUdp(t) PROVE TypeOK'
    <2>1. FieldType'
      BY <1>6 DEF CloseUdp, GatewayState, FieldType
    <2>2. ThreadType'
      BY <1>6 DEF CloseUdp, Goto, At, Idle, AfterClose, ThreadState, Pc, AllOps, FieldType, ThreadType
    <2>3. NetType'
      BY <1>6 DEF CloseUdp, UdpClosed, NetType
    <2>4. CountType'
      BY <1>6 DEF CloseUdp, CountType
    <2>5. HistoryType'
      BY <1>6 DEF CloseUdp, HistoryType
    <2> QED BY <2>1, <2>2, <2>3, <2>4, <2>5 DEF TypeOK
  <1>7. ASSUME NEW t \in Thread, NEW c \in Conn, PerformConnect(t, c) PROVE TypeOK'
    <2>1. FieldType'
      BY <1>7 DEF PerformConnect, FieldType
    <2>2. ThreadType'
      <3>1. [thread[t] EXCEPT !.pc = "dial", !.conn = c] \in ThreadState
        BY DEF ThreadType, ThreadState, Pc
      <3> QED BY <1>7, <3>1, AdvancedType DEF PerformConnect, ThreadType
    <2>3. NetType'
      BY <1>7 DEF PerformConnect, NetType
    <2>4. CountType'
      BY <1>7 DEF PerformConnect, CountType
    <2>5. HistoryType'
      BY <1>7 DEF PerformConnect, history, HistoryType
    <2> QED BY <2>1, <2>2, <2>3, <2>4, <2>5 DEF TypeOK
  <1>8. ASSUME NEW t \in Thread, DialOk(t) PROVE TypeOK'
    <2>1. FieldType'
      BY <1>8 DEF DialOk, gatewayVars, FieldType
    <2>2. ThreadType'
      BY <1>8 DEF DialOk, Goto, ThreadState, Pc, ThreadType
    <2>3. NetType'
      BY <1>8 DEF DialOk, NetType
    <2>4. CountType'
      BY <1>8 DEF DialOk, CountType
    <2>5. HistoryType'
      BY <1>8 DEF DialOk, history, HistoryType
    <2> QED BY <2>1, <2>2, <2>3, <2>4, <2>5 DEF TypeOK
  <1>9. ASSUME NEW t \in Thread, DialFail(t) PROVE TypeOK'
    <2>1. FieldType'
      BY <1>9, DroppedType DEF DialFail, ThreadType, ThreadState, FieldType
    <2>2. ThreadType'
      BY <1>9, DroppedType DEF DialFail, ThreadState, ThreadType
    <2>3. NetType'
      BY <1>9 DEF DialFail, NetType
    <2>4. CountType'
      BY <1>9 DEF DialFail, Fault, CountType
    <2>5. HistoryType'
      BY <1>9 DEF DialFail, history, HistoryType
    <2> QED BY <2>1, <2>2, <2>3, <2>4, <2>5 DEF TypeOK
  <1>10. ASSUME NEW t \in Thread, ConnectReturns(t) PROVE TypeOK'
    <2>1. FieldType'
      BY <1>10 DEF ConnectReturns, gatewayVars, FieldType
    <2>2. ThreadType'
      BY <1>10 DEF ConnectReturns, Goto, Idle, ThreadState, Pc, ThreadType
    <2>3. NetType'
      BY <1>10 DEF ConnectReturns, netVars, NetType
    <2>4. CountType'
      BY <1>10 DEF ConnectReturns, CountType
    <2>5. HistoryType'
      BY <1>10 DEF ConnectReturns, history, HistoryType
    <2> QED BY <2>1, <2>2, <2>3, <2>4, <2>5 DEF TypeOK
  <1>11. ASSUME NEW t \in Thread, HandleDisconnect(t) PROVE TypeOK'
    <2>1. FieldType'
      BY <1>11 DEF HandleDisconnect, GatewayState, FieldType
    <2>2. ThreadType'
      <3>1. Capturing("sleep") \in ThreadState
        BY DEF Capturing, At, Idle, ThreadState, Pc
      <3>2. [At("closeUdp") EXCEPT !.op = "permanent", !.udp = udp] \in ThreadState
        BY DEF FieldType, At, Idle, ThreadState, Pc
      <3>3. \E next \in ThreadState : Goto(t, next)
        BY <1>11, <3>1, <3>2 DEF HandleDisconnect
      <3> QED BY <3>3 DEF Goto, ThreadType
    <2>3. NetType'
      BY <1>11 DEF HandleDisconnect, netVars, NetType
    <2>4. CountType'
      BY <1>11 DEF HandleDisconnect, CountType
    <2>5. HistoryType'
      BY <1>11 DEF HandleDisconnect, HistoryType
    <2> QED BY <2>1, <2>2, <2>3, <2>4, <2>5 DEF TypeOK
  <1>12. ASSUME NEW t \in Thread, Wake(t) PROVE TypeOK'
    <2>1. FieldType'
      BY <1>12 DEF Wake, gatewayVars, FieldType
    <2>2. ThreadType'
      BY <1>12 DEF Wake, Goto, At, Idle, ThreadState, Pc, ThreadType
    <2>3. NetType'
      BY <1>12 DEF Wake, netVars, NetType
    <2>4. CountType'
      BY <1>12 DEF Wake, CountType
    <2>5. HistoryType'
      BY <1>12 DEF Wake, history, HistoryType
    <2> QED BY <2>1, <2>2, <2>3, <2>4, <2>5 DEF TypeOK
  <1>13. ASSUME NEW t \in Thread, CheckGeneration(t) PROVE TypeOK'
    <2>1. FieldType'
      BY <1>13 DEF CheckGeneration, gatewayVars, FieldType
    <2>2. ThreadType'
      BY <1>13 DEF CheckGeneration, Goto, At, Idle, ThreadState, Pc, ThreadType
    <2>3. NetType'
      BY <1>13 DEF CheckGeneration, netVars, NetType
    <2>4. CountType'
      BY <1>13 DEF CheckGeneration, CountType
    <2>5. HistoryType'
      BY <1>13 DEF CheckGeneration, history, HistoryType
    <2> QED BY <2>1, <2>2, <2>3, <2>4, <2>5 DEF TypeOK
  <1>14. ASSUME NEW t \in Thread, Handshake(t) PROVE TypeOK'
    <2>1. FieldType'
      BY <1>14 DEF Handshake, GatewayState, FieldType
    <2>2. ThreadType'
      BY <1>14 DEF Handshake, Goto, Idle, ThreadState, Pc, ThreadType
    <2>3. NetType'
      BY <1>14 DEF Handshake, NetType
    <2>4. CountType'
      BY <1>14 DEF Handshake, CountType
    <2>5. HistoryType'
      BY <1>14 DEF Handshake, history, HistoryType
    <2> QED BY <2>1, <2>2, <2>3, <2>4, <2>5 DEF TypeOK
  <1>15. ASSUME NEW t \in Thread, NEW u \in Udp, StartUdp(t, u) PROVE TypeOK'
    <2>1. FieldType'
      BY <1>15 DEF StartUdp, GatewayState, FieldType
    <2>2. ThreadType'
      BY <1>15 DEF StartUdp, Goto, At, Idle, ThreadState, Pc, FieldType, ThreadType
    <2>3. NetType'
      BY <1>15 DEF StartUdp, NetType
    <2>4. CountType'
      BY <1>15 DEF StartUdp, CountType
    <2>5. HistoryType'
      BY <1>15 DEF StartUdp, history, HistoryType
    <2> QED BY <2>1, <2>2, <2>3, <2>4, <2>5 DEF TypeOK
  <1>16. ASSUME NEW t \in Thread, UdpConnected(t) PROVE TypeOK'
    <2>1. FieldType'
      BY <1>16, DroppedType DEF UdpConnected, ThreadType, ThreadState, FieldType
    <2>2. ThreadType'
      <3>1. CASE sock[thread[t].udp] = "interrupted"
        BY <1>16, <3>1, DroppedType DEF UdpConnected, ThreadType
      <3>2. CASE sock[thread[t].udp] # "interrupted"
        <4>1. [thread[t] EXCEPT !.pc = "discover"] \in ThreadState
          BY DEF ThreadType, ThreadState, Pc
        <4> QED BY <1>16, <3>2, <4>1 DEF UdpConnected, Goto, ThreadType
      <3> QED BY <3>1, <3>2
    <2>3. NetType'
      BY <1>16 DEF UdpConnected, NetType
    <2>4. CountType'
      BY <1>16 DEF UdpConnected, CountType
    <2>5. HistoryType'
      BY <1>16 DEF UdpConnected, history, HistoryType
    <2> QED BY <2>1, <2>2, <2>3, <2>4, <2>5 DEF TypeOK
  <1>17. ASSUME NEW t \in Thread, UdpFail(t) PROVE TypeOK'
    <2>1. FieldType'
      BY <1>17, DroppedType DEF UdpFail, ThreadType, ThreadState, FieldType
    <2>2. ThreadType'
      BY <1>17, DroppedType DEF UdpFail, ThreadState, ThreadType
    <2>3. NetType'
      BY <1>17 DEF UdpFail, NetType
    <2>4. CountType'
      BY <1>17 DEF UdpFail, Fault, CountType
    <2>5. HistoryType'
      BY <1>17 DEF UdpFail, history, HistoryType
    <2> QED BY <2>1, <2>2, <2>3, <2>4, <2>5 DEF TypeOK
  <1>18. ASSUME NEW t \in Thread, Discovered(t) PROVE TypeOK'
    <2>1. FieldType'
      BY <1>18 DEF Discovered, gatewayVars, FieldType
    <2>2. ThreadType'
      BY <1>18 DEF Discovered, Goto, At, Idle, ThreadState, Pc, ThreadType
    <2>3. NetType'
      BY <1>18 DEF Discovered, netVars, NetType
    <2>4. CountType'
      BY <1>18 DEF Discovered, CountType
    <2>5. HistoryType'
      BY <1>18 DEF Discovered, history, HistoryType
    <2> QED BY <2>1, <2>2, <2>3, <2>4, <2>5 DEF TypeOK
  <1>19. ASSUME NEW t \in Thread, SelectProtocol(t) PROVE TypeOK'
    <2>1. FieldType'
      BY <1>19 DEF SelectProtocol, GatewayState, FieldType
    <2>2. ThreadType'
      <3>1. \A todo \in {"resume", "identify"} : [At("hd") EXCEPT !.why = todo] \in ThreadState
        BY DEF At, Idle, ThreadState, Pc
      <3>2. \E next \in ThreadState : Goto(t, next)
        BY <1>19, <3>1, IdleType DEF SelectProtocol
      <3> QED BY <3>2 DEF Goto, ThreadType
    <2>3. NetType'
      BY <1>19 DEF SelectProtocol, NetType
    <2>4. CountType'
      BY <1>19 DEF SelectProtocol, CountType
    <2>5. HistoryType'
      BY <1>19 DEF SelectProtocol, history, HistoryType
    <2> QED BY <2>1, <2>2, <2>3, <2>4, <2>5 DEF TypeOK
  <1>20. ASSUME NEW t \in Thread, TakeConnection(t) PROVE TypeOK'
    <2>1. FieldType'
      BY <1>20 DEF TakeConnection, Taken, FieldType
    <2>2. ThreadType'
      BY <1>20 DEF TakeConnection, Goto, At, Idle, ThreadState, Pc, FieldType, ThreadType
    <2>3. NetType'
      BY <1>20 DEF TakeConnection, netVars, NetType
    <2>4. CountType'
      BY <1>20 DEF TakeConnection, CountType
    <2>5. HistoryType'
      BY <1>20 DEF TakeConnection, history, HistoryType
    <2> QED BY <2>1, <2>2, <2>3, <2>4, <2>5 DEF TypeOK
  <1>21. ASSUME NEW t \in Thread, HeartbeatClosed(t) PROVE TypeOK'
    <2>1. FieldType'
      BY <1>21, DroppedType DEF HeartbeatClosed, ThreadType, ThreadState, FieldType
    <2>2. ThreadType'
      BY <1>21, DroppedType DEF HeartbeatClosed, ThreadState, ThreadType
    <2>3. NetType'
      BY <1>21, CloseType DEF HeartbeatClosed, ThreadType, ThreadState, NetType
    <2>4. CountType'
      BY <1>21 DEF HeartbeatClosed, CountType
    <2>5. HistoryType'
      BY <1>21 DEF HeartbeatClosed, history, HistoryType
    <2> QED BY <2>1, <2>2, <2>3, <2>4, <2>5 DEF TypeOK
  <1>22. ASSUME NEW t \in Thread, NEW c \in Conn, Hello(c, t) PROVE TypeOK'
    <2>1. FieldType'
      BY <1>22 DEF Hello, FieldType
    <2>2. ThreadType'
      BY <1>22 DEF Hello, Goto, At, Idle, Capturing, ThreadState, Pc, ThreadType
    <2>3. NetType'
      BY <1>22 DEF Hello, NetType
    <2>4. CountType'
      BY <1>22 DEF Hello, CountType
    <2>5. HistoryType'
      BY <1>22 DEF Hello, history, HistoryType
    <2> QED BY <2>1, <2>2, <2>3, <2>4, <2>5 DEF TypeOK
  <1>23. ASSUME NEW t \in Thread, NEW c \in Conn, ReadyEvent(c, t) PROVE TypeOK'
    <2>1. FieldType'
      BY <1>23 DEF ReadyEvent, FieldType
    <2>2. ThreadType'
      BY <1>23 DEF ReadyEvent, Goto, At, Idle, Capturing, ThreadState, Pc, ThreadType
    <2>3. NetType'
      BY <1>23 DEF ReadyEvent, NetType
    <2>4. CountType'
      BY <1>23 DEF ReadyEvent, CountType
    <2>5. HistoryType'
      BY <1>23 DEF ReadyEvent, history, HistoryType
    <2> QED BY <2>1, <2>2, <2>3, <2>4, <2>5 DEF TypeOK
  <1>24. ASSUME NEW c \in Conn, Resumed(c) PROVE TypeOK'
    <2>1. FieldType'
      BY <1>24 DEF Resumed, GatewayState, FieldType
    <2>2. ThreadType'
      BY <1>24 DEF Resumed, ThreadType
    <2>3. NetType'
      BY <1>24 DEF Resumed, NetType
    <2>4. CountType'
      BY <1>24 DEF Resumed, CountType
    <2>5. HistoryType'
      BY <1>24 DEF Resumed, history, HistoryType
    <2> QED BY <2>1, <2>2, <2>3, <2>4, <2>5 DEF TypeOK
  <1>25. ASSUME NEW c \in Conn, SessionDescription(c) PROVE TypeOK'
    <2>1. FieldType'
      BY <1>25 DEF SessionDescription, GatewayState, FieldType
    <2>2. ThreadType'
      BY <1>25 DEF SessionDescription, ThreadType
    <2>3. NetType'
      BY <1>25 DEF SessionDescription, NetType
    <2>4. CountType'
      BY <1>25 DEF SessionDescription, CountType
    <2>5. HistoryType'
      BY <1>25 DEF SessionDescription, HistoryType
    <2> QED BY <2>1, <2>2, <2>3, <2>4, <2>5 DEF TypeOK
  <1>26. ASSUME NEW t \in Thread, NEW c \in Conn, NEW why \in {"permanent", "invalid", "other"}, CloseEvent(c, t, why)
         PROVE  TypeOK'
    <2>1. FieldType'
      BY <1>26, DroppedType DEF CloseEvent, ThreadType, ThreadState, FieldType
    <2>2. ThreadType'
      BY <1>26, DroppedType DEF CloseEvent, ThreadState, ThreadType
    <2>3. NetType'
      BY <1>26, CloseType DEF CloseEvent, ThreadType, ThreadState, NetType
    <2>4. CountType'
      BY <1>26 DEF CloseEvent, Fault, CountType
    <2>5. HistoryType'
      BY <1>26 DEF CloseEvent, history, HistoryType
    <2> QED BY <2>1, <2>2, <2>3, <2>4, <2>5 DEF TypeOK
  <1>27. ASSUME NEW t \in Thread, NEW c \in Conn, ErrorEvent(c, t) PROVE TypeOK'
    <2>1. FieldType'
      BY <1>27, DroppedType DEF ErrorEvent, ThreadType, ThreadState, FieldType
    <2>2. ThreadType'
      BY <1>27, DroppedType DEF ErrorEvent, ThreadState, ThreadType
    <2>3. NetType'
      BY <1>27 DEF ErrorEvent, netVars, NetType
    <2>4. CountType'
      BY <1>27 DEF ErrorEvent, Fault, CountType
    <2>5. HistoryType'
      BY <1>27 DEF ErrorEvent, history, HistoryType
    <2> QED BY <2>1, <2>2, <2>3, <2>4, <2>5 DEF TypeOK
  <1>28. CASE UNCHANGED vars
    BY <1>28 DEF vars, gatewayVars, netVars, history, TypeOK, FieldType, ThreadType, NetType,
                 CountType, HistoryType
  <1> QED
    BY <1>1, <1>2, <1>3, <1>4, <1>5, <1>6, <1>7, <1>8, <1>9, <1>10, <1>11, <1>12, <1>13, <1>14, <1>15, <1>16, <1>17, <1>18, <1>19, <1>20, <1>21, <1>22, <1>23, <1>24, <1>25, <1>26, <1>27, <1>28
    DEF Next, TaskStep, Event

(* Every variable keeps its type, and the threads stay in their states.    *)
THEOREM TypeCorrect == Spec => []TypeOK
  BY InitType, StepType, PTL DEF Spec

-----------------------------------------------------------------------------
(* What a step does to the threads it does not run.                        *)
Others(t) == \A x \in Thread \ {t} : thread'[x] = thread[x]

(* Goto changes the thread it names and no other.                          *)
LEMMA GotoThread ==
  ASSUME TypeOK, NEW t \in Thread, NEW next, Goto(t, next)
  PROVE  thread'[t] = next /\ Others(t)
  BY DEF TypeOK, ThreadType, Goto, Others

(* A drop changes the thread that handles it and no other.                 *)
LEMMA DroppedThread ==
  ASSUME TypeOK, NEW t \in Thread, NEW c, NEW why \in {"other", "invalid", "permanent"},
         Dropped(t, why, c)
  PROVE  /\ Others(t)
         /\ thread'[t].pc # "closeConn"
         /\ gstate # "disconnected" => Retries(thread'[t])
         /\ thread'[t].why = "resume" => resumePending
         /\ resumePending' => resumePending
  <1>1. PICK todo \in {"resume", "identify", "permanent"} :
          Dropping(t, todo, c) /\ (todo = "resume" => resumePending)
    BY DEF Dropped
  <1>2. Others(t) /\ thread'[t] = IF gstate = "disconnected" THEN Idle
            ELSE [At("hd") EXCEPT !.op = thread[t].op, !.conn = c, !.why = todo]
    BY <1>1, GotoThread DEF Dropping
  <1>3. resumePending' => resumePending
    BY DEF Dropped
  <1> QED BY <1>1, <1>2, <1>3 DEF At, Idle, Retries

(* disconnect and updateServer cancel every task and advance the           *)
(* generation: thread t goes on as told, and any other thread that is at   *)
(* closeConn, or wants to resume, afterwards did so before.                *)
LEMMA CancelledThread ==
  ASSUME TypeOK, NEW t \in Thread, NEW next, thread' = [Advanced(Cancelled) EXCEPT ![t] = next]
  PROVE  /\ thread'[t] = next
         /\ \A x \in Thread \ {t} :
              /\ thread'[x].pc = "closeConn" =>
                   thread[x].pc = "closeConn" /\ thread'[x].conn = thread[x].conn
              /\ thread'[x].why = "resume" => thread[x].why = "resume"
  BY DEF TypeOK, ThreadType, ThreadState, Advanced, Cancelled, Idle

(* A new generation leaves every other thread where it was.                *)
LEMMA AdvancedThread ==
  ASSUME TypeOK, NEW t \in Thread, NEW next, thread' = [Advanced(thread) EXCEPT ![t] = next]
  PROVE  /\ thread'[t] = next
         /\ \A x \in Thread \ {t} : /\ thread'[x].pc = thread[x].pc
                                    /\ thread'[x].conn = thread[x].conn
                                    /\ thread'[x].why = thread[x].why
  BY DEF TypeOK, ThreadType, ThreadState, Advanced

-----------------------------------------------------------------------------
(* TakenOnce: a connection has one taker.                                  *)
LEMMA NothingTaken ==
  ASSUME TakenOnce, conn' \in {conn, NoConn},
         \A x \in Thread : thread'[x].pc = "closeConn" =>
           thread[x].pc = "closeConn" /\ thread'[x].conn = thread[x].conn
  PROVE  TakenOnce'
  BY DEF TakenOnce

(* TakenOnce survives a step in which one thread takes the current         *)
(* connection.                                                             *)
LEMMA TakenByOne ==
  ASSUME TakenOnce, NEW t \in Thread, conn' = NoConn, thread'[t].conn = conn,
         \A x \in Thread \ {t} : thread'[x].pc = "closeConn" =>
           thread[x].pc = "closeConn" /\ thread'[x].conn = thread[x].conn
  PROVE  TakenOnce'
  BY DEF TakenOnce

(* Every step keeps TakenOnce.                                             *)
LEMMA StepTaken ==
  ASSUME TypeOK, TakenOnce, [Next]_vars
  PROVE  TakenOnce'
  <1>1. ASSUME NEW t \in Thread, NEW next, Goto(t, next), next.pc # "closeConn",
               conn' \in {conn, NoConn}
        PROVE  TakenOnce'
    BY <1>1, GotoThread, NothingTaken DEF Others
  <1>2. ASSUME NEW t \in Thread, NEW c, NEW why \in {"other", "invalid", "permanent"},
               Dropped(t, why, c), conn' = conn
        PROVE  TakenOnce'
    BY <1>2, DroppedThread, NothingTaken DEF Others
  <1>3. ASSUME NEW t \in Thread,
               \/ \E op \in AllOps : Disconnect(t, op)
               \/ HeartbeatTimeout(t) \/ CloseConn(t) \/ CloseUdp(t) \/ DialOk(t)
               \/ ConnectReturns(t) \/ HandleDisconnect(t) \/ Wake(t) \/ CheckGeneration(t)
               \/ Handshake(t) \/ (\E u \in Udp : StartUdp(t, u)) \/ Discovered(t)
               \/ SelectProtocol(t) \/ \E c \in Conn : Hello(c, t) \/ ReadyEvent(c, t)
        PROVE  TakenOnce'
    <2>1. \E next : Goto(t, next) /\ next.pc # "closeConn" /\ conn' = conn
      <3>1. CASE \E op \in AllOps : Disconnect(t, op)
        BY <3>1 DEF Disconnect, At, Idle
      <3>2. CASE HeartbeatTimeout(t)
        BY <3>2 DEF HeartbeatTimeout, At, Idle
      <3>3. CASE CloseConn(t)
        BY <3>3 DEF CloseConn, TypeOK, ThreadType, ThreadState
      <3>4. CASE CloseUdp(t)
        BY <3>4 DEF CloseUdp, AfterClose, At, Idle
      <3>5. CASE DialOk(t)
        BY <3>5 DEF DialOk, gatewayVars, TypeOK, ThreadType, ThreadState
      <3>6. CASE ConnectReturns(t) \/ Wake(t) \/ CheckGeneration(t) \/ Handshake(t)
                   \/ Discovered(t) \/ SelectProtocol(t)
        BY <3>6 DEF ConnectReturns, Wake, CheckGeneration, Handshake, Discovered,
                    SelectProtocol, At, Idle, gatewayVars
      <3>7. CASE HandleDisconnect(t)
        BY <3>7 DEF HandleDisconnect, Capturing, At, Idle
      <3>8. CASE \E u \in Udp : StartUdp(t, u)
        BY <3>8 DEF StartUdp, At, Idle
      <3>9. CASE \E c \in Conn : Hello(c, t) \/ ReadyEvent(c, t)
        BY <3>9 DEF Hello, ReadyEvent, Capturing, At, Idle
      <3> QED BY <1>3, <3>1, <3>2, <3>3, <3>4, <3>5, <3>6, <3>7, <3>8, <3>9
    <2> QED BY <1>1, <2>1
  <1>4. ASSUME NEW t \in Thread, DialFail(t) \/ UdpFail(t) \/ HeartbeatClosed(t)
        PROVE  TakenOnce'
    BY <1>2, <1>4 DEF DialFail, UdpFail, HeartbeatClosed
  <1>5. ASSUME NEW t \in Thread, NEW c \in Conn,
               ErrorEvent(c, t) \/ \E why \in {"permanent", "invalid", "other"} : CloseEvent(c, t, why)
        PROVE  TakenOnce'
    BY <1>2, <1>5 DEF ErrorEvent, CloseEvent
  <1>6. ASSUME NEW t \in Thread, UdpConnected(t) PROVE TakenOnce'
    <2>1. CASE sock[thread[t].udp] = "interrupted"
      BY <1>2, <1>6, <2>1 DEF UdpConnected
    <2>2. CASE sock[thread[t].udp] # "interrupted"
      <3>1. [thread[t] EXCEPT !.pc = "discover"].pc # "closeConn"
        BY DEF TypeOK, ThreadType, ThreadState
      <3> QED BY <1>1, <1>6, <2>2, <3>1 DEF UdpConnected
    <2> QED BY <2>1, <2>2
  <1>7. ASSUME NEW t \in Thread, UpdateServer(t) \/ DisconnectCut(t)
        PROVE  TakenOnce'
    <2>1. [At("closeConn") EXCEPT !.op = "updateServer", !.conn = conn].conn = conn
      BY DEF At, Idle
    <2>2. [thread[t] EXCEPT !.pc = "closeConn", !.conn = conn].conn = conn
      BY DEF TypeOK, ThreadType, ThreadState
    <2>3. PICK next : thread' = [Advanced(Cancelled) EXCEPT ![t] = next] /\ next.conn = conn
      BY <1>7, <2>1, <2>2 DEF UpdateServer, DisconnectCut
    <2>4. conn' = NoConn
      BY <1>7 DEF UpdateServer, DisconnectCut, Taken
    <2>5. /\ thread'[t].conn = conn
          /\ \A x \in Thread \ {t} : thread'[x].pc = "closeConn" =>
               thread[x].pc = "closeConn" /\ thread'[x].conn = thread[x].conn
      BY <2>3, CancelledThread
    <2> QED BY <2>4, <2>5, TakenByOne
  <1>8. ASSUME NEW t \in Thread, TakeConnection(t) PROVE TakenOnce'
    <2> DEFINE next == [At("closeConn") EXCEPT !.op = "heartbeat", !.conn = conn]
    <2>0. next.conn = conn
      BY DEF At, Idle
    <2>1. thread'[t] = next /\ Others(t)
      BY <1>8, GotoThread DEF TakeConnection
    <2> HIDE DEF next
    <2> QED BY <1>8, <2>0, <2>1, TakenByOne DEF TakeConnection, Taken, Others
  <1>9. ASSUME NEW t \in Thread, NEW c \in Conn, PerformConnect(t, c) PROVE TakenOnce'
    <2>1. \A x \in Thread : thread[x].conn # c
      BY <1>9 DEF PerformConnect, Alive
    <2>2. thread'[t].pc = "dial"
      <3>1. [thread[t] EXCEPT !.pc = "dial", !.conn = c].pc = "dial"
        BY DEF TypeOK, ThreadType, ThreadState
      <3>2. thread'[t] = [thread[t] EXCEPT !.pc = "dial", !.conn = c]
        BY <1>9, AdvancedThread DEF PerformConnect
      <3> QED BY <3>1, <3>2
    <2>3. \A x \in Thread \ {t} : thread'[x].pc = thread[x].pc /\ thread'[x].conn = thread[x].conn
      BY <1>9, AdvancedThread DEF PerformConnect
    <2> QED BY <1>9, <2>1, <2>2, <2>3 DEF PerformConnect, TakenOnce
  <1>10. ASSUME UNCHANGED <<thread, conn>> PROVE TakenOnce'
    BY <1>10 DEF TakenOnce
  <1>11. CASE UNCHANGED vars \/ \E c \in Conn : Resumed(c) \/ SessionDescription(c)
    BY <1>10, <1>11 DEF vars, gatewayVars, Resumed, SessionDescription
  <1> QED
    BY <1>3, <1>4, <1>5, <1>6, <1>7, <1>8, <1>9, <1>11 DEF Next, TaskStep, Event

-----------------------------------------------------------------------------
(* ResumeNeedsSession: nothing asks for a resume before there is a session.*)
LEMMA AsksNothing ==
  /\ Idle.why = "none"
  /\ \A pc : At(pc).why = "none" /\ Capturing(pc).why = "none"
  /\ \A pc, op : [At(pc) EXCEPT !.op = op].why = "none"
  /\ \A pc, op, c : [At(pc) EXCEPT !.op = op, !.conn = c].why = "none"
  /\ \A pc, u : [At(pc) EXCEPT !.udp = u].why = "none"
  BY DEF At, Capturing, Idle

(* Every step keeps ResumeNeedsSession.                                    *)
LEMMA StepResume ==
  ASSUME TypeOK, ResumeNeedsSession, [Next]_vars
  PROVE  ResumeNeedsSession'
  <1> DEFINE Asks == resumePending \/ \E y \in Thread : thread[y].why = "resume"
             ThreadsKept == \A x \in Thread : thread'[x].why = "resume" => Asks
             ServerKept == \A c \in Conn : srv'[c] = "resuming" => srv[c] = "resuming" \/ resumePending
  <1>1. ASSUME NEW t \in Thread, NEW next, Goto(t, next), next.why = "resume" => Asks
        PROVE  ThreadsKept
    BY <1>1, GotoThread DEF Others
  <1>2. ASSUME NEW t \in Thread, NEW c, NEW why \in {"other", "invalid", "permanent"}, Dropped(t, why, c)
        PROVE  ThreadsKept /\ (resumePending' => resumePending)
    BY <1>2, DroppedThread DEF Others
  <1>3. ASSUME NEW c, Close(c) PROVE ServerKept
    BY <1>3 DEF Close
  <1>4. ASSUME known' = known, resumePending' => resumePending, ThreadsKept, ServerKept
        PROVE  ResumeNeedsSession'
    BY <1>4 DEF ResumeNeedsSession
  <1>5. ASSUME NEW t \in Thread,
               \/ \E op \in AllOps : Disconnect(t, op)
               \/ HeartbeatTimeout(t) \/ CloseConn(t) \/ DialOk(t)
               \/ ConnectReturns(t) \/ Wake(t) \/ CheckGeneration(t) \/ Handshake(t)
               \/ (\E u \in Udp : StartUdp(t, u)) \/ Discovered(t) \/ TakeConnection(t)
               \/ SelectProtocol(t) \/ \E c \in Conn : Hello(c, t) \/ ReadyEvent(c, t)
        PROVE  ResumeNeedsSession'
    <2>1. \E next : /\ Goto(t, next)
                    /\ \/ next.why # "resume"
                       \/ next.why = thread[t].why
                       \/ resumePending
      <3>1. CASE \E op \in AllOps : Disconnect(t, op)
        BY <3>1, AsksNothing DEF Disconnect
      <3>2. CASE HeartbeatTimeout(t) \/ TakeConnection(t)
        BY <3>2, AsksNothing DEF HeartbeatTimeout, TakeConnection
      <3>3. CASE CloseConn(t)
        <4>1. [thread[t] EXCEPT !.pc = "closeUdp", !.conn = NoConn, !.udp = udp].why = thread[t].why
          BY DEF TypeOK, ThreadType, ThreadState
        <4> QED BY <3>3, <4>1 DEF CloseConn
      <3>4. CASE DialOk(t)
        BY <3>4 DEF DialOk, TypeOK, ThreadType, ThreadState
      <3>5. CASE ConnectReturns(t) \/ Wake(t) \/ CheckGeneration(t) \/ Handshake(t)
                   \/ Discovered(t)
        BY <3>5, AsksNothing DEF ConnectReturns, Wake, CheckGeneration, Handshake, Discovered
      <3>6. CASE SelectProtocol(t)
        <4>1. ~resumePending =>
                [At("hd") EXCEPT !.why = IF resumePending THEN "resume" ELSE "identify"].why # "resume"
          BY DEF At, Idle
        <4> QED BY <3>6, <4>1, AsksNothing DEF SelectProtocol
      <3>7. CASE \E u \in Udp : StartUdp(t, u)
        BY <3>7, AsksNothing DEF StartUdp
      <3>8. CASE \E c \in Conn : Hello(c, t) \/ ReadyEvent(c, t)
        BY <3>8, AsksNothing DEF Hello, ReadyEvent
      <3> QED BY <1>5, <3>1, <3>2, <3>3, <3>4, <3>5, <3>6, <3>7, <3>8
    <2>2. ThreadsKept
      BY <1>1, <2>1
    <2>3. known' = known /\ resumePending' = resumePending
      BY <1>5 DEF Disconnect, HeartbeatTimeout, CloseConn, DialOk, ConnectReturns, Wake,
                  CheckGeneration, Handshake, StartUdp, Discovered, TakeConnection,
                  SelectProtocol, Hello, ReadyEvent, gatewayVars, history
    <2>4. ServerKept
      <3>1. CASE CloseConn(t)
        BY <1>3, <3>1 DEF CloseConn
      <3>2. CASE ~CloseConn(t)
        BY <1>5, <3>2 DEF Disconnect, HeartbeatTimeout, DialOk, ConnectReturns, Wake,
                  CheckGeneration, Handshake, StartUdp, Discovered, TakeConnection,
                  SelectProtocol, Hello, ReadyEvent, netVars, TypeOK, NetType
      <3> QED BY <3>1, <3>2
    <2> QED BY <1>4, <2>2, <2>3, <2>4
  <1>6. ASSUME NEW t \in Thread, DialFail(t) \/ UdpFail(t) \/ HeartbeatClosed(t)
        PROVE  ResumeNeedsSession'
    <2>1. ThreadsKept /\ (resumePending' => resumePending)
      BY <1>2, <1>6 DEF DialFail, UdpFail, HeartbeatClosed
    <2>2. ServerKept
      BY <1>3, <1>6 DEF DialFail, UdpFail, HeartbeatClosed
    <2> QED BY <1>4, <1>6, <2>1, <2>2 DEF DialFail, UdpFail, HeartbeatClosed, history
  <1>7. ASSUME NEW t \in Thread, NEW c \in Conn,
               ErrorEvent(c, t) \/ \E why \in {"permanent", "invalid", "other"} : CloseEvent(c, t, why)
        PROVE  ResumeNeedsSession'
    <2>1. ThreadsKept /\ (resumePending' => resumePending)
      BY <1>2, <1>7 DEF ErrorEvent, CloseEvent
    <2>2. ServerKept
      BY <1>3, <1>7 DEF ErrorEvent, CloseEvent, netVars
    <2> QED BY <1>4, <1>7, <2>1, <2>2 DEF ErrorEvent, CloseEvent, history
  <1>8. ASSUME NEW t \in Thread, UdpConnected(t) PROVE ResumeNeedsSession'
    <2>1. ThreadsKept /\ (resumePending' => resumePending)
      <3>1. CASE sock[thread[t].udp] = "interrupted"
        BY <1>2, <1>8, <3>1 DEF UdpConnected
      <3>2. CASE sock[thread[t].udp] # "interrupted"
        <4>1. [thread[t] EXCEPT !.pc = "discover"].why = thread[t].why
          BY DEF TypeOK, ThreadType, ThreadState
        <4> QED BY <1>1, <1>8, <3>2, <4>1 DEF UdpConnected
      <3> QED BY <3>1, <3>2
    <2> QED BY <1>4, <1>8, <2>1 DEF UdpConnected, history
  <1>9. ASSUME NEW t \in Thread, CloseUdp(t) PROVE ResumeNeedsSession'
    <2>1. ThreadsKept
      BY <1>1, <1>9 DEF CloseUdp, AfterClose, At, Idle
    <2> QED BY <1>4, <1>9, <2>1 DEF CloseUdp, TypeOK, FieldType
  <1>10. ASSUME NEW t \in Thread, HandleDisconnect(t) PROVE ResumeNeedsSession'
    <2>1. Goto(t, [At("closeUdp") EXCEPT !.op = "permanent", !.udp = udp])
            \/ Goto(t, Capturing("sleep"))
      BY <1>10 DEF HandleDisconnect
    <2>2. ThreadsKept
      BY <1>1, <2>1 DEF Capturing, At, Idle
    <2> QED BY <1>10, <2>2 DEF HandleDisconnect, ResumeNeedsSession, netVars
  <1>11. ASSUME NEW t \in Thread, UpdateServer(t) PROVE ResumeNeedsSession'
    <2>1. known' # "none"
      BY <1>11 DEF UpdateServer
    <2> QED BY <2>1 DEF ResumeNeedsSession
  <1>12. ASSUME NEW t \in Thread, DisconnectCut(t) PROVE ResumeNeedsSession'
    <2>1. [thread[t] EXCEPT !.pc = "closeConn", !.conn = conn].why = thread[t].why
      BY DEF TypeOK, ThreadType, ThreadState
    <2>2. ThreadsKept
      <3>1. /\ thread'[t] = [thread[t] EXCEPT !.pc = "closeConn", !.conn = conn]
            /\ \A x \in Thread \ {t} : thread'[x].why = "resume" => thread[x].why = "resume"
        BY <1>12, CancelledThread DEF DisconnectCut
      <3> QED BY <2>1, <3>1
    <2> QED BY <1>4, <1>12, <2>2 DEF DisconnectCut, netVars
  <1>13. ASSUME NEW t \in Thread, NEW c \in Conn, PerformConnect(t, c) PROVE ResumeNeedsSession'
    <2>1. [thread[t] EXCEPT !.pc = "dial", !.conn = c].why = thread[t].why
      BY DEF TypeOK, ThreadType, ThreadState
    <2>2. ThreadsKept
      <3>1. /\ thread'[t] = [thread[t] EXCEPT !.pc = "dial", !.conn = c]
            /\ \A x \in Thread \ {t} : thread'[x].why = thread[x].why
        BY <1>13, AdvancedThread DEF PerformConnect
      <3> QED BY <2>1, <3>1
    <2> QED BY <1>4, <1>13, <2>2 DEF PerformConnect, TypeOK, NetType, history
  <1>14. ASSUME NEW c \in Conn, SessionDescription(c) PROVE ResumeNeedsSession'
    BY <1>14 DEF SessionDescription, ResumeNeedsSession
  <1>15. ASSUME NEW c \in Conn, Resumed(c) PROVE ResumeNeedsSession'
    BY <1>15 DEF Resumed, ResumeNeedsSession, TypeOK, NetType, history
  <1>16. CASE UNCHANGED vars
    BY <1>16 DEF vars, gatewayVars, netVars, history, ResumeNeedsSession
  <1> QED
    BY <1>5, <1>6, <1>7, <1>8, <1>9, <1>10, <1>11, <1>12, <1>13, <1>14, <1>15, <1>16
    DEF Next, TaskStep, Event

-----------------------------------------------------------------------------
(* DialsAnew and ReconnectNotAbandoned.                                    *)
LEMMA StepDials ==
  ASSUME TypeOK, DialsAnew, [Next]_vars
  PROVE  DialsAnew'
  <1> USE DEF DialsAnew
  <1>1. ASSUME NEW c, Close(c) PROVE DialsAnew'
    BY <1>1 DEF Close
  <1>2. ASSUME UNCHANGED <<ws, greeted>> PROVE DialsAnew'
    BY <1>2
  <1>3. ASSUME NEW t \in Thread, TaskStep(t) PROVE DialsAnew'
    <2>1. CASE CloseConn(t) \/ HeartbeatClosed(t)
      BY <1>1, <2>1 DEF CloseConn, HeartbeatClosed
    <2>2. CASE \E c \in Conn : PerformConnect(t, c)
      BY <2>2 DEF PerformConnect, TypeOK, NetType
    <2>3. CASE DialOk(t) \/ DialFail(t)
      BY <2>3 DEF DialOk, DialFail, TypeOK, NetType
    <2>4. CASE \/ DisconnectCut(t) \/ CloseUdp(t) \/ ConnectReturns(t) \/ HandleDisconnect(t)
               \/ Wake(t) \/ CheckGeneration(t) \/ Handshake(t) \/ \E u \in Udp : StartUdp(t, u)
      BY <1>2, <2>4 DEF DisconnectCut, CloseUdp, ConnectReturns, HandleDisconnect, Wake,
                        CheckGeneration, Handshake, StartUdp, netVars
    <2>5. CASE UdpConnected(t) \/ UdpFail(t) \/ Discovered(t) \/ SelectProtocol(t) \/ TakeConnection(t)
      BY <1>2, <2>5 DEF UdpConnected, UdpFail, Discovered, SelectProtocol, TakeConnection, netVars
    <2> QED BY <1>3, <2>1, <2>2, <2>3, <2>4, <2>5 DEF TaskStep
  <1>4. ASSUME NEW t \in Thread, NEW c \in Conn, Event(c, t) PROVE DialsAnew'
    <2>1. CASE Hello(c, t)
      BY <2>1 DEF Hello, Delivers
    <2>2. CASE \E why \in {"permanent", "invalid", "other"} : CloseEvent(c, t, why)
      BY <1>1, <2>2 DEF CloseEvent
    <2>3. CASE ReadyEvent(c, t) \/ Resumed(c) \/ SessionDescription(c) \/ ErrorEvent(c, t)
      BY <1>2, <2>3 DEF ReadyEvent, Resumed, SessionDescription, ErrorEvent, netVars
    <2> QED BY <1>4, <2>1, <2>2, <2>3 DEF Event
  <1>5. CASE UNCHANGED vars
    BY <1>2, <1>5 DEF vars, netVars
  <1>6. ASSUME NEW t \in Thread,
               (\E op \in AllOps : Disconnect(t, op)) \/ UpdateServer(t) \/ HeartbeatTimeout(t)
        PROVE  DialsAnew'
    BY <1>2, <1>6 DEF Disconnect, UpdateServer, HeartbeatTimeout, netVars
  <1> QED BY <1>3, <1>4, <1>5, <1>6 DEF Next

(* If a step leaves the gateway's connection alone and its thread retries  *)
(* whenever it did before, somebody retries after it.                      *)
LEMMA StillRetrying ==
  ASSUME NEW t \in Thread, Others(t), Retries(thread[t]) => Retries(thread'[t]),
         NewSocket => NewSocket' \/ Retries(thread'[t]),
         ReconnectNotAbandoned, wanted' => wanted, gstate' = gstate
  PROVE  ReconnectNotAbandoned'
  BY DEF ReconnectNotAbandoned, Retrying, Others

(* Once some thread retries, ReconnectNotAbandoned holds.                  *)
LEMMA NowRetrying ==
  ASSUME NEW t \in Thread, wanted' /\ gstate' = "reconnecting" => Retries(thread'[t])
  PROVE  ReconnectNotAbandoned'
  BY DEF ReconnectNotAbandoned, Retrying

(* Closing some other WebSocket leaves the current one what it was.        *)
LEMMA SocketKept ==
  ASSUME TypeOK, NEW c, c # conn, Close(c), conn' = conn
  PROVE  NewSocket => NewSocket'
  BY DEF NewSocket, Close, TypeOK, FieldType

(* Which of the records that actions build count as retrying.              *)
LEMMA RecordRetries ==
  /\ ~Retries(Idle)
  /\ \A pc \in {"perform", "handshake", "discovery", "select", "hbTimeout"} : Retries(At(pc))
  /\ \A pc \in {"sleep", "checkHello"} : Retries(Capturing(pc))
  /\ \A op \in {"updateServer", "heartbeat"} : \A c :
       Retries([At("closeConn") EXCEPT !.op = op, !.conn = c])
  BY DEF At, Capturing, Idle, Retries

(* Every step keeps ReconnectNotAbandoned.                                 *)
LEMMA StepRetry ==
  ASSUME TypeOK, DialsAnew, TakenOnce, ReconnectNotAbandoned, [Next]_vars
  PROVE  ReconnectNotAbandoned'
  <1>1. ASSUME gstate' # "reconnecting" \/ ~wanted' PROVE ReconnectNotAbandoned'
    BY <1>1 DEF ReconnectNotAbandoned
  <1>2. ASSUME NEW t \in Thread, NEW c, NEW why \in {"other", "invalid", "permanent"},
               Dropped(t, why, c), gstate' = gstate
        PROVE  ReconnectNotAbandoned'
    BY <1>2, DroppedThread, NowRetrying
  <1>3. ASSUME NEW t \in Thread,
               (\E op \in AllOps : Disconnect(t, op)) \/ Handshake(t) \/ SelectProtocol(t)
                 \/ \E u \in Udp : StartUdp(t, u)
        PROVE  ReconnectNotAbandoned'
    BY <1>1, <1>3 DEF Disconnect, Handshake, SelectProtocol, StartUdp
  <1>4. ASSUME NEW c \in Conn, Resumed(c) \/ SessionDescription(c) PROVE ReconnectNotAbandoned'
    BY <1>1, <1>4 DEF Resumed, SessionDescription
  <1>5. ASSUME NEW t \in Thread, DialFail(t) \/ UdpFail(t) \/ HeartbeatClosed(t)
        PROVE  ReconnectNotAbandoned'
    BY <1>2, <1>5 DEF DialFail, UdpFail, HeartbeatClosed
  <1>6. ASSUME NEW t \in Thread, NEW c \in Conn,
               ErrorEvent(c, t) \/ \E why \in {"permanent", "invalid", "other"} : CloseEvent(c, t, why)
        PROVE  ReconnectNotAbandoned'
    BY <1>2, <1>6 DEF ErrorEvent, CloseEvent
  <1>7. ASSUME NEW t \in Thread, UpdateServer(t) PROVE ReconnectNotAbandoned'
    <2>1. thread'[t] = [At("closeConn") EXCEPT !.op = "updateServer", !.conn = conn]
      BY <1>7, CancelledThread DEF UpdateServer
    <2> QED BY <2>1, RecordRetries, NowRetrying
  <1>8. ASSUME NEW t \in Thread, DisconnectCut(t) PROVE ReconnectNotAbandoned'
    <2>1. CASE thread[t].op = "connect"
      <3>1. [thread[t] EXCEPT !.pc = "closeConn", !.conn = conn].pc = "closeConn"
        /\ [thread[t] EXCEPT !.pc = "closeConn", !.conn = conn].op = "connect"
        BY <2>1 DEF TypeOK, ThreadType, ThreadState
      <3>2. thread'[t] = [thread[t] EXCEPT !.pc = "closeConn", !.conn = conn]
        BY <1>8, CancelledThread DEF DisconnectCut
      <3> QED BY <3>1, <3>2, NowRetrying DEF Retries
    <2>2. CASE thread[t].op # "connect"
      BY <1>1, <1>8, <2>2 DEF DisconnectCut
    <2> QED BY <2>1, <2>2
  <1>9. ASSUME NEW t \in Thread, TakeConnection(t) \/ HeartbeatTimeout(t) \/ Discovered(t)
        PROVE  ReconnectNotAbandoned'
    <2>1. \E next : Goto(t, next) /\ Retries(next)
      BY <1>9, RecordRetries DEF TakeConnection, HeartbeatTimeout, Discovered
    <2> QED BY <2>1, GotoThread, NowRetrying
  <1>10. ASSUME NEW t \in Thread, NEW c \in Conn, Hello(c, t) PROVE ReconnectNotAbandoned'
    <2>1. thread'[t] = Capturing("checkHello")
      BY <1>10, GotoThread DEF Hello
    <2> QED BY <2>1, RecordRetries, NowRetrying
  <1>11. ASSUME NEW t \in Thread, NEW c \in Conn, PerformConnect(t, c) PROVE ReconnectNotAbandoned'
    <2>1. NewSocket'
      BY <1>11, SentinelAssumption DEF PerformConnect, NewSocket, TypeOK, NetType
    <2> QED BY <2>1 DEF ReconnectNotAbandoned, Retrying
  <1>12. ASSUME NEW t \in Thread, HandleDisconnect(t) PROVE ReconnectNotAbandoned'
    <2>1. CASE thread[t].why = "permanent"
      BY <1>1, <1>12, <2>1 DEF HandleDisconnect
    <2>2. CASE thread[t].why # "permanent"
      <3>1. thread'[t] = Capturing("sleep")
        BY <1>12, <2>2, GotoThread DEF HandleDisconnect
      <3> QED BY <3>1, RecordRetries, NowRetrying
    <2> QED BY <2>1, <2>2
  <1>13. ASSUME NEW t \in Thread, CloseConn(t) PROVE ReconnectNotAbandoned'
    <2> DEFINE next == [thread[t] EXCEPT !.pc = "closeUdp", !.conn = NoConn, !.udp = udp]
    <2>1. next.pc = "closeUdp" /\ next.op = thread[t].op
      BY DEF TypeOK, ThreadType, ThreadState
    <2>2. thread'[t] = next /\ Others(t)
      BY <1>13, GotoThread DEF CloseConn
    <2>3. Retries(thread[t]) => Retries(thread'[t])
      BY <1>13, <2>1, <2>2 DEF CloseConn, Retries
    <2>4. NewSocket => NewSocket'
      <3>1. CASE conn = NoConn
        BY <3>1 DEF NewSocket
      <3>2. CASE conn # NoConn
        <4>1. thread[t].conn # conn
          BY <1>13, <3>2 DEF CloseConn, TakenOnce
        <4> QED BY <1>13, <4>1, SocketKept DEF CloseConn
      <3> QED BY <3>1, <3>2
    <2> QED BY <1>13, <2>2, <2>3, <2>4, StillRetrying DEF CloseConn, history
  <1>14. ASSUME NEW t \in Thread, CloseUdp(t) PROVE ReconnectNotAbandoned'
    <2>1. CASE thread[t].op = "connect"
      BY <1>1, <1>14, <2>1 DEF CloseUdp
    <2>2. CASE thread[t].op # "connect"
      <3>1. thread'[t] = AfterClose(thread[t].op) /\ Others(t)
        BY <1>14, GotoThread DEF CloseUdp
      <3>2. Retries([At("perform") EXCEPT !.op = "updateServer"])
        BY DEF At, Idle, Retries
      <3>3. Retries(thread[t]) => thread[t].op = "updateServer"
        BY <1>14, <2>2 DEF CloseUdp, Retries
      <3> QED
        BY <1>14, <2>2, <3>1, <3>2, <3>3, StillRetrying DEF CloseUdp, AfterClose, NewSocket
    <2> QED BY <2>1, <2>2
  <1>15. ASSUME NEW t \in Thread, DialOk(t) PROVE ReconnectNotAbandoned'
    <2>1. ~Retries(thread[t])
      BY <1>15 DEF DialOk, Retries
    <2>2. Others(t)
      BY <1>15, GotoThread DEF DialOk
    <2>3. NewSocket => NewSocket'
      BY <1>15 DEF DialOk, NewSocket, DialsAnew, TypeOK, FieldType, NetType, gatewayVars
    <2> QED BY <1>15, <2>1, <2>2, <2>3, StillRetrying DEF DialOk, gatewayVars, history
  <1>16. ASSUME NEW t \in Thread, ConnectReturns(t) \/ Wake(t) \/ CheckGeneration(t)
         PROVE  ReconnectNotAbandoned'
    <2>1. UNCHANGED <<conn, ws, greeted, wanted, gstate>>
      BY <1>16 DEF ConnectReturns, Wake, CheckGeneration, gatewayVars, netVars, history
    <2>2. NewSocket => NewSocket'
      BY <2>1 DEF NewSocket
    <2>3. PICK next : Goto(t, next) /\ (gstate = "reconnecting" /\ Retries(thread[t]) => Retries(next))
      BY <1>16, RecordRetries DEF ConnectReturns, Returns, Wake, StillDials, CheckGeneration, Retries
    <2>4. thread'[t] = next /\ Others(t)
      BY <2>3, GotoThread
    <2> QED BY <2>1, <2>2, <2>3, <2>4 DEF ReconnectNotAbandoned, Retrying, Others
  <1>17. ASSUME NEW t \in Thread, UdpConnected(t) PROVE ReconnectNotAbandoned'
    <2>1. CASE sock[thread[t].udp] = "interrupted"
      BY <1>2, <1>17, <2>1 DEF UdpConnected
    <2>2. CASE sock[thread[t].udp] # "interrupted"
      <3>1. ~Retries(thread[t])
        BY <1>17 DEF UdpConnected, Retries
      <3>2. Others(t)
        BY <1>17, <2>2, GotoThread DEF UdpConnected
      <3> QED BY <1>17, <3>1, <3>2, StillRetrying DEF UdpConnected, NewSocket, history
    <2> QED BY <2>1, <2>2
  <1>18. ASSUME NEW t \in Thread, NEW c \in Conn, ReadyEvent(c, t) PROVE ReconnectNotAbandoned'
    <2>1. ~Retries(thread[t])
      BY <1>18 DEF ReadyEvent, Free, Retries
    <2>2. Others(t)
      BY <1>18, GotoThread DEF ReadyEvent
    <2> QED BY <1>18, <2>1, <2>2, StillRetrying DEF ReadyEvent, NewSocket, history
  <1>19. CASE UNCHANGED vars
    BY <1>19 DEF vars, gatewayVars, netVars, history, ReconnectNotAbandoned, Retrying, NewSocket
  <1> QED
    BY <1>3, <1>4, <1>5, <1>6, <1>7, <1>8, <1>9, <1>10, <1>11, <1>12, <1>13, <1>14, <1>15,
       <1>16, <1>17, <1>18, <1>19 DEF Next, TaskStep, Event

-----------------------------------------------------------------------------
(* The inductive invariant holds in every behaviour.                       *)
LEMMA Invariant == Spec => []IInv
  <1>1. Init => IInv
    <2>1. Init => ResumeNeedsSession
      BY DEF Init, ResumeNeedsSession, Idle
    <2>2. Init => DialsAnew /\ ReconnectNotAbandoned /\ TakenOnce
      BY DEF Init, DialsAnew, ReconnectNotAbandoned, TakenOnce, Idle
    <2> QED BY <2>1, <2>2, InitType DEF IInv
  <1>2. IInv /\ [Next]_vars => IInv'
    BY StepType, StepDials, StepRetry, StepTaken, StepResume DEF IInv
  <1> QED BY <1>1, <1>2, PTL DEF Spec

(* While a connection is wanted, reconnecting always has someone at work   *)
(* on it, whichever calls, drops and stale tasks interleave.               *)
THEOREM NeverAbandoned == Spec => []ReconnectNotAbandoned
  BY Invariant, PTL DEF IInv

(* A connection taken from connectionLock has one taker, and it never      *)
(* comes back as the gateway's connection while it is being closed.        *)
THEOREM OneTaker == Spec => []TakenOnce
  BY Invariant, PTL DEF IInv

(* A resume is asked for only after a session description or a migration.  *)
THEOREM NoBlindResume == Spec => []ResumeNeedsSession
  BY Invariant, PTL DEF IInv
=============================================================================
