---------------------------- MODULE VoiceGateway ----------------------------
(***************************************************************************)
(* The connection life cycle of Sources/Gateway/VoiceGateway.swift: the    *)
(* public calls connect, disconnect and updateServer, the events a         *)
(* GatewayConnection delivers on its event loop, and the Swift tasks these *)
(* start (handshake, UDP discovery, reconnect back-off, heartbeat          *)
(* timeout).  Nothing serialises them but one lock per field, so a thread  *)
(* here takes one step per synchronous stretch, and a stretch is cut again *)
(* wherever the code checks something and acts on it later.                *)
(*                                                                         *)
(* A thread is a task, a caller or an event loop inside a handler.  The    *)
(* server and the network are the environment: events happen when they are *)
(* possible, faults at most MaxFaults times.                               *)
(***************************************************************************)
EXTENDS Naturals, FiniteSets

CONSTANTS
  Conn,       \* GatewayConnection objects (and the WebSocketClient each owns)
  Udp,        \* UDPConnection objects
  Thread,     \* slots for running tasks, calls and event-loop handlers
  NoConn, NoUdp, NoThread,  \* nil
  Ops,        \* the public calls the application makes
  MaxCalls,   \* bound on the number of public calls
  MaxFaults   \* bound on closes, errors, timeouts and failed dials

AllOps == {"connect", "disconnect", "updateServer"}

ASSUME SentinelAssumption == NoConn \notin Conn /\ NoUdp \notin Udp /\ NoThread \notin Thread
ASSUME OpsAssumption == Ops \subseteq AllOps
ASSUME BoundAssumption == MaxCalls \in Nat /\ MaxFaults \in Nat

VARIABLES
  gstate,        \* stateMachine
  session,       \* sessionLock holds a session
  resumePending, \* isResumePending
  conn,          \* connectionLock
  beating,       \* heartbeatLock holds a manager whose loop runs
  udp,           \* udpConnectionLock
  enc,           \* voiceEncryptionLock holds a key
  ssrc,          \* ssrcLock holds an SSRC
  slot,          \* tasksLock.reconnect
  thread,        \* what every thread is about to do
  ws,            \* the WebSocket of every connection
  greeted,       \* connections whose Hello was handled
  srv,           \* how far the server is in the handshake of a connection
  sock,          \* the socket of every UDPConnection
  calls, faults, \* used up of MaxCalls and MaxFaults
  known,         \* history: a session was "described", or only a migration requested
  wanted,        \* history: the last call wants a connection
  promise        \* history: what the last call or a permanent close promised

gatewayVars == <<gstate, session, resumePending, conn, beating, udp, enc, ssrc, slot>>
netVars == <<ws, greeted, srv, sock>>
history == <<known, wanted, promise>>
vars == <<gatewayVars, thread, netVars, calls, faults, history>>

GatewayState == {"disconnected", "connecting", "identifying", "discovering",
                 "negotiating", "ready", "reconnecting"}

(* Where a thread is.  "cut" is the rest of disconnect() after its         *)
(* transition; "hd" is handleDisconnect past its reads and before its      *)
(* writes; "check..." are tasks that have not compared generations yet.    *)
Pc == {"free", "cut", "closeConn", "closeUdp", "perform", "dial", "upgraded", "sleep",
       "checkHello", "handshake", "checkReady", "discovery", "udpConnect", "discover",
       "select", "hbTimeout", "hd"}

ThreadState == [pc : Pc, op : AllOps \cup {"none", "heartbeat", "permanent"},
                current : BOOLEAN, conn : Conn \cup {NoConn}, udp : Udp \cup {NoUdp},
                why : {"none", "resume", "identify", "permanent"}]

Idle == [pc |-> "free", op |-> "none", current |-> FALSE, conn |-> NoConn, udp |-> NoUdp,
         why |-> "none"]
At(pc) == [Idle EXCEPT !.pc = pc]

Free(t) == thread[t].pc = "free"
Goto(t, next) == thread' = [thread EXCEPT ![t] = next]

(* connectionGeneration is only ever compared with the value a task        *)
(* captured: what matters of it is which tasks hold the current one.       *)
Capturing(pc) == [At(pc) EXCEPT !.current = TRUE]
Advanced(threads) == [t \in Thread |-> [threads[t] EXCEPT !.current = FALSE]]

(* The event closure holds its GatewayConnection weakly, so a connection   *)
(* delivers events only while something keeps it; one event at a time.     *)
Alive(c) == conn = c \/ \E t \in Thread : thread[t].conn = c
Delivers(c) == /\ ws[c] = "open"
               /\ Alive(c)
               /\ ~ \E t \in Thread : thread[t].pc = "hd" /\ thread[t].conn = c

(* cancelAllTasks reaches a task only in its sleep.                        *)
Cancelled == [t \in Thread |-> IF t = slot /\ thread[t].pc = "sleep" THEN Idle ELSE thread[t]]

(* close() of a WebSocketClient does nothing while its channel is not up.  *)
Close(c) == /\ ws' = [x \in Conn |-> IF x = c /\ ws[x] = "open" THEN "closed" ELSE ws[x]]
            /\ greeted' = greeted \ {c}
            /\ srv' = [x \in Conn |-> IF x = c THEN "new" ELSE srv[x]]
UdpClosed(u) == [x \in Udp |-> CASE x = u /\ sock[x] = "connecting" -> "interrupted"
                                 [] x = u /\ sock[x] = "open" -> "closed"
                                 [] OTHER -> sock[x]]

Calling == \E t \in Thread : thread[t].op \in {"connect", "updateServer"}

(* connectionLock.write { let temp = old; old = nil; return temp }         *)
Kept == UNCHANGED conn  \* mutant: the lock keeps what was taken
Taken == conn' = NoConn

Init == /\ gstate = "disconnected" /\ session = FALSE
        /\ resumePending = FALSE /\ conn = NoConn /\ beating = FALSE
        /\ udp = NoUdp /\ enc = FALSE /\ ssrc = FALSE /\ slot = NoThread
        /\ thread = [t \in Thread |-> Idle]
        /\ ws = [c \in Conn |-> "closed"] /\ greeted = {} /\ srv = [c \in Conn |-> "new"]
        /\ sock = [u \in Udp |-> "closed"]
        /\ calls = 0 /\ faults = 0
        /\ known = "none" /\ wanted = FALSE /\ promise = "offline"

-----------------------------------------------------------------------------
(* Public calls.  connect() begins with the whole of disconnect().         *)

Call(t, op) == op \in Ops /\ calls < MaxCalls /\ calls' = calls + 1 /\ Free(t)

Disconnect(t, op) ==
  /\ op \in {"connect", "disconnect"} /\ Call(t, op)
  /\ gstate' = "disconnected"
  /\ Goto(t, [At("cut") EXCEPT !.op = op])
  /\ wanted' = (op = "connect") /\ promise' = "none"
  /\ UNCHANGED <<session, resumePending, conn, beating, udp, enc, ssrc, slot,
                 netVars, faults, known>>

(* The connection is taken out of its lock, then closed by the taker.      *)
DisconnectCut(t) ==
  /\ thread[t].pc = "cut"
  /\ beating' = FALSE /\ resumePending' = FALSE /\ slot' = NoThread
  /\ Taken
  /\ thread' = [Advanced(Cancelled) EXCEPT ![t] = [thread[t] EXCEPT !.pc = "closeConn", !.conn = conn]]
  /\ wanted' = (thread[t].op = "connect")
  /\ UNCHANGED <<gstate, session, udp, enc, ssrc, netVars, calls, faults, known, promise>>

UpdateServer(t) ==
  /\ session /\ Call(t, "updateServer")
  /\ gstate' = "reconnecting"
  /\ beating' = FALSE /\ resumePending' = TRUE /\ slot' = NoThread
  /\ Taken
  /\ thread' = [Advanced(Cancelled) EXCEPT
                  ![t] = [At("closeConn") EXCEPT !.op = "updateServer", !.conn = conn]]
  /\ known' = (IF known = "none" THEN "migrated" ELSE known)
  /\ wanted' = TRUE /\ promise' = "none"
  /\ UNCHANGED <<session, udp, enc, ssrc, netVars, faults>>

CloseConn(t) ==
  /\ thread[t].pc = "closeConn" /\ thread[t].op # "heartbeat"
  /\ Close(thread[t].conn)
  /\ udp' = NoUdp
  /\ Goto(t, [thread[t] EXCEPT !.pc = "closeUdp", !.conn = NoConn, !.udp = udp])
  /\ UNCHANGED <<gstate, session, resumePending, conn, beating, enc, ssrc, slot,
                 sock, calls, faults, history>>

(* What each caller of UDPConnection.close() goes on with.                 *)
AfterCloseNoDial(op) == IF op = "connect" THEN [At("perform") EXCEPT !.op = op] ELSE Idle  \* mutant
AfterClose(op) == IF op \in {"connect", "updateServer"} THEN [At("perform") EXCEPT !.op = op]
                                                        ELSE Idle

CloseUdp(t) ==
  /\ thread[t].pc = "closeUdp"
  /\ sock' = UdpClosed(thread[t].udp)
  /\ LET op == thread[t].op IN
     /\ IF op \in {"connect", "disconnect"} THEN enc' = FALSE /\ ssrc' = FALSE
                                            ELSE UNCHANGED <<enc, ssrc>>
     /\ IF op = "connect"
          THEN session' = TRUE /\ resumePending' = FALSE /\ gstate' = "connecting"
          ELSE UNCHANGED <<session, resumePending, gstate>>
     /\ Goto(t, AfterClose(op))
     /\ promise' = IF op = "disconnect" /\ ~Calling THEN "offline" ELSE promise
  /\ UNCHANGED <<conn, beating, udp, slot, ws, greeted, srv, calls, faults,
                 known, wanted>>

-----------------------------------------------------------------------------
(* performConnect: a new connection replaces the old one, which nobody     *)
(* closes; then dial.                                                      *)

PerformConnect(t, c) ==
  /\ thread[t].pc = "perform" /\ ~Alive(c)
  /\ conn' = c
  /\ ws' = [ws EXCEPT ![c] = "dialing"]
  /\ greeted' = greeted \ {c} /\ srv' = [srv EXCEPT ![c] = "new"]
  /\ thread' = [Advanced(thread) EXCEPT ![t] = [thread[t] EXCEPT !.pc = "dial", !.conn = c]]
  /\ UNCHANGED <<gstate, session, resumePending, beating, udp, enc, ssrc, slot, sock,
                 calls, faults, history>>

DialOk(t) ==
  /\ thread[t].pc = "dial"
  /\ ws' = [ws EXCEPT ![thread[t].conn] = "open"]
  /\ Goto(t, [thread[t] EXCEPT !.pc = "upgraded"])
  /\ UNCHANGED <<gatewayVars, greeted, srv, sock, calls, faults, history>>

ReturnsWhenReady(t) == thread[t].pc = "upgraded" /\ gstate = "ready"  \* mutant
Returns(t) == thread[t].pc = "upgraded"

ConnectReturns(t) ==
  /\ Returns(t)
  /\ Goto(t, Idle)
  /\ UNCHANGED <<gatewayVars, netVars, calls, faults, history>>

Fault == faults < MaxFaults /\ faults' = faults + 1

(* handleDisconnect up to its writes: the heartbeats stop, a disconnected  *)
(* gateway returns, and the reason decides what is left to do.             *)
Dropping(t, todo, c) ==
  /\ beating' = FALSE
  /\ Goto(t, IF gstate = "disconnected" THEN Idle
             ELSE [At("hd") EXCEPT !.op = thread[t].op, !.conn = c, !.why = todo])

DroppedEager(t, why, c) ==  \* mutant: every drop tries to resume
  Dropping(t, IF why = "other" THEN "resume" ELSE "identify", c) /\ UNCHANGED resumePending

Dropped(t, why, c) ==
  /\ Dropping(t, CASE why = "permanent" -> "permanent"
                   [] why = "other" /\ resumePending -> "resume"
                   [] OTHER -> "identify", c)
  /\ resumePending' = (resumePending /\ (why = "invalid" => gstate = "disconnected"))

DialFail(t) ==
  /\ thread[t].pc = "dial" /\ Fault
  /\ ws' = [ws EXCEPT ![thread[t].conn] = "closed"]
  /\ Dropped(t, "other", NoConn)
  /\ UNCHANGED <<gstate, session, conn, udp, enc, ssrc, slot,
                 greeted, srv, sock, calls, history>>

(* The rest of handleDisconnect.  The reconnect task takes over the slot   *)
(* of the thread that starts it; a permanent close leaves the connection,  *)
(* the generation and the tasks as they are.                               *)
HandleDisconnect(t) ==
  /\ thread[t].pc = "hd"
  /\ IF thread[t].why = "permanent"
       THEN /\ resumePending' = FALSE /\ gstate' = "disconnected"
            /\ udp' = NoUdp /\ enc' = FALSE /\ ssrc' = FALSE
            /\ Goto(t, [At("closeUdp") EXCEPT !.op = "permanent", !.udp = udp])
            /\ promise' = IF Calling THEN promise ELSE "over"
            /\ UNCHANGED slot
       ELSE /\ resumePending' = (thread[t].why = "resume") /\ gstate' = "reconnecting"
            /\ Goto(t, Capturing("sleep"))
            /\ slot' = t
            /\ UNCHANGED <<udp, enc, ssrc, promise>>
  /\ UNCHANGED <<session, conn, beating, netVars, calls, faults, known, wanted>>

(* The back-off is over: any delay is possible (see ReconnectManager).     *)
DialsWhenOffline(t) == thread[t].current /\ gstate = "disconnected"  \* mutant
StillDials(t) == thread[t].current /\ gstate = "reconnecting"

Wake(t) ==
  /\ thread[t].pc = "sleep"
  /\ Goto(t, IF StillDials(t) THEN At("perform") ELSE Idle)
  /\ UNCHANGED <<gatewayVars, netVars, calls, faults, history>>

-----------------------------------------------------------------------------
(* Events of a connection.                                                 *)

Hello(c, t) ==
  /\ Delivers(c) /\ c \notin greeted /\ Free(t)
  /\ greeted' = greeted \cup {c}
  /\ beating' = TRUE
  /\ Goto(t, Capturing("checkHello"))
  /\ UNCHANGED <<gstate, session, resumePending, conn, udp, enc, ssrc, slot,
                 ws, srv, sock, calls, faults, history>>

ReadyEvent(c, t) ==
  /\ Delivers(c) /\ srv[c] = "identified" /\ Free(t)
  /\ srv' = [srv EXCEPT ![c] = "readied"]
  /\ ssrc' = TRUE
  /\ Goto(t, Capturing("checkReady"))
  /\ UNCHANGED <<gstate, session, resumePending, conn, beating, udp, enc, slot,
                 ws, greeted, sock, calls, faults, history>>

(* guard isCurrentGen else { return } of the two handshake tasks           *)
CheckGeneration(t) ==
  /\ thread[t].pc \in {"checkHello", "checkReady"}
  /\ Goto(t, IF ~thread[t].current THEN Idle
             ELSE At(IF thread[t].pc = "checkHello" THEN "handshake" ELSE "discovery"))
  /\ UNCHANGED <<gatewayVars, netVars, calls, faults, history>>

(* sendResume or sendIdentify; a failure to send is only logged.           *)
Handshake(t) ==
  /\ thread[t].pc = "handshake"
  /\ gstate' = "identifying"
  /\ srv' = [c \in Conn |-> IF c = conn /\ ws[c] = "open" /\ srv[c] = "new"
                              THEN IF resumePending THEN "resuming" ELSE "identified"
                              ELSE srv[c]]
  /\ Goto(t, Idle)
  /\ UNCHANGED <<session, resumePending, conn, beating, udp, enc, ssrc, slot,
                 ws, greeted, sock, calls, faults, history>>

Resumed(c) ==
  /\ Delivers(c) /\ srv[c] = "resuming" /\ known = "described"
  /\ srv' = [srv EXCEPT ![c] = "live"]
  /\ gstate' = "ready"
  /\ UNCHANGED <<session, resumePending, conn, beating, udp, enc, ssrc, slot,
                 thread, ws, greeted, sock, calls, faults, history>>

SessionDescription(c) ==
  /\ Delivers(c) /\ srv[c] = "selected"
  /\ srv' = [srv EXCEPT ![c] = "live"]
  /\ enc' = TRUE /\ gstate' = "ready" /\ resumePending' = TRUE
  /\ known' = "described"
  /\ UNCHANGED <<session, conn, beating, udp, ssrc, slot, thread, ws, greeted,
                 sock, calls, faults, wanted, promise>>

(* The server closes the WebSocket, or it goes down.                       *)
CloseEvent(c, t, why) ==
  /\ Delivers(c) /\ Free(t) /\ Fault
  /\ Close(c)
  /\ Dropped(t, why, c)
  /\ UNCHANGED <<gstate, session, conn, udp, enc, ssrc, slot,
                 sock, calls, history>>

(* A frame that does not decode, or an unsupported encryption mode: the    *)
(* gateway treats it as a disconnect and leaves the channel open.          *)
ErrorEvent(c, t) ==
  /\ Delivers(c) /\ Free(t) /\ Fault
  /\ Dropped(t, "other", c)
  /\ UNCHANGED <<gstate, session, conn, udp, enc, ssrc, slot,
                 netVars, calls, history>>

-----------------------------------------------------------------------------
(* UDP discovery, run by the task that Ready starts.                       *)

StartUdp(t, u) ==
  /\ thread[t].pc = "discovery"
  /\ udp # u /\ \A x \in Thread : thread[x].udp # u
  /\ gstate' = "discovering"
  /\ udp' = u
  /\ sock' = [sock EXCEPT ![u] = "connecting"]
  /\ Goto(t, [At("udpConnect") EXCEPT !.udp = u])
  /\ UNCHANGED <<session, resumePending, conn, beating, enc, ssrc, slot,
                 ws, greeted, srv, calls, faults, history>>

(* A socket closed while it was connecting stays open: close() saw no      *)
(* channel.  discoverIP then refuses the idle connection.                  *)
UdpConnected(t) ==
  /\ thread[t].pc = "udpConnect"
  /\ sock' = [sock EXCEPT ![thread[t].udp] = "open"]
  /\ IF sock[thread[t].udp] = "interrupted"
       THEN Dropped(t, "other", NoConn)
       ELSE Goto(t, [thread[t] EXCEPT !.pc = "discover"]) /\ UNCHANGED <<beating, resumePending>>
  /\ UNCHANGED <<gstate, session, conn, udp, enc, ssrc, slot, ws, greeted, srv,
                 calls, faults, history>>

(* No supported mode, a failed connect, or no answer in time.              *)
UdpFail(t) ==
  /\ thread[t].pc \in {"discovery", "udpConnect", "discover"}
  /\ IF thread[t].pc = "discover" /\ sock[thread[t].udp] = "closed"
       THEN UNCHANGED faults ELSE Fault
  /\ sock' = [u \in Udp |-> IF u = thread[t].udp THEN "closed" ELSE sock[u]]
  /\ Dropped(t, "other", NoConn)
  /\ UNCHANGED <<gstate, session, conn, udp, enc, ssrc, slot, ws, greeted, srv,
                 calls, history>>

Discovered(t) ==
  /\ thread[t].pc = "discover" /\ sock[thread[t].udp] = "open"
  /\ Goto(t, At("select"))
  /\ UNCHANGED <<gatewayVars, netVars, calls, faults, history>>

SelectProtocol(t) ==
  /\ thread[t].pc = "select"
  /\ gstate' = "negotiating"
  /\ IF conn # NoConn /\ ws[conn] = "open"
       THEN /\ srv' = [srv EXCEPT ![conn] = IF @ = "readied" THEN "selected" ELSE @]
            /\ Goto(t, Idle) /\ UNCHANGED <<beating, resumePending>>
       ELSE /\ UNCHANGED <<srv, resumePending>> /\ beating' = FALSE
            /\ Goto(t, [At("hd") EXCEPT !.why = IF resumePending THEN "resume" ELSE "identify"])
  /\ UNCHANGED <<session, conn, udp, enc, ssrc, slot, ws, greeted, sock,
                 calls, faults, history>>

-----------------------------------------------------------------------------
(* handleHeartbeatTimeout.  Its task does not look at the generation.      *)

HeartbeatTimeout(t) ==
  /\ beating /\ Free(t) /\ Fault
  /\ beating' = FALSE
  /\ Goto(t, At("hbTimeout"))
  /\ UNCHANGED <<gstate, session, resumePending, conn, udp, enc, ssrc, slot,
                 netVars, calls, history>>

TakeConnection(t) ==
  /\ thread[t].pc = "hbTimeout"
  /\ beating' = FALSE /\ Taken
  /\ Goto(t, [At("closeConn") EXCEPT !.op = "heartbeat", !.conn = conn])
  /\ UNCHANGED <<gstate, session, resumePending, udp, enc, ssrc, slot,
                 netVars, calls, faults, history>>

HeartbeatClosed(t) ==
  /\ thread[t].pc = "closeConn" /\ thread[t].op = "heartbeat"
  /\ Close(thread[t].conn)
  /\ Dropped(t, "other", NoConn)
  /\ UNCHANGED <<gstate, session, conn, udp, enc, ssrc, slot,
                 sock, calls, faults, history>>

-----------------------------------------------------------------------------
TaskStep(t) ==
  \/ DisconnectCut(t) \/ CloseConn(t) \/ CloseUdp(t)
  \/ \E c \in Conn : PerformConnect(t, c)
  \/ DialOk(t) \/ DialFail(t) \/ ConnectReturns(t)
  \/ HandleDisconnect(t) \/ Wake(t) \/ CheckGeneration(t) \/ Handshake(t)
  \/ \E u \in Udp : StartUdp(t, u)
  \/ UdpConnected(t) \/ UdpFail(t) \/ Discovered(t) \/ SelectProtocol(t)
  \/ TakeConnection(t) \/ HeartbeatClosed(t)

Event(c, t) == \/ Hello(c, t) \/ ReadyEvent(c, t) \/ Resumed(c) \/ SessionDescription(c)
               \/ \E why \in {"permanent", "invalid", "other"} : CloseEvent(c, t, why)
               \/ ErrorEvent(c, t)

Next == \E t \in Thread :
  \/ \E op \in AllOps : Disconnect(t, op)
  \/ UpdateServer(t)
  \/ HeartbeatTimeout(t)
  \/ TaskStep(t)
  \/ \E c \in Conn : Event(c, t)

Spec == Init /\ [][Next]_vars

(* Every task, dial and socket operation ends (dials and discovery have    *)
(* time limits) and a server that is up greets a new WebSocket.            *)
Fairness == /\ \A t \in Thread : WF_vars(TaskStep(t))
            /\ \A c \in Conn : WF_vars(\E t \in Thread : Hello(c, t))
FairSpec == Spec /\ Fairness

-----------------------------------------------------------------------------
FieldType == /\ gstate \in GatewayState
             /\ session \in BOOLEAN /\ resumePending \in BOOLEAN /\ beating \in BOOLEAN
             /\ enc \in BOOLEAN /\ ssrc \in BOOLEAN
             /\ conn \in Conn \cup {NoConn} /\ udp \in Udp \cup {NoUdp}
             /\ slot \in Thread \cup {NoThread}

ThreadType == thread \in [Thread -> ThreadState]

NetType == /\ ws \in [Conn -> {"dialing", "open", "closed"}]
           /\ greeted \subseteq Conn
           /\ srv \in [Conn -> {"new", "identified", "readied", "selected", "resuming", "live"}]
           /\ sock \in [Udp -> {"connecting", "interrupted", "open", "closed"}]

CountType == calls \in 0 .. MaxCalls /\ faults \in 0 .. MaxFaults

HistoryType == /\ known \in {"none", "migrated", "described"}
               /\ wanted \in BOOLEAN
               /\ promise \in {"none", "offline", "over"}

TypeOK == FieldType /\ ThreadType /\ NetType /\ CountType /\ HistoryType

(* Somebody is still going to bring the connection back: a reconnect task  *)
(* of this generation, a call or a handler on its way, or a new WebSocket. *)
Retries(r) ==
  \/ r.pc \in {"hd", "hbTimeout", "perform", "handshake", "cut", "discovery", "select"}
  \/ r.pc \in {"closeConn", "closeUdp"} /\ r.op \in {"connect", "updateServer"}
  \/ r.pc = "closeConn" /\ r.op = "heartbeat"
  \/ r.pc \in {"sleep", "checkHello"} /\ r.current

NewSocket == /\ conn # NoConn
             /\ ws[conn] = "dialing" \/ (ws[conn] = "open" /\ conn \notin greeted)

Retrying == NewSocket \/ \E t \in Thread : Retries(thread[t])

(* While a connection is wanted, "reconnecting" is never the end of the    *)
(* line: cancelled tasks, stale generations and taken connections always   *)
(* leave someone who retries (VoiceGateway.triggerReconnect).              *)
ReconnectNotAbandoned == wanted /\ gstate = "reconnecting" => Retrying

(* Taking a connection out of its lock gives it to one thread: nobody else *)
(* closes it and it is never the gateway's connection again.               *)
TakenOnce ==
  \A t \in Thread : thread[t].pc = "closeConn" /\ thread[t].conn # NoConn =>
    /\ thread[t].conn # conn
    /\ \A x \in Thread \ {t} : thread[x].pc = "closeConn" => thread[x].conn # thread[t].conn

(* A gateway that never received a session description and never migrated  *)
(* identifies: it has nothing to resume, whatever order drops arrive in.   *)
ResumeNeedsSession ==
  /\ resumePending => known # "none"
  /\ \A t \in Thread : thread[t].why = "resume" => known # "none"
  /\ \A c \in Conn : srv[c] = "resuming" => known # "none"

(* disconnect() returned and no other call runs: the gateway is offline    *)
(* (".disconnected: ... totally offline").                                 *)
StaysOffline == promise = "offline" => gstate = "disconnected"

(* A permanent close is the end until the next call (the log line of       *)
(* handleDisconnect: "disconnected permanently").                          *)
PermanentIsPermanent == promise = "over" => gstate = "disconnected"

(* disconnect() "tears down the udp sockets".                              *)
DisconnectFreesUdp == promise = "offline" => \A u \in Udp : sock[u] # "open"

(* ready means "clear to blast audio": there is a UDP connection.          *)
ReadyHasUdp == gstate = "ready" /\ ~Calling => udp # NoUdp

(* The handshake never ends up with nobody left to continue it: the caller *)
(* does not "have to write custom logic to reconnect".                     *)
NotStranded ==
  wanted /\ promise = "none" /\ gstate = "identifying" =>
    Retrying \/ (conn # NoConn /\ ws[conn] = "open") \/ \E t \in Thread : ~Free(t)

(* A call on its way returns: it waits for sockets, never for another call.*)
CallsReturn == \A t \in Thread : thread[t].op \in AllOps ~> thread[t].op \notin AllOps

(* A wanted connection leaves "reconnecting" for a handshake.              *)
RetryHappens == wanted /\ gstate = "reconnecting" ~> ~wanted \/ gstate # "reconnecting"
=============================================================================
