# A verification development of Flight

Flight (`src/Sources`) is a Swift library that connects a bot to Discord voice: a
WebSocket to a voice gateway, a UDP socket for audio, an end-to-end encryption session,
and a player and a receiver on top. The Swift code has no tests. Nearly all of its state is
a set of `Protected` fields (a value and a lock each), written by callers, by Swift tasks
and by event-loop handlers, with no lock that spans two fields. What can go wrong there is
mostly an order of steps nobody wrote down. The repository also holds the C++ the
encryption is made of: libdave (the session of a call, the encryptor and decryptor of its
frames) and mlspp (the MLS group below it). There it is messages that come late, twice or
out of order, counters at their wrap, and long sequences of legal calls. Both are modelled.

## 1. Inventory

| Component (source) | State | Operations | Talks to | What makes it correct |
|---|---|---|---|---|
| `VoiceGateway` (`Gateway/VoiceGateway.swift`) | state machine, session, resume flag, current connection, generation, heartbeat manager, UDP connection, encryption, SSRC, two task handles | `connect`, `disconnect`, `updateServer`; Hello, Ready, Resumed, SessionDescription, close and error events; handshake, discovery, reconnect and time-out tasks | all of the below | a wanted connection is never given up silently; nothing old acts on something new; `disconnect` is final |
| `GatewayConnection`, `WebSocketClient` | the client, its channel, "closing intentionally" | dial and upgrade, send, close, decode and emit events | gateway (weak callback) | one close or error per socket, none after an intended close |
| `UDPConnection` (`UDP/UDPConnection.swift`) | state machine, channel, discovery continuation with its retry and time-out tasks | `connect`, `discoverIP`, datagram handler, time-out, `close`, `send` | gateway | the continuation is resumed exactly once; no task or socket is left behind |
| `HeartbeatManager` | sequence, ack pending, loop task | start, stop, ack | gateway (callback) | a connection that answers is never given up, one that does not always is |
| `ReconnectManager` | attempts, stable timer | `nextDelay`, `connectionSucceeded`, `reset`, `stop` | gateway | back-off grows to its cap and restarts only after a stable connection |
| `JitterBuffer` | packets, expected sequence, buffering flag, dispatch task | `push`, dispatch tick, `stop` | receiver | packets play once, in order |
| `AudioPlayer`, `FrameScheduler`, `QueueManager` | player state, track, scheduler, queue index and loop mode | play, pause, resume, stop, skip; tick; end of track | client | stop stops; every track finishes once |
| `VoiceClient`, `VoiceTransporter` | transporter, key and SSRC in a lock each; speaking flag and three counters of each transporter | `sendOpusFrame`, `startSpeaking`, `stopSpeaking`, `disconnect`; session descriptions | gateway, player, DAVE | audio is announced before it is sent, and no nonce is sealed twice with one key |
| `VoiceReceiver`, `UserStreamManager` | per-user buffers, decoders and streams | packet handling, user removal | gateway, jitter buffers | one loop per speaker; a user's resources go with the user |
| `DaveSessionManager` | prepared transitions, decryptors | prepare, execute, epochs, proposals, commits, welcomes | gateway (delegate) | keys change only by executed transitions |
| libdave `Encryptor`, `Decryptor`, `CryptorManager`, frame processors (`CLibdave/.../src`) | sender: ratchet, generation, nonce; receiver: a manager per ratchet with its keys, window of nonces and expiry, passthrough deadline | `Encrypt`, `Decrypt`, `SetKeyRatchet`, `TransitionToKeyRatchet`, `TransitionToPassthroughMode` | `DaveSessionManager`, network | while no ratchet is given again, no nonce is used twice and nothing is decrypted twice; what comes in time is decrypted and unchanged, old keys go |
| libdave `Session` (`mls/session.cpp`) | current, pending, working and cached `State`, proposal queue, join package, external sender | `Init`, `Reset`, `SetExternalSender`, `ProcessProposals`, `ProcessCommit`, `ProcessWelcome`, `GetMarshalledKeyPackage` | `DaveSessionManager`, mlspp | only what the server accepted is adopted; nobody is left behind; a failure leads back in |
| mlspp tree, TreeKEM and `State` (`CMLS/mlspp/src`) | public tree, private keys, epoch, transcript | `add_leaf`, `blank_path`, `encap`, `decap`, `merge`, `commit`, `handle`, join | libdave `Session` | every member follows every commit, those removed cannot |
| `SharedStreamCache` | cached and in-flight downloads | `resolve`, `clearCache` | file system | one download per URL |
| `AsyncState`, `Protected` | a value and its waiters | read, write, transition | everything | the atomic step of all models |
| codecs, crypto, payloads, vendored C | | | | not modelled (section 7) |

The hazards these parts are exposed to, with the line where each bites, are listed in
`PROJECT.json`; section 4 says which property watches which.

## 2. Modules

| Module | What it is |
|---|---|
| `VoiceGateway` | the connection life cycle: gateway, connections, UDP sockets and every task |
| `VoiceGatewayProofs` | its inductive invariant and theorems |
| `UDPConnection` | one UDP connection and the race for its discovery continuation |
| `OneShot` | the abstract promise of a continuation: resumed once, with one result |
| `UDPConnectionProofs` | the invariant of `UDPConnection`, its refinement of `OneShot`, and the theorems of `JitterBuffer` |
| `QueueManager` | the queue's fields and what each of its operations does to them |
| `AudioPlayer` | the player with its frame schedulers, extending `QueueManager` |
| `AudioPlayerProofs` | its inductive invariant and theorems |
| `JitterBuffer` | one jitter buffer between a speaker, a network and a decoder |
| `VoiceReceiver` | the receiver's tables of buffers and decoders against `removeUser` |
| `VoiceReceiverProofs` | the inductive invariants and theorems of `VoiceReceiver` and `VoiceTransporter` |
| `VoiceTransporter` | frames on their way out: the client's locks, the speaking flag, the counters |
| `HeartbeatManager` | the heartbeats of each connection and the threads that start and stop them |
| `ReconnectManager` | the back-off and its stable timers |
| `ReconnectManagerProofs` | the inductive invariants and theorems of `ReconnectManager` and `HeartbeatManager` |
| `DaveSessionManager` | the end-to-end encryption actor and the tasks that call it |
| `DaveSessionManagerProofs` | its inductive invariant and theorems |
| `DaveSession` | libdave's session at every user, their managers, and the delivery service |
| `DaveSessionProofs` | its inductive invariants and theorems |
| `CryptorManager` | which generation and nonce of a ratchet may be decrypted: operators on a record |
| `FrameProcessor` | which bytes of a frame stay clear, and how the frame is put together again |
| `MediaChannel` | encryptor, network and decryptor, and the two clients' session managers that take them through transitions, on the two modules above |
| `MediaChannelProofs` | lemmas on one manager (arithmetic, its window of nonces, its keys, what it still accepts) and on the bytes of a frame, the inductive invariants and theorems of the channel |
| `TreeMath` | the arithmetic of nodes in the array of a binary tree |
| `TreeKEM` | the public tree, the private keys and the update path: operators on records |
| `MlsGroup` | clients that add, remove and commit on those trees |
| `MC...` | one per component: the values TLC needs, symmetry sets |

How they fit together: `VoiceGateway` contains the UDP connection only as a socket and the
two outcomes of a discovery; `UDPConnection` is the detail behind them: `DiscoveryEnds`
there is what justifies that `UdpConnected`, `Discovered` and `UdpFail` together are fair
here. `ReconnectManager` supplies the delay `VoiceGateway` leaves arbitrary, and
`HeartbeatManager` is the detail behind its heartbeat loop, whose time-out comes at any time
there. `VoiceTransporter` takes the frames `AudioPlayer` reads, and the calls with which it
stops speaking, as they come: two frames at a time, because `OneTicker` leaves the last tick
of a cancelled task beside the first of the next. `VoiceReceiver`
reduces a jitter buffer to how full it is and whether its loop runs; `JitterBuffer` is what
a buffer does with its packets. `DaveSessionManager` starts from the session description
that `VoiceGateway` ends its handshake with; the epochs and accepted commits it takes as
given are `DaveSession`'s. `MediaChannel` has what two such managers, one at the sender and
one at the receiver, do with the ratchets: `prepareTransition` installs them in decryptors,
`executeTransition` in the encryptor.
`DaveSession` knows a `State` by the history of commits it went through; `MlsGroup` is why
that is enough: members that handled the same commits have the same secrets.

## 3. How the models correspond to the code

`VoiceGateway.tla`. A variable stands for each locked field (`gstate` for
`stateMachine`, `conn` for `connectionLock`, `slot` for `tasksLock.reconnect`, ...). A
*thread* is a caller, a task or an event-loop handler; its `pc` says what it does next. A
step is a synchronous stretch of code, cut again where the code decides something and
acts on it later: `disconnect` between its transition and its resets (lines 102/104) and
after each await; `handleDisconnect` between its reads and its writes (561/563); the
handshake tasks between their generation check and their work (203/205, 238/240); the
heartbeat time-out between the loop's break and its task.

`connectionGeneration` only ever increases and is only compared with a captured value, so
a thread carries one bit: whether the value it captured is still the current one.
`Advanced` clears the bit of everybody. That keeps the state space finite with no bound on
the number of generations.

A connection delivers events only while something holds it, because the event closure is
weak, and one at a time, because a channel has one event loop. `close()` of a
`WebSocketClient` whose dial is under way finds no channel and does nothing: the dial then
succeeds, and if nobody holds the object it is silent. The sets `greeted` and the map
`srv` are the server's side of the handshake. The delay of a back-off is arbitrary.

`handleDisconnect` reads a close code; what it distinguishes is `permanent` (1000, 4004,
4011, 4012, 4014, 4016), `invalid` (4006) and `other`.

`UDPConnection.tla`. The four fields of `DiscoveryState` are set and cleared together, so
one Boolean `stored` stands for them. Whoever takes the continuation (`Take`) has it in
`hand` until it resumes it (`Resume`): the lock is released in between. A time-out task
past its sleep can no longer be cancelled. Lost datagrams are datagrams that never come;
`requested` says that there is a request to answer. `channelLock` and `remoteAddressLock`
are one variable; `send` changes nothing and has no action.

`QueueManager.tla` and `AudioPlayer.tla`. An actor is a thread of the application inside a
call, or the task of a scheduler inside a tick. `pause`, `resume`, `stop` and `startTrack`
hold `stateLock` from beginning to end and are one step each; `play`, `skip` and
`handleTrackFinished` hold nothing from one call to the next and are cut there: guard and
event (198/200), the choice of the queue (202), `advance()` between what it reads (84-92)
and what it writes, `currentTrack`, `startTrack` or `stop`. The two guards of a tick, on
state and on track, are one step: what they see together was true together at some moment
between them. The suspension in `source.nextFrame()` is the gap between `Tick` and `Read`.
Slots of tasks and schedulers are used again once nothing can refer to them. `quiet` and
`finished` are history. A source is the number of frames it has left.

`JitterBuffer.tla`. Time goes by in frames of 20 ms. The buffer is a bag: the code keeps it
sorted, but looks only for the first packet when it starts and for given sequences later.
Packets are numbered as sent; the actor sees only their sequences, modulo `Modulus`, and
compares them by `Diff` as the code does by 16-bit subtraction. A cancelled loop dispatches
nothing, so one flag stands for the loops there may be. `delay`, `repeated`, `played`,
`since` and `missed` are history.

`VoiceReceiver.tla`. One receiver and the SSRCs of one user. Each packet is a task, cut at
its decryption (an actor call) and before the actor's `push`. `removeUser` takes the
decoder lock and then the buffer lock and leaves each `stop()` to a task. It runs in the
gateway's event handler, as does the mapping of an SSRC, so these two do not overlap.

`VoiceTransporter.tla`. `sendOpusFrame` reads the transporter, then the key, each in its lock;
the handler of a session description writes them in the same order, with the receiver's
set-up in between (129/146), and `disconnect()` clears them (70/73). `sendFrame` is cut at each
lock: the speaking flag, three counters; then come the DAVE actor and the socket (`SendPacket`
or `Discard`). `startSpeaking` and `stopSpeaking` set the flag in one step and send in
another, which may fail (`TellFails`). `local` holds what a call has read and, as history, what
came in between (`crossed`, `unsure`); `garbled` and `wire` are history as well. The SSRC and
the UDP connection, read from two more locks, only add ways to fail, and are left to
`Discard`.

`HeartbeatManager.tla`. A manager is named by the connection whose Hello made it. `start` is
cut where its task runs but is not stored yet (`Install`, `Store`), `stopHeartbeats` where it
has taken the manager and not stopped it (`TakeManager`, `StopManager`). The loop's sleeps
are the states `delay` and `sleep`; awake, it is past `Task.isCancelled`. A beat is a task of
its own, sent on whatever connection the gateway has by then (462). `line` is the peer:
it answers, is silent, or has closed. `met` is history: a Hello was handled while another
thread was in `stopHeartbeats`, or a late reconnect replaced a connection in use.

`ReconnectManager.tla`. Delays are multiples of the base delay; jitter is left out. A timer
is asleep or past its sleep, after which nothing looks at its cancellation. The gateway is
there as far as it calls the manager; a drop calls nothing.

`DaveSessionManager.tla`. Each event of the server becomes a task (`pending`), and nothing
orders them, as in `VoiceGateway.handleEvent` (312-452). A method of the actor runs to its
next await: `prepareTransition` is one step and its announcement another, a failed commit
selects the protocol anew after an await; the call of one method by another on the same
actor does not suspend. libdave is external: a session is its version and the number of its
epoch, a ratchet the epoch it comes from, and whether a commit or a welcome is accepted is
a choice. Transition ids other than 0 are offered once, and executed only after the client
said it is ready.

`CryptorManager.tla`, `FrameProcessor.tla`, `MediaChannel.tla`. Time goes by in ticks; a
sender uses a tick for one frame or none. A key is its epoch and its generation: opening a
frame with another fails, as the authentication tag would. A manager is the record of the C++
object's fields; `last` and `missing` are `newestProcessedNonce_` and `missingNonces_`, and
the generation and nonce arithmetic is the code's at a smaller scale. H264 and H265 frames
may be encrypted several times until no start code appears; each attempt uses up a nonce. A
frame is a sequence of units whose bytes are never looked into: `ProcessFrame` says for
each codec which become clear, `Sealed` and `Opens` are the two sides of the trailer (the
LEB128 sizes, and the truncation of the ranges' size to a byte), `Reconstruct` puts them
together.

The server offers transitions, each of a version and of the epoch its group is in, a new one
or the one before; `atOnce` is the id 0, which is executed when it is prepared. A client's
session manager is the record `sending` or `receiving`: how many offers it has handled, the
epoch of its session's group, and `preparedTransitions`. `PrepareEpoch` empties the session
before a new group. The receiver's preparation (`PrepareRatchet`) gives its decryptor
whatever ratchet its session has, also one it was given before, with an empty window as in
`decryptor.cpp:33`; without a ratchet it only lets the older managers expire. The sender may
prepare several transitions before it executes one. Each is executed by itself and installs
the session's ratchet as it is then (`SetUp`), which is not always the ratchet of the
transition's own epoch, and may be one the encryptor has. Three assumptions about the server
are guards: offers reach a client in order, a transition that is not id 0 is executed only
when both clients have prepared it, and the sender executes what the receiver has prepared
within `MaxExecuteDelay` ticks. A commit or welcome that fails is `DaveSession`'s matter.

`DaveSession.tla`. Every message is a task of its own and is handled in any order (`\E i \in
DOMAIN inbox[u]`); `overtaken` remembers whose were not in order: a younger message before an
older one, or a welcome before the reset that an earlier, failed commit has led to
(`InItsTurn`). `HandleCommit` is
`mlspp::State::handle` as far as a session can tell: own commit or not, epoch, proposals
known, and the cached state for an own commit. `ProcessProposals` is one step (it does not
suspend), a failed commit or welcome is cut where Swift awaits its report (154, 172). The
delivery service is external: it sends what it wants to change, takes one commit of the
current epoch and turns it into commits and welcomes.

`TreeMath.tla`, `TreeKEM.tla`, `MlsGroup.tla`. Trees are functions from node indices as in
the code. A secret is a seed and how often it was derived; a key pair is named by the secret
it comes from, a tree hash by the keys below it. A commit is `apply` (removals, additions,
truncation), and if a path is required `update` and `encap`; a receiver does the same to its
tree, checks parent hashes, finds its node (`decap_coords`), decrypts, implants, and compares
the confirmation tag. Any step that throws makes the set of its results empty, and the
client is in `failed`.

## 4. What is checked

| Run | Question | Properties |
|---|---|---|
| `gateway` | does the life cycle survive every order of calls, drops, time-outs and tasks? | `ReconnectNotAbandoned`, `TakenOnce`, `ResumeNeedsSession`, `RetryHappens`, `CallsReturn` |
| `udp` | is the discovery continuation resumed exactly once and nothing leaked? | `NotForgotten`, `TasksOwned`, `NoOrphanSocket`, `ResumedOnce` (refinement of `OneShot`), `DiscoveryEnds`, `CloseCloses` |
| `player` | do state, track, scheduler and tasks agree, whoever interferes with a tick, and does playback end? | `OneTicker`, `PlayingTicks`, `TrackHeld`, `FinishedMeansPlayedOut`, `PlaybackEnds` |
| `jitter` | are packets played forward and once, and does the delay absorb what it should? | `PlaysForward`, `DelayAbsorbsJitter` |
| `receiver` | in: one loop per SSRC, and none after the user has gone? out: no nonce twice, nothing unannounced? | `OneLoopPerSsrc`, `RemovalStopsLoops`, `SealedOnce`, `HeardWhenSent` |
| `backoff` | does the back-off grow, cap and start over? do heartbeats give up the silent connection and no other? | `OneTimer`, `BackOffDoubles`, `StableResets`, `NoFalseAlarm`, `SilenceNoticed` |
| `dave` | is a transition known when executed, and encryption never dropped silently? | `ExecuteFindsPrepared`, `NoSilentDowngrade` |
| `media` | are frames heard once, unchanged and in time, through transitions, wraps and losses? | `NoReplay`, `InTimeHeard`, `FramesIntact`, `KeysDeleted`, `NoncesAdvance` |
| `session` | does every user's session follow the server, in whatever order its messages are handled? | `OnlyAccepted`, `CaughtUp`, `FailureHasWayBack` |
| `tree` | does every member follow every commit, and nobody who was removed? | `AllFollow`, `KeysBelow`, `RemovedLockedOut` |

`receiver` and `backoff` run two systems side by side: the initial state chooses one, and the
other stays as it began. The two share no state, so interleaving them would show nothing.
`HeardWhenSent` excepts transporters of which an announcement failed or was overtaken by
another, and frames between whose check of the flag and whose packet somebody stopped
speaking; `SealedOnce` excepts frames that read transporter and key across a session
description; `NoFalseAlarm` and `SilenceNoticed` end where threads have met. `NoReplay`
excepts epochs whose ratchet the decryptor was given again (`repeated`), `NoncesAdvance` a
transition executed when the sender has reached its epoch already (`Overtaken`), and
`InTimeHeard` both, with a ratchet the sender installs before the receiver has it and a
transition executed before the receiver's preparation or after a later one (`outOfStep`).
That several transitions are prepared at once is not an exception; that the execution of one
installs a ratchet the encryptor got with another is. Each exception
is a hazard of the code, shown in the second table below.

`CaughtUp` and `FailureHasWayBack` speak of users that handled their messages in order, the
second of those that have no group; `RemovedHasWayBack` shows what may happen to others.
`OnlyAccepted` holds in any order. `MCMlsGroup` also has TLC check `TreeMath` against trees
as nested sets, for all sizes up to 16 (`TreeMathAssumption`).

Two more runs end in a violation, because the code does not do what the repository says:

| Run | Property | What happens |
|---|---|---|
| `stays_offline` | `StaysOffline` | `handleDisconnect` checks the state (528), `disconnect()` runs, `handleDisconnect` writes `.reconnecting` (565) and a task dials |
| `unmerged` | `AllFollow` | A adds B and C, commits a path, adds D and E in one commit; E commits a path. D is unmerged at the parent of A's half and below it, so `decap_coords` (`treekem.cpp:821`) picks that parent, whose private key D does not have, and `decap` throws |

Each module states, in its last section, further things that the documentation or a log
message says and the code does not do. They are not runs of their own. Put in the place of
the properties of the configuration named here, TLC finds each violated within seconds, the
last one in half an hour:

| Property | Configuration | What happens |
|---|---|---|
| `PermanentIsPermanent` | `MCStaysOffline` | after a permanent close (567) the handshake task, whose generation still matches, sets `.identifying` |
| `DisconnectFreesUdp` | `MCStaysOffline` | `disconnect()` closes a `UDPConnection` that is still connecting and has no channel yet; it opens later |
| `ReadyHasUdp` | `MCStaysOffline` | `updateServer` drops the UDP connection; the resumed session is `.ready` without one |
| `NotStranded` | `MCStaysOffline` | a close between Hello and its task: `.reconnecting` becomes `.identifying`, and the retry gives up (607) |
| `SuccessKept` | `MCUDPConnection` | a time-out past its sleep closes the connection whose discovery has just succeeded (134) |
| `HeardAfterPause` | `MCHeardAfterPause` | the expected sequence advances every 20 ms of a pause (95); every packet after the pause is late and dropped, until the sequence has caught up |
| `NewUserMode` | `MCNewUserMode` | `prepareTransition` stores the transition's id as the version (109); `addUser` sets the next user up with it |
| `OnlyAccepted` | `MCSessionFork` | a client's earlier commit is accepted after it made another: `pendingGroupCommit_` is kept to compare ("we can check incoming pending group commit later for a match", `session.cpp:242`) but never is, and the later cached state is adopted |
| `InTimeHeard` | `MCMediaChannel`, `ByteValues = 6`, `Supplemental = 1` | the size of the clear ranges is truncated to a byte (`frame_processors.cpp:43`); the frame cannot be opened |
| `NeverTwice` | `MCMediaChannel` | a transition of version 1 in an unchanged epoch (`DaveSessionManager.swift:98`, 207) appends the ratchet the decryptor has once more, with an empty window (`decryptor.cpp:33`); what the first copy has decrypted is decrypted again |
| `NonceNeverRestarts` | `MCMediaChannel` | two transitions are prepared, then executed: each execution installs the session's ratchet (`DaveSessionManager.swift:193`), which is the second one's both times, and the nonce is back at 0 (`encryptor.cpp:33`) |
| `HeardThroughout` | `MCMediaChannel` | `InTimeHeard` without its exception: the nonces start again, and the receiver refuses frames whose nonces it has heard |
| `InTimeHeard` | `MCMediaChannel`, `MaxExecuteDelay = 3` | the sender follows a transition after the receiver's old ratchet has expired |
| `InTimeHeard` | `MCMediaChannel`, `MaxDelay = 4`, `TransitionExpiry = 5` | a frame comes after the cryptor of its generation has expired |
| `InTimeHeard` | `MCMediaChannel`, `FramesPerTick = 1` | the sender throws away a ciphertext; its count is beyond what the receiver allows for the time since (`cryptor_manager.cpp:68`) |
| `StoppedStaysStopped` | `MCAudioPlayer`, `MaxCalls = 4` | a tick past the guard of `handleTrackFinished` starts the next track after `stop()` returned |
| `FinishesOnce` | `MCAudioPlayer` | `pause()` and `resume()` while a tick waits for its source: two ticks see the same end, the queue skips a track |
| `ForwardAcrossResets` | `MCJitterBuffer` | an overflow forgets what was played; an older packet is played afterwards |
| `LoopsCleanedUp` | `MCVoiceReceiver` | a packet being decrypted during `removeUser` creates a buffer nobody stops |
| `DecodersCleanedUp` | `MCVoiceReceiver` | a loop not stopped yet creates the decoder again |
| `AlwaysHeard` | `MCVoiceReceiver` | the announcement fails after the flag is set (`VoiceTransporter.swift:24`); the next frame sees the flag and is sent unannounced, against "tell discord we are speaking so it doesn't drop our packets" |
| `TimestampsFollow` | `MCVoiceReceiver` | of two frames sent at a time one has the lower sequence number and the other the lower timestamp: two locks (48/54) |
| `NonceNeverAgain` | `MCVoiceReceiver` | a frame reads the new transporter and the old key (`Flight.swift:129/146`): nonce 0 of that key again |
| `ZombiesOnly` | `MCReconnectManager` | `disconnect()` takes and stops the manager before Hello has stored its task (`VoiceGateway.swift:471`); the loop beats on and "Zombie connection detected" closes the next connection |
| `ResetOnlyWhenStable` | `MCReconnectManager` | the stable timer of a connection that dropped resets the attempts |
| `MembersDecryptable` | `MCDaveSessionManager` | the tasks of a connect and a disconnect run in the wrong order |
| `NoLateSelection` | `MCDaveSessionManager` | the task of a session description of version 0 runs behind the server's first epoch and turns the encryption of a session that goes on off (`selectProtocol`, `DaveSessionManager.swift:83`) |
| `RemovedHasWayBack` | `MCDaveSession`, `MaxProposals = 4`, `CONSTRAINT InOrderOnly` | a client starts anew and the server adds it by its new package; the welcome for its old session fails, its report makes the server remove the new leaf, the new welcome succeeds and clears the leaf (`session.cpp:468`), and what `getKeyPackage` gives to be sent after the report (`DaveSessionManager.swift:172`) is nothing |

`PROJECT.json` lists the hazards of the code with the line where each bites and the
properties that watch it. Two have none: a handshake task that runs after the close
(`NotStranded` above), and the deadlock of `UserStreamManager`, which is not modelled.

## 5. Bounds, symmetry and fairness

- `gateway`: two WebSockets (one being replaced by another is the interesting case), one
  UDP socket, two threads, two calls of any kind, one fault. A WebSocket or a thread is used
  again after it has closed or ended, so the number of reconnections is not bounded, only
  how many are alive. More threads and sockets are what the theorems of section 6 are for.
- `udp`: two closing threads. The gateway closes a `UDPConnection` at most once; two are
  an over-approximation.
- `player`: two threads, three calls of any kind, two tracks of at most one frame, two slots
  of tasks and schedulers, a queue of two. Three calls are enough for play, pause and resume
  in the middle of a tick, with the hand-over to the next track a caller of its own.
- `jitter`: a sequence space of 8, so that four packets wrap and a pause may be longer than
  half of it; a depth of 2 and an overflow above 2 (10 in the code, which this many packets
  would not reach); delays of up to three frames, less than half the space as in the code.
- `receiver`: two SSRCs, two packets handled at a time, five in all, four buffers. Two frames
  at a time, as the player may send them, one call that starts or stops speaking, two
  session descriptions: the second is the one that crosses a frame.
- `backoff`: the code's cap of 60 base delays, exponent 10 and nine attempts, two timers,
  a stable time of three ticks. Two connections, one after the other, two heartbeats of each
  while it answers; one call at a time, and its slot serves the time-outs as well. Two
  assumptions on time are guards: beats and answers of a connection that answers take less
  than the interval (`Prompt`), and no dial or interval passes while a thread is inside
  `stopHeartbeats` and `startHeartbeats`, which await nothing (`Brief`).
- `dave`: one user, transitions 1 and 2 beside 0, two epochs, three tasks at a time; the session
  description has either version.
- `media`: three generations of two nonces, a gap of 2 below the wrap of 3 (250 of 256 in the
  code), three missing nonces; five frames, some with a second attempt, wrap the generation;
  a frame of each codec in turn; frames up to two ticks on their way, less than the three
  ticks an old ratchet lives on. Two transitions of any version, to new epochs or not, at
  once or prepared together and executed in either order: two are what it takes for one
  execution to install the ratchet of another. TLC also checked the run's properties once
  with three transitions in three ticks.
- `session`: three users from the beginning, two batches of one or two proposals, one
  disturbance, and the server takes the last commit of its sender (`AcceptEarlier`). Two
  batches are needed for a second commit by a member that has seen the first lose. With
  four batches a user may have a group it is to be removed from and no package in hand
  (`RemovedHasWayBack`, section 4), so `FailureHasWayBack` speaks of who has no group; TLC has
  also checked it, with `WayInv` of section 6, on all 8.8 million states that four batches
  reach in order (`InOrderOnly`). Without the exception for messages overtaken, `CaughtUp` fails:
  a commit before its proposals is ignored without a report (`session.cpp:335`). With three
  batches it also fails without the exception for a late reset: a commit fails and is
  reported, the server removes the client and adds it again by a package it still has, the
  client takes the welcome, and only then the task that reported goes on
  (`DaveSessionManager.swift:153-154`) and throws the group away it has just joined, without a
  report. The theorem of section 6 says that these two are all.
- `tree`: four clients, three epochs after the first, up to three additions and two
  removals in a commit, so trees of 1 to 4 leaves, growing and shrinking. Members handle a
  commit in a fixed order: they share nothing but the commit. `unmerged` has five clients
  and four epochs.

Symmetry is used in safety runs only. `CHECK_DEADLOCK FALSE` is in every configuration:
each of these systems may come to rest, when calls or packets are used up, or because the
application simply makes no more of them.

Fairness. `VoiceGateway`: tasks run on, dials and discoveries end (both have time limits),
and a server that is up greets a new WebSocket. `UDPConnection`: the caller, the handlers
and the time-out proceed; no datagram has to arrive and nobody has to close. `AudioPlayer`:
the tasks and the calls that are under way proceed, and a source answers; nobody has to
call. `ReconnectManager`: time passes and tasks whose sleep is over run. `HeartbeatManager`:
threads and loops proceed; nobody has to dial, call, answer or fall silent. All of it is weak
fairness of single tasks, which is what the Swift runtime and the event loops give.

## 6. What is proved

TLAPS proves, for any sets of connections, sockets, threads, tasks and tracks, any frames
and scale of the generations, and any bounds:

`VoiceGatewayProofs`: `TypeCorrect`, `NeverAbandoned` (`ReconnectNotAbandoned`), `OneTaker`
(`TakenOnce`), `NoBlindResume` (`ResumeNeedsSession`). The invariant is their conjunction
with `DialsAnew`: a WebSocket that is being dialled has not been greeted. Without it,
`DialOk` could open a socket that no longer counts as one to wait for. The rest of the
argument is who retries: each action that takes the gateway to `reconnecting`, ends a
retry or advances the generation leaves some thread, or a new socket, that will.

`UDPConnectionProofs`, of `UDPConnection`: `UDPTypeCorrect`, `ContinuationOnce` (`OneHolder`),
`ContinuationKept` (`NotForgotten`), `TasksEnd` (`TasksOwned`), `SocketKept` (`NoOrphanSocket`), and
`ImplementsOneShot`: every step of the UDP connection is a step of `OneShot` or a stutter.
`InPlace` strengthens the invariant: where a taker is while it holds the continuation, that
nothing of a discovery exists before `discoverIP` waits, that each `close()` starts once.

In the same module, of `JitterBuffer`:

- `PlayedInOrder` (`PlaysForward`). `Basics` types the state and says that what is in the network
  or the buffer was sent, and when. `LateIsSeen` is the argument: while the buffer plays,
  `expected` is the sequence of packet `1 + t` after the last one played, which was sent at
  least `t + 1` frames ago, and whatever older packet the buffer holds is at most half the
  sequence space behind that; so `diff` has the right sign and drops it. A network delay of
  at most half the space (11 minutes in the code) is needed, and `Narrow`: the buffer does not
  hold two packets that far apart. Nothing limits how long a packet waits in a buffer that
  fills, so without `Narrow` one that waited 11 minutes alone is taken for the younger of
  two, and the order is lost. `PlayedInOrderShort` needs no `Narrow` where `MaxPacket` is at
  most half the space.
- `DelayAbsorbs` (`DelayAbsorbsJitter`). `Began` says of a playing buffer that it began with a
  packet `f`, sent at least `Depth - 1` frames before, and has counted `k` frames since; what
  it holds from after `f` but before what it expects came `Depth` frames late or was played.
  `Steady` turns "no pause" into "a packet in each frame", `Single` "none twice" into one copy
  of each packet in the buffer. `Prompt` is to it what `Narrow` is above: the buffer does not
  take 11 minutes to fill. `DelayAbsorbsShort` needs neither.

`AudioPlayerProofs`: `NeverTwoTickers` (`OneTicker`), `PlaysWhilePlaying` (`PlayingTicks`),
`TrackUntilStopped` (`TrackHeld`), `FinishedAtTheEnd` (`FinishedMeansPlayedOut`). `Schedules`
strengthens them: state, track and scheduler are empty together; a scheduler that was
replaced or paused owns no task; while the player plays, its scheduler is running and owns
a live task that loops for it, so that task does not leave its loop (`LoopSchedules`); no
other live task is uncancelled. `InHand` says what an actor carries from one of its steps to
the next: a track, and at the end of a tick one whose source has no frame left.

`VoiceReceiverProofs`: `OneLoop` (`OneLoopPerSsrc`) and `RemovalComplete`
(`RemovalStopsLoops`). Both rest on `Filed`: until `removeUser` empties the table, it holds
every buffer that was created, under its own SSRC. `Created` and `MappedFirst` say that what
loops or is pushed to was created, and only for an SSRC that is mapped, so `removeUser` finds
it; `Undisturbed` says that no packet is under way after a removal that met none.

In the same module, of the other direction: `NeverSealedTwice` (`SealedOnce`) and
`TransporterTypeCorrect`. `SealInv` says that nonces in use are below their transporter's
counter (`Counted`) and apart (`Distinct`), and that a frame no description crossed has the
key of its own transporter (`Matching`), because outside of a description both locks hold the
last session's value or none (`Locks`). `ToldBeforeSent` (`HeardWhenSent`) says who may be on
its way: `HeardInv` has every frame past its check of the speaking flag announced, unsure of it
(somebody stopped speaking since), or of an SSRC whose announcements got lost or crossed
(`FramesAnnounced`); the flag is set only if it was announced or somebody is about to
(`FlagAnnounced`); and two who announce the same SSRC have crossed (`OneAnnounces`).

`ReconnectManagerProofs`: `NewestTimerOnly` (`OneTimer`). Whoever stores a timer, or none,
cancels the stored one, so each that sleeps uncancelled was stored last. `DelaysDouble`
(`BackOffDoubles`): `CappedDoubles` says that clamping the exponent and then the power is
doubling up to the cap, because the cap is not above the power the clamp leaves (60 and 2^10
in the code). `Power` and `Doubling` are recursive functions; that they exist, and what they
compute, is proved by the least number for which it would fail (`AllNumbers`).

In the same module: `NeverFalselyAlarmed` (`NoFalseAlarm`) and `HeartbeatTypeCorrect`. The
argument is `BeatInv`: a loop that will beat again (`Live`) can be cancelled but for the moment
between `Install` and `Store` (`Stored`); until threads meet, its manager is the gateway's or
in the hand of a thread that stops it (`Found`), so a dial finds no old loop; and what the
gateway's manager waits for on a connection that answers is on its way (`Answered`), so by the
next interval it has come. `ZombiesOnly` shows that `met` cannot be dropped from it.

`DaveSessionManagerProofs`: `DaveTypeCorrect` and `ExecutedAsPrepared` (`ExecuteFindsPrepared`).
`TransitionInv`
follows a transition from the server's offer through the task that tells the server and the
server's own list to the task that executes it: it is in one of these places at a time
(`OnePlace`, `OneTask`), in none before it is offered (`NotYet`), and its version is stored
from the second on (`Stored`). `NoDowngrade` (`NoSilentDowngrade`) goes through the guards of
`setupKeyRatchetForEncryptor` task by task. It has an exception the proof asked for: the task
of a session description with version 0 may run as late as any other, and then turns
encryption off; `NoLateSelection` (section 4) states the property without it.

`DaveSessionProofs`: `NoFork` (`OnlyAccepted`), for any users, batches and disturbances and in
any order of messages, if the server takes only the last commit its sender has made
(`~AcceptEarlier`; `MCSessionFork` in section 4 shows that it is needed). The danger is the
commit of one's own: for it `ProcessCommit` adopts whatever State is cached. `AcceptedInv`
follows that State: while the commit is on its way, what its sender has cached is that commit's
(`CachedOnTheWay`); once it is accepted and delivered, still (`CachedAccepted`), because the
proposals a client could overwrite it with are of a later epoch than its working State and
refused (`NoMoreProposals`, `WorkingOK`). A commit of another is resolved from one's own
history, which leads to the one the commit names.

`FollowsTheServer` (`CaughtUp`), under the same hypothesis. `CaughtUp` says something only of a
client with nothing left to handle; `CaughtInv` says of every member whose messages are in
order, and that is not to be removed, that it is on track (`OnTrack`): it belongs to its leaf
or a welcome in its inbox will make it (the `j`-th message), it is in the server's epoch or a
message will take it there (the `k`-th), and between the two come proposals, without which
`ProcessCommit` would ignore the commit. That the server commits only what it has sent to all
members keeps that last part true (`CommitSent`); a failed commit or welcome reports itself and
ends the track; the steps of others leave it alone (`UserCaught`). A group's first commit is
sent by a client that has handled all it was sent (`BeforeFirst`, `FirstCommitter`). Each
action has a lemma.

`FailuresRecover` (`FailureHasWayBack`), under the same hypothesis. A report sends what
`getKeyPackage` gives, so the danger is a client that reports when it has no leaf to give.
`WayInv`, on top of `CaughtInv`, says that a client has a leaf or a group, unless its session
is yet to be selected (`LeafOrGroup`); that what a session begins with is the first message
in its inbox and finds it without a group and without a report under way (`BeginsAnew`); and
that no commit on its way is older than the group it holds, and that a
client which failed on one can follow no later one either (`EpochsInOrder`, `NotBehind`). The
server's part is `ServerWay`: it removes only leaves it has expelled, and expels none before
there is a group. The sender of a commit the server may still choose is in the server's epoch
(`InGroup`). TLC checked `WayInv` before the proof, with two batches in any order and with
four in order.

`MediaChannelProofs`, on lemmas about `CryptorManager` in its first half:

- `NoReplayHolds` (`NoReplay`) and `ChannelTypeCorrect`. `ReplayInv` says of each manager of an
  epoch whose ratchet was given once that all it has heard is at most `last` and not
  `missing`, that what was heard belongs to an epoch there was, and that no other manager has
  its epoch (`Good`): so a frame is above `last` or missing for one manager only, and was
  never heard. All managers are of epochs the receiver has come to, so one of a new epoch is
  the only one: that needs that the server's epochs go up (`OffersOK`) and that a session's
  group, if it has one, is in the epoch of the last offer handled (`ClientOK`). Nothing
  about generations, clocks or expiry is needed, and the lemmas show that looking for a
  cryptor leaves the window alone.
- `KeysGone` (`KeysDeleted`). `KeysOK` strengthens it: a manager's keys are exactly the
  interval from `oldest` to `next - 1`, `oldest` is at most `newest`, and every cryptor is of a
  generation below `next`. Deleting from the old `oldest` to the new one then keeps the
  interval, and a generation in reach is in it or still to be derived. That the new `oldest`
  exists is the least-element lemma `Least`.
- `NonceOnce` (`NoncesAdvance`). `Lap` writes the sender's nonce as `r` generations and `s`
  nonces, and its generation as `q` wraps and the same `r`; by uniqueness of the remainder
  (`Division`, `Below`) `NextNonce` adds `k` to the number the two make up, also where the
  truncated generation wraps. It needs at least two generations per wrap and no more attempts
  at one frame than a generation has nonces: 256, 10 and 2^24 in the code. A step that
  encrypts nothing and changes the nonce executes a transition. If the ratchet it installs is
  the sender's own, the transition's epoch is at most the sender's: the session's group is in
  the epoch of the last offer the sender has handled (`ClientOK`), which is none below that
  of the transition (`OffersOK`).
- `HeardInTime` (`InTimeHeard`): a frame on its way is decrypted, unless the receiver gave it up
  for one of the reasons the property names. `InTimeInv` (`InTime`, unless `outOfStep`) says why. Its first half is about one
  manager: what is missing since the first frame it heard is remembered within
  `MaxMissingNonces` (`Remembers`), its newest generation is that of `last` and has a cryptor
  (`Generations`), and every frame on its way that comes after something heard is `Accepted`
  until its time is up: its generation is not older than the newest, or some cryptor at or
  below it lives that long, so that the cleanup stops there (`CleanupAccepts`, `ReportAccepts`).
  Below the wrap the truncated generation then stands for the frame's own (`Unwrapped`), its
  key is there (`KeysOK`), and `FrameOpens` puts these together. The second half is about the
  transitions. Until `outOfStep` is true the clients are `InStep`: no ratchet was given again,
  the sender has executed only what the receiver has prepared, and while the receiver's last
  offer is not executed it is due. The sender then uses, or may still come to use (`Used`),
  its own ratchet, its session's, or that of an offer it has not handled; each of those that
  the receiver has come to has a manager that `Lasts` until what is sent before its execution
  has come, and if the sender may send in the clear (`Passable`), so does passing through.
  Every frame on its way has a manager that outlives it, or may pass (`PathsOpen`); nothing
  was heard that was not sent, nothing was sent yet with a ratchet the sender's session has
  and its encryptor has not (`SentInOrder`), and counts stay within the rate the receiver
  allows for (`WithinRate`). TLC checked `InTimeInv` on the run's bounds first.
  `Timely` is what it assumes of the constants, which the run's satisfy: a transition is executed
  and the last frame before it delivered within `TransitionExpiry` (10 s in the code), a frame
  takes no longer than `CryptorExpiry` (10 s) and a tick, the sender uses at most
  `FramesPerTick` nonces in a tick, and `Forever` does not come. The code checks none of these,
  and section 4 shows what happens without each of the first three. That a frame can be opened
  with its key at all is the next theorem, so `RangesFit` is a hypothesis here too.
- `FramesWhole` (`FramesIntact`): a frame of any codec, of any number of units and any bytes, is
  put together as it was cut up, if the size of its clear ranges is below `ByteValues`
  (`RangesFit`; the run's frames satisfy it, and section 4 shows a frame that does not). The
  argument goes piece by piece over what the codec hands to the processor (`CutUp`). What the
  sender has so far is woven (`Woven`) of a frame, its clear bytes, its secret ones and the
  set of places that are clear: the place of a byte in its own sequence is the number
  of places of its kind up to it (`Upto`). `AddRange` covers the places of the new clear piece
  and no others, whether it merges with the last range or starts one (`RangeAdded`,
  `RangesAdded`), and the ranges stay in order and apart. So the receiver, who has the
  bytes and the ranges only, finds the same places (`TakenApart`), every range has been
  serialized (`AllSerialized`), and the checks of `ParseFrame` pass. That every codec's
  pieces are pieces is `FrameCut`. The folds of the model are read as recursions (`Joins`),
  with induction by the least number for which it would fail (`Climbing`).

The assumptions are those the modules name: bounds are natural numbers, the markers
for "none" are not elements of the sets, and a frame consists of sequences of bytes, where a
VP8 frame has a unit (`ProcessFrameVp8` reads its first byte unasked).

Only model-checked are liveness, with it `StableResets` and `SilenceNoticed`, and all properties
of `MlsGroup`, which are about trees that are computed recursively. The type invariants of
modules with other properties to check are stated there and left out of the runs.

## 7. What is not modelled

- In `VoiceGateway`: its calls of `ReconnectManager` (a module of its own), DAVE events
  (likewise), sequence numbers of resumes, the content of events.
- `UserStreamManager`, `SharedStreamCache`, `AudioMixer` and the rest of `VoiceClient` (what it
  forwards, and its replacement of a receiver): in the plan below.
- Of `DaveSessionManager`: the gateway's generation check before a transition.
- Of libdave: the pairwise fingerprints, the export of ratchets and the persisted signature
  key; statistics, several SSRCs of one encryptor; the ciphers, the C and WASM bindings.
- Of mlspp: updates and commits proposed by members, pre-shared keys, external commits,
  re-initialisation and branches (libdave uses none of them), signatures and credentials, the
  syntax of messages, the secret tree of MLS's own messages, its HPKE and test tools.
- Of `AudioPlayer`: the volume and the replacement of the event stream.
- Codecs, ffmpeg, DCA files, encryption, RTP layout, payload structs: input to output,
  without state that several actors share.
- The other vendored code (opus, libsodium, OpenSSL, nlohmann json, mlspp's HPKE and TLS
  codec): input to output as well, and two fifths of the C++ is one JSON header.

## 8. Plan

In this order:

1. `VoiceTransporter` composed with the player in one run (a frame in flight when the player
   pauses and stops speaking).
2. `HeartbeatManager` composed with `VoiceGateway`, whose reconnect task is what may replace a
   connection in use.
3. `UserStreamManager` composed with `VoiceReceiver` (`finish()` under the lock its
   termination handler takes; `removeUser` against a new subscriber), and the client's
   replacement of a receiver whose loops still run (`Flight.swift:139`).
4. `SharedStreamCache`: two `resolve()` of one URL and `clearCache`.
5. That `DaveSession`'s histories follow from `MlsGroup`, as a refinement.
6. `AudioMixer`'s saturating sum and `AsyncState` as pure operators.
