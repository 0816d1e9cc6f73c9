--------------------------- MODULE VoiceTransporter ---------------------------
(***************************************************************************)
(* How a frame leaves (Sources/Voice/VoiceTransporter.swift and what of    *)
(* Sources/Flight/Flight.swift leads to it).  A session description gives  *)
(* the client a transporter, with its own counters and speaking flag, and  *)
(* a key; the client keeps them in locks that are written and read one by  *)
(* one.  Sessions are numbered, and the transporter, the key and the SSRC  *)
(* of a session have its number; 0 is nil.                                 *)
(*                                                                         *)
(* A sender is a call of sendOpusFrame; several may be under way, since    *)
(* AudioPlayer starts a new loop while a tick of the old one is suspended. *)
(* A speaker is a call of startSpeaking or stopSpeaking, of the            *)
(* application or of the player when it pauses or stops.  A UDP connection *)
(* that is missing or not ready makes a call fail at its end; counters are *)
(* numbered from their first value, and no session lasts for their width   *)
(* (2^32 nonces).                                                          *)
(***************************************************************************)
EXTENDS Naturals

CONSTANTS
  Sender, Speaker,  \* calls: each is made once
  Sessions          \* bound: session descriptions

ASSUME TransporterAssumption == Sessions \in Nat /\ Sender \cap Speaker = {}

VARIABLES
  transporterLock, encryptionLock,  \* the client's
  sessions, describing, \* sessions described so far; the last still lacks its key
  leaving,              \* disconnect() still has to clear the key
  sequence, timestamp, nonceCounter, isSpeakingActive,  \* of each transporter
  step, local,          \* of each call: what it does next, what it holds
  told,                 \* what Discord was told last of each SSRC
  wire,                 \* packets sent
  garbled               \* history: SSRCs of which an announcement got lost or overtaken

Call == Sender \cup Speaker
Session == 1 .. Sessions

sessionVars == <<transporterLock, encryptionLock, sessions, describing, leaving>>
counterVars == <<sequence, timestamp, nonceCounter>>
speakVars == <<isSpeakingActive, told, garbled>>
sendVars == <<sessionVars, counterVars, speakVars, step, local, wire>>

(* The transporter and the key a call read and the numbers it took.  As    *)
(* history: whether a description came between what it read, and whether   *)
(* Discord may have been told otherwise since it looked at the flag.       *)
Empty == [mine |-> 0, key |-> 0, seq |-> 0, ts |-> 0, nonce |-> 0,
          crossed |-> FALSE, unsure |-> FALSE]

TransporterInit ==
  /\ transporterLock = 0 /\ encryptionLock = 0 /\ sessions = 0
  /\ describing = FALSE /\ leaving = FALSE
  /\ sequence = [t \in Session |-> 0] /\ timestamp = [t \in Session |-> 0]
  /\ nonceCounter = [t \in Session |-> 0] /\ isSpeakingActive = [t \in Session |-> FALSE]
  /\ step = [c \in Call |-> "begin"] /\ local = [c \in Call |-> Empty]
  /\ told = [t \in Session |-> FALSE] /\ wire = {} /\ garbled = {}

Go(c, from, to) == step[c] = from /\ step' = [step EXCEPT ![c] = to]
Mine(c) == local[c].mine
Return(c, from) == Go(c, from, "done") /\ local' = [local EXCEPT ![c] = Empty]

-----------------------------------------------------------------------------
(* The session description's handler, and disconnect().                    *)

Crossing == local' = [c \in Call |-> [local[c] EXCEPT !.crossed = @ \/ step[c] = "key"]]

DescribeTransporter ==
  /\ ~describing /\ sessions < Sessions
  /\ sessions' = sessions + 1 /\ transporterLock' = sessions' /\ describing' = TRUE
  /\ Crossing
  /\ UNCHANGED <<encryptionLock, leaving, counterVars, speakVars, step, wire>>

DescribeEncryption ==
  /\ describing /\ describing' = FALSE /\ encryptionLock' = sessions /\ Crossing
  /\ UNCHANGED <<transporterLock, sessions, leaving, counterVars, speakVars, step, wire>>

ClearTransporter ==
  /\ ~leaving /\ transporterLock # 0 /\ transporterLock' = 0 /\ leaving' = TRUE
  /\ UNCHANGED <<encryptionLock, sessions, describing, counterVars, speakVars, step, local, wire>>

ClearEncryption ==
  /\ leaving /\ leaving' = FALSE /\ encryptionLock' = 0
  /\ UNCHANGED <<transporterLock, sessions, describing, counterVars, speakVars, step, local, wire>>

-----------------------------------------------------------------------------
(* sendOpusFrame and startSpeaking, stopSpeaking: what they read first.    *)

ReadTransporter(c) ==
  /\ transporterLock # 0 /\ Go(c, "begin", IF c \in Sender THEN "key" ELSE "speak")
  /\ local' = [local EXCEPT ![c].mine = transporterLock, ![c].crossed = describing]
  /\ UNCHANGED <<sessionVars, counterVars, speakVars, wire>>

ReadKey(c) ==
  /\ encryptionLock # 0 /\ Go(c, "key", "speak")
  /\ local' = [local EXCEPT ![c].key = encryptionLock]
  /\ UNCHANGED <<sessionVars, counterVars, speakVars, wire>>

(* Nothing to send to.                                                     *)
Absent(c) ==
  /\ \/ transporterLock = 0 /\ Return(c, "begin")
     \/ encryptionLock = 0 /\ Return(c, "key")
  /\ UNCHANGED <<sessionVars, counterVars, speakVars, wire>>

-----------------------------------------------------------------------------
(* The speaking flag is set first and announced then.                      *)

Announcing(t) == \E c \in Call : step[c] \in {"tell", "untell"} /\ Mine(c) = t
Overtaking(t) == garbled' = IF Announcing(t) THEN garbled \cup {t} ELSE garbled

AlreadySpeaking(c) ==
  /\ step[c] = "speak" /\ isSpeakingActive[Mine(c)]
  /\ \/ c \in Sender /\ Go(c, "speak", "seq")
        /\ local' = [local EXCEPT ![c].unsure = Announcing(Mine(c))]
     \/ c \in Speaker /\ Return(c, "speak")
  /\ UNCHANGED <<sessionVars, counterVars, speakVars, wire>>

StartSpeaking(c) ==
  /\ Go(c, "speak", "tell") /\ ~isSpeakingActive[Mine(c)]
  /\ isSpeakingActive' = [isSpeakingActive EXCEPT ![Mine(c)] = TRUE] /\ Overtaking(Mine(c))
  /\ UNCHANGED <<sessionVars, counterVars, told, local, wire>>

StopUnflagged(c) ==  \* mutant: the flag stays set
  /\ c \in Speaker /\ Go(c, "speak", "untell") /\ isSpeakingActive[Mine(c)]
  /\ Overtaking(Mine(c))
  /\ local' = [d \in Call |-> [local[d] EXCEPT
       !.unsure = @ \/ (step[d] \in {"seq", "ts", "nonce", "send"} /\ Mine(d) = Mine(c))]]
  /\ UNCHANGED <<sessionVars, counterVars, isSpeakingActive, told, wire>>

StopSpeaking(c) ==
  /\ c \in Speaker /\ Go(c, "speak", "untell") /\ isSpeakingActive[Mine(c)]
  /\ isSpeakingActive' = [isSpeakingActive EXCEPT ![Mine(c)] = FALSE] /\ Overtaking(Mine(c))
  /\ local' = [d \in Call |-> [local[d] EXCEPT
       !.unsure = @ \/ (step[d] \in {"seq", "ts", "nonce", "send"} /\ Mine(d) = Mine(c))]]
  /\ UNCHANGED <<sessionVars, counterVars, told, wire>>

(* stopSpeaking of one who does not speak.                                 *)
NotSpeaking(c) ==
  /\ c \in Speaker /\ step[c] = "speak" /\ ~isSpeakingActive[Mine(c)] /\ Return(c, "speak")
  /\ UNCHANGED <<sessionVars, counterVars, speakVars, wire>>

(* gateway.sendSpeaking, and for a sender 20 ms of sleep, which a          *)
(* cancelled task cuts short.                                              *)
TellSpeaking(c) ==
  /\ Return(c, "tell") \/ (c \in Sender /\ Go(c, "tell", "seq") /\ UNCHANGED local)
  /\ told' = [told EXCEPT ![Mine(c)] = TRUE]
  /\ UNCHANGED <<sessionVars, counterVars, isSpeakingActive, garbled, wire>>

TellSilence(c) ==
  /\ Return(c, "untell") /\ told' = [told EXCEPT ![Mine(c)] = FALSE]
  /\ UNCHANGED <<sessionVars, counterVars, isSpeakingActive, garbled, wire>>

(* There is no connection, it is not ready or does not take the message.   *)
TellFails(c) ==
  /\ Return(c, "tell") \/ Return(c, "untell")
  /\ garbled' = garbled \cup {Mine(c)}
  /\ UNCHANGED <<sessionVars, counterVars, isSpeakingActive, told, wire>>

-----------------------------------------------------------------------------
(* sendFrame takes three numbers under three locks.                        *)

TakeSeq(c) ==
  /\ Go(c, "seq", "ts") /\ local' = [local EXCEPT ![c].seq = sequence[Mine(c)]]
  /\ sequence' = [sequence EXCEPT ![Mine(c)] = @ + 1]
  /\ UNCHANGED <<sessionVars, timestamp, nonceCounter, speakVars, wire>>

TakeTimestamp(c) ==
  /\ Go(c, "ts", "nonce") /\ local' = [local EXCEPT ![c].ts = timestamp[Mine(c)]]
  /\ timestamp' = [timestamp EXCEPT ![Mine(c)] = @ + 1]
  /\ UNCHANGED <<sessionVars, sequence, nonceCounter, speakVars, wire>>

ReadNonce(c) ==  \* mutant: nobody counts on
  /\ Go(c, "nonce", "send") /\ local' = [local EXCEPT ![c].nonce = nonceCounter[Mine(c)]]
  /\ UNCHANGED <<sessionVars, counterVars, speakVars, wire>>

TakeNonce(c) ==
  /\ Go(c, "nonce", "send") /\ local' = [local EXCEPT ![c].nonce = nonceCounter[Mine(c)]]
  /\ nonceCounter' = [nonceCounter EXCEPT ![Mine(c)] = @ + 1]
  /\ UNCHANGED <<sessionVars, sequence, timestamp, speakVars, wire>>

(* After the DAVE actor has encrypted the frame.                           *)
SendPacket(c) ==
  /\ Return(c, "send")
  /\ wire' = wire \cup {[by |-> c, heard |-> told[Mine(c)], held |-> local[c]]}
  /\ UNCHANGED <<sessionVars, counterVars, speakVars>>

(* DAVE or the UDP connection throws.                                      *)
Discard(c) ==
  /\ Return(c, "send")
  /\ UNCHANGED <<sessionVars, counterVars, speakVars, wire>>

-----------------------------------------------------------------------------
SpeakStep(c) ==
  \/ ReadTransporter(c) \/ ReadKey(c) \/ Absent(c) \/ AlreadySpeaking(c) \/ StartSpeaking(c)
  \/ StopSpeaking(c) \/ NotSpeaking(c) \/ TellSpeaking(c) \/ TellSilence(c) \/ TellFails(c)

SendStep(c) == TakeSeq(c) \/ TakeTimestamp(c) \/ TakeNonce(c) \/ SendPacket(c) \/ Discard(c)

TransporterNext ==
  \/ DescribeTransporter \/ DescribeEncryption \/ ClearTransporter \/ ClearEncryption
  \/ \E c \in Call : SpeakStep(c)
  \/ \E c \in Sender : SendStep(c)

TransporterSpec == TransporterInit /\ [][TransporterNext]_sendVars

-----------------------------------------------------------------------------
(* Properties.                                                             *)

Held == [mine : 0 .. Sessions, key : 0 .. Sessions, seq : Nat, ts : Nat, nonce : Nat,
         crossed : BOOLEAN, unsure : BOOLEAN]

(* Every variable has its type.                                            *)
TransporterTypeOK ==
  /\ {transporterLock, encryptionLock, sessions} \subseteq 0 .. Sessions
  /\ {describing, leaving} \subseteq BOOLEAN
  /\ {sequence, timestamp, nonceCounter} \subseteq [Session -> Nat]
  /\ {isSpeakingActive, told} \subseteq [Session -> BOOLEAN] /\ garbled \subseteq Session
  /\ step \in [Call -> {"begin", "key", "speak", "tell", "untell", "seq", "ts", "nonce", "send", "done"}]
  /\ local \in [Call -> Held] /\ wire \subseteq [by : Sender, heard : BOOLEAN, held : Held]

(* No two packets are sealed with the same key and the same nonce, unless  *)
(* a session was described while their frame read transporter and key.     *)
SameSeal(p, q) == p.held.key = q.held.key /\ p.held.nonce = q.held.nonce
SealedOnce == \A p, q \in wire :
  p # q /\ SameSeal(p, q) => p.held.crossed \/ q.held.crossed

(* "tell discord we are speaking so it doesn't drop our packets": Discord  *)
(* has been told when a packet leaves, if no announcement was lost or      *)
(* overtaken and none was made between the frame's check and its packet.   *)
HeardWhenSent == \A p \in wire : p.heard \/ p.held.unsure \/ p.held.mine \in garbled

-----------------------------------------------------------------------------
(* What comments in the code say and the code does not do.                 *)

(* VoiceTransporter.swift:26, whatever happened: a failed announcement     *)
(* leaves the flag set, and nobody announces again.                        *)
AlwaysHeard == \A p \in wire : p.heard

(* VoiceTransporter.swift:47 "seq and ts must increment and wrap cleanly   *)
(* for rtp": of two frames sent together the one may have the lower        *)
(* sequence and the other the lower timestamp.                             *)
TimestampsFollow == \A p, q \in wire :
  p.held.mine = q.held.mine /\ p.held.seq < q.held.seq => p.held.ts < q.held.ts

(* The nonce counter of a new transporter starts at 0 with the old key, if *)
(* a frame reads between 129 and 146 of Flight.swift.                      *)
NonceNeverAgain == \A p, q \in wire : SameSeal(p, q) => p = q
=============================================================================
