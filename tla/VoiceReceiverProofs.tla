------------------------- MODULE VoiceReceiverProofs -------------------------
(***************************************************************************)
(* For any SSRCs, packets and buffers, and any depth: a user that was not  *)
(* removed has one running loop per SSRC, and a removal that met no packet *)
(* leaves no loop that is not about to be stopped.  Both rest on where a   *)
(* buffer is found: until removeUser empties the table, the table holds    *)
(* every buffer that was created, under its own SSRC.                      *)
(* For any senders and speakers, and any number of sessions: no key seals  *)
(* two packets with one nonce, and no packet leaves before its sender was  *)
(* announced, but where an announcement was lost or overtaken.             *)
(***************************************************************************)
EXTENDS VoiceReceiver, VoiceTransporter, TLAPS

(* The part of the type invariant the argument needs.                      *)
TablesOK ==
  /\ table \in [Ssrc -> Buffer \cup {None}] /\ of \in [Buffer -> Ssrc \cup {None}]
  /\ pc \in [Packet -> {"idle", "lookup", "decrypt", "push"}]
  /\ ssrc \in [Packet -> Ssrc \cup {None}] /\ target \in [Packet -> Buffer \cup {None}]
  /\ looping \in [Buffer -> BOOLEAN]

(* Only packets of an SSRC that is mapped get past the lookup.             *)
MappedFirst ==
  /\ \A p \in Packet : pc[p] # "idle" => ssrc[p] \in Ssrc
  /\ \A p \in Packet : pc[p] \in {"decrypt", "push"} => ssrc[p] \in mapped
  /\ \A b \in Buffer : of[b] # None => of[b] \in mapped

(* What the table holds, what is pushed to and what loops was created.     *)
Created ==
  /\ \A s \in Ssrc : table[s] # None => of[table[s]] = s
  /\ \A p \in Packet : pc[p] = "push" => target[p] \in Buffer /\ of[target[p]] # None
  /\ \A b \in Buffer : looping[b] => of[b] # None

(* Until removeUser empties it, the table holds every buffer.              *)
Filed ==
  ~removed \/ remover = "buffers" => \A b \in Buffer : of[b] # None => table[of[b]] = b

(* A removal that met no packet finds all of them ended.                   *)
Undisturbed == removed /\ ~raced => \A p \in Packet : pc[p] = "idle"

ReceiverInv ==
  /\ TablesOK /\ MappedFirst /\ Created /\ Filed /\ Undisturbed /\ RemovalStopsLoops
  /\ ~removed => remover = "idle"

-----------------------------------------------------------------------------
(* The tables are empty when the receiver is made.                         *)
LEMMA InitInv == ASSUME ReceiverAssumption, Init PROVE ReceiverInv
<1>1. TablesOK
  BY DEF Init, TablesOK
<1>2. MappedFirst /\ Created
  BY DEF Init, MappedFirst, Created
<1>3. Filed /\ Undisturbed /\ RemovalStopsLoops /\ remover = "idle"
  BY DEF Init, Filed, Undisturbed, RemovalStopsLoops
<1> QED
  BY <1>1, <1>2, <1>3 DEF ReceiverInv

(* A buffer's SSRC is mapped already, so a new one disturbs no removal.    *)
LEMMA SpeakingKeepsInv ==
  ASSUME ReceiverInv, NEW s \in Ssrc, Speaking(s) PROVE ReceiverInv'
<1>1. UNCHANGED <<table, packetVars, bufferVars, stopping, remover, removed, raced>>
  BY DEF Speaking
<1>2. TablesOK' /\ Created' /\ Filed' /\ Undisturbed'
  BY <1>1 DEF ReceiverInv, TablesOK, Created, Filed, Undisturbed, packetVars, bufferVars
<1>3. MappedFirst'
  BY <1>1 DEF Speaking, ReceiverInv, MappedFirst, packetVars, bufferVars
<1>4. RemovalStopsLoops'
  BY <1>1 DEF Speaking, ReceiverInv, Created, MappedFirst, RemovalStopsLoops, packetVars, bufferVars
<1> QED
  BY <1>1, <1>2, <1>3, <1>4 DEF ReceiverInv

(* A packet after the removal is a race.                                   *)
LEMMA ArriveKeepsInv ==
  ASSUME ReceiverInv, NEW p \in Packet, NEW s \in Ssrc, Arrive(p, s) PROVE ReceiverInv'
<1>1. /\ pc' = [pc EXCEPT ![p] = "lookup"] /\ ssrc' = [ssrc EXCEPT ![p] = s]
      /\ UNCHANGED <<mapped, table, target, of, looping, stopping, remover, removed>>
      /\ removed => raced'
  BY DEF Arrive, bufferVars
<1>2. TablesOK'
  BY <1>1 DEF ReceiverInv, TablesOK
<1>3. MappedFirst' /\ Created'
  BY <1>1 DEF ReceiverInv, TablesOK, MappedFirst, Created
<1>4. Filed' /\ Undisturbed' /\ RemovalStopsLoops'
  BY <1>1 DEF ReceiverInv, Filed, Undisturbed, RemovalStopsLoops
<1> QED
  BY <1>1, <1>2, <1>3, <1>4 DEF ReceiverInv

(* The lookup, and a packet that ends there or at its decryption.          *)
LEMMA LookupKeepsInv ==
  ASSUME ReceiverInv, NEW p \in Packet, Lookup(p) \/ DecryptFails(p) PROVE ReceiverInv'
<1>1. PICK at \in {"idle", "decrypt"} :
        pc' = [pc EXCEPT ![p] = at] /\ (at = "decrypt" => ssrc[p] \in mapped)
  BY DEF Lookup, DecryptFails
<1>2. pc[p] # "idle"
  BY DEF Lookup, DecryptFails
<1>3. UNCHANGED <<mapped, table, ssrc, target, bufferVars, stopping, remover, removed, raced>>
  BY DEF Lookup, DecryptFails
<1>4. TablesOK'
  BY <1>1, <1>3 DEF ReceiverInv, TablesOK, bufferVars
<1>5. MappedFirst' /\ Created'
  BY <1>1, <1>2, <1>3 DEF ReceiverInv, TablesOK, MappedFirst, Created, bufferVars
<1>6. Filed' /\ RemovalStopsLoops'
  BY <1>3 DEF ReceiverInv, Filed, RemovalStopsLoops, bufferVars
<1>7. Undisturbed'
  BY <1>2, <1>3 DEF ReceiverInv, Undisturbed
<1> QED
  BY <1>3, <1>4, <1>5, <1>6, <1>7 DEF ReceiverInv

(* The lock makes it impossible to create two buffers for one SSRC.        *)
LEMMA GetOrCreateKeepsInv ==
  ASSUME ReceiverAssumption, ReceiverInv, NEW p \in Packet, GetOrCreate(p) PROVE ReceiverInv'
<1>1. /\ pc[p] = "decrypt" /\ pc' = [pc EXCEPT ![p] = "push"]
      /\ UNCHANGED <<mapped, ssrc, looping, stopping, remover, removed, raced>>
  BY DEF GetOrCreate
<1>2. ssrc[p] \in Ssrc /\ ssrc[p] \in mapped /\ None \notin Ssrc \cup Buffer
  BY <1>1 DEF ReceiverInv, MappedFirst, ReceiverAssumption
<1>3. Undisturbed' /\ (~removed' => remover' = "idle")
  BY <1>1 DEF ReceiverInv, Undisturbed
<1>4. CASE table[ssrc[p]] # None
  <2>1. target' = [target EXCEPT ![p] = table[ssrc[p]]] /\ UNCHANGED <<table, of>>
    BY <1>4 DEF GetOrCreate
  <2>2. table[ssrc[p]] \in Buffer /\ of[table[ssrc[p]]] = ssrc[p]
    BY <1>2, <1>4 DEF ReceiverInv, TablesOK, Created
  <2>3. TablesOK'
    BY <1>1, <2>1, <2>2 DEF ReceiverInv, TablesOK
  <2>4. MappedFirst' /\ Created'
    BY <1>1, <1>2, <2>1, <2>2 DEF ReceiverInv, TablesOK, MappedFirst, Created
  <2>5. Filed' /\ RemovalStopsLoops'
    BY <1>1, <2>1 DEF ReceiverInv, Filed, RemovalStopsLoops
  <2> QED
    BY <1>3, <2>3, <2>4, <2>5 DEF ReceiverInv
<1>5. CASE table[ssrc[p]] = None
  <2>1. PICK b \in Buffer : /\ of[b] = None /\ of' = [of EXCEPT ![b] = ssrc[p]]
                            /\ table' = [table EXCEPT ![ssrc[p]] = b]
                            /\ target' = [target EXCEPT ![p] = b]
    BY <1>5 DEF GetOrCreate
  <2>2. ~looping[b]
    BY <2>1 DEF ReceiverInv, Created
  <2>3. TablesOK'
    BY <1>1, <1>2, <2>1 DEF ReceiverInv, TablesOK
  <2>4. MappedFirst'
    BY <1>1, <1>2, <2>1 DEF ReceiverInv, TablesOK, MappedFirst
  <2>5. of'[b] = ssrc[p] /\ table'[ssrc[p]] = b /\ \A c \in Buffer \ {b} : of'[c] = of[c]
    BY <1>2, <2>1 DEF ReceiverInv, TablesOK
  <2>6. Created'
    <3>1. \A s \in Ssrc : table'[s] # None => of'[table'[s]] = s
      BY <1>2, <2>1, <2>5 DEF ReceiverInv, TablesOK, Created
    <3>2. \A q \in Packet : pc'[q] = "push" => target'[q] \in Buffer /\ of'[target'[q]] # None
      BY <1>1, <1>2, <2>1, <2>5 DEF ReceiverInv, TablesOK, Created
    <3>3. \A c \in Buffer : looping'[c] => of'[c] # None
      BY <1>1, <2>2, <2>5 DEF ReceiverInv, Created
    <3> QED
      BY <3>1, <3>2, <3>3 DEF Created
  <2>7. Filed'
    <3>1. ASSUME ~removed \/ remover = "buffers", NEW c \in Buffer, of'[c] # None
          PROVE  table'[of'[c]] = c
      <4>1. CASE c = b
        BY <2>5, <4>1
      <4>2. CASE c # b
        <5>1. table[of[c]] = c /\ of[c] \in Ssrc
          BY <2>5, <3>1, <4>2 DEF ReceiverInv, Filed, TablesOK
        <5>2. of[c] # ssrc[p]
          BY <1>2, <1>5, <5>1
        <5> QED
          BY <2>1, <2>5, <4>2, <5>1, <5>2 DEF ReceiverInv, TablesOK
      <4> QED
        BY <4>1, <4>2
    <3> QED
      BY <1>1, <3>1 DEF Filed
  <2>8. RemovalStopsLoops'
    BY <1>1, <2>2, <2>5 DEF ReceiverInv, RemovalStopsLoops
  <2> QED
    BY <1>3, <2>3, <2>4, <2>6, <2>7, <2>8 DEF ReceiverInv
<1> QED
  BY <1>4, <1>5

(* What is pushed to may start to loop; after a removal that is a race.    *)
LEMMA PushKeepsInv ==
  ASSUME ReceiverInv, NEW p \in Packet, Push(p) PROVE ReceiverInv'
<1> DEFINE b == target[p]
<1>1. /\ pc[p] = "push" /\ pc' = [pc EXCEPT ![p] = "idle"]
      /\ target' = [target EXCEPT ![p] = None]
      /\ UNCHANGED <<mapped, table, ssrc, of, stopping, remover, removed, raced>>
      /\ looping' = [looping EXCEPT ![b] = @ \/ filled[b] + 1 >= Depth]
  BY DEF Push
<1>2. b \in Buffer /\ of[b] # None
  BY <1>1 DEF ReceiverInv, Created
<1>3. PICK on \in BOOLEAN : looping' = [looping EXCEPT ![b] = on]
  <2>1. (looping[b] \/ filled[b] + 1 >= Depth) \in BOOLEAN
    OBVIOUS
  <2> QED
    BY <1>1, <2>1
<1> HIDE DEF b
<1>4. TablesOK'
  BY <1>1, <1>3 DEF ReceiverInv, TablesOK
<1>5. MappedFirst' /\ Created'
  BY <1>1, <1>2, <1>3 DEF ReceiverInv, TablesOK, MappedFirst, Created
<1>6. Filed' /\ Undisturbed'
  BY <1>1 DEF ReceiverInv, Filed, Undisturbed, TablesOK
<1>7. RemovalStopsLoops'
  BY <1>1 DEF ReceiverInv, Undisturbed, RemovalStopsLoops
<1> QED
  BY <1>1, <1>4, <1>5, <1>6, <1>7 DEF ReceiverInv

(* removeUser begins: the removal is undisturbed if no packet is handled.  *)
LEMMA RemoveDecodersKeepsInv ==
  ASSUME ReceiverInv, RemoveDecoders PROVE ReceiverInv'
<1>1. /\ ~removed /\ remover' = "buffers" /\ removed'
      /\ raced' = (raced \/ \E p \in Packet : pc[p] # "idle")
      /\ UNCHANGED <<mapped, table, packetVars, bufferVars, stopping>>
  BY DEF RemoveDecoders
<1>2. TablesOK' /\ MappedFirst' /\ Created'
  BY <1>1 DEF ReceiverInv, TablesOK, MappedFirst, Created, packetVars, bufferVars
<1>3. Filed' /\ Undisturbed' /\ RemovalStopsLoops'
  BY <1>1 DEF ReceiverInv, Filed, Undisturbed, RemovalStopsLoops, packetVars, bufferVars
<1> QED
  BY <1>1, <1>2, <1>3 DEF ReceiverInv

(* Every buffer is in the table, and so each that loops is to be stopped.  *)
LEMMA RemoveBuffersKeepsInv ==
  ASSUME ReceiverAssumption, ReceiverInv, RemoveBuffers PROVE ReceiverInv'
<1>1. /\ remover = "buffers" /\ remover' = "idle"
      /\ stopping' = stopping \cup ({table[s] : s \in mapped} \ {None})
      /\ table' = [s \in Ssrc |-> IF s \in mapped THEN None ELSE table[s]]
      /\ UNCHANGED <<mapped, packetVars, bufferVars, removed, raced>>
  BY DEF RemoveBuffers
<1>2. removed
  BY <1>1 DEF ReceiverInv
<1>3. TablesOK'
  BY <1>1 DEF ReceiverInv, TablesOK, packetVars, bufferVars
<1>4. MappedFirst' /\ Created'
  BY <1>1 DEF ReceiverInv, TablesOK, MappedFirst, Created, packetVars, bufferVars
<1>5. Filed' /\ Undisturbed'
  BY <1>1, <1>2 DEF ReceiverInv, Filed, Undisturbed, packetVars
<1>6. ASSUME NEW b \in Buffer, looping'[b] PROVE b \in stopping'
  <2>1. of[b] \in mapped /\ table[of[b]] = b
    BY <1>1, <1>6 DEF ReceiverInv, Created, MappedFirst, Filed, bufferVars
  <2> QED
    BY <1>1, <2>1 DEF ReceiverAssumption
<1>7. RemovalStopsLoops'
  BY <1>6 DEF RemovalStopsLoops
<1> QED
  BY <1>1, <1>2, <1>3, <1>4, <1>5, <1>7 DEF ReceiverInv

(* A stop task ends the loop of its buffer.                                *)
LEMMA StopBufferKeepsInv ==
  ASSUME ReceiverInv, NEW b \in Buffer, StopBuffer(b) PROVE ReceiverInv'
<1>1. /\ stopping' = stopping \ {b} /\ looping' = [looping EXCEPT ![b] = FALSE]
      /\ UNCHANGED <<mapped, table, packetVars, of, remover, removed, raced>>
  BY DEF StopBuffer
<1>2. TablesOK' /\ MappedFirst' /\ Created'
  BY <1>1 DEF ReceiverInv, TablesOK, MappedFirst, Created, packetVars
<1>3. Filed' /\ Undisturbed'
  BY <1>1 DEF ReceiverInv, Filed, Undisturbed, packetVars
<1>4. RemovalStopsLoops'
  BY <1>1 DEF ReceiverInv, TablesOK, RemovalStopsLoops
<1> QED
  BY <1>1, <1>2, <1>3, <1>4 DEF ReceiverInv

(* A frame of a loop, and a step of another part, leave all this alone.    *)
LEMMA OthersKeepInv ==
  ASSUME ReceiverInv,
         UNCHANGED <<mapped, table, packetVars, bufferVars, stopping, remover, removed, raced>>
  PROVE  ReceiverInv'
<1>1. TablesOK' /\ MappedFirst' /\ Created'
  BY DEF ReceiverInv, TablesOK, MappedFirst, Created, packetVars, bufferVars
<1>2. Filed' /\ Undisturbed' /\ RemovalStopsLoops'
  BY DEF ReceiverInv, Filed, Undisturbed, RemovalStopsLoops, packetVars, bufferVars
<1> QED
  BY <1>1, <1>2 DEF ReceiverInv

(* Every step of the receiver keeps the invariant.                         *)
LEMMA NextKeepsInv ==
  ASSUME ReceiverAssumption, ReceiverInv, [Next]_vars PROVE ReceiverInv'
<1>1. CASE \E s \in Ssrc : Speaking(s) \/ \E p \in Packet : Arrive(p, s)
  BY <1>1, SpeakingKeepsInv, ArriveKeepsInv
<1>2. CASE \E p \in Packet : Lookup(p) \/ DecryptFails(p) \/ GetOrCreate(p) \/ Push(p)
  BY <1>2, LookupKeepsInv, GetOrCreateKeepsInv, PushKeepsInv
<1>3. CASE \E b \in Buffer : Dispatch(b)
  BY <1>3, OthersKeepInv DEF Dispatch
<1>4. CASE \E b \in Buffer : StopBuffer(b)
  BY <1>4, StopBufferKeepsInv
<1>5. CASE RemoveDecoders \/ RemoveBuffers
  BY <1>5, RemoveDecodersKeepsInv, RemoveBuffersKeepsInv
<1>6. CASE UNCHANGED vars
  BY <1>6, OthersKeepInv DEF vars
<1> QED
  BY <1>1, <1>2, <1>3, <1>4, <1>5, <1>6 DEF Next

(* The invariant holds throughout.                                         *)
LEMMA InvHolds == Spec => []ReceiverInv
BY InitInv, NextKeepsInv, ReceiverAssumption, PTL DEF Spec

-----------------------------------------------------------------------------
(* Two loops of one SSRC never feed its decoder, however many packets of   *)
(* the user are handled at a time (getOrCreateJitterBuffer).               *)
THEOREM OneLoop == Spec => []OneLoopPerSsrc
<1>1. ReceiverInv => OneLoopPerSsrc
  BY DEF ReceiverInv, Created, Filed, OneLoopPerSsrc
<1> QED
  BY <1>1, InvHolds, PTL

(* A removeUser that met no packet of its user leaves no loop that is not  *)
(* about to be stopped, whatever SSRCs the user had.                       *)
THEOREM RemovalComplete == Spec => []RemovalStopsLoops
<1>1. ReceiverInv => RemovalStopsLoops
  BY DEF ReceiverInv
<1> QED
  BY <1>1, InvHolds, PTL

-----------------------------------------------------------------------------
(* VoiceTransporter.                                                       *)

(* A call past its first step has a session's transporter.                 *)
OwnSession == \A c \in Call : step[c] \notin {"begin", "done"} => local[c].mine \in Session

(* Nonces in use are below the counter of their transporter, and apart.    *)
Apart(h, g) == h.mine # g.mine \/ h.nonce # g.nonce
Counted ==
  /\ \A c \in Call : step[c] = "send" => local[c].nonce < nonceCounter[local[c].mine]
  /\ \A p \in wire : p.held.mine \in Session /\ p.held.nonce < nonceCounter[p.held.mine]
Distinct ==
  /\ \A c, d \in Call :
       c # d /\ step[c] = "send" /\ step[d] = "send" => Apart(local[c], local[d])
  /\ \A c \in Call, p \in wire : step[c] = "send" => Apart(local[c], p.held)
  /\ \A p, q \in wire : p # q => Apart(p.held, q.held)

(* A frame no description crossed has the key of its transporter: the      *)
(* locks hold the last session's, except while that is being described.    *)
Keyed == {"speak", "tell", "untell", "seq", "ts", "nonce", "send"}
Locks ==
  /\ transporterLock \in {0, sessions}
  /\ ~describing => encryptionLock \in {0, sessions}
Matching ==
  /\ \A c \in Call : step[c] = "key" /\ ~local[c].crossed => ~describing /\ local[c].mine = sessions
  /\ \A c \in Sender : step[c] \in Keyed /\ ~local[c].crossed => local[c].key = local[c].mine
  /\ \A p \in wire : ~p.held.crossed => p.held.key = p.held.mine

SealInv == TransporterTypeOK /\ OwnSession /\ Counted /\ Distinct /\ Locks /\ Matching

-----------------------------------------------------------------------------
(* What most steps do to a call: it ends or goes on with what it holds.    *)
Passes(c) ==
  /\ local'[c].mine = local[c].mine /\ local'[c].key = local[c].key
  /\ local'[c].nonce = local[c].nonce /\ local'[c].crossed = local[c].crossed
  /\ \/ step'[c] = step[c]
     \/ {step[c], step'[c]} \subseteq {"speak", "tell", "untell", "seq", "ts", "nonce"}

LEMMA PassingKeepsInv ==
  ASSUME SealInv, TransporterTypeOK', UNCHANGED <<sessionVars, nonceCounter, wire>>,
         \A c \in Call : step'[c] = "done" \/ Passes(c)
  PROVE  SealInv'
<1>1. OwnSession'
  BY DEF SealInv, OwnSession, Passes
<1>2. Counted'
  BY DEF SealInv, Counted, Passes
<1>3. Distinct'
  BY DEF SealInv, Distinct, Apart, Passes
<1>4. Locks'
  BY DEF SealInv, Locks, sessionVars
<1>5. Matching'
  <2>1. ASSUME NEW c \in Call, step'[c] = "key", ~local'[c].crossed
        PROVE  ~describing' /\ local'[c].mine = sessions'
    BY <2>1 DEF SealInv, Matching, Passes, sessionVars
  <2>2. ASSUME NEW c \in Sender, step'[c] \in Keyed, ~local'[c].crossed
        PROVE  local'[c].key = local'[c].mine
    <3>1. Passes(c)
      BY <2>2 DEF Keyed, Call
    <3>2. step[c] \in Keyed /\ ~local[c].crossed
      BY <2>2, <3>1 DEF Passes, Keyed
    <3> QED
      BY <3>1, <3>2 DEF SealInv, Matching, Passes
  <2> QED
    BY <2>1, <2>2 DEF SealInv, Matching
<1> QED
  BY <1>1, <1>2, <1>3, <1>4, <1>5 DEF SealInv

(* What is empty, gone or one further on has its type.                     *)
LEMMA EmptyHeld == ASSUME TransporterAssumption PROVE Empty \in Held /\ 0 \in 0 .. Sessions
  BY DEF TransporterAssumption, Empty, Held

LEMMA InitSealInv == ASSUME TransporterAssumption, TransporterInit PROVE SealInv
<1>1. TransporterTypeOK
  <2>1. local \in [Call -> Held] /\ wire \subseteq [by : Sender, heard : BOOLEAN, held : Held]
    BY EmptyHeld DEF TransporterInit
  <2>2. /\ {sequence, timestamp, nonceCounter} \subseteq [Session -> Nat]
        /\ {isSpeakingActive, told} \subseteq [Session -> BOOLEAN]
    BY DEF TransporterInit
  <2> QED
    BY <2>1, <2>2, EmptyHeld DEF TransporterInit, TransporterTypeOK
<1>2. OwnSession /\ Counted /\ Distinct /\ Locks /\ Matching
  BY DEF TransporterInit, OwnSession, Counted, Distinct, Locks, Matching, Keyed, Call
<1> QED
  BY <1>1, <1>2 DEF SealInv

-----------------------------------------------------------------------------
(* The handler and disconnect().                                           *)

LEMMA CrossingTyped ==
  ASSUME TransporterTypeOK, Crossing
  PROVE  /\ local' \in [Call -> Held]
         /\ \A c \in Call :
              /\ local'[c].mine = local[c].mine /\ local'[c].key = local[c].key
              /\ local'[c].nonce = local[c].nonce
              /\ local'[c].crossed = (local[c].crossed \/ step[c] = "key")
  BY DEF TransporterTypeOK, Crossing, Held

LEMMA DescribeKeepsInv ==
  ASSUME TransporterAssumption, SealInv, DescribeTransporter \/ DescribeEncryption
  PROVE  SealInv'
<1>1. /\ UNCHANGED <<leaving, counterVars, speakVars, step, wire>> /\ Crossing
  BY DEF DescribeTransporter, DescribeEncryption
<1>2. /\ local' \in [Call -> Held]
      /\ \A c \in Call :
           /\ local'[c].mine = local[c].mine /\ local'[c].key = local[c].key
           /\ local'[c].nonce = local[c].nonce
           /\ local'[c].crossed = (local[c].crossed \/ step[c] = "key")
  BY <1>1, CrossingTyped DEF SealInv
<1>3. /\ {transporterLock, encryptionLock, sessions}' \subseteq 0 .. Sessions
      /\ describing' \in BOOLEAN /\ Locks'
  <2>1. {transporterLock, encryptionLock, sessions} \subseteq 0 .. Sessions /\ Sessions \in Nat
    BY DEF SealInv, TransporterTypeOK, TransporterAssumption
  <2>2. CASE DescribeTransporter
    <3>1. /\ sessions' = sessions + 1 /\ sessions < Sessions /\ transporterLock' = sessions'
          /\ describing' = TRUE /\ encryptionLock' = encryptionLock
      BY <2>2 DEF DescribeTransporter
    <3> QED
      BY <2>1, <3>1 DEF Locks
  <2>3. CASE DescribeEncryption
    BY <2>1, <2>3 DEF DescribeEncryption, SealInv, Locks
  <2> QED
    BY <2>2, <2>3
<1>4. TransporterTypeOK'
  BY <1>1, <1>2, <1>3 DEF SealInv, TransporterTypeOK, counterVars, speakVars
<1>5. OwnSession' /\ Counted' /\ Distinct'
  BY <1>1, <1>2 DEF SealInv, OwnSession, Counted, Distinct, Apart, counterVars
<1>6. Matching'
  BY <1>1, <1>2 DEF SealInv, Matching, Keyed, Call
<1> QED
  BY <1>3, <1>4, <1>5, <1>6 DEF SealInv

LEMMA ClearKeepsInv ==
  ASSUME TransporterAssumption, SealInv, ClearTransporter \/ ClearEncryption
  PROVE  SealInv'
<1>1. /\ UNCHANGED <<sessions, describing, counterVars, speakVars, step, local, wire>>
      /\ {transporterLock, encryptionLock}' \subseteq {transporterLock, encryptionLock, 0}
      /\ leaving' \in BOOLEAN
      /\ transporterLock' \in {transporterLock, 0} /\ encryptionLock' \in {encryptionLock, 0}
  BY DEF ClearTransporter, ClearEncryption
<1>2. TransporterTypeOK'
  BY <1>1, EmptyHeld DEF SealInv, TransporterTypeOK, counterVars, speakVars
<1>3. OwnSession' /\ Counted' /\ Distinct'
  BY <1>1 DEF SealInv, OwnSession, Counted, Distinct, Apart, counterVars
<1>4. Locks' /\ Matching'
  BY <1>1 DEF SealInv, Locks, Matching
<1> QED
  BY <1>2, <1>3, <1>4 DEF SealInv

-----------------------------------------------------------------------------
(* What a call reads.                                                      *)

LEMMA ReadTransporterKeepsInv ==
  ASSUME TransporterAssumption, SealInv, NEW c \in Call, ReadTransporter(c)
  PROVE  SealInv'
<1>1. /\ UNCHANGED <<sessionVars, counterVars, speakVars, wire>>
      /\ transporterLock # 0 /\ step[c] = "begin"
      /\ step' = [step EXCEPT ![c] = IF c \in Sender THEN "key" ELSE "speak"]
  BY DEF ReadTransporter, Go
<1>2. local' \in [Call -> Held]
  <2> DEFINE h == [local[c] EXCEPT !.mine = transporterLock, !.crossed = describing]
  <2>1. local' = [local EXCEPT ![c] = h]
    BY DEF ReadTransporter, SealInv, TransporterTypeOK
  <2>2. h \in Held
    BY DEF SealInv, TransporterTypeOK, Held
  <2> QED
    BY <2>1, <2>2 DEF SealInv, TransporterTypeOK
<1>3. local'[c].mine = transporterLock /\ local'[c].crossed = describing
  BY DEF ReadTransporter, SealInv, TransporterTypeOK, Held
<1>4. \A d \in Call \ {c} : local'[d] = local[d] /\ step'[d] = step[d]
  BY <1>1 DEF ReadTransporter, SealInv, TransporterTypeOK
<1>5. step'[c] = IF c \in Sender THEN "key" ELSE "speak"
  BY <1>1 DEF SealInv, TransporterTypeOK
<1>6. TransporterTypeOK'
  BY <1>1, <1>2 DEF SealInv, TransporterTypeOK, sessionVars, counterVars, speakVars
<1>7. transporterLock \in Session /\ transporterLock = sessions
  BY <1>1 DEF SealInv, TransporterTypeOK, Locks, Session, TransporterAssumption
<1>8. OwnSession' /\ Counted' /\ Distinct'
  BY <1>1, <1>3, <1>4, <1>5, <1>7 DEF SealInv, OwnSession, Counted, Distinct, Apart, counterVars
<1>9. Locks' /\ Matching'
  BY <1>1, <1>3, <1>4, <1>5, <1>7 DEF SealInv, Locks, Matching, sessionVars, Keyed, Call
<1> QED
  BY <1>6, <1>8, <1>9 DEF SealInv

LEMMA ReadKeyKeepsInv ==
  ASSUME TransporterAssumption, SealInv, NEW c \in Call, ReadKey(c)
  PROVE  SealInv'
<1>1. /\ UNCHANGED <<sessionVars, counterVars, speakVars, wire>>
      /\ encryptionLock # 0 /\ step[c] = "key" /\ step' = [step EXCEPT ![c] = "speak"]
      /\ local' = [local EXCEPT ![c].key = encryptionLock]
  BY DEF ReadKey, Go
<1>2. local' \in [Call -> Held]
  BY <1>1 DEF SealInv, TransporterTypeOK, Held
<1>3. /\ local'[c].mine = local[c].mine /\ local'[c].crossed = local[c].crossed
      /\ local'[c].key = encryptionLock
  BY <1>1 DEF SealInv, TransporterTypeOK, Held
<1>4. \A d \in Call \ {c} : local'[d] = local[d] /\ step'[d] = step[d]
  BY <1>1 DEF SealInv, TransporterTypeOK
<1>5. step'[c] = "speak"
  BY <1>1 DEF SealInv, TransporterTypeOK
<1>6. TransporterTypeOK'
  BY <1>1, <1>2 DEF SealInv, TransporterTypeOK, sessionVars, counterVars, speakVars
<1>7. ~local[c].crossed => local[c].mine = encryptionLock
  BY <1>1 DEF SealInv, Matching, Locks
<1>8. OwnSession' /\ Counted' /\ Distinct'
  BY <1>1, <1>3, <1>4, <1>5 DEF SealInv, OwnSession, Counted, Distinct, Apart, counterVars
<1>9. Locks' /\ Matching'
  BY <1>1, <1>3, <1>4, <1>5, <1>7 DEF SealInv, Locks, Matching, sessionVars, Keyed, Call
<1> QED
  BY <1>6, <1>8, <1>9 DEF SealInv

(* A call ends: another keeps what it holds.                               *)
LEMMA Ending ==
  ASSUME TransporterAssumption, SealInv, NEW c \in Call, NEW s, Return(c, s)
  PROVE  /\ local' \in [Call -> Held] /\ step' \in [Call -> Keyed \cup {"begin", "key", "done"}]
         /\ \A d \in Call : step'[d] = "done" \/ Passes(d)
<1>1. /\ step' = [step EXCEPT ![c] = "done"] /\ local' = [local EXCEPT ![c] = Empty]
      /\ step \in [Call -> Keyed \cup {"begin", "key", "done"}] /\ local \in [Call -> Held]
  BY DEF Return, Go, SealInv, TransporterTypeOK, Keyed
<1>2. step'[c] = "done" /\ \A d \in Call \ {c} : Passes(d)
  BY <1>1 DEF Passes
<1> QED
  BY <1>1, <1>2, EmptyHeld

-----------------------------------------------------------------------------
(* Speaking, and the two numbers that seal nothing.                        *)

LEMMA AbsentKeepsInv ==
  ASSUME TransporterAssumption, SealInv, NEW c \in Call,
         Absent(c) \/ NotSpeaking(c) \/ Discard(c)
  PROVE  SealInv'
<1>1. /\ UNCHANGED <<sessionVars, counterVars, speakVars, wire>>
      /\ Return(c, "begin") \/ Return(c, "key") \/ Return(c, "speak") \/ Return(c, "send")
  BY DEF Absent, NotSpeaking, Discard
<1>2. /\ local' \in [Call -> Held] /\ step' \in [Call -> Keyed \cup {"begin", "key", "done"}]
      /\ \A d \in Call : step'[d] = "done" \/ Passes(d)
  BY <1>1, Ending
<1>3. TransporterTypeOK'
  BY <1>1, <1>2 DEF SealInv, TransporterTypeOK, Keyed, sessionVars, counterVars, speakVars
<1> QED
  BY <1>1, <1>2, <1>3, PassingKeepsInv DEF counterVars

LEMMA AlreadySpeakingKeepsInv ==
  ASSUME TransporterAssumption, SealInv, NEW c \in Call, AlreadySpeaking(c)
  PROVE  SealInv'
<1>1. UNCHANGED <<sessionVars, counterVars, speakVars, wire>> /\ step[c] = "speak"
  BY DEF AlreadySpeaking
<1>2. /\ local' \in [Call -> Held] /\ step' \in [Call -> Keyed \cup {"begin", "key", "done"}]
      /\ \A d \in Call : step'[d] = "done" \/ Passes(d)
  <2>1. CASE Return(c, "speak")
    BY <2>1, Ending
  <2>2. CASE Go(c, "speak", "seq")
        /\ local' = [local EXCEPT ![c].unsure = Announcing(Mine(c))]
    <3>1. Announcing(Mine(c)) \in BOOLEAN
      BY DEF Announcing
    <3> QED
      BY <2>2, <3>1 DEF Go, SealInv, TransporterTypeOK, Held, Passes, Keyed
  <2> QED
    BY <2>1, <2>2 DEF AlreadySpeaking
<1>3. TransporterTypeOK'
  BY <1>1, <1>2 DEF SealInv, TransporterTypeOK, Keyed, sessionVars, counterVars, speakVars
<1> QED
  BY <1>1, <1>2, <1>3, PassingKeepsInv DEF counterVars

LEMMA FlagKeepsInv ==
  ASSUME TransporterAssumption, SealInv, NEW c \in Call, StartSpeaking(c) \/ StopSpeaking(c)
  PROVE  SealInv'
<1>1. /\ UNCHANGED <<sessionVars, counterVars, told, wire>>
      /\ step[c] = "speak" /\ Overtaking(Mine(c))
      /\ step' = [step EXCEPT ![c] = "tell"] \/ step' = [step EXCEPT ![c] = "untell"]
  BY DEF StartSpeaking, StopSpeaking, Go
<1>2. Mine(c) \in Session
  BY <1>1 DEF SealInv, OwnSession, Mine
<1>3. local' \in [Call -> Held] /\ \A d \in Call : Passes(d)
  <2>1. CASE UNCHANGED local
    BY <1>1, <2>1 DEF SealInv, TransporterTypeOK, Passes
  <2>2. CASE local' = [d \in Call |-> [local[d] EXCEPT
       !.unsure = @ \/ (step[d] \in {"seq", "ts", "nonce", "send"} /\ Mine(d) = Mine(c))]]
    <3> DEFINE late(d) == step[d] \in {"seq", "ts", "nonce", "send"} /\ Mine(d) = Mine(c)
               h(d) == [local[d] EXCEPT !.unsure = @ \/ late(d)]
    <3>1. \A d \in Call : local'[d] = h(d) /\ local[d] \in Held
      BY <2>2 DEF SealInv, TransporterTypeOK
    <3>2. \A d \in Call : late(d) \in BOOLEAN
      BY DEF Mine
    <3>3. ASSUME NEW d \in Call
          PROVE  /\ h(d) \in Held /\ h(d).mine = local[d].mine /\ h(d).key = local[d].key
                 /\ h(d).nonce = local[d].nonce /\ h(d).crossed = local[d].crossed
      <4> HIDE DEF late
      <4> QED
        BY <3>1, <3>2 DEF Held
    <3>4. local' \in [Call -> Held]
      <4> HIDE DEF h
      <4> QED
        BY <2>2, <3>1, <3>3
    <3>5. ASSUME NEW d \in Call PROVE Passes(d)
      <4>1. step'[d] = step[d] \/ {step[d], step'[d]} \subseteq {"speak", "tell", "untell"}
        BY <1>1 DEF SealInv, TransporterTypeOK
      <4> HIDE DEF h
      <4> QED
        BY <3>1, <3>3, <4>1 DEF Passes
    <3> QED
      BY <3>4, <3>5
  <2> QED
    BY <2>1, <2>2 DEF StartSpeaking, StopSpeaking
<1>4. isSpeakingActive' \in [Session -> BOOLEAN] /\ garbled' \subseteq Session
  BY <1>1, <1>2 DEF StartSpeaking, StopSpeaking, Overtaking, SealInv, TransporterTypeOK
<1>5. TransporterTypeOK'
  BY <1>1, <1>3, <1>4 DEF SealInv, TransporterTypeOK, sessionVars, counterVars
<1> QED
  BY <1>1, <1>3, <1>5, PassingKeepsInv DEF counterVars

LEMMA TellKeepsInv ==
  ASSUME TransporterAssumption, SealInv, NEW c \in Call,
         TellSpeaking(c) \/ TellSilence(c) \/ TellFails(c)
  PROVE  SealInv'
<1>1. /\ UNCHANGED <<sessionVars, counterVars, isSpeakingActive, wire>>
      /\ step[c] \in {"tell", "untell"}
  BY DEF TellSpeaking, TellSilence, TellFails, Return, Go
<1>2. /\ local' \in [Call -> Held] /\ step' \in [Call -> Keyed \cup {"begin", "key", "done"}]
      /\ \A d \in Call : step'[d] = "done" \/ Passes(d)
  <2>1. CASE Return(c, "tell") \/ Return(c, "untell")
    BY <2>1, Ending
  <2>2. CASE Go(c, "tell", "seq") /\ UNCHANGED local
    BY <2>2 DEF Go, SealInv, TransporterTypeOK, Passes, Keyed
  <2> QED
    BY <2>1, <2>2 DEF TellSpeaking, TellSilence, TellFails
<1>3. Mine(c) \in Session
  BY <1>1 DEF SealInv, OwnSession, Mine
<1>4. told' \in [Session -> BOOLEAN] /\ garbled' \subseteq Session
  BY <1>3 DEF TellSpeaking, TellSilence, TellFails, SealInv, TransporterTypeOK
<1>5. TransporterTypeOK'
  BY <1>1, <1>2, <1>4 DEF SealInv, TransporterTypeOK, Keyed, sessionVars, counterVars
<1> QED
  BY <1>1, <1>2, <1>5, PassingKeepsInv DEF counterVars

LEMMA TakeNumberKeepsInv ==
  ASSUME TransporterAssumption, SealInv, NEW c \in Call, TakeSeq(c) \/ TakeTimestamp(c)
  PROVE  SealInv'
<1>1. /\ UNCHANGED <<sessionVars, nonceCounter, speakVars, wire>>
      /\ \/ step[c] = "seq" /\ step' = [step EXCEPT ![c] = "ts"]
         \/ step[c] = "ts" /\ step' = [step EXCEPT ![c] = "nonce"]
  BY DEF TakeSeq, TakeTimestamp, Go
<1>2. Mine(c) \in Session
  BY <1>1 DEF SealInv, OwnSession, Mine
<1>3. local' \in [Call -> Held] /\ \A d \in Call : Passes(d)
  <2>1. sequence[Mine(c)] \in Nat /\ timestamp[Mine(c)] \in Nat
    BY <1>2 DEF SealInv, TransporterTypeOK
  <2>2. \/ local' = [local EXCEPT ![c].seq = sequence[Mine(c)]]
        \/ local' = [local EXCEPT ![c].ts = timestamp[Mine(c)]]
    BY DEF TakeSeq, TakeTimestamp
  <2> QED
    <3>1. CASE local' = [local EXCEPT ![c].seq = sequence[Mine(c)]]
      BY <1>1, <2>1, <3>1 DEF SealInv, TransporterTypeOK, Held, Passes
    <3>2. CASE local' = [local EXCEPT ![c].ts = timestamp[Mine(c)]]
      BY <1>1, <2>1, <3>2 DEF SealInv, TransporterTypeOK, Held, Passes
    <3> QED
      BY <2>2, <3>1, <3>2
<1>4. {sequence', timestamp'} \subseteq [Session -> Nat]
  BY <1>2 DEF TakeSeq, TakeTimestamp, SealInv, TransporterTypeOK
<1>5. TransporterTypeOK'
  BY <1>1, <1>3, <1>4 DEF SealInv, TransporterTypeOK, sessionVars, speakVars
<1> QED
  BY <1>1, <1>3, <1>5, PassingKeepsInv

-----------------------------------------------------------------------------
(* A nonce is taken and sealed.                                            *)

LEMMA TakeNonceKeepsInv ==
  ASSUME TransporterAssumption, SealInv, NEW c \in Call, TakeNonce(c)
  PROVE  SealInv'
<1> DEFINE n == nonceCounter[Mine(c)]
<1>1. /\ UNCHANGED <<sessionVars, sequence, timestamp, speakVars, wire>>
      /\ step[c] = "nonce" /\ step' = [step EXCEPT ![c] = "send"]
      /\ local' = [local EXCEPT ![c].nonce = n]
      /\ nonceCounter' = [nonceCounter EXCEPT ![Mine(c)] = n + 1]
  BY DEF TakeNonce, Go
<1>2. Mine(c) = local[c].mine /\ Mine(c) \in Session
  BY <1>1 DEF SealInv, OwnSession, Mine
<1>3. n \in Nat /\ nonceCounter \in [Session -> Nat]
  BY <1>2 DEF SealInv, TransporterTypeOK
<1>4. local' \in [Call -> Held]
  BY <1>1, <1>3 DEF SealInv, TransporterTypeOK, Held
<1>5. /\ local'[c].mine = local[c].mine /\ local'[c].key = local[c].key
      /\ local'[c].crossed = local[c].crossed /\ local'[c].nonce = n
  BY <1>1 DEF SealInv, TransporterTypeOK, Held
<1>6. step'[c] = "send" /\ \A d \in Call \ {c} : local'[d] = local[d] /\ step'[d] = step[d]
  BY <1>1 DEF SealInv, TransporterTypeOK
<1>7. nonceCounter' \in [Session -> Nat] /\ nonceCounter'[local[c].mine] = n + 1
      /\ \A t \in Session : nonceCounter[t] <= nonceCounter'[t]
  BY <1>1, <1>2, <1>3
<1>8. TransporterTypeOK'
  BY <1>1, <1>4, <1>7 DEF SealInv, TransporterTypeOK, sessionVars, speakVars
<1>9. OwnSession'
  BY <1>2, <1>5, <1>6 DEF SealInv, OwnSession
<1>10. \A d \in Call : local[d].nonce \in Nat
  BY DEF SealInv, TransporterTypeOK, Held
<1>11. \A p \in wire : p.held.nonce \in Nat
  BY DEF SealInv, TransporterTypeOK, Held
<1>12. Counted'
  <2>1. ASSUME NEW d \in Call, step'[d] = "send"
        PROVE  local'[d].nonce < nonceCounter'[local'[d].mine]
    <3>1. CASE d = c
      BY <3>1, <1>3, <1>5, <1>7
    <3>2. CASE d # c
      <4>1. step[d] = "send" /\ local'[d] = local[d] /\ local[d].mine \in Session
        BY <2>1, <3>2, <1>6 DEF SealInv, OwnSession
      <4> QED
        BY <4>1, <1>3, <1>7, <1>10 DEF SealInv, Counted
    <3> QED
      BY <3>1, <3>2
  <2>2. ASSUME NEW p \in wire' 
        PROVE  p.held.mine \in Session /\ p.held.nonce < nonceCounter'[p.held.mine]
    BY <2>2, <1>1, <1>3, <1>7, <1>11 DEF SealInv, Counted
  <2> QED
    BY <2>1, <2>2 DEF Counted
<1>13. Distinct'
  <2>1. ASSUME NEW d \in Call, d # c, step[d] = "send" PROVE Apart(local'[c], local'[d])
    BY <2>1, <1>2, <1>3, <1>5, <1>6, <1>10 DEF SealInv, Counted, Apart
  <2>2. ASSUME NEW p \in wire PROVE Apart(local'[c], p.held)
    BY <2>2, <1>2, <1>3, <1>5, <1>11 DEF SealInv, Counted, Apart
  <2>3. \A d, e \in Call :
          d # e /\ step'[d] = "send" /\ step'[e] = "send" => Apart(local'[d], local'[e])
    BY <2>1, <1>6 DEF SealInv, Distinct, Apart
  <2>4. \A d \in Call, p \in wire : step'[d] = "send" => Apart(local'[d], p.held)
    BY <2>2, <1>6 DEF SealInv, Distinct
  <2> QED
    BY <2>3, <2>4, <1>1 DEF SealInv, Distinct, Apart
<1>14. Locks' /\ Matching'
  BY <1>1, <1>5, <1>6 DEF SealInv, Locks, Matching, Keyed, Call, sessionVars
<1> QED
  BY <1>8, <1>9, <1>12, <1>13, <1>14 DEF SealInv

LEMMA SendPacketKeepsInv ==
  ASSUME TransporterAssumption, SealInv, NEW c \in Sender, SendPacket(c)
  PROVE  SealInv'
<1> DEFINE r == [by |-> c, heard |-> told[Mine(c)], held |-> local[c]]
<1>1. /\ UNCHANGED <<sessionVars, counterVars, speakVars>> /\ step[c] = "send"
      /\ wire' = wire \cup {r} /\ Return(c, "send") /\ c \in Call
  BY DEF SendPacket, Return, Go, Call
<1>2. /\ local' \in [Call -> Held] /\ step' \in [Call -> Keyed \cup {"begin", "key", "done"}]
  BY <1>1, Ending
<1>3. step'[c] = "done" /\ \A d \in Call \ {c} : local'[d] = local[d] /\ step'[d] = step[d]
  BY <1>1 DEF Return, Go, SealInv, TransporterTypeOK
<1>4. local[c] \in Held /\ local[c].mine \in Session /\ told[Mine(c)] \in BOOLEAN
  BY <1>1 DEF SealInv, TransporterTypeOK, OwnSession, Mine
<1>5. TransporterTypeOK'
  <2>1. wire' \subseteq [by : Sender, heard : BOOLEAN, held : Held]
    BY <1>1, <1>4 DEF SealInv, TransporterTypeOK
  <2> QED
    BY <1>1, <1>2, <2>1 DEF SealInv, TransporterTypeOK, Keyed, sessionVars, counterVars, speakVars
<1>6. OwnSession'
  BY <1>3 DEF SealInv, OwnSession
<1>7. r.held = local[c]
  OBVIOUS
<1>8. Counted'
  BY <1>1, <1>3, <1>4, <1>7 DEF SealInv, Counted, counterVars
<1>9. Distinct'
  <2>1. \A p \in wire : Apart(local[c], p.held)
    BY <1>1 DEF SealInv, Distinct
  <2>2. \A d \in Call \ {c} : step[d] = "send" => Apart(local[d], local[c])
    BY <1>1 DEF SealInv, Distinct
  <2>3. \A d, e \in Call :
          d # e /\ step'[d] = "send" /\ step'[e] = "send" => Apart(local'[d], local'[e])
    BY <1>3 DEF SealInv, Distinct
  <2>4. \A d \in Call, p \in wire' : step'[d] = "send" => Apart(local'[d], p.held)
    BY <2>2, <1>1, <1>3, <1>7 DEF SealInv, Distinct
  <2>5. \A p, q \in wire' : p # q => Apart(p.held, q.held)
    BY <2>1, <1>1, <1>7 DEF SealInv, Distinct, Apart
  <2> QED
    BY <2>3, <2>4, <2>5 DEF Distinct, Apart
<1>10. Locks'
  BY <1>1 DEF SealInv, Locks, sessionVars
<1>11. Matching'
  BY <1>1, <1>3, <1>7 DEF SealInv, Matching, Keyed, Call, sessionVars
<1> QED
  BY <1>5, <1>6, <1>8, <1>9, <1>10, <1>11 DEF SealInv

-----------------------------------------------------------------------------
LEMMA SealStep ==
  ASSUME TransporterAssumption, SealInv, [TransporterNext]_sendVars PROVE SealInv'
<1>1. CASE DescribeTransporter \/ DescribeEncryption
  BY <1>1, DescribeKeepsInv
<1>2. CASE ClearTransporter \/ ClearEncryption
  BY <1>2, ClearKeepsInv
<1>3. ASSUME NEW c \in Call, SpeakStep(c) PROVE SealInv'
  BY <1>3, ReadTransporterKeepsInv, ReadKeyKeepsInv, AbsentKeepsInv, AlreadySpeakingKeepsInv,
     FlagKeepsInv, TellKeepsInv DEF SpeakStep
<1>4. ASSUME NEW c \in Sender, SendStep(c) PROVE SealInv'
  <2>1. c \in Call
    BY DEF Call
  <2> QED
    BY <1>4, <2>1, TakeNumberKeepsInv, TakeNonceKeepsInv, SendPacketKeepsInv, AbsentKeepsInv
       DEF SendStep
<1>5. CASE UNCHANGED sendVars
  <2>1. UNCHANGED <<sessionVars, counterVars, speakVars, step, local, wire>>
    BY <1>5 DEF sendVars
  <2>2. TransporterTypeOK'
    BY <2>1 DEF SealInv, TransporterTypeOK, sessionVars, counterVars, speakVars
  <2> QED
    BY <2>1, <2>2, PassingKeepsInv DEF Passes, counterVars
<1> QED
  BY <1>1, <1>2, <1>3, <1>4, <1>5 DEF TransporterNext

(* The invariant holds throughout.                                         *)
LEMMA SealInvHolds == TransporterSpec => []SealInv
BY InitSealInv, SealStep, TransporterAssumption, PTL DEF TransporterSpec

(* The client's locks, the transporters' counters and the calls stay in    *)
(* their types.                                                            *)
THEOREM TransporterTypeCorrect == TransporterSpec => []TransporterTypeOK
<1>1. SealInv => TransporterTypeOK
  BY DEF SealInv
<1> QED
  BY <1>1, SealInvHolds, PTL

(* No key seals two packets with one nonce, however many frames are sent   *)
(* at a time, unless a description came between what a frame read.         *)
THEOREM NeverSealedTwice == TransporterSpec => []SealedOnce
<1>1. SealInv => SealedOnce
  BY DEF SealInv, Matching, Distinct, Apart, SealedOnce, SameSeal
<1> QED
  BY <1>1, SealInvHolds, PTL

(* Announcements.  A frame that is under way was announced, unless it is   *)
(* not sure of it or an announcement of its SSRC got lost or overtaken;    *)
(* and so is the flag, once nobody is about to announce it.                *)
Sending == {"seq", "ts", "nonce", "send"}
Telling == {"tell", "untell"}

FramesAnnounced == \A d \in Call : step[d] \in Sending =>
  told[local[d].mine] \/ local[d].unsure \/ local[d].mine \in garbled
FlagAnnounced == \A t \in Session : isSpeakingActive[t] =>
  told[t] \/ t \in garbled \/ Announcing(t)

(* Two who announce the same SSRC have garbled it, and so has one who      *)
(* announces silence after the flag was set again; a frame that silence    *)
(* may overtake is not sure.                                               *)
OneAnnounces == \A c, d \in Call :
  /\ c # d /\ step[c] \in Telling /\ step[d] \in Telling /\ local[c].mine = local[d].mine
  => local[c].mine \in garbled
SilenceWanted == \A c \in Call :
  step[c] = "untell" /\ isSpeakingActive[local[c].mine] => local[c].mine \in garbled
SilenceDoubted == \A c, d \in Call :
  /\ step[c] = "untell" /\ step[d] \in Sending /\ local[c].mine = local[d].mine
  => local[d].unsure \/ local[d].mine \in garbled

HeardInv ==
  /\ FramesAnnounced /\ FlagAnnounced /\ OneAnnounces /\ SilenceWanted /\ SilenceDoubted
  /\ HeardWhenSent

(* What a step does that touches no announcement.                          *)
Calm ==
  /\ UNCHANGED <<speakVars, wire>>
  /\ \A d \in Call :
       /\ step'[d] \in Sending =>
            /\ step[d] \in Sending
            /\ local'[d].mine = local[d].mine /\ local'[d].unsure = local[d].unsure
       /\ step[d] \in Telling \/ step'[d] \in Telling =>
            step'[d] = step[d] /\ local'[d].mine = local[d].mine

LEMMA CalmKeepsHeard == ASSUME HeardInv, Calm PROVE HeardInv'
<1>1. UNCHANGED <<told, garbled, isSpeakingActive, wire>>
  BY DEF Calm, speakVars
<1>2. \A t \in Session : Announcing(t) => Announcing(t)'
  BY DEF Calm, Announcing, Mine, Telling
<1>3. FramesAnnounced' /\ FlagAnnounced' /\ HeardWhenSent'
  BY <1>1, <1>2 DEF Calm, HeardInv, FramesAnnounced, FlagAnnounced, HeardWhenSent
<1>4. OneAnnounces' /\ SilenceWanted'
  BY <1>1 DEF Calm, HeardInv, OneAnnounces, SilenceWanted, Telling
<1>5. SilenceDoubted'
  BY <1>1 DEF Calm, HeardInv, SilenceDoubted, Telling
<1> QED
  BY <1>3, <1>4, <1>5 DEF HeardInv

(* The client's handlers and the calls that hold no number yet, or take    *)
(* one, are calm.                                                          *)
LEMMA OthersCalm ==
  ASSUME SealInv,
         \/ DescribeTransporter \/ DescribeEncryption \/ ClearTransporter \/ ClearEncryption
         \/ \E c \in Call : ReadTransporter(c) \/ ReadKey(c) \/ Absent(c) \/ NotSpeaking(c)
         \/ \E c \in Sender : TakeSeq(c) \/ TakeTimestamp(c) \/ TakeNonce(c) \/ Discard(c)
         \/ UNCHANGED sendVars
  PROVE  Calm
<1>1. step \in [Call -> Keyed \cup {"begin", "key", "done"}] /\ local \in [Call -> Held]
  BY DEF SealInv, TransporterTypeOK, Keyed
<1>2. CASE DescribeTransporter \/ DescribeEncryption
  <2>1. UNCHANGED <<speakVars, wire, step>> /\ Crossing
    BY <1>2 DEF DescribeTransporter, DescribeEncryption
  <2> QED
    BY <1>1, <2>1 DEF Crossing, Held, Calm
<1>3. CASE ClearTransporter \/ ClearEncryption \/ UNCHANGED sendVars
  BY <1>3 DEF ClearTransporter, ClearEncryption, sendVars, Calm
<1>4. ASSUME NEW c \in Call, ReadTransporter(c) \/ ReadKey(c) PROVE Calm
  <2>1. /\ UNCHANGED <<speakVars, wire>>
        /\ step[c] \in {"begin", "key"} /\ step'[c] \in {"key", "speak"}
        /\ \A d \in Call \ {c} : step'[d] = step[d] /\ local'[d] = local[d]
    BY <1>1, <1>4 DEF ReadTransporter, ReadKey, Go
  <2> QED
    BY <2>1 DEF Calm, Sending, Telling
<1>5. ASSUME NEW c \in Call, Absent(c) \/ NotSpeaking(c) \/ Discard(c) PROVE Calm
  <2>1. /\ UNCHANGED <<speakVars, wire>>
        /\ step[c] \in {"begin", "key", "speak", "send"} /\ step'[c] = "done"
        /\ \A d \in Call \ {c} : step'[d] = step[d] /\ local'[d] = local[d]
    BY <1>1, <1>5 DEF Absent, NotSpeaking, Discard, Return, Go
  <2> QED
    BY <2>1 DEF Calm, Sending, Telling
<1>6. ASSUME NEW c \in Call, TakeSeq(c) \/ TakeTimestamp(c) \/ TakeNonce(c) PROVE Calm
  <2>1. /\ UNCHANGED <<speakVars, wire>>
        /\ step[c] \in {"seq", "ts", "nonce"} /\ step'[c] \in Sending
        /\ \A d \in Call \ {c} : step'[d] = step[d] /\ local'[d] = local[d]
    BY <1>1, <1>6 DEF TakeSeq, TakeTimestamp, TakeNonce, Go, Sending
  <2>2. local'[c].mine = local[c].mine /\ local'[c].unsure = local[c].unsure
    BY <1>1, <1>6 DEF TakeSeq, TakeTimestamp, TakeNonce, Held
  <2> QED
    BY <2>1, <2>2 DEF Calm, Sending, Telling
<1>7. Sender \subseteq Call
  BY DEF Call
<1> QED
  BY <1>2, <1>3, <1>4, <1>5, <1>6, <1>7

LEMMA AlreadySpeakingHeard ==
  ASSUME SealInv, HeardInv, NEW c \in Call, AlreadySpeaking(c) PROVE HeardInv'
<1>1. step \in [Call -> Keyed \cup {"begin", "key", "done"}] /\ local \in [Call -> Held]
  BY DEF SealInv, TransporterTypeOK, Keyed
<1>2. UNCHANGED <<speakVars, wire>> /\ step[c] = "speak" /\ isSpeakingActive[local[c].mine]
  BY DEF AlreadySpeaking, Mine
<1>3. CASE Return(c, "speak")
  <2>1. /\ step'[c] = "done"
        /\ \A d \in Call \ {c} : step'[d] = step[d] /\ local'[d] = local[d]
    BY <1>1, <1>3 DEF Return, Go
  <2> QED
    BY <1>2, <2>1, CalmKeepsHeard DEF Calm, Sending, Telling
<1>4. CASE Go(c, "speak", "seq") /\ local' = [local EXCEPT ![c].unsure = Announcing(Mine(c))]
  <2> DEFINE t == local[c].mine
  <2>1. /\ step'[c] = "seq"
        /\ \A d \in Call \ {c} : step'[d] = step[d] /\ local'[d] = local[d]
    BY <1>1, <1>4 DEF Go
  <2>2. local'[c].mine = t /\ local'[c].unsure = Announcing(t)
    BY <1>1, <1>4 DEF Held, Mine
  <2>3. t \in Session
    BY <1>2 DEF SealInv, OwnSession
  <2>4. UNCHANGED <<told, garbled, isSpeakingActive, wire>>
    BY <1>2 DEF speakVars
  <2>5. told[t] \/ t \in garbled \/ Announcing(t)
    BY <1>2, <2>3 DEF HeardInv, FlagAnnounced
  <2>6. \A s \in Session : Announcing(s) => Announcing(s)'
    BY <1>2, <2>1 DEF Announcing, Mine
  <2>7. \A d \in Call : step[d] = "untell" /\ local[d].mine = t => Announcing(t)
    BY DEF Announcing, Mine
  <2>8. FramesAnnounced' /\ FlagAnnounced' /\ HeardWhenSent'
    BY <2>1, <2>2, <2>4, <2>5, <2>6 DEF HeardInv, FramesAnnounced, FlagAnnounced, HeardWhenSent
  <2>9. OneAnnounces' /\ SilenceWanted'
    BY <2>1, <2>4 DEF HeardInv, OneAnnounces, SilenceWanted, Telling
  <2>10. SilenceDoubted'
    BY <1>2, <2>1, <2>2, <2>4, <2>7 DEF HeardInv, SilenceDoubted, Sending
  <2> QED
    BY <2>8, <2>9, <2>10 DEF HeardInv
<1> QED
  BY <1>3, <1>4 DEF AlreadySpeaking

(* The flag is set or taken back, to be announced.                         *)
LEMMA FlagHeard ==
  ASSUME SealInv, HeardInv, NEW c \in Call, StartSpeaking(c) \/ StopSpeaking(c)
  PROVE  HeardInv'
<1> DEFINE t == local[c].mine
           late(d) == step[d] \in Sending /\ local[d].mine = t
<1>1. step \in [Call -> Keyed \cup {"begin", "key", "done"}] /\ local \in [Call -> Held]
  BY DEF SealInv, TransporterTypeOK, Keyed
<1>2. /\ UNCHANGED <<told, wire>> /\ step[c] = "speak" /\ step'[c] \in Telling
      /\ \A d \in Call \ {c} : step'[d] = step[d]
      /\ Overtaking(t)
  BY <1>1 DEF StartSpeaking, StopSpeaking, Go, Telling, Mine
<1>3. t \in Session /\ isSpeakingActive \in [Session -> BOOLEAN]
  BY <1>2 DEF SealInv, OwnSession, TransporterTypeOK
<1>4. \A s \in Session \ {t} : isSpeakingActive'[s] = isSpeakingActive[s]
  BY <1>3 DEF StartSpeaking, StopSpeaking, Mine
<1>5. step'[c] = "untell" => ~isSpeakingActive'[t]
  BY <1>1, <1>3 DEF StartSpeaking, StopSpeaking, Go, Mine
<1>6. \A d \in Call :
        /\ local'[d].mine = local[d].mine
        /\ local[d].unsure => local'[d].unsure
        /\ step'[c] = "untell" /\ late(d) => local'[d].unsure
  <2>1. CASE StartSpeaking(c)
    BY <1>1, <2>1 DEF StartSpeaking, Go
  <2>2. CASE StopSpeaking(c)
    <3>1. \A d \in Call : local'[d] = [local[d] EXCEPT !.unsure = @ \/ late(d)]
      BY <2>2 DEF StopSpeaking, Sending, Mine
    <3>2. \A d \in Call : late(d) \in BOOLEAN
      OBVIOUS
    <3> HIDE DEF late
    <3>3. ASSUME NEW d \in Call
          PROVE  local'[d].mine = local[d].mine /\ local'[d].unsure = (local[d].unsure \/ late(d))
      <4>1. local[d] \in Held /\ late(d) \in BOOLEAN
        BY <1>1, <3>2
      <4> QED
        BY <3>1, <4>1 DEF Held
    <3> QED
      BY <3>3
  <2> QED
    BY <2>1, <2>2
<1>7. garbled \subseteq garbled' /\ (Announcing(t) => t \in garbled')
  BY <1>2 DEF Overtaking
<1>8. \A s \in Session : Announcing(s) => Announcing(s)'
  BY <1>2, <1>6 DEF Announcing, Mine
<1>9. \A s \in Session : s = t => Announcing(s)'
  BY <1>2, <1>6 DEF Announcing, Mine, Telling
<1>10. \A d \in Call : step[d] \in Telling /\ local[d].mine = t => t \in garbled'
  BY <1>7 DEF Announcing, Mine, Telling
<1> HIDE DEF t, late
<1>11. FramesAnnounced' /\ FlagAnnounced' /\ HeardWhenSent'
  <2>1. FramesAnnounced'
    BY <1>2, <1>6, <1>7 DEF HeardInv, FramesAnnounced, Sending, Telling
  <2>2. FlagAnnounced'
    BY <1>2, <1>4, <1>7, <1>8, <1>9 DEF HeardInv, FlagAnnounced
  <2> QED
    BY <1>2, <1>7, <2>1, <2>2 DEF HeardInv, HeardWhenSent
<1>12. OneAnnounces'
  BY <1>2, <1>6, <1>7, <1>10 DEF HeardInv, OneAnnounces, t
<1>13. SilenceWanted'
  <2>1. ASSUME NEW d \in Call, step'[d] = "untell", isSpeakingActive'[local'[d].mine]
        PROVE  local'[d].mine \in garbled'
    <3>1. CASE local[d].mine = t
      BY <1>2, <1>5, <1>6, <1>10, <2>1, <3>1 DEF Telling
    <3>2. CASE local[d].mine # t
      <4>1. d # c /\ step[d] = "untell" /\ local[d].mine \in Session
        BY <1>2, <2>1, <3>2 DEF t, SealInv, OwnSession, Keyed
      <4> QED
        BY <4>1, <1>4, <1>6, <1>7, <2>1, <3>2 DEF HeardInv, SilenceWanted
    <3> QED
      BY <3>1, <3>2
  <2> QED
    BY <2>1 DEF SilenceWanted
<1>14. SilenceDoubted'
  BY <1>2, <1>6, <1>7 DEF HeardInv, SilenceDoubted, Sending, Telling, t, late
<1> QED
  BY <1>11, <1>12, <1>13, <1>14 DEF HeardInv

(* The announcement is made, or lost.                                      *)
LEMMA TellHeard ==
  ASSUME SealInv, HeardInv, NEW c \in Call, TellSpeaking(c) \/ TellSilence(c) \/ TellFails(c)
  PROVE  HeardInv'
<1> DEFINE t == local[c].mine
<1>1. step \in [Call -> Keyed \cup {"begin", "key", "done"}] /\ local \in [Call -> Held]
  BY DEF SealInv, TransporterTypeOK, Keyed
<1>2. /\ UNCHANGED <<isSpeakingActive, wire>>
      /\ step[c] \in Telling /\ step'[c] \in {"done", "seq"}
      /\ \A d \in Call \ {c} : step'[d] = step[d] /\ local'[d] = local[d]
      /\ step'[c] = "seq" => local'[c] = local[c]
  BY <1>1 DEF TellSpeaking, TellSilence, TellFails, Return, Go, Telling
<1>3. t \in Session /\ told \in [Session -> BOOLEAN]
  BY <1>2 DEF SealInv, OwnSession, TransporterTypeOK, Telling
<1>4. garbled \subseteq garbled' /\ \A s \in Session \ {t} : told'[s] = told[s]
  BY <1>3 DEF TellSpeaking, TellSilence, TellFails, Mine
<1>5. \/ told'[t]
      \/ step[c] = "untell" /\ step'[c] = "done"
      \/ t \in garbled' /\ step'[c] = "done"
  BY <1>1, <1>3 DEF TellSpeaking, TellSilence, TellFails, Return, Go, Mine
<1>6. \A s \in Session \ {t} : Announcing(s) => Announcing(s)'
  BY <1>2 DEF Announcing, Mine
<1> HIDE DEF t
<1>7. FramesAnnounced'
  <2>1. ASSUME NEW d \in Call, step'[d] \in Sending
        PROVE  told'[local'[d].mine] \/ local'[d].unsure \/ local'[d].mine \in garbled'
    <3>1. CASE d = c
      BY <1>2, <1>5, <2>1, <3>1 DEF t, Sending
    <3>2. CASE d # c
      <4>1. step[d] \in Sending /\ local'[d] = local[d] /\ local[d].mine \in Session
        BY <1>2, <2>1, <3>2 DEF SealInv, OwnSession, Sending
      <4>2. CASE local[d].mine # t
        BY <1>4, <4>1, <4>2 DEF HeardInv, FramesAnnounced
      <4>3. CASE local[d].mine = t /\ step[c] = "untell"
        BY <1>4, <4>1, <4>3 DEF HeardInv, SilenceDoubted, t
      <4>4. CASE local[d].mine = t /\ step[c] # "untell"
        BY <1>5, <4>1, <4>4
      <4> QED
        BY <4>2, <4>3, <4>4
    <3> QED
      BY <3>1, <3>2
  <2> QED
    BY <2>1 DEF FramesAnnounced
<1>8. FlagAnnounced'
  <2>1. isSpeakingActive[t] /\ step[c] = "untell" => t \in garbled
    BY DEF HeardInv, SilenceWanted, t
  <2> QED
    BY <1>2, <1>4, <1>5, <1>6, <2>1 DEF HeardInv, FlagAnnounced
<1>9. OneAnnounces' /\ SilenceWanted' /\ HeardWhenSent'
  BY <1>2, <1>4 DEF HeardInv, OneAnnounces, SilenceWanted, HeardWhenSent, Telling
<1>10. SilenceDoubted'
  <2>1. \A d \in Call \ {c} : step[d] = "untell" /\ local[d].mine = t => t \in garbled
    BY <1>2 DEF HeardInv, OneAnnounces, Telling, t
  <2> QED
    BY <1>2, <1>4, <2>1 DEF HeardInv, SilenceDoubted, Sending, t
<1> QED
  BY <1>7, <1>8, <1>9, <1>10 DEF HeardInv

LEMMA SendPacketHeard ==
  ASSUME SealInv, HeardInv, NEW c \in Sender, SendPacket(c) PROVE HeardInv'
<1>1. /\ UNCHANGED speakVars /\ step[c] = "send" /\ step'[c] = "done" /\ c \in Call
      /\ \A d \in Call \ {c} : step'[d] = step[d] /\ local'[d] = local[d]
  BY DEF SendPacket, Return, Go, Call, SealInv, TransporterTypeOK
<1>2. wire' = wire \cup {[by |-> c, heard |-> told[local[c].mine], held |-> local[c]]}
  BY DEF SendPacket, Mine
<1>3. HeardWhenSent'
  BY <1>1, <1>2 DEF speakVars, HeardInv, HeardWhenSent, FramesAnnounced, Sending
<1>4. \A s \in Session : Announcing(s) => Announcing(s)'
  BY <1>1 DEF Announcing, Mine
<1>5. FramesAnnounced' /\ FlagAnnounced'
  BY <1>1, <1>4 DEF speakVars, HeardInv, FramesAnnounced, FlagAnnounced, Sending
<1>6. OneAnnounces' /\ SilenceWanted' /\ SilenceDoubted'
  BY <1>1 DEF speakVars, HeardInv, OneAnnounces, SilenceWanted, SilenceDoubted, Sending, Telling
<1> QED
  BY <1>3, <1>5, <1>6 DEF HeardInv

LEMMA HeardStep ==
  ASSUME SealInv, HeardInv, [TransporterNext]_sendVars PROVE HeardInv'
<1>1. ASSUME NEW c \in Call, SpeakStep(c) PROVE HeardInv'
  BY <1>1, OthersCalm, CalmKeepsHeard, AlreadySpeakingHeard, FlagHeard, TellHeard DEF SpeakStep
<1>2. ASSUME NEW c \in Sender, SendStep(c) PROVE HeardInv'
  BY <1>2, OthersCalm, CalmKeepsHeard, SendPacketHeard DEF SendStep
<1> QED
  BY <1>1, <1>2, OthersCalm, CalmKeepsHeard DEF TransporterNext

(* When a packet leaves, Discord has been told of its SSRC, whoever starts *)
(* and stops speaking at the same time, unless an announcement got lost or *)
(* overtaken, or one was under way when the frame looked at the flag.      *)
THEOREM ToldBeforeSent == TransporterSpec => []HeardWhenSent
<1>1. TransporterInit => HeardInv
  BY DEF TransporterInit, HeardInv, FramesAnnounced, FlagAnnounced, OneAnnounces, SilenceWanted,
         SilenceDoubted, HeardWhenSent, Sending, Telling
<1>2. SealInv /\ HeardInv /\ [TransporterNext]_sendVars => HeardInv'
  BY HeardStep
<1>3. HeardInv => HeardWhenSent
  BY DEF HeardInv
<1> QED
  BY <1>1, <1>2, <1>3, SealInvHolds, PTL DEF TransporterSpec
=============================================================================
