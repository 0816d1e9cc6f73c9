---------------------------- MODULE FrameProcessor ----------------------------
(***************************************************************************)
(* libdave's frame format (frame_processors.cpp, codec_utils.cpp, the      *)
(* trailer of encryptor.cpp): which bytes of a frame of each codec stay    *)
(* clear for the packetizers, how the receiver is told of their ranges,    *)
(* and how it puts the frame together again.  A byte is a value that is    *)
(* never looked into.                                                      *)
(***************************************************************************)
EXTENDS Integers, SequencesExt

CONSTANTS
  Leb128Step, \* values a Leb128 byte holds: 128
  ByteValues, \* values of an uint8_t: 256
  Supplemental, \* kSupplementalBytes: 11
  Byte         \* what a frame consists of

ASSUME FormatAssumption == {Leb128Step, ByteValues, Supplemental} \subseteq Nat \ {0}

(* Leb128Size of values below Leb128Step^3, which frames do not reach.     *)
Leb128Size(n) ==
  IF n < Leb128Step THEN 1 ELSE IF n < Leb128Step * Leb128Step THEN 2 ELSE 3

-----------------------------------------------------------------------------
(* What the codecs hand to the processor: a sequence of pieces, clear or   *)
(* not.  A unit is a NAL unit or an OBU of the frame:                      *)
(*   coded   a slice (H264), a VCL unit (H265); kept by the packetizer     *)
(*           (AV1)                                                         *)
(*   header  the bytes the depacketizer reads: NAL header, and up to the   *)
(*           PPS id for H264; OBU header and extension                     *)
(*   sized   (AV1) the OBU has a size field                                *)
(*   payload the rest                                                      *)
(* A VP8 frame is one unit.                                                *)
Unit == [coded : BOOLEAN, sized : BOOLEAN, header : Seq(Byte), payload : Seq(Byte)]
Codecs == {"H264", "H265", "AV1", "VP8", "VP9", "Opus"}
Clear(s) == [clear |-> TRUE, bytes |-> s]
Secret(s) == [clear |-> FALSE, bytes |-> s]
Pieces(units, P(_)) == FlattenSeq([i \in DOMAIN units |-> P(i)])
StartCode == <<"0", "0", "0", "1">>

(* H264 and H265: every start code becomes a long one.                     *)
ProcessFrameH26X(units) ==
  Pieces(units, LAMBDA i :
    IF units[i].coded
    THEN <<Clear(StartCode), Clear(units[i].header), Secret(units[i].payload)>>
    ELSE <<Clear(StartCode), Clear(units[i].header \o units[i].payload)>>)

(* AV1: units the packetizer drops are left out, the last one loses its    *)
(* size, so that the trailer can follow it.                                *)
ProcessFrameAv1(units) ==
  Pieces(units, LAMBDA i :
    IF ~units[i].coded THEN <<>>
    ELSE <<Clear(units[i].header)>>
         \o (IF units[i].sized /\ i < Len(units)
             THEN <<Clear([k \in 1 .. Leb128Size(Len(units[i].payload)) |-> "size"])>>
             ELSE <<>>)
         \o <<Secret(units[i].payload)>>)

(* VP8: the payload header of a key frame or of a delta frame.             *)
ProcessFrameVp8(units) == <<Clear(units[1].header), Secret(units[1].payload)>>

(* Opus, VP9: all of it, and so any frame whose codec's parser gives up.   *)
ProcessFrameWhole(units) ==
  <<Secret(FlattenSeq([i \in DOMAIN units |-> units[i].header \o units[i].payload]))>>

ProcessFrame(codec, units) ==
  CASE codec \in {"H264", "H265"} -> ProcessFrameH26X(units)
    [] codec = "AV1" -> ProcessFrameAv1(units)
    [] codec = "VP8" -> ProcessFrameVp8(units)
    [] OTHER -> ProcessFrameWhole(units)

-----------------------------------------------------------------------------
(* AddUnencryptedBytes, AddEncryptedBytes.                                 *)
BytesOf(pieces, clear) ==
  FlattenSeq([i \in DOMAIN pieces |->
                IF pieces[i].clear = clear THEN pieces[i].bytes ELSE <<>>])

AddRange(ranges, piece, at) ==
  LET k == Len(ranges) IN
    IF ranges # <<>> /\ ranges[k].offset + ranges[k].size = at
    THEN [ranges EXCEPT ![k].size = @ + Len(piece.bytes)]
    ELSE Append(ranges, [offset |-> at, size |-> Len(piece.bytes)])

(* at is frameIndex_.                                                      *)
RangesAfter(r, piece) ==
  [at |-> r.at + Len(piece.bytes),
   ranges |-> IF piece.clear THEN AddRange(r.ranges, piece, r.at) ELSE r.ranges]

UnencryptedRanges(pieces) ==
  FoldLeft(RangesAfter, [at |-> 0, ranges |-> <<>>], pieces).ranges

(* UnencryptedRangesSize is cast to a byte, and SerializeUnencryptedRanges *)
(* writes the ranges that fit in as many.                                  *)
RangeBytes(range) == Leb128Size(range.offset) + Leb128Size(range.size)

RangesSize(ranges) == FoldLeft(LAMBDA n, range : n + RangeBytes(range), 0, ranges)

UnencryptedRangesSize(ranges) == RangesSize(ranges) % ByteValues

SerializeUnencryptedRanges(ranges) ==
  LET fits == {k \in 0 .. Len(ranges) :
                 RangesSize(SubSeq(ranges, 1, k)) <= UnencryptedRangesSize(ranges)}
  IN SubSeq(ranges, 1, CHOOSE k \in fits : \A j \in fits : j <= k)

(* Encrypt gives up when not all of those bytes are used, or when the      *)
(* trailer (tag, size and marker are Supplemental bytes) is too long.      *)
Fits(ranges, nonce) ==
  /\ RangesSize(SerializeUnencryptedRanges(ranges)) = UnencryptedRangesSize(ranges)
  /\ Supplemental + Leb128Size(nonce) + UnencryptedRangesSize(ranges) < ByteValues

-----------------------------------------------------------------------------
Covered(ranges) ==
  UNION {r.offset + 1 .. r.offset + r.size : r \in {ranges[i] : i \in DOMAIN ranges}}

(* Reconstruct: the bytes of the ranges go where the ranges are, the       *)
(* others fill the rest.                                                   *)
ReconstructFirst(ranges, rangeBytes, otherBytes) ==  \* mutant: offsets are not looked at
  rangeBytes \o otherBytes

Reconstruct(ranges, rangeBytes, otherBytes) ==
  LET covered == Covered(ranges) IN
    [p \in 1 .. Len(rangeBytes) + Len(otherBytes) |->
       LET k == Cardinality({q \in covered : q <= p}) IN
         IF p \in covered THEN rangeBytes[k] ELSE otherBytes[p - k]]

(* The frame on the wire.  What AES-GCM guarantees is kept, its bytes are  *)
(* not: the tag fits one clear part and one ciphertext (and, see           *)
(* MediaChannel, one key and nonce).                                       *)
Marked(bytes, cipher) == [i \in DOMAIN bytes |-> [cipher |-> cipher, byte |-> bytes[i]]]
Unmarked(bytes) == [i \in DOMAIN bytes |-> bytes[i].byte]

Sealed(pieces) ==
  LET ranges == UnencryptedRanges(pieces)
      clear == Marked(BytesOf(pieces, TRUE), FALSE)
      cipher == Marked(BytesOf(pieces, FALSE), TRUE)
  IN [body |-> Reconstruct(ranges, clear, cipher),
      ranges |-> SerializeUnencryptedRanges(ranges),
      tag |-> [clear |-> clear, cipher |-> cipher]]

(* ParseFrame: ranges in order and within the frame, and the two parts.    *)
ValidRanges(ranges, size) ==
  \A i \in DOMAIN ranges :
    ranges[i].offset + ranges[i].size
      <= (IF i < Len(ranges) THEN ranges[i + 1].offset ELSE size)

PartOf(frame, covered) ==
  LET places == {p \in DOMAIN frame.body : (p \in Covered(frame.ranges)) = covered}
      Nth(i) == CHOOSE p \in places : Cardinality({q \in places : q <= p}) = i
  IN [i \in 1 .. Cardinality(places) |-> frame.body[Nth(i)]]

Opens(frame) ==
  /\ ValidRanges(frame.ranges, Len(frame.body))
  /\ frame.tag = [clear |-> PartOf(frame, TRUE), cipher |-> PartOf(frame, FALSE)]

Opened(frame) ==
  Unmarked(Reconstruct(frame.ranges, PartOf(frame, TRUE), PartOf(frame, FALSE)))
=============================================================================
