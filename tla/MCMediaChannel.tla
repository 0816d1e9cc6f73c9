---------------------------- MODULE MCMediaChannel ----------------------------
(* MediaChannel on a scale of 3 generations of 2 nonces: one frame of     *)
(* each shape, a byte being its place.                                    *)
EXTENDS MediaChannel

MCForever == MaxTime + TransitionExpiry + CryptorExpiry + 1

Slice(n) == [coded |-> TRUE, sized |-> TRUE, header |-> <<"h", n>>, payload |-> <<"p", "q">>]
Parameters(n) == [coded |-> FALSE, sized |-> TRUE, header |-> <<"s">>, payload |-> <<n>>]

Frame(c, units) == [codec |-> c, silence |-> FALSE, units |-> units]

MCByte == {"h", "p", "q", "s", "1", "2", "3"}

MCFrames ==
  <<Frame("VP8", <<Slice("1")>>),
    Frame("H264", <<Parameters("1"), Slice("2"), Slice("3")>>),
    Frame("AV1", <<Parameters("1"), Slice("2"), Slice("3")>>),
    Frame("H265", <<Slice("1"), Parameters("2")>>),
    [Frame("Opus", <<Parameters("1")>>) EXCEPT !.silence = TRUE]>>
=============================================================================
