----------------------------- MODULE MCMp4Muxer -----------------------------
(***************************************************************************)
(* A small instance of Mp4Muxer: frames of a start code and one or two     *)
(* bytes, split behind the first, the fourth or the last byte; tables of   *)
(* two chunks and three samples; a reserved space that holds the moov box  *)
(* of short recordings only.                                               *)
(***************************************************************************)
EXTENDS Mp4Muxer

Video(size0, size1, idr, dur) ==
    [stream_idx |-> 0, size0 |-> size0, size1 |-> size1, idr |-> idr, duration |-> dur]
Audio(size0, size1) ==
    [stream_idx |-> 1, size0 |-> size0, size1 |-> size1, idr |-> FALSE, duration |-> 0]

MCPackets == {Video(1, 4, TRUE, 1), Video(4, 2, FALSE, 2), Video(5, 1, TRUE, 2),
              Video(0, 0, FALSE, 1), Audio(1, 1)}

StartCode == <<0, 0, 0, 1>>
Unit(type, len) == <<type>> \o [j \in 1..(len - 2) |-> 9 + j] \o <<128>>
\* Parameter sets as an encoder sends them, the second behind an aligned and an
\* unaligned address; a configuration that has no start code in front.
MCVideoCsds ==
    {StartCode \o Unit(103, 7) \o StartCode \o Unit(104, 4),
     StartCode \o Unit(103, 8) \o StartCode \o Unit(104, 5),
     <<1, 103, 0, 0, 1, 104, 7, 0>>}
\* With it, a descriptor's length needs a second byte.
MCAudioCsds == {[j \in 1..113 |-> j]}
=============================================================================
