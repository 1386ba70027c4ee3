------------------------------ MODULE AvcConfig ------------------------------
(***************************************************************************)
(* How the MP4 writer finds the parameter sets in the codec data of an     *)
(* H264 track (ff_avc_find_startcode, ff_avc_parse_nal_units and their two *)
(* users in mp4_muxer/Mp4Muxer.c), and what they are by definition.        *)
(* Offsets count from 0, as in the source; codec data is malloc'ed, so an  *)
(* offset is aligned when it is a multiple of 4.                           *)
(***************************************************************************)
EXTENDS Integers, Sequences, SequencesExt

\* A start code of three bytes at offset q.
Code(data, q) == SubSeq(data, q + 1, q + 3) = <<0, 0, 1>>
Codes(data, from, to) == {q \in from..to : Code(data, q)}

\* Mutant of FindStartCode: the words in the middle are searched for start
\* codes of three bytes like the ends.
FindThreeByteCode(data, p) ==
    LET codes == Codes(data, p, Len(data) - 4)
    IN IF codes = {} THEN Len(data) ELSE CHOOSE x \in codes : \A y \in codes : x <= y

\* ff_avc_find_startcode: byte by byte up to an aligned address, then word by
\* word, where the byte before the start code is taken for a part of it, then
\* byte by byte again.
FindStartCode(data, p) ==
    LET end == Len(data)
        codes == Codes(data, p, end - 4)
        q == CHOOSE x \in codes : \A y \in codes : x <= y
        aligned == p + 4 - (p % 4)
        words == IF aligned < end - 3 THEN aligned ELSE end - 3
        word == q - ((q - words) % 4)
    IN IF codes = {} THEN end
       ELSE IF q >= words /\ word < end - 6 THEN q - 1 ELSE q

\* ff_avc_parse_nal_units: a NAL unit goes from behind a start code, zeros
\* before it included, to the next one.  It looks for the code's last byte
\* without a bound, so it works from offsets that have one behind them.
Behind(data, p) ==
    1 + CHOOSE j \in p..(Len(data) - 1) :
            data[j + 1] # 0 /\ \A k \in p..(j - 1) : data[k + 1] = 0
Offsets(data) ==
    {Len(data)} \cup {p \in 0..(Len(data) - 1) : \E j \in p..(Len(data) - 1) : data[j + 1] # 0}
NalUnits(data) ==
    LET stop(p) == FindStartCode(data, Behind(data, p))
        from[p \in Offsets(data)] ==
            IF p = Len(data) THEN <<>>
            ELSE <<SubSeq(data, Behind(data, p) + 1, stop(p))>> \o from[stop(p)]
    IN from[FindStartCode(data, 0)]

\* The last unit of a type, or nothing.
LastOfType(units, type) ==
    LET found == {k \in DOMAIN units : units[k][1] % 32 = type}
    IN IF found = {} THEN <<>> ELSE units[CHOOSE k \in found : \A l \in found : l <= k]
SPS == 7
PPS == 8

HasStartCode(data) == SubSeq(data, 1, 4) = <<0, 0, 0, 1>>

-----------------------------------------------------------------------------
\* The units of a byte stream by its definition, each at its start code: what
\* lies between start codes, without the zeros at its end, which may belong to
\* a longer code.
WithoutZeros(u) ==
    LET kept == {k \in DOMAIN u : u[k] # 0}
    IN IF kept = {} THEN <<>>
       ELSE SubSeq(u, 1, CHOOSE k \in kept : \A l \in kept : l <= k)
AnnexB(data) ==
    LET codes == Codes(data, 0, Len(data) - 3)
        later(q) == {x \in codes : q < x}
        stop(q) == IF later(q) = {} THEN Len(data) ELSE Min(later(q))
    IN [q \in codes |-> WithoutZeros(SubSeq(data, q + 4, stop(q)))]

\* No zeros are stuffed in behind a unit: before a start code there is one,
\* which makes it a code of four bytes, and after the last unit there is none.
Unstuffed(data) ==
    /\ data[Len(data)] # 0
    /\ \A q \in Codes(data, 2, Len(data) - 3) : data[q] = 0 /\ data[q - 1] # 0
=============================================================================
