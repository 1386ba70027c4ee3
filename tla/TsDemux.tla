------------------------------- MODULE TsDemux -------------------------------
(***************************************************************************)
(* What the repository's own reader of transport streams, the tool         *)
(* test/check_ts_muxer.c, makes of a file: it reads one TS packet after    *)
(* the other, tells from the header where the payload begins, and appends  *)
(* the payload to the elementary stream of the packet's PID.               *)
(*                                                                         *)
(* A file is a sequence of segments, one for each write that made it.  A   *)
(* segment has its offset `at`, its length `len`, and says of what object  *)
(* (`of`) it holds the bytes from `from` on: a header, an access unit      *)
(* delimiter, codec data, a frame.                                         *)
(***************************************************************************)
EXTENDS Integers, Sequences, SequencesExt

TS_PACKAGE_SZ == 188

\* Objects that begin a TS packet.
HeaderKinds == {"table", "start", "middle", "last"}
IsHeader(seg) == seg.of.is \in HeaderKinds /\ seg.from = 0

\* The n-th TS packet begins at this offset.
Boundary(n) == TS_PACKAGE_SZ * (n - 1)

\* The bytes that are copied of a packet with header h.  Of a packet of the video
\* PID, the first of a frame is read behind its delimiter, later ones behind
\* header and adaptation field.
VideoPayload(h) ==
    LET skip == CASE h.of.is = "start" -> 32
                  [] h.of.is = "middle" -> 4
                  [] h.of.is = "last" -> 4 + (h.of.af + 1)
    IN [begin |-> h.at + skip, end |-> h.at + TS_PACKAGE_SZ]

\* Of the audio PID: a frame that fills the first packet, or a short one with
\* stuffing before it, whose length is the length of the PES packet.
AudioPayload(h) ==
    LET short == h.of.is = "start" /\ h.of.pes_len < 170
        skip == CASE h.of.is = "start" -> 26 + (IF short THEN h.of.af - 7 ELSE 0)
                  [] h.of.is = "middle" -> 4
                  [] h.of.is = "last" -> 4 + (h.of.af + 1)
    IN [begin |-> h.at + skip,
        end |-> IF short THEN h.at + skip + (h.of.pes_len - 8) ELSE h.at + TS_PACKAGE_SZ]

\* Of a packet of another PID, and of one without a header.
NoPayload == [begin |-> 0, end |-> 0]

\* The bytes of segment s in the payload.
Clip(s, payload) ==
    LET lo == IF s.at < payload.begin THEN payload.begin ELSE s.at
        hi == IF s.at + s.len > payload.end THEN payload.end ELSE s.at + s.len
    IN [of |-> s.of, from |-> s.from + (lo - s.at), len |-> hi - lo]

\* Pieces that follow each other in one object are one piece.
Join(pieces, s) ==
    IF pieces # <<>> /\ Last(pieces).of = s.of
                     /\ Last(pieces).from + Last(pieces).len = s.from
    THEN [pieces EXCEPT ![Len(pieces)].len = @ + s.len]
    ELSE Append(pieces, s)

\* The reader goes over segment s: a header tells it the payload of the packet
\* that begins there, and what of the segment lies in the payload it copies.
\* What is read at a boundary and is no header is passed over.
Read(r, s, pid, isVideo) ==
    LET payload == IF ~(IsHeader(s) /\ s.at % TS_PACKAGE_SZ = 0) THEN r.payload
                   ELSE IF s.of.pid # pid THEN NoPayload
                   ELSE IF isVideo THEN VideoPayload(s) ELSE AudioPayload(s)
    IN [payload |-> payload,
        pieces |-> IF s.at < payload.end /\ s.at + s.len > payload.begin
                   THEN Join(r.pieces, Clip(s, payload)) ELSE r.pieces]

\* It begins with nothing, and has got so far behind n segments.
Unread == [payload |-> NoPayload, pieces |-> <<>>]
Reading(segs, pid, isVideo, n) ==
    LET read[k \in 0..n] ==
            IF k = 0 THEN Unread ELSE Read(read[k - 1], segs[k], pid, isVideo)
    IN read[n]

\* The elementary stream written for pid.
Elementary(segs, pid, isVideo) == Reading(segs, pid, isVideo, Len(segs)).pieces
=============================================================================
