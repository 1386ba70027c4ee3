---------------------------- MODULE Mpeg2tsMuxer ----------------------------
(***************************************************************************)
(* The MPEG-TS writer (mpeg2ts_muxer/Mpeg2tsMuxer.c) behind its driver     *)
(* (mpeg2ts_muxer/Mpeg2tsMuxerDrv.c): every video frame is preceded by the *)
(* tables PAT and PMT, and a frame becomes one PES packet, cut into TS     *)
(* packets of 188 bytes, the last one stuffed.                             *)
(*                                                                         *)
(* A frame is handed over in two pieces of memory.  The writer keeps an    *)
(* address (stream_ptr) and the number of bytes left, and finds out from   *)
(* the address which piece it is in.  Addresses are relative to data0, so  *)
(* that data0 is 0.  WriteAccessUnit is the function up to its loop,       *)
(* WriteFragment a round of the loop; nothing else happens in between.     *)
(* The file is as TsDemux describes it, one segment for each cache_write   *)
(* to the ByteFile that CacheWriter implements.                            *)
(***************************************************************************)
EXTENDS TsDemux, Sums

CONSTANTS
    Packets,      \* AVPackets: stream_idx, flags, size0, size1, data1, pts
    CsdLens,      \* the csdLen MuxerWriteCSD is called with
    Wrap,         \* the continuity counters' modulus, 0x10
    MaxPes,       \* PES_packet_length from here on is written as 0, 65535
    MaxUnits      \* bound: frames of a recording

NAL_AUD_SZ == 6
ADTS_SZ == 7

ASSUME TsAssumption ==
    /\ \A p \in Packets :
          /\ p.stream_idx \in {0, 1} /\ p.flags \in BOOLEAN
          /\ p.size0 \in Nat \ {0} /\ p.size1 \in Nat /\ p.data1 \in Int /\ p.pts \in Nat
          \* within the 32 bits of the writer's PTS: after 13 hours it starts anew,
          \* a bit earlier than the 33 bits of the format
          /\ p.pts < 47721859
          \* the pieces do not overlap
          /\ p.size1 # 0 => p.data1 >= p.size0 \/ p.data1 + p.size1 <= 0
    /\ CsdLens \subseteq Nat
    /\ Wrap \in Nat \ {0} /\ MaxPes \in Nat /\ MaxUnits \in Nat

VARIABLES
    life,     \* "none", "opened", "writing", "finished", "closed"; "crashed"
              \* after a NULL pointer was followed, "overrun" after a write of
              \* a negative size, "aborted" after assert(0)
    drv,      \* what the driver was told before the header
    mTrackCnt, mTrackPid,
    mPATContinuityCounter, mPMTContinuityCounter, mTSContinuityCounter,
    out,      \* the segments written, and their length
    unit,     \* the frame in the loop: its number, packet, PID, bytes left, address
    taken     \* history: the frames written, by number

counters == <<mPATContinuityCounter, mPMTContinuityCounter, mTSContinuityCounter>>
vars == <<life, drv, mTrackCnt, mTrackPid, counters, out, unit, taken>>

Tracks == {0, 1}      \* VIDEO_STREAM_IDX, AUDIO_STREAM_IDX
NoUnit == [n |-> 0]

Init ==
    /\ life = "none"
    /\ drv = [stream |-> FALSE, simple |-> FALSE, sized |-> FALSE, audio |-> FALSE,
              csdLen |-> [i \in Tracks |-> 0]]
    /\ mTrackCnt = 0 /\ mTrackPid = [i \in Tracks |-> 0]
    /\ mPATContinuityCounter = 0 /\ mPMTContinuityCounter = 0
    /\ mTSContinuityCounter = [i \in Tracks |-> 0]
    /\ out = [segs |-> <<>>, size |-> 0]
    /\ unit = NoUnit /\ taken = <<>>

muxVars == <<mTrackCnt, mTrackPid, counters, out, unit, taken>>

\* Mpeg2tsMuxerOpen of a fresh handle.
Open ==
    /\ life = "none" /\ life' = "opened"
    /\ UNCHANGED <<drv, muxVars>>

Setup == life = "opened" /\ UNCHANGED <<life, muxVars>>

\* SET_STREAM_FD and SET_STREAM_FILEPATH; stream_handle_create may fail.
SetStream ==
    /\ Setup /\ ~drv.stream
    /\ \E ok \in BOOLEAN : drv' = [drv EXCEPT !.stream = ok]

\* The mode not supported is the default.
SetCacheMode == Setup /\ \E b \in BOOLEAN : drv' = [drv EXCEPT !.simple = b]

\* SET_CACHE_SIZE, to a positive size.
SetCacheSize == Setup /\ drv' = [drv EXCEPT !.sized = TRUE]

\* Only H264 gets as far as the audio parameters; for another codec the call
\* returns -1 with the audio parameters as they were.
SetTrackInfo(h264, audio) ==
    /\ Setup
    /\ drv' = [drv EXCEPT !.audio = IF h264 THEN audio ELSE @]

WriteCSD(i, len) ==
    /\ Setup
    /\ drv' = [drv EXCEPT !.csdLen[i] = len]

\* Mutant of WriteHeader: the audio track gets a PID and is not counted.
WriteHeaderUncounted ==
    /\ life = "opened"
    /\ drv.stream => drv.simple /\ drv.sized
    /\ life' = IF drv.stream THEN "writing" ELSE "opened"
    /\ mTrackCnt' = 1
    /\ mTrackPid' = [i \in Tracks |-> IF i = 0 THEN 481 ELSE IF drv.audio THEN 482 ELSE 0]
    /\ UNCHANGED <<drv, counters, out, unit, taken>>

\* Mpeg2tsMuxerWriteHeader returns -1 when it has made a cache before, in the
\* mode that is not supported, or when no cache can be created; without a
\* stream it goes on, and there is no cache afterwards.
WriteHeader ==
    /\ life = "opened"
    /\ drv.stream => drv.simple /\ drv.sized
    /\ life' = IF drv.stream THEN "writing" ELSE "opened"
    /\ mTrackCnt' = IF drv.audio THEN 2 ELSE 1
    /\ mTrackPid' = [i \in Tracks |-> IF i = 0 THEN 481 ELSE IF drv.audio THEN 482 ELSE 0]
    /\ UNCHANGED <<drv, counters, out, unit, taken>>

-----------------------------------------------------------------------------
\* cache_write, which refuses to write nothing.
CacheWrite(f, of, from, len) ==
    IF len = 0 THEN f
    ELSE [segs |-> Append(f.segs, [at |-> f.size, of |-> of, from |-> from, len |-> len]),
          size |-> f.size + len]

\* Mutant of Advance: the counter is not reset at its modulus but behind it.
AdvanceLate(c) == IF c + 1 > Wrap THEN 0 ELSE c + 1

\* A counter after its increment and test.
Advance(c) == IF c + 1 >= Wrap THEN 0 ELSE c + 1

\* Mutant of AdvanceInLoop: the test is the one made after an increment.
AdvanceInLoopLate(c) == IF c >= Wrap THEN 0 ELSE c + 1

\* The increment in the loop, tested before it is made.
AdvanceInLoop(c) == IF c >= Wrap - 1 THEN 0 ELSE c + 1

PmtPid == 480

\* write_program_association_table and write_program_map_table: PAT and PMT,
\* a packet each.
WithTables(f) ==
    LET pat == [is |-> "table", pid |-> 0, cc |-> mPATContinuityCounter,
                lists |-> {PmtPid}]
        pmt == [is |-> "table", pid |-> PmtPid, cc |-> mPMTContinuityCounter,
                lists |-> {mTrackPid[i] : i \in 0..(mTrackCnt - 1)}]
    IN CacheWrite(CacheWrite(f, pat, 0, TS_PACKAGE_SZ), pmt, 0, TS_PACKAGE_SZ)

\* stream_size: the bytes of the elementary stream, with what the writer adds.
StreamSize(p) ==
    p.size0 + p.size1
    + IF p.stream_idx = 1 THEN ADTS_SZ
      ELSE NAL_AUD_SZ + IF p.flags THEN drv.csdLen[0] ELSE 0

\* Mutant of PesLength: the rest of the PES header is not counted.
PesLengthOfStream(p) == IF StreamSize(p) + 8 >= MaxPes THEN 0 ELSE StreamSize(p)

PesLength(p) == IF StreamSize(p) + 8 >= MaxPes THEN 0 ELSE StreamSize(p) + 8

\* padding_size, for a frame that does not fill its first packet.
PaddingSize(p) ==
    IF StreamSize(p) < TS_PACKAGE_SZ - 18 - 8 THEN TS_PACKAGE_SZ - 18 - 8 ELSE 0

\* Mutant of PtsBytes: the second byte is cut a bit too high.
PtsBytesShifted(pts) ==
    LET v == pts * 90
    IN <<33 + 2 * ((v \div 2^30) % 8), (v \div 2^23) % 256,
         1 + 2 * ((v \div 2^15) % 128), (v \div 2^7) % 256, 1 + 2 * (v % 128)>>

\* The time stamp, in units of 1/90 ms, in the five bytes of a PES header.
PtsBytes(pts) ==
    LET v == pts * 90
    IN <<33 + 2 * ((v \div 2^30) % 8), (v \div 2^22) % 256,
         1 + 2 * ((v \div 2^15) % 128), (v \div 2^7) % 256, 1 + 2 * (v % 128)>>

\* TS header, adaptation field with the clock, stuffing, PES header.
StartHeader(p) ==
    [is |-> "start", pid |-> mTrackPid[p.stream_idx],
     cc |-> mTSContinuityCounter[p.stream_idx], af |-> PaddingSize(p) + 7,
     pes_len |-> PesLength(p), pts |-> PtsBytes(p.pts)]
StartSize(p) == 4 + 8 + PaddingSize(p) + 14

\* What precedes the frame in its elementary stream: an access unit delimiter
\* and, before a key frame, the codec data; or an ADTS header.
WithPrefix(f, p) ==
    IF p.stream_idx = 1
    THEN CacheWrite(f, [is |-> "adts", frame_length |-> StreamSize(p)], 0, ADTS_SZ)
    ELSE LET aud == CacheWrite(f, [is |-> "aud"], 0, NAL_AUD_SZ)
         IN IF p.flags THEN CacheWrite(aud, [is |-> "csd"], 0, drv.csdLen[0]) ELSE aud

\* Mutant of PrefixSize: what is written of codec data is not counted.
PrefixSizeBare(p) == IF p.stream_idx = 1 THEN ADTS_SZ ELSE NAL_AUD_SZ

\* What ts_pkt_left_size is reduced by for it.
PrefixSize(p) ==
    IF p.stream_idx = 1 THEN ADTS_SZ
    ELSE NAL_AUD_SZ + IF p.flags THEN drv.csdLen[0] ELSE 0

-----------------------------------------------------------------------------
\* The bytes of frame n at address a: which bytes of the frame they are, or
\* that they lie beside it.
FrameByte(p, a) ==
    IF 0 <= a /\ a < p.size0 THEN a
    ELSE IF p.data1 <= a /\ a < p.data1 + p.size1 THEN p.size0 + a - p.data1
    ELSE -1
WithFrame(f, u, a, len) ==
    CacheWrite(f, [is |-> "frame", n |-> u.n], FrameByte(u.p, a), len)

\* write_av_ts_packet: ts bytes of the frame, from one piece or from both.
\* unit' is NoUnit when none are left, which ends the loop.
Proceed(f, u, ts, address) ==
    /\ out' = f
    /\ unit' = IF u.left = ts THEN NoUnit ELSE [u EXCEPT !.left = @ - ts, !.ptr = address]
    /\ UNCHANGED life

Stop(f, how) == out' = f /\ unit' = NoUnit /\ life' = how

\* Mutant of WriteAvTsPacket: the second piece is read from its start.
WriteAvTsPacketAgain(f, u, ts) ==
    LET p == u.p
        inFirst == 0 <= u.ptr /\ u.ptr < p.size0
        blockLeft == IF inFirst THEN p.size0 - u.ptr ELSE p.data1 + p.size1 - u.ptr
        rest == ts - blockLeft
    IN CASE ts < 0 -> Stop(f, "overrun")
         [] ts > u.left -> Stop(f, "aborted")
         [] ts >= 0 /\ ts <= u.left /\ ts <= blockLeft ->
               Proceed(WithFrame(f, u, u.ptr, ts), u, ts, u.ptr + ts)
         [] ts <= u.left /\ ts > blockLeft /\ inFirst ->
               Proceed(WithFrame(WithFrame(f, u, u.ptr, blockLeft), u, p.data1, rest),
                       u, ts, p.data1)
         [] ts <= u.left /\ ts > blockLeft /\ ~inFirst -> Stop(f, "aborted")

WriteAvTsPacket(f, u, ts) ==
    LET p == u.p
        inFirst == 0 <= u.ptr /\ u.ptr < p.size0
        blockLeft == IF inFirst THEN p.size0 - u.ptr ELSE p.data1 + p.size1 - u.ptr
        rest == ts - blockLeft
    IN CASE ts < 0 -> Stop(f, "overrun")
         [] ts > u.left -> Stop(f, "aborted")
         [] ts >= 0 /\ ts <= u.left /\ ts <= blockLeft ->
               Proceed(WithFrame(f, u, u.ptr, ts), u, ts, u.ptr + ts)
         [] ts <= u.left /\ ts > blockLeft /\ inFirst ->
               Proceed(WithFrame(WithFrame(f, u, u.ptr, blockLeft), u, p.data1, rest),
                       u, ts, p.data1 + rest)
         [] ts <= u.left /\ ts > blockLeft /\ ~inFirst -> Stop(f, "aborted")

\* mpeg2ts_write_packet up to the loop.
WriteAccessUnit(p) ==
    LET i == p.stream_idx
        n == Len(taken) + 1
        f == IF i = 0 THEN WithTables(out) ELSE out
        started == WithPrefix(CacheWrite(f, StartHeader(p), 0, StartSize(p)), p)
        ts == TS_PACKAGE_SZ - StartSize(p) - PrefixSize(p)
    IN /\ life = "writing" /\ unit = NoUnit /\ Len(taken) < MaxUnits
       /\ i = 1 => drv.csdLen[1] > 0
       /\ mTSContinuityCounter' = [mTSContinuityCounter EXCEPT ![i] = Advance(@)]
       /\ IF i = 0
          THEN /\ mPATContinuityCounter' = Advance(mPATContinuityCounter)
               /\ mPMTContinuityCounter' = Advance(mPMTContinuityCounter)
          ELSE UNCHANGED <<mPATContinuityCounter, mPMTContinuityCounter>>
       /\ taken' = Append(taken, p)
       /\ WriteAvTsPacket(started,
             [n |-> n, p |-> p, pid |-> mTrackPid[i], left |-> p.size0 + p.size1, ptr |-> 0], ts)
       /\ UNCHANGED <<drv, mTrackCnt, mTrackPid>>

\* paddingSize of a last packet: its adaptation field with the length byte.
StuffingSize(left) == (TS_PACKAGE_SZ - 4) - left

\* Mutant of IsLast: header and payload of a packet are not told apart.
IsLastNever(left) == left < 4

\* lastAccessUnit: what is left does not fill a packet.
IsLast(left) == left < TS_PACKAGE_SZ - 4

\* A round of the loop.
WriteFragment ==
    /\ unit # NoUnit
    /\ LET i == unit.p.stream_idx
           cc == mTSContinuityCounter[i]
           last == IsLast(unit.left)
           stuffing == IF last THEN StuffingSize(unit.left) ELSE 0
           head == IF last
                   THEN [is |-> "last", pid |-> unit.pid, cc |-> cc, af |-> stuffing - 1]
                   ELSE [is |-> "middle", pid |-> unit.pid, cc |-> cc]
       IN /\ mTSContinuityCounter' = [mTSContinuityCounter EXCEPT ![i] = AdvanceInLoop(@)]
          /\ WriteAvTsPacket(CacheWrite(out, head, 0, 4 + stuffing), unit,
                             TS_PACKAGE_SZ - 4 - stuffing)
    /\ UNCHANGED <<drv, mTrackCnt, mTrackPid, mPATContinuityCounter,
                   mPMTContinuityCounter, taken>>

\* A packet where there is no cache, or an audio packet without codec data,
\* from whose bytes the ADTS header is made: a NULL pointer is followed.  In
\* the second case a TS header is in the cache by then, and stays there.
WriteCrashes(p) ==
    /\ unit = NoUnit
    /\ \/ life = "opened"
       \/ life = "writing" /\ p.stream_idx = 1 /\ drv.csdLen[1] = 0
    /\ life' = "crashed"
    /\ UNCHANGED <<drv, muxVars>>

\* mpeg2ts_write_trailer flushes the cache and returns the file's size.
WriteTrailer ==
    /\ life = "writing" /\ unit = NoUnit
    /\ life' = "finished"
    /\ UNCHANGED <<drv, muxVars>>

\* Mpeg2tsMuxerClose frees everything but the file.
Close ==
    /\ life \in {"opened", "writing", "finished"} /\ unit = NoUnit
    /\ life' = "closed"
    /\ UNCHANGED <<drv, muxVars>>

Next ==
    \/ Open \/ SetStream \/ SetCacheMode \/ SetCacheSize
    \/ \E h264, audio \in BOOLEAN : SetTrackInfo(h264, audio)
    \/ \E i \in Tracks, len \in CsdLens : WriteCSD(i, len)
    \/ WriteHeader
    \/ \E p \in Packets : WriteAccessUnit(p) \/ WriteCrashes(p)
    \/ WriteFragment
    \/ WriteTrailer
    \/ Close

Spec == Init /\ [][Next]_vars
-----------------------------------------------------------------------------
\* The types.  Counters stay below their modulus, or their bits would run into
\* the flags beside them; a segment lies within what is written.
TypeOK ==
    /\ life \in {"none", "opened", "writing", "finished", "closed",
                 "crashed", "overrun", "aborted"}
    /\ drv.stream \in BOOLEAN /\ drv.simple \in BOOLEAN /\ drv.sized \in BOOLEAN
    /\ drv.audio \in BOOLEAN /\ drv.csdLen \in [Tracks -> CsdLens \cup {0}]
    /\ mTrackCnt \in 0..2 /\ mTrackPid \in [Tracks -> Nat]
    /\ mPATContinuityCounter \in 0..(Wrap - 1) /\ mPMTContinuityCounter \in 0..(Wrap - 1)
    /\ mTSContinuityCounter \in [Tracks -> 0..(Wrap - 1)]
    /\ out.size \in Nat
    /\ \A j \in DOMAIN out.segs : out.segs[j].at + out.segs[j].len <= out.size
    /\ \/ unit = NoUnit
       \/ unit.n = Len(taken) /\ unit.p \in Packets /\ unit.left \in Nat \ {0}
    /\ taken \in Seq(Packets)

\* No fragment is larger than what is left of the frame, none begins beside
\* the two pieces, and none has a negative size: "this case can NOT happen".
FragmentsFit == life \notin {"overrun", "aborted"}

\* The file up to here is a recording: nothing stopped the writer, and audio
\* was announced if there is any (its PID is 0, the PAT's, if not).
Sound == /\ FragmentsFit
         /\ drv.audio \/ \A n \in DOMAIN taken : taken[n].stream_idx = 0

\* However a frame is cut, prefixed and stuffed, the file is a row of TS
\* packets: its length is a multiple of 188, and headers are written where a
\* packet begins and nowhere else.
WholePackets ==
    FragmentsFit =>
        /\ out.size % TS_PACKAGE_SZ = 0
        /\ \A n \in 1..(out.size \div TS_PACKAGE_SZ) :
              \E j \in DOMAIN out.segs : out.segs[j].at = Boundary(n) /\ IsHeader(out.segs[j])
        /\ \A j \in DOMAIN out.segs : IsHeader(out.segs[j]) => out.segs[j].at % TS_PACKAGE_SZ = 0

\* One piece of a stream, unless there is nothing of it.
Piece(of, len) == IF len = 0 THEN <<>> ELSE <<[of |-> of, from |-> 0, len |-> len]>>

\* What a reader is to find before frame p, and of frame n up to the byte the
\* loop has reached.
Prefix(p) ==
    IF p.stream_idx = 1
    THEN Piece([is |-> "adts", frame_length |-> p.size0 + p.size1 + ADTS_SZ], ADTS_SZ)
    ELSE Piece([is |-> "csd"], IF p.flags THEN drv.csdLen[0] ELSE 0)
Written(n) ==
    LET p == taken[n]
        left == IF unit = NoUnit \/ unit.n # n THEN 0 ELSE unit.left
    IN Prefix(p) \o Piece([is |-> "frame", n |-> n], p.size0 + p.size1 - left)

\* The first n parts behind each other.
Concat(parts, n) ==
    LET upTo[k \in 0..n] == IF k = 0 THEN <<>> ELSE upTo[k - 1] \o parts[k]
    IN upTo[n]

\* The elementary stream of track i for the frames taken.
Recorded(i) ==
    Concat([n \in DOMAIN taken |-> IF taken[n].stream_idx = i THEN Written(n) ELSE <<>>],
           Len(taken))

\* A reader gets back what was recorded: the elementary stream it puts together
\* from the packets of a PID is the frames of that track, each whole, in order
\* and behind its codec data or ADTS header, wherever the pieces of memory and
\* the packets ended, and whatever the other track wrote in between.
StreamsReadBack ==
    Sound => \A i \in Tracks :
        mTrackPid[i] # 0 => Elementary(out.segs, mTrackPid[i], i = 0) = Recorded(i)

\* The packets of pid before segment j.
PacketsBefore(segs, pid, j) ==
    Cardinality({k \in 1..(j - 1) : IsHeader(segs[k]) /\ segs[k].of.pid = pid})

\* The packets of a PID are counted modulo 16, across the two places that count
\* them, so that a reader sees no gap.
ContinuityCounts ==
    Sound => \A j \in DOMAIN out.segs : IsHeader(out.segs[j]) =>
        out.segs[j].of.cc = PacketsBefore(out.segs, out.segs[j].of.pid, j) % Wrap

\* A reader that tunes in at any video frame finds the streams: right before
\* the frame are a PAT and a PMT, and the PMT lists the PIDs of all frames
\* around it, audio too when it was announced.
TablesLead ==
    Sound => \A j \in DOMAIN out.segs :
        (out.segs[j].of.is = "start" /\ out.segs[j].of.pid = 481) =>
            /\ j > 2 /\ out.segs[j - 2].of.is = "table" /\ out.segs[j - 1].of.is = "table"
            /\ out.segs[j - 2].of.pid = 0
            /\ out.segs[j - 1].of.pid \in out.segs[j - 2].of.lists
            /\ \A k \in DOMAIN out.segs :
                  out.segs[k].of.is = "start" => out.segs[k].of.pid \in out.segs[j - 1].of.lists

\* The bytes of a TS packet behind its adaptation field.
PayloadSize(h) ==
    TS_PACKAGE_SZ - 4 - IF h.of.is = "middle" THEN 0 ELSE h.of.af + 1

\* What the TS packets of pid carry, each counted at its header.
PayloadsOf(segs, pid) ==
    [k \in DOMAIN segs |->
        IF IsHeader(segs[k]) /\ segs[k].of.pid = pid THEN PayloadSize(segs[k]) ELSE 0]

\* The segments from j to e hold a PES packet of pid: it begins in j and lasts
\* until the next one begins behind e, or the file ends.
BeginsPes(s, pid) == s.of.is = "start" /\ s.of.pid = pid
IsPes(segs, pid, j, e) ==
    /\ j <= e /\ BeginsPes(segs[j], pid)
    /\ \A k \in (j + 1)..e : ~BeginsPes(segs[k], pid)
    /\ e = Len(segs) \/ BeginsPes(segs[e + 1], pid)

\* The PES_packet_length of so many bytes.
LengthField(bytes) == IF bytes >= MaxPes THEN 0 ELSE bytes

\* PES_packet_length, where it is not 0, counts the bytes behind it up to the
\* next PES packet of that PID, over all the TS packets of the frame, whatever
\* the other track wrote in between.
PesLengthsExact ==
    FragmentsFit /\ unit = NoUnit => \A pid \in {481, 482}, j, e \in DOMAIN out.segs :
        IsPes(out.segs, pid, j, e) =>
            out.segs[j].of.pes_len = LengthField(Sum(PayloadsOf(out.segs, pid), j, e) - 6)

\* The decoding of PtsBytes that a comment of write_access_unit gives.
Pts(b) == ((b[5] \div 2) % 128) + b[4] * 2^7 + ((b[3] \div 2) % 128) * 2^15
          + b[2] * 2^22 + ((b[1] \div 2) % 8) * 2^30

\* The first packets of frames up to segment j.
StartsUpTo(segs, j) == {k \in 1..j : segs[k].of.is = "start"}

\* Every frame taken, and nothing else, begins on the PID of its track, and
\* carries its time, to all bits, with the marker bits set that keep it from
\* looking like a start code.
TimesReadBack ==
    /\ Cardinality(StartsUpTo(out.segs, Len(out.segs))) = Len(taken)
    /\ \A j \in StartsUpTo(out.segs, Len(out.segs)) :
          LET p == taken[Cardinality(StartsUpTo(out.segs, j))]
              start == out.segs[j].of
          IN /\ start.pid = mTrackPid[p.stream_idx]
             /\ Pts(start.pts) = 90 * p.pts
             /\ \A b \in {1, 3, 5} : start.pts[b] % 2 = 1
=============================================================================
