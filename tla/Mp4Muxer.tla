------------------------------ MODULE Mp4Muxer ------------------------------
(***************************************************************************)
(* The MP4 writer (mp4_muxer/Mp4Muxer.c) behind its driver                 *)
(* (mp4_muxer/Mp4MuxerDrv.c): samples go to the file as they come, their   *)
(* sizes, chunk offsets, chunk lengths and durations to tables in memory,  *)
(* and the trailer writes the tables into a moov box, in the space the     *)
(* header reserved or behind the media data.                               *)
(*                                                                         *)
(* The tables lie side by side in one array, mov_inf_cache, each written   *)
(* as a ring and read from its start without one, so what a long recording *)
(* does to them is part of the model.  The cache below is the ByteFile     *)
(* that CacheWriter implements.                                            *)
(***************************************************************************)
EXTENDS Mp4Boxes

CONSTANTS
    Packets,       \* the AVPackets: stream_idx, size0, size1, idr, duration
    AudioCsds,     \* the codec data of audio tracks
    Codecs,        \* the mVideoEncType values SET_TRACK_INFO is called with
    FrameSize,     \* mFrameSize, the samples of an audio frame
    STCO_CACHE_SIZE, STSZ_CACHE_SIZE,   \* entries of a table
    KeyCap,        \* entries of cache_keyframe_ptr
    Reserve,       \* MOV_HEADER_RESERVE_SIZE
    JUNK,          \* an entry of mov_inf_cache never written
    MaxPackets     \* bound: packets of a recording

ASSUME Mp4Assumption ==
    /\ \A p \in Packets :
          /\ p.stream_idx \in {0, 1} /\ p.idr \in BOOLEAN
          /\ p.size0 \in Nat /\ p.size1 \in Nat /\ p.duration \in Nat
          \* a ring buffer splits a frame behind its first byte, and a video
          \* frame has a start code and a NAL unit, which tells an IDR frame
          /\ p.size0 = 0 => p.size1 = 0
          /\ p.stream_idx = 0 => p.size0 + p.size1 \in {0} \cup {n \in Nat : n > 4}
          /\ p.idr => p.size0 > 0
    /\ FrameSize \in Nat /\ AudioCsds \subseteq Seq(0..255)
    \* with start codes, they are of four bytes, and units are not very short
    /\ \A d \in VideoCsds : HasStartCode(d) =>
          LET units == AnnexB(d)
          IN /\ \A q \in DOMAIN units : Len(units[q]) >= 4
             /\ \A q \in Codes(d, 1, Len(d) - 3) : d[q] = 0
             /\ {SPS, PPS} \subseteq {units[q][1] % 32 : q \in DOMAIN units}
    /\ Codecs \subseteq {"H264", "MJPEG"}
    /\ STCO_CACHE_SIZE \in Nat \ {0} /\ STSZ_CACHE_SIZE \in Nat \ {0}
    /\ KeyCap \in Nat
    /\ Reserve \in Nat /\ Reserve >= 36
    /\ JUNK \notin Int /\ MaxPackets \in Nat

VARIABLES
    life,             \* "none", "opened", "writing", "finished", "closed";
                      \* "corrupt" after a write outside an array
    drv,              \* what the driver was told before the header
    count,            \* stco_size, stsz_size, stsc_size, stts_size of tracks
    inf,              \* mov_inf_cache
    keys,             \* cache_keyframe_ptr[0 .. keyFrame_num-1]
    mdat_size,
    stsc_cnt,
    last_stream_idx,
    file,             \* the boxes by position, the data of mdat, what is in moov
    moov,             \* the sample tables written into moov
    taken             \* history: the packets accepted, by track

vars == <<life, drv, count, inf, keys, mdat_size, stsc_cnt, last_stream_idx,
          file, moov, taken>>

Tracks == {0, 1}      \* video, audio

\* The tables, in the order they have in mov_inf_cache, and their lengths.
Slots == {<<"stco", 0>>, <<"stco", 1>>, <<"stsz", 0>>, <<"stsz", 1>>,
          <<"stsc", 0>>, <<"stsc", 1>>, <<"stts", 0>>}

Cap(s) == IF s[1] \in {"stco", "stsc"} THEN STCO_CACHE_SIZE ELSE STSZ_CACHE_SIZE

Base(s) ==
    LET before == CASE s[1] = "stco" -> [c |-> 0, z |-> 0]
                    [] s[1] = "stsz" -> [c |-> 2, z |-> 0]
                    [] s[1] = "stsc" -> [c |-> 2, z |-> 2]
                    [] s[1] = "stts" -> [c |-> 4, z |-> 2]
    IN before.c * STCO_CACHE_SIZE + before.z * STSZ_CACHE_SIZE + s[2] * Cap(s)

\* The array ends with a tiny page no entry is written to.
Addresses == 0..(4 * STCO_CACHE_SIZE + 3 * STSZ_CACHE_SIZE + MaxPackets)

\* cache_write_ptr of s: it wraps when it has passed cache_end_ptr.
At(s) == Base(s) + (count[s] % Cap(s))

Size(p) == p.size0 + p.size1

mdat_pos == Reserve
mdat_start_pos == mdat_pos + 8
free_pos == 28

NoFile == [box |-> <<>>, mdat |-> <<>>, moov |-> <<>>]

-----------------------------------------------------------------------------
Init ==
    /\ life = "none"
    /\ drv = [stream |-> FALSE, mode |-> "thread", sized |-> FALSE,
              codec |-> "H264", mTrackCnt |-> 0, csd |-> [i \in Tracks |-> <<>>]]
    /\ count = [s \in Slots |-> 0] /\ inf = [a \in Addresses |-> JUNK]
    /\ keys = <<>> /\ mdat_size = 0 /\ stsc_cnt = 0 /\ last_stream_idx = -1
    /\ file = NoFile /\ moov = <<>>
    /\ taken = [i \in Tracks |-> <<>>]

movVars == <<count, inf, keys, mdat_size, stsc_cnt, last_stream_idx, moov, taken>>

\* Mp4MuxerOpen of a fresh handle.
Open ==
    /\ life = "none"
    /\ life' = "opened"
    /\ UNCHANGED <<drv, file, movVars>>

Setup == life = "opened" /\ UNCHANGED <<life, file, movVars>>

\* SET_STREAM_FD and SET_STREAM_FILEPATH; stream_handle_create may fail.
SetStream ==
    /\ Setup /\ ~drv.stream
    /\ \E ok \in BOOLEAN : drv' = [drv EXCEPT !.stream = ok]

SetCacheMode ==
    /\ Setup
    /\ \E m \in {"thread", "simple"} : drv' = [drv EXCEPT !.mode = m]

\* SET_CACHE_SIZE, to a positive size.
SetCacheSize == Setup /\ drv' = [drv EXCEPT !.sized = TRUE]

\* SET_TRACK_INFO, called once, counts a video and an audio track; it returns
\* -1 for other codecs, with nothing done that is modelled here.
SetTrackInfo(codec) ==
    /\ Setup /\ drv.mTrackCnt = 0
    /\ drv' = [drv EXCEPT !.codec = codec, !.mTrackCnt = 2]

WriteCSD(i, csd) ==
    /\ Setup
    /\ drv' = [drv EXCEPT !.csd[i] = csd]

\* mov_write_header: the reserved space is a free box, mdat has no size yet.
HeaderBoxes ==
    [box |-> [x \in {0, free_pos, mdat_pos} |->
        CASE x = 0 -> [type |-> "ftyp", size |-> 28]
          [] x = free_pos -> [type |-> "free", size |-> Reserve - 28]
          [] x = mdat_pos -> [type |-> "mdat", size |-> 0]],
     mdat |-> <<>>, moov |-> <<>>]

\* Mp4MuxerWriteHeader, on a stream, after the track info; it returns -1 when
\* it was called before, and when no cache can be created: in the mode that is
\* not supported, which is the default, or without a size.
WriteHeader ==
    /\ life = "opened" /\ drv.stream /\ drv.mTrackCnt = 2
    /\ drv.mode = "simple" /\ drv.sized
    /\ life' = "writing"
    /\ file' = HeaderBoxes
    /\ UNCHANGED <<drv, movVars>>

-----------------------------------------------------------------------------
\* The n-th packet's k-th byte, and the bytes of a NAL unit's length.
Cell(n, k) == [kind |-> "byte", of |-> n, k |-> k]
Bytes(n, from, to) == [j \in 1..(to - from + 1) |-> Cell(n, from + j - 1)]
Length(v) == [j \in 1..4 |-> [kind |-> "len", of |-> v, k |-> j]]

\* Mutant of NalByte: the index into the second piece ignores the first.
NalByteFromStart(p) == IF p.size0 >= 5 THEN 5 ELSE p.size0 + 5

\* Which byte of p the writer takes for the NAL header, and what it finds.
NalByte(p) == CASE p.size0 >= 5 -> 5
                [] p.size0 \in 1..4 -> p.size0 + (4 - p.size0) + 1
                [] OTHER -> 0
IsKeyframe(p) == p.idr /\ NalByte(p) = 5

\* Mutant of SkipSize: a start code that ends with the first piece, or is
\* split, is not skipped.
SkipNothing(p) == 0

\* nSkipSize: what of a start code is left for the second piece.
SkipSize(p) == IF p.size0 \in 1..4 THEN 4 - p.size0 ELSE 0

\* What is written for p, handed over in two pieces: a video frame's start
\* code is replaced by its length, wherever the first piece ends.
Data(n, p) ==
    LET special == p.stream_idx = 0 /\ Size(p) # 0
        first ==
            IF p.size0 = 0 THEN <<>>
            ELSE IF ~special THEN Bytes(n, 1, p.size0)
            ELSE Length(Size(p) - 4) \o Bytes(n, 5, p.size0)
        skip == IF special THEN SkipSize(p) ELSE 0
    IN first \o Bytes(n, p.size0 + skip + 1, Size(p))

\* Entries for p: its size and duration, and on a change of track the offset
\* of the chunk that begins and the length of the one that ends.
Entries(p) ==
    LET i == p.stream_idx
        slots == {s \in Slots :
                    \/ s \in {<<"stsz", i>>, <<"stts", i>>}
                    \/ i # last_stream_idx
                       /\ s \in {<<"stco", i>>, <<"stsc", last_stream_idx>>}}
    IN [s \in slots |-> CASE s[1] = "stco" -> mdat_size + mdat_start_pos
                          [] s[1] = "stsc" -> stsc_cnt
                          [] s[1] = "stsz" -> Size(p)
                          [] s[1] = "stts" -> p.duration]

Enter(new) ==
    /\ inf' = [a \in Addresses |->
                  IF \E s \in DOMAIN new : At(s) = a
                  THEN new[CHOOSE s \in DOMAIN new : At(s) = a] ELSE inf[a]]
    /\ count' = [s \in Slots |-> count[s] + IF s \in DOMAIN new THEN 1 ELSE 0]

\* Mutant of SampleNumber: counted from 0.
SampleIndex == count[<<"stts", 0>>]

\* The number of the video sample being written: stts_size, counted already.
SampleNumber == count'[<<"stts", 0>>]

\* mov_write_packet.  For a video track that is not H264 it returns -1 after
\* the tables have been changed.
WritePacket(p) ==
    LET i == p.stream_idx
        n == Len(taken[0]) + Len(taken[1]) + 1
        refused == i = 0 /\ drv.codec # "H264"
    IN /\ life = "writing" /\ count[<<"stsz", 0>>] + count[<<"stsz", 1>>] < MaxPackets
       /\ Enter(Entries(p))
       /\ stsc_cnt' = (IF i # last_stream_idx THEN 0 ELSE stsc_cnt) + 1
       /\ last_stream_idx' = i
       /\ IF i = 0 /\ ~refused /\ IsKeyframe(p)
          THEN /\ keys' = Append(keys, SampleNumber)
               /\ life' = IF Len(keys) < KeyCap THEN life ELSE "corrupt"
          ELSE UNCHANGED <<keys, life>>
       /\ IF refused THEN UNCHANGED <<mdat_size, file, taken>>
          ELSE /\ mdat_size' = mdat_size + Size(p)
               /\ file' = [file EXCEPT !.mdat = @ \o Data(n, p)]
               /\ taken' = [taken EXCEPT ![i] = Append(@, [n |-> n, p |-> p])]
       /\ UNCHANGED <<drv, moov>>

-----------------------------------------------------------------------------
\* The tables of track i as the trailer reads them, from their first entry on.
Table(id, i) ==
    [k \in 1..count'[<<id, i>>] |-> inf'[Base(<<id, i>>) + k - 1]]

\* Mutant of SttsTable: the first duration is not skipped.
SttsUnshifted(i) ==
    IF i = 1 THEN [k \in 1..count'[<<"stsz", 1>>] |-> FrameSize]
    ELSE Table("stts", 0)

\* A video duration is the time since the frame before: the first one is
\* skipped and the last frame gets 0.
SttsTable(i) ==
    IF i = 1 THEN [k \in 1..count'[<<"stsz", 1>>] |-> FrameSize]
    ELSE Append(Tail(Table("stts", 0)), 0)

Trak(i) == [stco |-> Table("stco", i), stsz |-> Table("stsz", i),
            stsc |-> Table("stsc", i), stts |-> SttsTable(i),
            stss |-> IF i = 0 THEN keys ELSE <<>>]

WithSamples == {i \in Tracks : i < drv.mTrackCnt /\ count'[<<"stsz", i>>] > 0}

\* mov_write_header gave the tracks their tags.
TrackOf(i) ==
    [video |-> i = 0,
     tag |-> IF i = 1 THEN "mp4a" ELSE IF drv.codec = "H264" THEN "avc1" ELSE "mjpa",
     csd |-> drv.csd[i],
     n |-> [stco |-> count'[<<"stco", i>>], stsz |-> count'[<<"stsz", i>>],
            stsc |-> count'[<<"stsc", i>>],
            stts |-> IF i = 0 THEN count'[<<"stts", 0>>] ELSE 0,
            stss |-> IF i = 0 THEN Len(keys) ELSE 0]]
WrittenTracks == [i \in WithSamples |-> TrackOf(i)]

\* Mutant of FitsReserve: no room is kept for the header of the free box.
FitsWithoutFree(size) == size + 28 <= Reserve

FitsReserve(size) == size + 28 + 8 <= Reserve

\* mov_write_moov_tag: in the reserved space, the rest of which stays a free
\* box, or at the end of the media data.
MoovBoxes(m) ==
    LET size == m[1].size
    IN IF FitsReserve(size)
       THEN [x \in {free_pos, free_pos + BytesOf(m)} |->
               IF x = free_pos THEN [type |-> "moov", size |-> size]
               ELSE [type |-> "free", size |-> Reserve - size - 28]]
       ELSE [x \in {mdat_start_pos + Len(file.mdat)} |->
               [type |-> "moov", size |-> size]]

MdatBox == [x \in {mdat_pos} |-> [type |-> "mdat", size |-> mdat_size + 8]]

Overwrite(f, g) ==
    [x \in DOMAIN f \cup DOMAIN g |-> IF x \in DOMAIN g THEN g[x] ELSE f[x]]

\* mov_write_trailer; before any packet it indexes the tables with -1.
WriteTrailer ==
    /\ life = "writing"
    /\ IF last_stream_idx = -1
       THEN life' = "corrupt" /\ UNCHANGED <<count, inf, file, moov>>
       ELSE /\ life' = "finished"
            /\ Enter([s \in {<<"stsc", last_stream_idx>>} |-> stsc_cnt])
            /\ moov' = [i \in WithSamples |-> Trak(i)]
            /\ \E traks \in {WrittenTracks} : \E m \in {MoovTag(traks)} :
                  file' = [file EXCEPT !.box = Overwrite(Overwrite(@, MoovBoxes(m)), MdatBox),
                                       !.moov = m]
    /\ UNCHANGED <<drv, keys, mdat_size, stsc_cnt, last_stream_idx, taken>>

\* Mp4MuxerClose frees everything but the file.
Close ==
    /\ life \in {"opened", "writing", "finished"}
    /\ life' = "closed"
    /\ UNCHANGED <<drv, file, movVars>>

Next ==
    \/ Open \/ SetStream \/ SetCacheMode \/ SetCacheSize
    \/ \E c \in Codecs : SetTrackInfo(c)
    \/ \E csd \in VideoCsds : WriteCSD(0, csd)
    \/ \E csd \in AudioCsds : WriteCSD(1, csd)
    \/ WriteHeader
    \/ \E p \in Packets : WritePacket(p)
    \/ WriteTrailer
    \/ Close

Spec == Init /\ [][Next]_vars
-----------------------------------------------------------------------------
\* The types.  A table never gets an entry outside its part of mov_inf_cache
\* because At wraps; last_stream_idx is -1 until the first packet.
TypeOK ==
    /\ life \in {"none", "opened", "writing", "finished", "closed", "corrupt"}
    /\ drv.stream \in BOOLEAN /\ drv.mode \in {"thread", "simple"}
    /\ drv.sized \in BOOLEAN /\ drv.codec \in Codecs \cup {"H264"} /\ drv.mTrackCnt \in {0, 2}
    /\ drv.csd[0] \in VideoCsds \cup {<<>>} /\ drv.csd[1] \in AudioCsds \cup {<<>>}
    /\ count \in [Slots -> Nat] /\ inf \in [Addresses -> Int \cup {JUNK}]
    /\ keys \in Seq(Nat \ {0}) /\ mdat_size \in Nat /\ stsc_cnt \in Nat
    /\ last_stream_idx \in Tracks \cup {-1}
    /\ \A x \in DOMAIN file.box : x \in Nat /\ file.box[x].size \in Nat
    /\ DOMAIN moov \subseteq Tracks
    /\ \A i \in Tracks : Len(taken[i]) <= MaxPackets

\* A recording within the writer's limits: no table of track i was longer
\* than its part of the cache ("record too long! not support currently").
Fits(i) == \A s \in Slots : s[2] = i => count[s] <= Cap(s)

Readable(i) ==
    /\ life = "finished" /\ Fits(i)
    /\ i = 0 => drv.codec = "H264"

\* What a player makes of the tables: the chunk that holds sample k, the
\* sample's offset in the file, and its bytes.
ChunkOf(t, k) == CHOOSE c \in DOMAIN t.stsc :
                    Sum(t.stsc, 1, c - 1) < k /\ k <= Sum(t.stsc, 1, c)
OffsetOf(t, k) ==
    LET c == ChunkOf(t, k)
    IN t.stco[c] + Sum(t.stsz, Sum(t.stsc, 1, c - 1) + 1, k - 1)
Contents(from, len) ==
    [j \in 1..len |-> LET at == from - mdat_start_pos + j
                      IN IF at \in DOMAIN file.mdat THEN file.mdat[at] ELSE JUNK]
Played(i) ==
    LET t == moov[i] IN [k \in DOMAIN t.stsz |-> Contents(OffsetOf(t, k), t.stsz[k])]

\* The sample packet n should be read back as.
Sample(n, p) ==
    IF p.stream_idx = 0 /\ Size(p) # 0
    THEN Length(Size(p) - 4) \o Bytes(n, 5, Size(p)) ELSE Bytes(n, 1, Size(p))

Recorded(i) == IF i \in DOMAIN moov THEN moov[i].stsz ELSE <<>>

\* A finished file plays back what was recorded: with the chunk, size and
\* offset tables every sample is found where its bytes are, in order, none
\* lost, however the packets of the two tracks alternated, wherever a frame
\* was split in two, and whatever video packets were refused in between.
SamplesReadBack ==
    \A i \in Tracks : Readable(i) =>
        /\ Len(Recorded(i)) = Len(taken[i])
        /\ i \in DOMAIN moov =>
              /\ Len(moov[i].stco) = Len(moov[i].stsc)
              /\ Sum(moov[i].stsc, 1, Len(moov[i].stsc)) = Len(moov[i].stsz)
              /\ Played(i) = [k \in DOMAIN taken[i] |->
                                 Sample(taken[i][k].n, taken[i][k].p)]

\* The sync sample table lists the IDR frames, by sample number: the writer
\* finds the NAL header in whichever of the two pieces it lies.
SyncSamplesAreIdr ==
    Readable(0) /\ 0 \in DOMAIN moov =>
        /\ \A k \in DOMAIN taken[0] :
              (\E j \in DOMAIN moov[0].stss : moov[0].stss[j] = k) <=> taken[0][k].p.idr
        /\ \A j, l \in DOMAIN moov[0].stss : j < l => moov[0].stss[j] < moov[0].stss[l]

\* Every sample has a decoding time, and frame k comes before frame k + 1 by
\* the duration packet k + 1 was handed over with.
TimesReadBack ==
    \A i \in DOMAIN moov : Readable(i) =>
        /\ Len(moov[i].stts) = Len(moov[i].stsz)
        /\ i = 0 => \A k \in 1..(Len(moov[0].stts) - 1) :
                        moov[0].stts[k] = taken[0][k + 1].p.duration
        /\ i = 1 => \A k \in DOMAIN moov[1].stts : moov[1].stts[k] = FrameSize

\* A finished file is a row of boxes, each beginning where the one before
\* ends, the last one at the end of the file, with one moov and one mdat that
\* holds the media data: the moov box neither leaves a gap in the reserved
\* space nor reaches into mdat, and it goes behind mdat when it is too big.
BoxesTile ==
    life = "finished" =>
        LET at == DOMAIN file.box
            end(x) == x + file.box[x].size
        IN /\ \A x \in at : file.box[x].size >= 8
           /\ \A x, y \in at : x < y => end(x) <= y
           /\ \A x \in at : end(x) \in at \/ \A y \in at : y <= x
           /\ Cardinality({x \in at : file.box[x].type = "moov"}) = 1
           /\ end(mdat_pos) = mdat_start_pos + Len(file.mdat)

\* Inside moov every box, and every descriptor in a box, has the size of what
\* was written for it, although size and contents are computed apart, from
\* the codec, its codec data and the tables: a reader finds each box where the
\* one before ends, and an inner box within its outer one.
BoxesNest == life = "finished" => Misfits(file.moov) = {}

\* A decoder is configured with what the encoder sent: the avcC box holds the
\* parameter sets of the codec data, whole and without the start codes around
\* them, wherever they lie in memory, and nothing else in moov is codec data
\* of the video track.  Zeros stuffed in behind a unit would stay with it.
DecoderConfigured ==
    LET d == drv.csd[0]
    IN /\ life = "finished" /\ 0 \in DOMAIN moov /\ drv.codec = "H264"
       /\ Len(d) > 6 /\ (HasStartCode(d) => Unstuffed(d))
       => Carries(file.moov,
                  IF HasStartCode(d)
                  THEN <<LastOfType(AnnexB(d), SPS), LastOfType(AnnexB(d), PPS)>> ELSE <<d>>)
=============================================================================
