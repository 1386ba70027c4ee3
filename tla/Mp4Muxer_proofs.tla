--------------------------- MODULE Mp4Muxer_proofs ---------------------------
(***************************************************************************)
(* Proofs about Mp4Muxer for every set of packets, every size of the       *)
(* tables and every recording, however long.                               *)
(***************************************************************************)
EXTENDS Mp4Muxer, Mp4Boxes_proofs

\* What the assumption says of one packet.
LEMMA PacketFacts ==
    ASSUME NEW p \in Packets
    PROVE  /\ p.stream_idx \in Tracks /\ p.idr \in BOOLEAN
           /\ p.size0 \in Nat /\ p.size1 \in Nat /\ p.duration \in Nat /\ Size(p) \in Nat
           /\ p.size0 = 0 => p.size1 = 0
           /\ p.stream_idx = 0 => Size(p) = 0 \/ Size(p) > 4
           /\ p.idr => p.size0 > 0
  BY Mp4Assumption DEF Size, Tracks

\* What the assumption says of the limits.
LEMMA ConstantFacts ==
    /\ STCO_CACHE_SIZE \in Nat \ {0} /\ STSZ_CACHE_SIZE \in Nat \ {0}
    /\ FrameSize \in Nat /\ KeyCap \in Nat /\ Reserve \in Nat /\ Reserve >= 36
    /\ MaxPackets \in Nat /\ Codecs \subseteq {"H264", "MJPEG"}
  BY Mp4Assumption
-----------------------------------------------------------------------------
\* Every table has room for an entry.
LEMMA CapFacts == ASSUME NEW s \in Slots PROVE Cap(s) \in Nat \ {0}
  BY ConstantFacts DEF Cap

\* The room of a table in mov_inf_cache.
Room(s) == Base(s)..(Base(s) + Cap(s) - 1)

\* The part of a table lies in mov_inf_cache.
LEMMA RoomFacts ==
    ASSUME NEW s \in Slots
    PROVE  Base(s) \in Nat /\ Room(s) \subseteq Addresses
  BY ConstantFacts DEF Room, Base, Cap, Slots, Addresses

\* The parts of two tables do not overlap.
LEMMA RoomsApart ==
    ASSUME NEW s \in Slots, NEW u \in Slots, s # u
    PROVE  Room(s) \cap Room(u) = {}
  BY ConstantFacts DEF Room, Base, Cap, Slots
-----------------------------------------------------------------------------
\* What mdat holds: bytes of frames and the bytes of a length.
Cells == [kind : {"byte"}, of : Nat, k : Nat] \cup [kind : {"len"}, of : Int, k : 1..4]

\* The bytes of a packet from one to another.
LEMMA BytesFacts ==
    ASSUME NEW n \in Nat, NEW a \in Nat, NEW b \in Int, a - 1 <= b
    PROVE  /\ Bytes(n, a, b) \in Seq(Cells)
           /\ Len(Bytes(n, a, b)) = b - a + 1
           /\ \A j \in 1..(b - a + 1) : Bytes(n, a, b)[j] = Cell(n, a + j - 1)
  <1>1. b - a + 1 \in Nat OBVIOUS
  <1>2. \A j \in 1..(b - a + 1) : Cell(n, a + j - 1) \in Cells BY DEF Cell, Cells
  <1> QED BY <1>1, <1>2 DEF Bytes

\* Nothing is written of a frame that is not there.
LEMMA NoBytes ==
    ASSUME NEW n \in Nat, NEW a \in Nat, NEW b \in Int, b < a
    PROVE  Bytes(n, a, b) = <<>>
  <1>1. 1..(b - a + 1) = {} OBVIOUS
  <1> QED BY <1>1 DEF Bytes

\* Concatenation is associative.
LEMMA Associative ==
    ASSUME NEW S, NEW s, NEW t, NEW u, s \in Seq(S), t \in Seq(S), u \in Seq(S)
    PROVE  (s \o t) \o u = s \o (t \o u)
  BY ConcatAssociative

Joins(n, a, b, a1, c) == Bytes(n, a, b) \o Bytes(n, a1, c) = Bytes(n, a, c)

\* Two pieces of a frame are the frame.
LEMMA BytesJoin ==
    ASSUME NEW n \in Nat, NEW a \in Nat, NEW b \in Nat, NEW c \in Nat, NEW a1 \in Nat,
           a - 1 <= b, b <= c, b < a1, a1 <= b + 1
    PROVE  Joins(n, a, b, a1, c)
  <1> SUFFICES Bytes(n, a, b) \o Bytes(n, a1, c) = Bytes(n, a, c) BY DEF Joins
  <1> DEFINE s == Bytes(n, a, b)
             t == Bytes(n, a1, c)
             u == Bytes(n, a, c)
  <1>1. /\ s \in Seq(Cells) /\ Len(s) = b - a + 1
        /\ \A j \in 1..(b - a + 1) : s[j] = Cell(n, a + j - 1)
    BY BytesFacts
  <1>2. /\ t \in Seq(Cells) /\ Len(t) = c - b
        /\ \A j \in 1..(c - b) : t[j] = Cell(n, b + j)
    <2>1. a1 \in Nat /\ a1 - 1 <= c /\ c \in Int /\ c - a1 + 1 = c - b OBVIOUS
    <2>2. \A j \in 1..(c - b) : a1 + j - 1 = b + j OBVIOUS
    <2>3. /\ Bytes(n, a1, c) \in Seq(Cells) /\ Len(Bytes(n, a1, c)) = c - a1 + 1
          /\ \A j \in 1..(c - a1 + 1) : Bytes(n, a1, c)[j] = Cell(n, a1 + j - 1)
      BY <2>1, BytesFacts
    <2> QED BY <2>1, <2>2, <2>3
  <1>3. /\ u \in Seq(Cells) /\ Len(u) = c - a + 1
        /\ \A j \in 1..(c - a + 1) : u[j] = Cell(n, a + j - 1)
    <2>1. c \in Int /\ a - 1 <= c OBVIOUS
    <2> QED BY <2>1, BytesFacts
  <1> HIDE DEF s, t, u
  <1>4. /\ s \o t \in Seq(Cells) /\ Len(s \o t) = c - a + 1
        /\ \A i \in 1..(c - a + 1) : (s \o t)[i] = IF i <= b - a + 1 THEN s[i] ELSE t[i - (b - a + 1)]
    <2>1. /\ s \o t \in Seq(Cells) /\ Len(s \o t) = Len(s) + Len(t)
          /\ \A i \in 1..(Len(s) + Len(t)) : (s \o t)[i] = IF i <= Len(s) THEN s[i] ELSE t[i - Len(s)]
      BY <1>1, <1>2, ConcatProperties
    <2>2. Len(s) + Len(t) = c - a + 1 BY <1>1, <1>2
    <2> QED BY <1>1, <2>1, <2>2
  <1>5. ASSUME NEW j \in 1..(c - a + 1) PROVE (s \o t)[j] = u[j]
    <2>1. CASE j <= b - a + 1
      <3>1. (s \o t)[j] = s[j] BY <1>4, <2>1
      <3>2. j \in 1..(b - a + 1) BY <2>1
      <3> QED BY <1>1, <1>3, <3>1, <3>2
    <2>2. CASE j > b - a + 1
      <3>1. j - (b - a + 1) \in 1..(c - b) /\ b + (j - (b - a + 1)) = a + j - 1 BY <2>2
      <3>2. (s \o t)[j] = t[j - (b - a + 1)] BY <1>4, <2>2
      <3>3. t[j - (b - a + 1)] = Cell(n, a + j - 1) BY <1>2, <3>1
      <3> QED BY <1>3, <3>2, <3>3
    <2>3. j <= b - a + 1 \/ j > b - a + 1 OBVIOUS
    <2> QED BY <2>1, <2>2, <2>3
  <1>6. s \o t = u BY <1>3, <1>4, <1>5, SeqEqual
  <1> QED BY <1>6 DEF s, t, u

\* A length takes four bytes.
LEMMA LengthFacts ==
    ASSUME NEW v \in Int
    PROVE  Length(v) \in Seq(Cells) /\ Len(Length(v)) = 4
  <1>1. \A j \in 1..4 : [kind |-> "len", of |-> v, k |-> j] \in Cells BY DEF Cells
  <1> QED BY <1>1 DEF Length

\* What is written for a packet is its sample, wherever its frame was split,
\* and takes as many bytes as the packet.
LEMMA DataIsSample ==
    ASSUME NEW n \in Nat, NEW p \in Packets
    PROVE  /\ Data(n, p) = Sample(n, p)
           /\ Sample(n, p) \in Seq(Cells) /\ Len(Sample(n, p)) = Size(p)
  <1>0. PICK one \in Nat, five \in Nat : one = 1 /\ five = 5 OBVIOUS
  <1>1. PICK z \in Nat, sz \in Nat, z1 \in Nat :
          /\ z = p.size0 /\ sz = Size(p) /\ z <= sz /\ (z = 0 => sz = 0)
          /\ (p.stream_idx = 0 => sz = 0 \/ sz > 4)
          /\ z1 = z + 1 /\ z1 - 1 <= sz /\ z < z1 /\ z1 <= z + 1
    <2>1. /\ p.size0 \in Nat /\ Size(p) \in Nat /\ p.size0 + 1 \in Nat
          /\ p.size0 <= Size(p) /\ (p.size0 = 0 => Size(p) = 0)
          /\ (p.stream_idx = 0 => Size(p) = 0 \/ Size(p) > 4)
      BY PacketFacts DEF Size
    <2>2. /\ (p.size0 + 1) - 1 <= Size(p) /\ p.size0 < p.size0 + 1
          /\ p.size0 + 1 <= p.size0 + 1
      BY <2>1
    <2> QED BY <2>1, <2>2
  <1> DEFINE head == Length(sz - 4)
  <1>2. one = 1 /\ five = 5 /\ one \in Nat /\ five \in Nat BY <1>0
  <1>3. Data(n, p) =
          (IF z = 0 THEN <<>>
           ELSE IF ~(p.stream_idx = 0 /\ sz # 0) THEN Bytes(n, one, z) ELSE head \o Bytes(n, five, z))
          \o Bytes(n, z + (IF p.stream_idx = 0 /\ sz # 0 THEN SkipSize(p) ELSE 0) + 1, sz)
    BY <1>0, <1>1 DEF Data
  <1>4. Sample(n, p) = IF p.stream_idx = 0 /\ sz # 0 THEN head \o Bytes(n, five, sz)
                       ELSE Bytes(n, one, sz)
    BY <1>0, <1>1 DEF Sample
  <1>5. SkipSize(p) = IF z \in 1..4 THEN 4 - z ELSE 0 BY <1>1 DEF SkipSize
  <1>6. head \in Seq(Cells) /\ Len(head) = 4
    <2>1. sz - 4 \in Int BY <1>1
    <2> QED BY <2>1, LengthFacts
  <1> HIDE DEF head
  <1>7. Bytes(n, z1, sz) \in Seq(Cells)
    <2>1. sz \in Int BY <1>1
    <2> QED BY <1>1, <2>1, BytesFacts
  <1>8. CASE p.stream_idx = 0 /\ sz # 0
    <2>1. sz > 4 /\ z # 0 BY <1>1, <1>8
    <2>2. Sample(n, p) = head \o Bytes(n, five, sz) BY <1>4, <1>8
    <2>3. /\ Bytes(n, five, sz) \in Seq(Cells)
          /\ Len(Bytes(n, five, sz)) = sz - five + 1
      <3>1. sz \in Int /\ five - 1 <= sz BY <1>1, <1>2, <2>1
      <3> QED BY <3>1, BytesFacts
    <2>4. Sample(n, p) \in Seq(Cells) /\ Len(Sample(n, p)) = sz
      <3>1. /\ head \o Bytes(n, five, sz) \in Seq(Cells)
            /\ Len(head \o Bytes(n, five, sz)) = Len(head) + Len(Bytes(n, five, sz))
        BY <1>6, <2>3, ConcatProperties
      <3> QED BY <1>1, <1>2, <1>6, <2>2, <2>3, <3>1, SMTT(30)
    <2>5. CASE z \in 1..4
      <3>1. z + (4 - z) + 1 = five BY <1>2, <2>5
      <3>2. Bytes(n, five, z) = <<>>
        <4>1. z \in Int /\ z < five BY <1>1, <1>2, <2>5
        <4> QED BY <1>2, <4>1, NoBytes
      <3>3. Data(n, p) = (head \o <<>>) \o Bytes(n, five, sz)
        BY <1>3, <1>5, <1>8, <2>1, <2>5, <3>1, <3>2
      <3>4. head \o <<>> = head BY <1>6, ConcatEmptySeq
      <3> QED BY <2>2, <2>4, <3>3, <3>4, <1>1
    <2>6. CASE z \notin 1..4
      <3>1. z > 4 /\ five - 1 <= z BY <1>1, <1>2, <2>1, <2>6
      <3>2. z + 0 + 1 = z1 BY <1>1
      <3>3. Data(n, p) = (head \o Bytes(n, five, z)) \o Bytes(n, z1, sz)
        BY <1>3, <1>5, <1>8, <2>1, <2>6, <3>2
      <3>4. Bytes(n, five, z) \o Bytes(n, z1, sz) = Bytes(n, five, sz)
        <4>1. /\ n \in Nat /\ five \in Nat /\ z \in Nat /\ sz \in Nat /\ z1 \in Nat
              /\ five - 1 <= z /\ z <= sz /\ z < z1 /\ z1 <= z + 1
          BY <1>1, <1>2, <3>1
        <4>2. Joins(n, five, z, z1, sz) BY ONLY <4>1, BytesJoin
        <4> QED BY <4>2 DEF Joins
      <3>5. Bytes(n, five, z) \in Seq(Cells)
        <4>1. z \in Int BY <1>1
        <4> QED BY <1>2, <3>1, <4>1, BytesFacts
      <3>6. (head \o Bytes(n, five, z)) \o Bytes(n, z1, sz)
            = head \o (Bytes(n, five, z) \o Bytes(n, z1, sz))
        BY <1>6, <1>7, <3>5, Associative, SMTT(30)
      <3> QED BY <2>2, <2>4, <3>3, <3>4, <3>6, <1>1
    <2> QED BY <2>5, <2>6
  <1>9. CASE ~(p.stream_idx = 0 /\ sz # 0)
    <2>1. Sample(n, p) = Bytes(n, one, sz) BY <1>4, <1>9
    <2>2. Bytes(n, one, sz) \in Seq(Cells) /\ Len(Bytes(n, one, sz)) = sz
      <3>1. n \in Nat /\ one \in Nat /\ sz \in Int /\ one - 1 <= sz BY <1>1, <1>2
      <3>2. /\ Bytes(n, one, sz) \in Seq(Cells)
            /\ Len(Bytes(n, one, sz)) = sz - one + 1
        BY ONLY <3>1, BytesFacts
      <3>3. sz - one + 1 = sz BY <1>1, <1>2
      <3> QED BY ONLY <3>2, <3>3
    <2>3. z + 0 + 1 = z1 BY <1>1
    <2>4. CASE z = 0
      <3>1. Data(n, p) = <<>> \o Bytes(n, z1, sz) BY <1>3, <1>9, <2>3, <2>4
      <3>2. z1 = one BY <1>1, <1>2, <2>4
      <3>3. <<>> \o Bytes(n, one, sz) = Bytes(n, one, sz) BY <2>2, ConcatEmptySeq
      <3> QED BY <2>1, <2>2, <3>1, <3>2, <3>3, <1>1
    <2>5. CASE z # 0
      <3>1. Data(n, p) = Bytes(n, one, z) \o Bytes(n, z1, sz) BY <1>3, <1>9, <2>3, <2>5
      <3>2. Bytes(n, one, z) \o Bytes(n, z1, sz) = Bytes(n, one, sz)
        <4>1. /\ n \in Nat /\ one \in Nat /\ z \in Nat /\ sz \in Nat /\ z1 \in Nat
              /\ one - 1 <= z /\ z <= sz /\ z < z1 /\ z1 <= z + 1
          BY <1>1, <1>2
        <4>2. Joins(n, one, z, z1, sz) BY ONLY <4>1, BytesJoin
        <4> QED BY <4>2 DEF Joins
      <3> QED BY <2>1, <2>2, <3>1, <3>2, <1>1
    <2> QED BY <2>4, <2>5
  <1> QED BY <1>8, <1>9
-----------------------------------------------------------------------------
\* The packets taken, as the history keeps them.
Got == [n : Nat, p : Packets]

\* The bytes of sample t lie in the media data from offset at of the file on.
Lies(data, at, t) ==
    /\ at - mdat_start_pos \in Nat
    /\ at - mdat_start_pos + Size(t.p) <= Len(data)
    /\ \A j \in 1..Size(t.p) : data[at - mdat_start_pos + j] = Sample(t.n, t.p)[j]

\* The samples behind number from, up to number to, are those of a chunk that
\* begins at offset at.
Chunk(at, sz, got, data, from, to) ==
    \A k \in (from + 1)..to : Lies(data, at + Sum(sz, from + 1, k - 1), got[k])

\* What the tables of a track tell of its samples: co the offsets of its chunks,
\* sc their lengths, sz the sizes of its samples.  The last chunk may be open,
\* it has the open samples that sc does not tell yet.
Chunked(co, sc, sz, got, data, open) ==
    /\ Len(sz) = Len(got) /\ \A k \in 1..Len(got) : sz[k] = Size(got[k].p)
    /\ Len(co) = Len(sc) + IF open = 0 THEN 0 ELSE 1
    /\ Sum(sc, 1, Len(sc)) + open = Len(got)
    /\ \A c \in 1..Len(sc) : Chunk(co[c], sz, got, data, Sum(sc, 1, c - 1), Sum(sc, 1, c))
    /\ open # 0 =>
          LET from == Sum(sc, 1, Len(sc))
          IN /\ Chunk(co[Len(co)], sz, got, data, from, Len(got))
             /\ co[Len(co)] + Sum(sz, from + 1, Len(got)) = mdat_start_pos + Len(data)

Longer(s, t) == Len(s) <= Len(t) /\ \A k \in 1..Len(s) : t[k] = s[k]

\* The media data begins at a position in the file.
LEMMA StartFacts == mdat_start_pos \in Nat
  BY ConstantFacts DEF mdat_start_pos, mdat_pos

\* The chunks before some chunk hold a number of samples, and no more than all.
LEMMA BeforeFacts ==
    ASSUME NEW sc \in Seq(Nat), NEW c \in 0..Len(sc)
    PROVE  Sum(sc, 1, c) \in Nat /\ Sum(sc, 1, c) <= Sum(sc, 1, Len(sc))
  <1> DEFINE n == Len(sc)
  <1>1. n \in Int /\ 1 \in Int /\ 1 - 1 <= n /\ c \in (1 - 1)..n /\ n \in (1 - 1)..n
        /\ \A k \in 1..n : sc[k] \in Nat
    OBVIOUS
  <1> HIDE DEF n
  <1>2. \A k \in (1 - 1)..n : Sum(sc, 1, k) \in Nat BY <1>1, SumNat
  <1>3. Sum(sc, 1, n) = Sum(sc, 1, c) + Sum(sc, c + 1, n) BY <1>1, SumSplits
  <1>4. Sum(sc, c + 1, n) \in Nat
    <2>1. c + 1 \in Int /\ (c + 1) - 1 <= n /\ n \in ((c + 1) - 1)..n
          /\ \A k \in (c + 1)..n : sc[k] \in Nat
      BY <1>1
    <2> QED BY <1>1, <2>1, SumNat
  <1>5. Sum(sc, 1, c) \in Nat /\ Sum(sc, 1, n) \in Nat BY <1>1, <1>2
  <1>6. Sum(sc, 1, c) <= Sum(sc, 1, n) BY <1>3, <1>4, <1>5
  <1> QED BY <1>5, <1>6 DEF n

\* A chunk stays what it is when tables and data get longer behind it.
LEMMA ChunkKept ==
    ASSUME NEW at \in Nat, NEW sz, NEW sz2, NEW got, NEW got2, NEW data \in Seq(Cells),
           NEW data2 \in Seq(Cells), NEW from \in Nat, NEW to \in Nat,
           Longer(data, data2), Chunk(at, sz, got, data, from, to),
           \A k \in 1..to : sz2[k] = sz[k] /\ got2[k] = got[k],
           \A k \in 1..to : Size(got[k].p) \in Nat
    PROVE  Chunk(at, sz2, got2, data2, from, to)
  <1> SUFFICES ASSUME NEW k \in (from + 1)..to
               PROVE  Lies(data2, at + Sum(sz2, from + 1, k - 1), got2[k])
    BY DEF Chunk
  <1> DEFINE m == from + 1
             n == k - 1
             off == at + Sum(sz, m, n)
  <1>1. m \in Int /\ n \in Int /\ m - 1 <= n /\ k \in 1..to /\ \A j \in m..n : j \in 1..to
    OBVIOUS
  <1>2. Lies(data, off, got[k]) BY DEF Chunk
  <1>3. Sum(sz2, m, n) = Sum(sz, m, n)
    <2>1. \A j \in m..n : sz2[j] = sz[j] BY <1>1
    <2> HIDE DEF m, n
    <2> QED BY <1>1, <2>1, SumSame
  <1> HIDE DEF m, n
  <1>4. got2[k] = got[k] /\ Size(got[k].p) \in Nat BY <1>1
  <1>5. at + Sum(sz2, m, n) = off BY <1>3
  <1> HIDE DEF off
  <1>6. Lies(data2, off, got[k])
    <2>1. /\ off - mdat_start_pos \in Nat
          /\ off - mdat_start_pos + Size(got[k].p) <= Len(data)
          /\ \A j \in 1..Size(got[k].p) :
                data[off - mdat_start_pos + j] = Sample(got[k].n, got[k].p)[j]
      BY <1>2 DEF Lies
    <2>2. Len(data) \in Nat /\ Len(data2) \in Nat /\ Len(data) <= Len(data2)
          /\ \A j \in 1..Len(data) : data2[j] = data[j]
      BY DEF Longer
    <2>3. ASSUME NEW j \in 1..Size(got[k].p)
          PROVE  data2[off - mdat_start_pos + j] = data[off - mdat_start_pos + j]
      <3> DEFINE o == off - mdat_start_pos
      <3>1. o \in Nat /\ o + Size(got[k].p) <= Len(data) BY <2>1
      <3> HIDE DEF o
      <3>2. o + j \in 1..Len(data) BY <1>4, <2>2, <3>1, SMTT(30)
      <3>3. data2[o + j] = data[o + j] BY <2>2, <3>2
      <3> QED BY <3>3 DEF o
    <2>4. off - mdat_start_pos + Size(got[k].p) <= Len(data2)
      <3> DEFINE o == off - mdat_start_pos
      <3>1. o \in Nat /\ o + Size(got[k].p) <= Len(data) BY <2>1
      <3> HIDE DEF o
      <3>2. o + Size(got[k].p) <= Len(data2) BY <1>4, <2>2, <3>1
      <3> QED BY <3>2 DEF o
    <2> QED BY <2>1, <2>3, <2>4 DEF Lies
  <1> QED BY <1>4, <1>5, <1>6 DEF m, n

\* A packet's data goes behind the media data.
LEMMA DataAppended ==
    ASSUME NEW data \in Seq(Cells), NEW n \in Nat, NEW p \in Packets
    PROVE  LET data2 == data \o Data(n, p)
           IN /\ data2 \in Seq(Cells) /\ Len(data2) = Len(data) + Size(p)
              /\ Longer(data, data2)
              /\ Lies(data2, mdat_start_pos + Len(data), [n |-> n, p |-> p])
  <1> DEFINE d == Data(n, p)
             data2 == data \o d
  <1>1. d = Sample(n, p) /\ d \in Seq(Cells) /\ Len(d) = Size(p) /\ Size(p) \in Nat
    BY DataIsSample, PacketFacts
  <1> HIDE DEF d
  <1>2. /\ data2 \in Seq(Cells) /\ Len(data2) = Len(data) + Len(d)
        /\ \A i \in 1..(Len(data) + Len(d)) :
              data2[i] = IF i <= Len(data) THEN data[i] ELSE d[i - Len(data)]
    BY <1>1, ConcatProperties
  <1> HIDE DEF data2
  <1>3. Len(data) \in Nat /\ mdat_start_pos \in Nat BY StartFacts
  <1>4. Longer(data, data2) BY <1>1, <1>2, <1>3 DEF Longer
  <1>5. (mdat_start_pos + Len(data)) - mdat_start_pos = Len(data) BY <1>3
  <1>6. ASSUME NEW j \in 1..Size(p) PROVE data2[Len(data) + j] = Sample(n, p)[j]
    <2>1. /\ Len(data) + j \in 1..(Len(data) + Len(d)) /\ ~(Len(data) + j <= Len(data))
          /\ (Len(data) + j) - Len(data) = j
      BY <1>1, <1>3
    <2> QED BY <1>1, <1>2, <2>1
  <1>7. Lies(data2, mdat_start_pos + Len(data), [n |-> n, p |-> p])
    BY <1>1, <1>2, <1>3, <1>5, <1>6 DEF Lies
  <1> QED BY <1>1, <1>2, <1>4, <1>7 DEF data2, d

\* What Chunked says of tables, with the numbers typed.
LEMMA ChunkedFacts ==
    ASSUME NEW co \in Seq(Nat), NEW sc \in Seq(Nat), NEW sz \in Seq(Nat), NEW got \in Seq(Got),
           NEW data, NEW open \in Nat, Chunked(co, sc, sz, got, data, open)
    PROVE  /\ Len(sz) \in Nat /\ Len(sz) = Len(got) /\ Len(sc) \in Nat /\ Len(co) \in Nat
           /\ \A k \in 1..Len(got) : /\ sz[k] = Size(got[k].p)
                                     /\ Size(got[k].p) \in Nat /\ got[k] \in Got
           /\ Sum(sc, 1, Len(sc)) \in Nat /\ Sum(sc, 1, Len(sc)) + open = Len(got)
           /\ \A c \in 1..Len(sc) :
                 /\ c - 1 \in 0..Len(sc)
                 /\ Sum(sc, 1, c - 1) \in Nat /\ Sum(sc, 1, c) \in Nat
                 /\ Sum(sc, 1, c) <= Sum(sc, 1, Len(sc)) /\ Sum(sc, 1, c) <= Len(got)
                 /\ co[c] \in Nat
           /\ open # 0 => co[Len(co)] \in Nat /\ Len(co) = Len(sc) + 1
           /\ open = 0 => Len(co) = Len(sc)
  <1>1. /\ Len(sz) \in Nat /\ Len(sc) \in Nat /\ Len(co) \in Nat /\ Len(got) \in Nat
        /\ DOMAIN co = 1..Len(co)
    OBVIOUS
  <1>2. Len(sc) \in 0..Len(sc) BY <1>1
  <1>3. Sum(sc, 1, Len(sc)) \in Nat BY <1>2, BeforeFacts
  <1>4. Sum(sc, 1, Len(sc)) + open = Len(got) BY DEF Chunked
  <1>5. Len(co) = Len(sc) + IF open = 0 THEN 0 ELSE 1 BY DEF Chunked
  <1>6. ASSUME NEW c \in 1..Len(sc)
        PROVE  /\ c - 1 \in 0..Len(sc)
               /\ Sum(sc, 1, c - 1) \in Nat /\ Sum(sc, 1, c) \in Nat
               /\ Sum(sc, 1, c) <= Sum(sc, 1, Len(sc)) /\ Sum(sc, 1, c) <= Len(got)
               /\ co[c] \in Nat
    <2>1. c \in 0..Len(sc) /\ c - 1 \in 0..Len(sc) BY <1>1
    <2> DEFINE b == c - 1
    <2>2. b \in 0..Len(sc) BY <2>1
    <2> HIDE DEF b
    <2>3. Sum(sc, 1, b) \in Nat BY <2>2, BeforeFacts
    <2>4. Sum(sc, 1, c) \in Nat /\ Sum(sc, 1, c) <= Sum(sc, 1, Len(sc)) BY <2>1, BeforeFacts
    <2>5. c \in DOMAIN co BY <1>1, <1>5
    <2>6. co[c] \in Nat BY <1>1, <2>5
    <2> QED BY <1>1, <1>3, <1>4, <2>1, <2>3, <2>4, <2>6 DEF b
  <1>7. ASSUME NEW k \in 1..Len(got)
        PROVE  sz[k] = Size(got[k].p) /\ Size(got[k].p) \in Nat /\ got[k] \in Got
    <2>1. got[k] \in Got OBVIOUS
    <2>2. got[k].p \in Packets BY <2>1 DEF Got
    <2> QED BY <2>1, <2>2, PacketFacts DEF Chunked
  <1>8. open # 0 => co[Len(co)] \in Nat BY <1>1, <1>5
  <1>9. Len(sz) = Len(got) BY DEF Chunked
  <1> QED BY <1>1, <1>3, <1>4, <1>5, <1>6, <1>7, <1>8, <1>9

\* The data of other tracks does not disturb a track whose chunks are closed,
\* and a chunk is closed by telling its length.
LEMMA OthersAppend ==
    ASSUME NEW co \in Seq(Nat), NEW sc \in Seq(Nat), NEW sz \in Seq(Nat), NEW got \in Seq(Got),
           NEW data \in Seq(Cells), NEW data2 \in Seq(Cells), Longer(data, data2),
           Chunked(co, sc, sz, got, data, 0)
    PROVE  Chunked(co, sc, sz, got, data2, 0)
  <1> DEFINE none == 0
  <1>0. none \in Nat /\ none = 0 OBVIOUS
  <1>1. Chunked(co, sc, sz, got, data, none) OBVIOUS
  <1> HIDE DEF none
  <1>2. /\ \A k \in 1..Len(got) : Size(got[k].p) \in Nat
        /\ \A c \in 1..Len(sc) : /\ Sum(sc, 1, c - 1) \in Nat /\ Sum(sc, 1, c) \in Nat
                                 /\ Sum(sc, 1, c) <= Len(got) /\ co[c] \in Nat
    BY <1>0, <1>1, ChunkedFacts
  <1>3. ASSUME NEW c \in 1..Len(sc)
        PROVE  Chunk(co[c], sz, got, data2, Sum(sc, 1, c - 1), Sum(sc, 1, c))
    <2>1. PICK from \in Nat, to \in Nat, at \in Nat :
            from = Sum(sc, 1, c - 1) /\ to = Sum(sc, 1, c) /\ at = co[c]
      BY <1>2
    <2>2. Chunk(at, sz, got, data, from, to) BY <1>1, <2>1 DEF Chunked
    <2>3. \A k \in 1..to : Size(got[k].p) \in Nat
      <3>1. to <= Len(got) BY <1>2, <2>1
      <3> QED BY <1>2, <3>1
    <2>4. Chunk(at, sz, got, data2, from, to) BY <2>2, <2>3, ChunkKept
    <2> QED BY <2>1, <2>4
  <1> QED BY <1>3 DEF Chunked

\* With its number of samples in the table, the chunk being filled is a chunk
\* like the others.
LEMMA ChunkCloses ==
    ASSUME NEW co \in Seq(Nat), NEW sc \in Seq(Nat), NEW sz \in Seq(Nat), NEW got \in Seq(Got),
           NEW data \in Seq(Cells), NEW open \in Nat, open # 0,
           Chunked(co, sc, sz, got, data, open)
    PROVE  Chunked(co, Append(sc, open), sz, got, data, 0)
  <1> DEFINE n == Len(sc)
             sc2 == Append(sc, open)
             n2 == n + 1
  <1>1. /\ n \in Nat /\ Len(co) = n + 1 /\ Sum(sc, 1, n) \in Nat
        /\ Sum(sc, 1, n) + open = Len(got)
    BY ChunkedFacts
  <1>2. /\ sc2 \in Seq(Nat) /\ Len(sc2) = n2 /\ sc2[n2] = open
        /\ \A k \in 1..n : sc2[k] = sc[k]
    OBVIOUS
  <1>3. n2 \in Nat /\ n2 - 1 = n /\ n2 = n + 1 /\ n2 \in Int BY <1>1
  <1> HIDE DEF sc2, n2
  <1>4. ASSUME NEW c \in 0..n PROVE Sum(sc2, 1, c) = Sum(sc, 1, c)
    <2>1. c \in Int /\ 1 \in Int /\ 1 - 1 <= c /\ \A k \in 1..c : sc2[k] = sc[k] BY <1>1, <1>2
    <2> HIDE DEF n
    <2> QED BY <2>1, SumSame
  <1>5. Sum(sc2, 1, n2) = Len(got)
    <2>1. 1 \in Int /\ 1 <= n2 BY <1>1, <1>3
    <2>2. Sum(sc2, 1, n2) = Sum(sc2, 1, n2 - 1) + sc2[n2] BY <1>3, <2>1, SumNext
    <2>3. n \in 0..n BY <1>1
    <2>4. Sum(sc2, 1, n) = Sum(sc, 1, n) BY <1>4, <2>3
    <2> QED BY <1>1, <1>2, <1>3, <2>2, <2>4
  <1>6. ASSUME NEW c \in 1..n2
        PROVE  Chunk(co[c], sz, got, data, Sum(sc2, 1, c - 1), Sum(sc2, 1, c))
    <2>1. CASE c = n2
      <3>1. Chunk(co[Len(co)], sz, got, data, Sum(sc, 1, n), Len(got)) BY DEF Chunked
      <3>2. n \in 0..n BY <1>1
      <3>3. Sum(sc2, 1, c - 1) = Sum(sc, 1, n) BY <1>3, <1>4, <2>1, <3>2
      <3> QED BY <1>1, <1>3, <1>5, <2>1, <3>1, <3>3
    <2>2. CASE c # n2
      <3>1. c \in 1..n /\ c \in 0..n /\ c - 1 \in 0..n BY <1>1, <1>3, <2>2
      <3>2. Chunk(co[c], sz, got, data, Sum(sc, 1, c - 1), Sum(sc, 1, c)) BY <3>1 DEF Chunked
      <3>3. Sum(sc2, 1, c - 1) = Sum(sc, 1, c - 1) /\ Sum(sc2, 1, c) = Sum(sc, 1, c)
        BY <1>4, <3>1
      <3> QED BY <3>2, <3>3
    <2> QED BY <2>1, <2>2
  <1>7. Len(sz) = Len(got) /\ \A k \in 1..Len(got) : sz[k] = Size(got[k].p) BY DEF Chunked
  <1>8. /\ Len(co) = Len(sc2) + 0 /\ Sum(sc2, 1, Len(sc2)) + 0 = Len(got)
    BY <1>1, <1>2, <1>3, <1>5
  <1>9. Chunked(co, sc2, sz, got, data, 0) BY <1>2, <1>6, <1>7, <1>8 DEF Chunked
  <1> QED BY <1>9 DEF sc2

\* The samples of a chunk that is open, behind number from, up to the last one:
\* the next sample of the track will lie behind them.
OpenChunk(at, sz, got, data, from) ==
    /\ Chunk(at, sz, got, data, from, Len(got))
    /\ at + Sum(sz, from + 1, Len(got)) = mdat_start_pos + Len(data)

\* A sample that comes to the media data is found at the end of its chunk.
LEMMA SampleJoins ==
    ASSUME NEW at, NEW sz, NEW got, NEW data, NEW from, NEW n, NEW p,
           at \in Nat, sz \in Seq(Nat), got \in Seq(Got), data \in Seq(Cells),
           from \in Nat, from <= Len(got), n \in Nat, p \in Packets,
           Len(sz) = Len(got), \A k \in 1..Len(got) : sz[k] = Size(got[k].p),
           OpenChunk(at, sz, got, data, from)
    PROVE  OpenChunk(at, Append(sz, Size(p)), Append(got, [n |-> n, p |-> p]),
                     data \o Data(n, p), from)
  <1> DEFINE t == [n |-> n, p |-> p]
             sz2 == Append(sz, Size(p))
             got2 == Append(got, t)
             data2 == data \o Data(n, p)
             l == Len(got)
             l2 == l + 1
             m == from + 1
  <1>1. Size(p) \in Nat /\ t \in Got BY PacketFacts DEF Got
  <1>2. /\ sz2 \in Seq(Nat) /\ Len(sz2) = l2 /\ sz2[l2] = Size(p)
        /\ \A k \in 1..l : sz2[k] = sz[k]
    BY <1>1
  <1>3. /\ got2 \in Seq(Got) /\ Len(got2) = l2 /\ got2[l2] = t
        /\ \A k \in 1..l : got2[k] = got[k]
    BY <1>1
  <1>4. /\ data2 \in Seq(Cells) /\ Len(data2) = Len(data) + Size(p)
        /\ Longer(data, data2) /\ Lies(data2, mdat_start_pos + Len(data), t)
    BY DataAppended
  <1>5. \A k \in 1..l : Size(got[k].p) \in Nat
    <2>1. ASSUME NEW k \in 1..l PROVE got[k].p \in Packets
      <3>1. got[k] \in Got OBVIOUS
      <3> QED BY <3>1 DEF Got
    <2> QED BY <2>1, PacketFacts
  <1>6. /\ l \in Nat /\ l2 \in Int /\ m \in Int /\ m <= l2 /\ m - 1 <= l /\ l2 - 1 = l
        /\ l \in Int /\ m - 1 = from /\ l2 = l + 1 /\ m = from + 1 /\ from <= l
    OBVIOUS
  <1>7. Len(data) \in Nat /\ mdat_start_pos \in Nat BY StartFacts
  <1> HIDE DEF t, sz2, got2, data2
  <1>8. Chunk(at, sz2, got2, data2, from, l)
    <2>1. l \in Nat /\ Chunk(at, sz, got, data, from, l) BY DEF OpenChunk
    <2>2. \A k \in 1..l : sz2[k] = sz[k] /\ got2[k] = got[k] BY <1>2, <1>3
    <2> HIDE DEF l
    <2> QED BY <1>4, <1>5, <2>1, <2>2, ChunkKept
  <1>9. at + Sum(sz, m, l) = mdat_start_pos + Len(data) BY DEF OpenChunk
  <1> HIDE DEF l, l2, m
  <1>10. Sum(sz2, m, l) = Sum(sz, m, l)
    <2>0. \A k \in m..l : k \in 1..l BY <1>6
    <2>1. \A k \in m..l : sz2[k] = sz[k] BY <1>2, <2>0
    <2> QED BY <1>6, <2>1, SumSame
  <1>11. Sum(sz2, m, l2) = Sum(sz, m, l) + Size(p)
    <2>1. Sum(sz2, m, l2) = Sum(sz2, m, l2 - 1) + sz2[l2] BY <1>6, SumNext
    <2> QED BY <1>2, <1>6, <1>10, <2>1
  <1>12. Sum(sz, m, l) \in Nat
    <2>1. \A k \in m..l : sz[k] \in Nat
      <3>1. \A k \in m..l : k \in 1..l BY <1>6
      <3> QED BY <1>5, <3>1 DEF l
    <2>2. l \in (m - 1)..l BY <1>6
    <2> QED BY <1>6, <2>1, <2>2, SumNat
  <1>13. at + Sum(sz2, m, l2) = mdat_start_pos + Len(data2)
    <2>1. at \in Nat /\ Sum(sz, m, l) \in Nat /\ Len(data) \in Nat /\ Size(p) \in Nat
          /\ mdat_start_pos \in Nat
      BY <1>1, <1>7, <1>12
    <2>2. at + Sum(sz, m, l) + Size(p) = mdat_start_pos + Len(data) + Size(p)
      BY ONLY <1>9
    <2>3. at + (Sum(sz, m, l) + Size(p)) = mdat_start_pos + (Len(data) + Size(p))
      BY ONLY <2>1, <2>2
    <2> QED BY <1>4, <1>11, <2>3
  <1>14. Chunk(at, sz2, got2, data2, from, l2)
    <2> SUFFICES ASSUME NEW k \in m..l2
                 PROVE  Lies(data2, at + Sum(sz2, m, k - 1), got2[k])
      BY DEF Chunk, m
    <2>1. CASE k = l2
      <3>1. Sum(sz2, m, k - 1) = Sum(sz, m, l) BY <1>6, <1>10, <2>1
      <3> QED BY <1>3, <1>4, <1>9, <2>1, <3>1
    <2>2. CASE k # l2
      <3>1. k \in (from + 1)..l BY <1>6, <2>2
      <3> QED BY <1>8, <3>1 DEF Chunk, m
    <2> QED BY <2>1, <2>2
  <1>15. OpenChunk(at, sz2, got2, data2, from) BY <1>3, <1>13, <1>14 DEF OpenChunk, m
  <1> QED BY <1>15 DEF t, sz2, got2, data2

\* A packet of the track that was written to last: its sample joins the chunk.
LEMMA NextSample ==
    ASSUME NEW co \in Seq(Nat), NEW sc \in Seq(Nat), NEW sz \in Seq(Nat), NEW got \in Seq(Got),
           NEW data \in Seq(Cells), NEW open \in Nat, open # 0,
           Chunked(co, sc, sz, got, data, open), NEW n \in Nat, NEW p \in Packets
    PROVE  Chunked(co, sc, Append(sz, Size(p)), Append(got, [n |-> n, p |-> p]),
                   data \o Data(n, p), open + 1)
  <1> DEFINE t == [n |-> n, p |-> p]
             sz2 == Append(sz, Size(p))
             got2 == Append(got, t)
             data2 == data \o Data(n, p)
             from == Sum(sc, 1, Len(sc))
             at == co[Len(co)]
  <1>1. Size(p) \in Nat /\ t \in Got BY PacketFacts DEF Got
  <1>2. /\ Len(sz) \in Nat /\ Len(sz) = Len(got) /\ Len(co) = Len(sc) + 1 /\ at \in Nat
        /\ from \in Nat /\ from + open = Len(got) /\ from <= Len(got) /\ Len(sc) \in Nat
        /\ \A k \in 1..Len(got) : sz[k] = Size(got[k].p) /\ Size(got[k].p) \in Nat
        /\ \A c \in 1..Len(sc) : /\ Sum(sc, 1, c - 1) \in Nat /\ Sum(sc, 1, c) \in Nat
                                 /\ Sum(sc, 1, c) <= Len(got) /\ co[c] \in Nat
    BY ChunkedFacts, SMTT(30)
  <1>3. /\ sz2 \in Seq(Nat) /\ Len(sz2) = Len(got) + 1 /\ sz2[Len(got) + 1] = Size(p)
        /\ \A k \in 1..Len(got) : sz2[k] = sz[k]
    <2>1. /\ sz2 \in Seq(Nat) /\ Len(sz2) = Len(sz) + 1 /\ sz2[Len(sz) + 1] = Size(p)
          /\ \A k \in 1..Len(sz) : sz2[k] = sz[k]
      BY <1>1
    <2> HIDE DEF sz2
    <2> QED BY <1>2, <2>1
  <1>4. /\ got2 \in Seq(Got) /\ Len(got2) = Len(got) + 1 /\ got2[Len(got) + 1] = t
        /\ \A k \in 1..Len(got) : got2[k] = got[k]
    BY <1>1
  <1>5. data2 \in Seq(Cells) /\ Longer(data, data2) BY DataAppended
  <1>6. /\ Chunk(at, sz, got, data, from, Len(got))
        /\ at + Sum(sz, from + 1, Len(got)) = mdat_start_pos + Len(data)
    BY DEF Chunked
  <1>7. /\ Chunk(at, sz2, got2, data2, from, Len(got2))
        /\ at + Sum(sz2, from + 1, Len(got2)) = mdat_start_pos + Len(data2)
    <2> HIDE DEF from, at
    <2>1. \A k \in 1..Len(got) : sz[k] = Size(got[k].p) BY <1>2
    <2>2. /\ at \in Nat /\ sz \in Seq(Nat) /\ got \in Seq(Got) /\ data \in Seq(Cells)
          /\ from \in Nat /\ from <= Len(got) /\ n \in Nat /\ p \in Packets
          /\ Len(sz) = Len(got)
      BY <1>2
    <2>3. OpenChunk(at, sz, got, data, from) BY <1>6 DEF OpenChunk
    <2>7. OpenChunk(at, sz2, got2, data2, from) BY <2>1, <2>2, <2>3, SampleJoins
    <2> HIDE DEF sz2, got2, data2
    <2> QED BY <2>7 DEF OpenChunk
  <1> HIDE DEF t, sz2, got2, data2
  <1>8. ASSUME NEW c \in 1..Len(sc)
        PROVE  Chunk(co[c], sz2, got2, data2, Sum(sc, 1, c - 1), Sum(sc, 1, c))
    <2>1. PICK f \in Nat, to \in Nat, a \in Nat :
            f = Sum(sc, 1, c - 1) /\ to = Sum(sc, 1, c) /\ a = co[c]
      BY <1>2
    <2>2. Chunk(a, sz, got, data, f, to) BY <2>1 DEF Chunked
    <2>3. \A k \in 1..to : k \in 1..Len(got)
      <3>1. to <= Len(got) BY <1>2, <2>1
      <3> QED BY <3>1
    <2>4. /\ \A k \in 1..to : sz2[k] = sz[k] /\ got2[k] = got[k]
          /\ \A k \in 1..to : Size(got[k].p) \in Nat
      BY <1>2, <1>3, <1>4, <2>3
    <2>5. Chunk(a, sz2, got2, data2, f, to) BY <1>5, <2>2, <2>4, ChunkKept
    <2> QED BY <2>1, <2>5
  <1>9. ASSUME NEW k \in 1..Len(got2) PROVE sz2[k] = Size(got2[k].p)
    <2>1. CASE k = Len(got) + 1 BY <1>3, <1>4, <2>1 DEF t
    <2>2. CASE k # Len(got) + 1
      <3>1. k \in 1..Len(got) BY <1>2, <1>4, <2>2
      <3> QED BY <1>2, <1>3, <1>4, <3>1
    <2> QED BY <2>1, <2>2
  <1>10. open + 1 # 0 /\ from + (open + 1) = Len(got2)
    <2> HIDE DEF from
    <2>1. /\ from \in Nat /\ Len(got) \in Nat /\ from + open = Len(got)
          /\ Len(got2) = Len(got) + 1
      BY <1>2, <1>4
    <2> QED BY ONLY <2>1, open \in Nat
  <1>11. Chunked(co, sc, sz2, got2, data2, open + 1)
    BY <1>2, <1>3, <1>4, <1>7, <1>8, <1>9, <1>10 DEF Chunked
  <1> QED BY <1>11 DEF t, sz2, got2, data2

\* A packet after one of the other track: its sample begins a chunk.
LEMMA NewChunk ==
    ASSUME NEW co \in Seq(Nat), NEW sc \in Seq(Nat), NEW sz \in Seq(Nat), NEW got \in Seq(Got),
           NEW data \in Seq(Cells), Chunked(co, sc, sz, got, data, 0),
           NEW n \in Nat, NEW p \in Packets
    PROVE  Chunked(Append(co, Len(data) + mdat_start_pos), sc, Append(sz, Size(p)),
                   Append(got, [n |-> n, p |-> p]), data \o Data(n, p), 1)
  <1> DEFINE t == [n |-> n, p |-> p]
             at == Len(data) + mdat_start_pos
             co2 == Append(co, at)
             sz2 == Append(sz, Size(p))
             got2 == Append(got, t)
             data2 == data \o Data(n, p)
             from == Len(got)
             none == 0
             one == 1
  <1>0. none \in Nat /\ none = 0 /\ one \in Nat /\ one # 0 /\ one = 1 OBVIOUS
  <1>1. Size(p) \in Nat /\ t \in Got /\ at \in Nat /\ Len(data) \in Nat /\ mdat_start_pos \in Nat
    BY PacketFacts, StartFacts DEF Got
  <1>2. /\ Len(sz) \in Nat /\ Len(sz) = Len(got) /\ Len(co) = Len(sc) /\ Len(sc) \in Nat
        /\ Sum(sc, 1, Len(sc)) = Len(got)
        /\ \A k \in 1..Len(got) : sz[k] = Size(got[k].p) /\ Size(got[k].p) \in Nat
        /\ \A c \in 1..Len(sc) : /\ Sum(sc, 1, c - 1) \in Nat /\ Sum(sc, 1, c) \in Nat
                                 /\ Sum(sc, 1, c) <= Len(got) /\ co[c] \in Nat
    <2> HIDE DEF none
    <2>1. Chunked(co, sc, sz, got, data, none) BY <1>0
    <2>2. Sum(sc, 1, Len(sc)) \in Nat /\ Sum(sc, 1, Len(sc)) + none = Len(got)
      BY <1>0, <2>1, ChunkedFacts
    <2>3. Sum(sc, 1, Len(sc)) = Len(got) BY <1>0, <2>2
    <2> QED BY <1>0, <2>1, <2>3, ChunkedFacts
  <1>3. /\ sz2 \in Seq(Nat) /\ Len(sz2) = Len(got) + 1 /\ sz2[Len(got) + 1] = Size(p)
        /\ \A k \in 1..Len(got) : sz2[k] = sz[k]
    <2>1. /\ sz2 \in Seq(Nat) /\ Len(sz2) = Len(sz) + 1 /\ sz2[Len(sz) + 1] = Size(p)
          /\ \A k \in 1..Len(sz) : sz2[k] = sz[k]
      BY <1>1
    <2> HIDE DEF sz2
    <2> QED BY <1>2, <2>1
  <1>4. /\ got2 \in Seq(Got) /\ Len(got2) = Len(got) + 1 /\ got2[Len(got) + 1] = t
        /\ \A k \in 1..Len(got) : got2[k] = got[k]
    BY <1>1
  <1>5. data2 \in Seq(Cells) /\ Longer(data, data2) BY DataAppended
  <1>6. /\ co2 \in Seq(Nat) /\ Len(co2) = Len(sc) + 1 /\ co2[Len(co2)] = at
        /\ \A c \in 1..Len(sc) : co2[c] = co[c]
    BY <1>1, <1>2
  <1>7. /\ Chunk(at, sz2, got2, data2, from, Len(got2))
        /\ at + Sum(sz2, from + 1, Len(got2)) = mdat_start_pos + Len(data2)
    <2>1. from \in Nat /\ from <= Len(got) OBVIOUS
    <2>2. Chunk(at, sz, got, data, from, Len(got))
      <3>1. (from + 1)..Len(got) = {} OBVIOUS
      <3> QED BY <3>1 DEF Chunk
    <2>3. at + Sum(sz, from + 1, Len(got)) = mdat_start_pos + Len(data)
      <3> DEFINE m == from + 1
      <3>1. m \in Int /\ m - 1 = Len(got) OBVIOUS
      <3> HIDE DEF m
      <3>2. Sum(sz, m, m - 1) = 0 BY <3>1, SumEmpty
      <3>3. at + 0 = mdat_start_pos + Len(data) BY <1>1
      <3> QED BY <3>1, <3>2, <3>3 DEF m
    <2> HIDE DEF from, at
    <2>4. \A k \in 1..Len(got) : sz[k] = Size(got[k].p) BY <1>2
    <2>5. /\ at \in Nat /\ sz \in Seq(Nat) /\ got \in Seq(Got) /\ data \in Seq(Cells)
          /\ from \in Nat /\ from <= Len(got) /\ n \in Nat /\ p \in Packets
          /\ Len(sz) = Len(got)
      BY <1>1, <1>2, <2>1
    <2>6. OpenChunk(at, sz, got, data, from) BY <2>2, <2>3 DEF OpenChunk
    <2>7. OpenChunk(at, sz2, got2, data2, from) BY <2>4, <2>5, <2>6, SampleJoins
    <2> HIDE DEF sz2, got2, data2
    <2> QED BY <2>7 DEF OpenChunk
  <1> HIDE DEF t, sz2, got2, data2, co2
  <1>8. ASSUME NEW c \in 1..Len(sc)
        PROVE  Chunk(co2[c], sz2, got2, data2, Sum(sc, 1, c - 1), Sum(sc, 1, c))
    <2>1. PICK f \in Nat, to \in Nat, a \in Nat :
            f = Sum(sc, 1, c - 1) /\ to = Sum(sc, 1, c) /\ a = co[c]
      BY <1>2
    <2>2. Chunk(a, sz, got, data, f, to) BY <2>1 DEF Chunked
    <2>3. \A k \in 1..to : k \in 1..Len(got)
      <3>1. to <= Len(got) BY <1>2, <2>1
      <3> QED BY <3>1
    <2>4. /\ \A k \in 1..to : sz2[k] = sz[k] /\ got2[k] = got[k]
          /\ \A k \in 1..to : Size(got[k].p) \in Nat
      BY <1>2, <1>3, <1>4, <2>3
    <2>5. Chunk(a, sz2, got2, data2, f, to) BY <1>5, <2>2, <2>4, ChunkKept
    <2> QED BY <1>6, <2>1, <2>5
  <1>9. ASSUME NEW k \in 1..Len(got2) PROVE sz2[k] = Size(got2[k].p)
    <2>1. CASE k = Len(got) + 1 BY <1>3, <1>4, <2>1 DEF t
    <2>2. CASE k # Len(got) + 1
      <3>1. k \in 1..Len(got) BY <1>2, <1>4, <2>2
      <3> QED BY <1>2, <1>3, <1>4, <3>1
    <2> QED BY <2>1, <2>2
  <1>10. Sum(sc, 1, Len(sc)) + one = Len(got2) BY <1>0, <1>2, <1>4
  <1>11. /\ Chunk(co2[Len(co2)], sz2, got2, data2, Sum(sc, 1, Len(sc)), Len(got2))
         /\ co2[Len(co2)] + Sum(sz2, Sum(sc, 1, Len(sc)) + 1, Len(got2)) = mdat_start_pos + Len(data2)
    BY <1>2, <1>6, <1>7
  <1> HIDE DEF one
  <1>12. Chunked(co2, sc, sz2, got2, data2, one)
    BY <1>0, <1>2, <1>3, <1>4, <1>6, <1>8, <1>9, <1>10, <1>11 DEF Chunked
  <1> QED BY <1>12 DEF t, sz2, got2, data2, co2, one

\* Every sample lies in a chunk.
LEMMA InSomeChunk ==
    ASSUME NEW sc \in Seq(Nat), NEW k \in 1..Sum(sc, 1, Len(sc))
    PROVE  \E c \in 1..Len(sc) : Sum(sc, 1, c - 1) < k /\ k <= Sum(sc, 1, c)
  <1> DEFINE Reach == {c \in 0..Len(sc) : k <= Sum(sc, 1, c)}
  <1>0. Len(sc) \in Nat /\ Len(sc) \in 0..Len(sc) OBVIOUS
  <1>1. Sum(sc, 1, Len(sc)) \in Nat BY <1>0, BeforeFacts
  <1>2. Reach \subseteq Nat /\ Len(sc) \in Reach BY <1>0, <1>1
  <1>3. PICK c \in Reach : \A d \in Reach : c <= d BY <1>2, Least
  <1>4. c \in 0..Len(sc) /\ k <= Sum(sc, 1, c) OBVIOUS
  <1>5. c # 0
    <2>1. 1 \in Int /\ 1 - 1 = 0 OBVIOUS
    <2>2. Sum(sc, 1, 0) = 0 BY <2>1, SumEmpty
    <2> QED BY <1>1, <1>4, <2>2
  <1>6. c - 1 \in 0..Len(sc) /\ ~(c <= c - 1) /\ c \in 1..Len(sc) BY <1>0, <1>4, <1>5
  <1>7. c - 1 \notin Reach BY <1>3, <1>6
  <1>8. ~(k <= Sum(sc, 1, c - 1)) BY <1>6, <1>7
  <1>9. Sum(sc, 1, c - 1) \in Nat
    <2> DEFINE b == c - 1
    <2>1. b \in 0..Len(sc) BY <1>6
    <2> HIDE DEF b
    <2>2. Sum(sc, 1, b) \in Nat BY <2>1, BeforeFacts
    <2> QED BY <2>2 DEF b
  <1>10. Sum(sc, 1, c - 1) < k BY <1>1, <1>8, <1>9
  <1> QED BY <1>4, <1>6, <1>10

\* What a player finds with the tables of a track whose chunks are all closed.
LEMMA SampleFound ==
    ASSUME NEW t, t.stco \in Seq(Nat), t.stsc \in Seq(Nat), t.stsz \in Seq(Nat),
           NEW got \in Seq(Got), NEW k \in 1..Len(got), file.mdat \in Seq(Cells),
           Chunked(t.stco, t.stsc, t.stsz, got, file.mdat, 0)
    PROVE  Contents(OffsetOf(t, k), t.stsz[k]) = Sample(got[k].n, got[k].p)
  <1> DEFINE co == t.stco
             sc == t.stsc
             sz == t.stsz
             data == file.mdat
             none == 0
             c == ChunkOf(t, k)
             off == OffsetOf(t, k)
             g == got[k]
             o == off - mdat_start_pos
  <1>0. none \in Nat /\ none = 0 OBVIOUS
  <1>1. /\ Sum(sc, 1, Len(sc)) = Len(got) /\ sz[k] = Size(g.p) /\ Size(g.p) \in Nat
        /\ g \in Got
    <2>1. Chunked(co, sc, sz, got, data, none) OBVIOUS
    <2> HIDE DEF none, co, sc, sz, data
    <2>2. co \in Seq(Nat) /\ sc \in Seq(Nat) /\ sz \in Seq(Nat) BY DEF co, sc, sz
    <2>3. Sum(sc, 1, Len(sc)) \in Nat /\ Sum(sc, 1, Len(sc)) + none = Len(got)
      BY <1>0, <2>1, <2>2, ChunkedFacts
    <2>4. Sum(sc, 1, Len(sc)) = Len(got) BY <1>0, <2>3
    <2>5. sz[k] = Size(g.p) /\ Size(g.p) \in Nat /\ g \in Got
      BY <1>0, <2>1, <2>2, ChunkedFacts
    <2> QED BY <2>4, <2>5
  <1>2. c \in 1..Len(sc) /\ Sum(sc, 1, c - 1) < k /\ k <= Sum(sc, 1, c)
    <2>1. k \in 1..Sum(sc, 1, Len(sc)) BY <1>1
    <2>2. \E d \in 1..Len(sc) : Sum(sc, 1, d - 1) < k /\ k <= Sum(sc, 1, d)
      <3> HIDE DEF sc
      <3>1. sc \in Seq(Nat) BY DEF sc
      <3> QED BY <2>1, <3>1, InSomeChunk
    <2>3. DOMAIN sc = 1..Len(sc) OBVIOUS
    <2>4. c = CHOOSE d \in 1..Len(sc) : Sum(sc, 1, d - 1) < k /\ k <= Sum(sc, 1, d)
      BY <2>3 DEF ChunkOf
    <2> HIDE DEF c, sc
    <2> QED BY <2>2, <2>4
  <1>3. off = co[c] + Sum(sz, Sum(sc, 1, c - 1) + 1, k - 1) BY DEF OffsetOf
  <1>4. Chunk(co[c], sz, got, data, Sum(sc, 1, c - 1), Sum(sc, 1, c)) BY <1>2 DEF Chunked
  <1>5. k \in (Sum(sc, 1, c - 1) + 1)..Sum(sc, 1, c)
    <2>1. Sum(sc, 1, c - 1) \in Nat /\ Sum(sc, 1, c) \in Nat
      <3>1. sc \in Seq(Nat) /\ Len(sc) \in Nat OBVIOUS
      <3> DEFINE b == c - 1
      <3> HIDE DEF sc, c
      <3>2. b \in 0..Len(sc) /\ c \in 0..Len(sc) BY <1>2, <3>1
      <3> HIDE DEF b
      <3>3. Sum(sc, 1, b) \in Nat /\ Sum(sc, 1, c) \in Nat BY <3>1, <3>2, BeforeFacts
      <3> QED BY <3>3 DEF b
    <2> HIDE DEF sc, c
    <2> QED BY <1>2, <2>1
  <1> HIDE DEF c, off
  <1>6. Lies(data, off, g) BY <1>3, <1>4, <1>5 DEF Chunk
  <1>7. /\ o \in Nat /\ o + Size(g.p) <= Len(data)
        /\ \A j \in 1..Size(g.p) : data[o + j] = Sample(g.n, g.p)[j]
    BY <1>6 DEF Lies
  <1>8. Sample(g.n, g.p) \in Seq(Cells) /\ Len(Sample(g.n, g.p)) = Size(g.p)
    <2>1. g.n \in Nat /\ g.p \in Packets BY <1>1 DEF Got
    <2> QED BY <2>1, DataIsSample
  <1>9. DOMAIN data = 1..Len(data) /\ Len(data) \in Nat OBVIOUS
  <1>10. Contents(off, sz[k])
            = [j \in 1..Size(g.p) |-> IF o + j \in DOMAIN data THEN data[o + j] ELSE JUNK]
    BY <1>1 DEF Contents
  <1> HIDE DEF o, g, data, sz, co
  <1>11. ASSUME NEW j \in 1..Size(g.p)
         PROVE  (IF o + j \in DOMAIN data THEN data[o + j] ELSE JUNK) = Sample(g.n, g.p)[j]
    <2>1. o + j \in 1..Len(data) BY <1>1, <1>7, <1>9
    <2> QED BY <1>7, <1>9, <2>1
  <1> DEFINE s == Sample(g.n, g.p)
  <1>12. s = [j \in 1..Size(g.p) |-> s[j]]
    <2> HIDE DEF s
    <2>1. s \in Seq(Cells) /\ Len(s) = Size(g.p) BY <1>8 DEF s
    <2> QED BY <2>1
  <1>13. Contents(off, sz[k]) = s BY <1>10, <1>11, <1>12
  <1> QED BY <1>13 DEF off, sz, g

-----------------------------------------------------------------------------
\* A table as a reader finds it.
Read(s) == [k \in 1..count[s] |-> inf[Base(s) + k - 1]]

Entry == Int \cup {JUNK}

\* The types the other invariants rest on.
Kept ==
    /\ life \in {"none", "opened", "writing", "finished", "closed", "corrupt"}
    /\ drv \in [stream : BOOLEAN, mode : {"thread", "simple"}, sized : BOOLEAN,
                codec : {"H264", "MJPEG"}, mTrackCnt : {0, 2},
                csd : [Tracks -> AudioCsds \cup VideoCsds \cup {<<>>}]]
    /\ drv.codec \in Codecs \cup {"H264"}
    /\ drv.csd[0] \in VideoCsds \cup {<<>>} /\ drv.csd[1] \in AudioCsds \cup {<<>>}
    /\ life \in {"writing", "finished"} => drv.mTrackCnt = 2
    /\ count \in [Slots -> Nat] /\ inf \in [Addresses -> Entry]
    /\ keys \in Seq(Nat \ {0}) /\ mdat_size \in Nat /\ stsc_cnt \in Nat
    /\ last_stream_idx \in Tracks \cup {-1}
    /\ DOMAIN file = {"box", "mdat", "moov"} /\ file.mdat \in Seq(Cells)
    /\ mdat_size = Len(file.mdat)
    /\ taken \in [Tracks -> Seq(Got)]

\* Before the header nothing is recorded.
Fresh ==
    life \in {"none", "opened"} =>
        /\ count = [s \in Slots |-> 0] /\ keys = <<>> /\ stsc_cnt = 0
        /\ last_stream_idx = -1 /\ taken = [i \in Tracks |-> <<>>]
        /\ mdat_size = 0 /\ file = NoFile

\* The samples of the track that was written to last wait for their chunk to end.
Waiting(i) == IF i = last_stream_idx THEN stsc_cnt ELSE 0

\* No packet of track i is refused.
Accepted(i) == i = 0 => drv.codec = "H264"

\* While packets come, the tables tell where their samples are.
Recording ==
    life = "writing" =>
        /\ last_stream_idx # -1 => stsc_cnt > 0
        /\ \A i \in Tracks :
              /\ Accepted(i) => count[<<"stsz", i>>] = Len(taken[i])
              /\ Fits(i) /\ Accepted(i) =>
                    /\ \A id \in {"stco", "stsz", "stsc"} : Read(<<id, i>>) \in Seq(Nat)
                    /\ Chunked(Read(<<"stco", i>>), Read(<<"stsc", i>>), Read(<<"stsz", i>>),
                               taken[i], file.mdat, Waiting(i))

\* The tables the trailer writes tell it with every chunk closed.
Finished ==
    life = "finished" => \A i \in Tracks :
        Fits(i) /\ Accepted(i) =>
            /\ i \notin DOMAIN moov => taken[i] = <<>>
            /\ i \in DOMAIN moov =>
                  /\ \A id \in {"stco", "stsz", "stsc"} : moov[i][id] \in Seq(Nat)
                  /\ Chunked(moov[i].stco, moov[i].stsc, moov[i].stsz, taken[i], file.mdat, 0)

\* Each video sample has its duration, and a key frame its number.
Numbering ==
    life = "writing" /\ Accepted(0) =>
        /\ count[<<"stts", 0>>] = Len(taken[0])
        /\ \A k \in DOMAIN taken[0] :
              (\E j \in DOMAIN keys : keys[j] = k) <=> taken[0][k].p.idr
        /\ \A j \in DOMAIN keys : keys[j] <= Len(taken[0])
        /\ \A j, l \in DOMAIN keys : j < l => keys[j] < keys[l]
        /\ Fits(0) => \A k \in 1..Len(taken[0]) : Read(<<"stts", 0>>)[k] = taken[0][k].p.duration

IInv == Kept /\ Fresh /\ Recording /\ Finished /\ Numbering

\* The entry of a table s at one of its addresses, after new entries.
LEMMA EntryAfter ==
    ASSUME NEW new, DOMAIN new \subseteq Slots, Enter(new), count \in [Slots -> Nat],
           NEW s \in Slots, NEW a \in Room(s)
    PROVE  inf'[a] = IF s \in DOMAIN new /\ At(s) = a THEN new[s] ELSE inf[a]
  <1>1. a \in Addresses BY RoomFacts
  <1>2. inf'[a] = IF \E u \in DOMAIN new : At(u) = a
                  THEN new[CHOOSE u \in DOMAIN new : At(u) = a] ELSE inf[a]
    BY <1>1 DEF Enter
  <1>3. ASSUME NEW u \in Slots PROVE At(u) \in Room(u)
    <2>1. PICK c \in Nat, b \in Nat, n \in Nat \ {0} : c = count[u] /\ b = Base(u) /\ n = Cap(u)
      BY CapFacts, RoomFacts
    <2>2. c % n \in 0..(n - 1) OBVIOUS
    <2>3. b + (c % n) \in b..(b + n - 1) BY <2>2
    <2> QED BY <2>1, <2>3 DEF At, Room
  <1>4. \A u \in DOMAIN new : At(u) = a => u = s BY <1>3, RoomsApart
  <1>5. CASE s \in DOMAIN new /\ At(s) = a
    <2>1. s = CHOOSE u \in DOMAIN new : At(u) = a BY <1>4, <1>5
    <2> QED BY <1>2, <1>5, <2>1
  <1>6. CASE ~(s \in DOMAIN new /\ At(s) = a) BY <1>2, <1>4, <1>6
  <1> QED BY <1>5, <1>6

\* What a reader finds in table s, after new entries, if it does not overflow.
LEMMA ReadAfter ==
    ASSUME NEW new, DOMAIN new \subseteq Slots, Enter(new), count \in [Slots -> Nat],
           inf \in [Addresses -> Entry], NEW s \in Slots, count'[s] <= Cap(s)
    PROVE  Read(s)' = IF s \in DOMAIN new THEN Append(Read(s), new[s]) ELSE Read(s)
  <1>1. PICK c \in Nat, b \in Nat, n \in Nat \ {0} : c = count[s] /\ b = Base(s) /\ n = Cap(s)
    BY CapFacts, RoomFacts
  <1>2. count'[s] = c + IF s \in DOMAIN new THEN 1 ELSE 0 BY <1>1 DEF Enter
  <1>3. Read(s)' = [k \in 1..count'[s] |-> inf'[b + k - 1]] BY <1>1 DEF Read
  <1>4. Read(s) = [k \in 1..c |-> inf[b + k - 1]] BY <1>1 DEF Read
  <1>5. c <= n /\ (s \in DOMAIN new => c < n) BY <1>1, <1>2
  <1>6. Room(s) = b..(b + n - 1) BY <1>1 DEF Room
  <1>7. s \in DOMAIN new => At(s) = b + c
    <2>1. ASSUME c < n PROVE c % n = c BY <2>1
    <2> QED BY <1>1, <1>5, <2>1 DEF At
  <1>8. ASSUME NEW k \in 1..c PROVE inf'[b + k - 1] = inf[b + k - 1]
    <2> DEFINE a == b + k - 1
    <2>1. a \in b..(b + n - 1) /\ a # b + c BY <1>5
    <2>2. a \in Room(s) BY <1>6, <2>1
    <2> HIDE DEF a
    <2>3. inf'[a] = inf[a] BY <1>7, <2>1, <2>2, EntryAfter
    <2> QED BY <2>3 DEF a
  <1>9. \A k \in 1..c : inf[b + k - 1] \in Entry
    <2>1. Room(s) \subseteq Addresses BY RoomFacts
    <2> QED BY <1>5, <1>6, <2>1
  <1>10. CASE s \in DOMAIN new
    <2>1. b + c \in Room(s) BY <1>5, <1>6, <1>10
    <2>2. inf'[b + c] = new[s] BY <1>7, <1>10, <2>1, EntryAfter
    <2>3. Read(s)' = [k \in 1..(c + 1) |-> inf'[b + k - 1]] BY <1>2, <1>3, <1>10
    <2>4. Read(s) \in Seq(Entry) /\ Len(Read(s)) = c BY <1>4, <1>9
    <2>5. Append(Read(s), new[s]) = [k \in 1..(c + 1) |-> IF k = c + 1 THEN new[s] ELSE Read(s)[k]]
      BY <2>4
    <2>6. ASSUME NEW k \in 1..(c + 1)
          PROVE  inf'[b + k - 1] = IF k = c + 1 THEN new[s] ELSE Read(s)[k]
      <3>1. CASE k = c + 1
        <4>1. b + k - 1 = b + c BY <3>1
        <4> QED BY <2>2, <3>1, <4>1
      <3>2. CASE k # c + 1
        <4>1. k \in 1..c BY <3>2
        <4> QED BY <1>4, <1>8, <3>2, <4>1
      <3> QED BY <3>1, <3>2
    <2> QED BY <1>10, <2>3, <2>5, <2>6
  <1>11. CASE s \notin DOMAIN new
    <2>1. Read(s)' = [k \in 1..c |-> inf'[b + k - 1]] BY <1>2, <1>3, <1>11
    <2> QED BY <1>4, <1>8, <1>11, <2>1
  <1> QED BY <1>10, <1>11

\* New entries keep the types of the tables.
LEMMA EnterTypes ==
    ASSUME NEW new, DOMAIN new \subseteq Slots, \A s \in DOMAIN new : new[s] \in Entry,
           Enter(new), count \in [Slots -> Nat], inf \in [Addresses -> Entry]
    PROVE  /\ count' \in [Slots -> Nat] /\ inf' \in [Addresses -> Entry]
           /\ \A s \in Slots : count'[s] = count[s] + IF s \in DOMAIN new THEN 1 ELSE 0
  <1>1. count' = [s \in Slots |-> count[s] + IF s \in DOMAIN new THEN 1 ELSE 0] BY DEF Enter
  <1>2. ASSUME NEW a \in Addresses
        PROVE  (IF \E s \in DOMAIN new : At(s) = a
                THEN new[CHOOSE s \in DOMAIN new : At(s) = a] ELSE inf[a]) \in Entry
    <2>1. CASE \E s \in DOMAIN new : At(s) = a
      <3>1. (CHOOSE s \in DOMAIN new : At(s) = a) \in DOMAIN new BY <2>1
      <3> QED BY <2>1, <3>1
    <2> QED BY <2>1
  <1> QED BY <1>1, <1>2 DEF Enter

\* The tables a packet gets entries in, and the entries.
LEMMA EntriesFacts ==
    ASSUME NEW p \in Packets, Kept
    PROVE  LET i == p.stream_idx
               new == Entries(p)
           IN /\ DOMAIN new \subseteq Slots /\ \A s \in DOMAIN new : new[s] \in Entry
              /\ \A j \in Tracks :
                    /\ <<"stco", j>> \in DOMAIN new <=> j = i /\ i # last_stream_idx
                    /\ <<"stsc", j>> \in DOMAIN new <=> j = last_stream_idx /\ i # last_stream_idx
                    /\ <<"stsz", j>> \in DOMAIN new <=> j = i
              /\ <<"stts", 0>> \in DOMAIN new <=> i = 0
              /\ <<"stco", i>> \in DOMAIN new => new[<<"stco", i>>] = mdat_size + mdat_start_pos
              /\ <<"stsc", last_stream_idx>> \in DOMAIN new =>
                    new[<<"stsc", last_stream_idx>>] = stsc_cnt
              /\ new[<<"stsz", i>>] = Size(p)
              /\ i = 0 => new[<<"stts", 0>>] = p.duration
  <1> DEFINE i == p.stream_idx
             new == Entries(p)
             l == last_stream_idx
             slots == {s \in Slots : \/ s \in {<<"stsz", i>>, <<"stts", i>>}
                                     \/ i # l /\ s \in {<<"stco", i>>, <<"stsc", l>>}}
  <1>1. /\ i \in Tracks /\ Size(p) \in Nat /\ p.duration \in Nat /\ mdat_start_pos \in Nat
        /\ mdat_size \in Nat /\ stsc_cnt \in Nat /\ l \in Tracks \cup {-1}
    BY PacketFacts, StartFacts DEF Kept
  <1>2. new = [s \in slots |-> CASE s[1] = "stco" -> mdat_size + mdat_start_pos
                                 [] s[1] = "stsc" -> stsc_cnt
                                 [] s[1] = "stsz" -> Size(p)
                                 [] s[1] = "stts" -> p.duration]
    BY DEF Entries
  <1>3. DOMAIN new = slots /\ slots \subseteq Slots BY <1>2
  <1>4. \A s \in slots : s[1] \in {"stco", "stsc", "stsz", "stts"} BY DEF Slots
  <1>5. \A s \in slots : new[s] \in Entry
    <2> HIDE DEF slots, new
    <2> QED BY <1>1, <1>2, <1>4 DEF Entry
  <1>6. \A j \in Tracks : /\ <<"stco", j>> \in Slots /\ <<"stsz", j>> \in Slots
                          /\ <<"stsc", j>> \in Slots
    BY DEF Slots, Tracks
  <1>7. <<"stts", 0>> \in Slots BY DEF Slots
  <1>8. \A j \in Tracks : /\ <<"stco", j>> \in slots <=> j = i /\ i # l
                          /\ <<"stsc", j>> \in slots <=> j = l /\ i # l
                          /\ <<"stsz", j>> \in slots <=> j = i
    BY <1>6
  <1>9. <<"stts", 0>> \in slots <=> i = 0 BY <1>7
  <1> HIDE DEF slots, new
  <1>10. /\ \A s \in slots : s[1] = "stco" => new[s] = mdat_size + mdat_start_pos
         /\ \A s \in slots : s[1] = "stsc" => new[s] = stsc_cnt
         /\ \A s \in slots : s[1] = "stsz" => new[s] = Size(p)
         /\ \A s \in slots : s[1] = "stts" => new[s] = p.duration
    BY <1>2
  <1>11. /\ <<"stco", i>> \in slots => new[<<"stco", i>>] = mdat_size + mdat_start_pos
         /\ <<"stsc", l>> \in slots => new[<<"stsc", l>>] = stsc_cnt
         /\ new[<<"stsz", i>>] = Size(p)
         /\ i = 0 => new[<<"stts", 0>>] = p.duration
    BY <1>1, <1>8, <1>9, <1>10
  <1> QED BY <1>3, <1>5, <1>8, <1>9, <1>11 DEF new

\* The samples of both tracks are counted before a packet gets its number.
LEMMA NumberFacts ==
    ASSUME Kept PROVE Len(taken[0]) + Len(taken[1]) + 1 \in Nat
  <1>1. taken[0] \in Seq(Got) /\ taken[1] \in Seq(Got) BY DEF Kept, Tracks
  <1>2. PICK l \in Nat, m \in Nat : l = Len(taken[0]) /\ m = Len(taken[1]) BY <1>1, LenProperties
  <1>3. l + m + 1 \in Nat OBVIOUS
  <1> QED BY <1>2, <1>3

-----------------------------------------------------------------------------
\* The types hold at first.
LEMMA KeptInit == ASSUME Init PROVE Kept
  <1>1. drv \in [stream : BOOLEAN, mode : {"thread", "simple"}, sized : BOOLEAN,
                 codec : {"H264", "MJPEG"}, mTrackCnt : {0, 2},
                 csd : [Tracks -> AudioCsds \cup VideoCsds \cup {<<>>}]]
    BY DEF Init
  <1>2. drv.codec \in Codecs \cup {"H264"} /\ drv.csd[0] = <<>> /\ drv.csd[1] = <<>>
    BY DEF Init, Tracks
  <1>3. count \in [Slots -> Nat] /\ inf \in [Addresses -> Entry] BY DEF Init, Entry
  <1>4. DOMAIN file = {"box", "mdat", "moov"} /\ file.mdat = <<>> BY DEF Init, NoFile
  <1>5. taken \in [Tracks -> Seq(Got)] BY DEF Init
  <1> QED BY <1>1, <1>2, <1>3, <1>4, <1>5 DEF Init, Kept

\* The driver's settings keep their types.
LEMMA KeptSetup ==
    ASSUME Kept, SetStream \/ SetCacheMode \/ SetCacheSize
                 \/ (\E c \in Codecs : SetTrackInfo(c))
                 \/ (\E csd \in VideoCsds : WriteCSD(0, csd))
                 \/ (\E csd \in AudioCsds : WriteCSD(1, csd))
    PROVE  Kept' /\ life' = "opened" /\ life = "opened" /\ UNCHANGED <<file, movVars>>
  <1> DEFINE Drv == [stream : BOOLEAN, mode : {"thread", "simple"}, sized : BOOLEAN,
                     codec : {"H264", "MJPEG"}, mTrackCnt : {0, 2},
                     csd : [Tracks -> AudioCsds \cup VideoCsds \cup {<<>>}]]
  <1>1. life' = "opened" /\ life = "opened" /\ UNCHANGED <<file, movVars>>
    BY DEF SetStream, SetCacheMode, SetCacheSize, SetTrackInfo, WriteCSD, Setup
  <1>2. /\ drv' \in Drv /\ drv'.codec \in Codecs \cup {"H264"}
        /\ drv'.csd[0] \in VideoCsds \cup {<<>>} /\ drv'.csd[1] \in AudioCsds \cup {<<>>}
    <2>0. /\ drv \in Drv /\ drv.codec \in Codecs \cup {"H264"}
          /\ drv.csd[0] \in VideoCsds \cup {<<>>} /\ drv.csd[1] \in AudioCsds \cup {<<>>}
      BY DEF Kept
    <2>1. CASE SetStream BY <2>0, <2>1 DEF SetStream
    <2>2. CASE SetCacheMode BY <2>0, <2>2 DEF SetCacheMode
    <2>3. CASE SetCacheSize BY <2>0, <2>3 DEF SetCacheSize
    <2>4. ASSUME NEW c \in Codecs, SetTrackInfo(c)
          PROVE  /\ drv' \in Drv /\ drv'.codec \in Codecs \cup {"H264"}
                 /\ drv'.csd[0] \in VideoCsds \cup {<<>>} /\ drv'.csd[1] \in AudioCsds \cup {<<>>}
      BY <2>0, <2>4, ConstantFacts DEF SetTrackInfo
    <2>5. ASSUME NEW csd \in VideoCsds, WriteCSD(0, csd)
          PROVE  /\ drv' \in Drv /\ drv'.codec \in Codecs \cup {"H264"}
                 /\ drv'.csd[0] \in VideoCsds \cup {<<>>} /\ drv'.csd[1] \in AudioCsds \cup {<<>>}
      BY <2>0, <2>5 DEF WriteCSD, Tracks
    <2>6. ASSUME NEW csd \in AudioCsds, WriteCSD(1, csd)
          PROVE  /\ drv' \in Drv /\ drv'.codec \in Codecs \cup {"H264"}
                 /\ drv'.csd[0] \in VideoCsds \cup {<<>>} /\ drv'.csd[1] \in AudioCsds \cup {<<>>}
      BY <2>0, <2>6 DEF WriteCSD, Tracks
    <2> QED BY <2>1, <2>2, <2>3, <2>4, <2>5, <2>6
  <1> QED BY <1>1, <1>2 DEF Kept, movVars

\* A packet keeps the types.
LEMMA KeptWritePacket ==
    ASSUME Kept, NEW p \in Packets, WritePacket(p)
    PROVE  Kept' /\ life = "writing" /\ life' \in {"writing", "corrupt"}
  <1> DEFINE i == p.stream_idx
             n == Len(taken[0]) + Len(taken[1]) + 1
             new == Entries(p)
  <1>1. i \in Tracks /\ Size(p) \in Nat /\ n \in Nat BY PacketFacts, NumberFacts
  <1>2. DOMAIN new \subseteq Slots /\ \A s \in DOMAIN new : new[s] \in Entry BY EntriesFacts
  <1>3. count' \in [Slots -> Nat] /\ inf' \in [Addresses -> Entry]
        /\ \A s \in Slots : count'[s] = count[s] + IF s \in DOMAIN new THEN 1 ELSE 0
    <2>1. Enter(new) /\ count \in [Slots -> Nat] /\ inf \in [Addresses -> Entry]
      BY DEF WritePacket, Kept
    <2> HIDE DEF new
    <2> QED BY <1>2, <2>1, EnterTypes
  <1> HIDE DEF new
  <1>4. stsc_cnt' \in Nat /\ last_stream_idx' = i BY DEF WritePacket, Kept
  <1>5. life = "writing" /\ life' \in {"writing", "corrupt"} BY DEF WritePacket
  <1>6. keys' \in Seq(Nat \ {0})
    <2>1. CASE i = 0 /\ ~(i = 0 /\ drv.codec # "H264") /\ IsKeyframe(p)
      <3>1. keys' = Append(keys, SampleNumber) BY <2>1 DEF WritePacket
      <3>2. <<"stts", 0>> \in Slots BY DEF Slots
      <3>3. <<"stts", 0>> \in DOMAIN new BY <2>1, EntriesFacts DEF new
      <3>4. count[<<"stts", 0>>] \in Nat BY <3>2 DEF Kept
      <3>5. SampleNumber \in Nat \ {0} BY <1>3, <3>2, <3>3, <3>4 DEF SampleNumber
      <3>6. keys \in Seq(Nat \ {0}) BY DEF Kept
      <3> QED BY <3>1, <3>5, <3>6
    <2>2. CASE ~(i = 0 /\ ~(i = 0 /\ drv.codec # "H264") /\ IsKeyframe(p))
      <3>1. keys' = keys BY <2>2 DEF WritePacket
      <3> QED BY <3>1 DEF Kept
    <2> QED BY <2>1, <2>2
  <1>7. /\ DOMAIN file' = {"box", "mdat", "moov"} /\ file'.mdat \in Seq(Cells)
        /\ mdat_size' = Len(file'.mdat) /\ mdat_size' \in Nat
        /\ taken' \in [Tracks -> Seq(Got)]
    <2>1. CASE i = 0 /\ drv.codec # "H264"
      <3>1. UNCHANGED <<mdat_size, file, taken>> BY <2>1 DEF WritePacket
      <3> QED BY <3>1 DEF Kept
    <2>2. CASE ~(i = 0 /\ drv.codec # "H264")
      <3>1. /\ mdat_size' = mdat_size + Size(p)
            /\ file' = [file EXCEPT !.mdat = @ \o Data(n, p)]
            /\ taken' = [taken EXCEPT ![i] = Append(@, [n |-> n, p |-> p])]
        BY <2>2 DEF WritePacket
      <3>2. /\ file.mdat \in Seq(Cells) /\ mdat_size = Len(file.mdat) /\ mdat_size \in Nat
            /\ DOMAIN file = {"box", "mdat", "moov"} /\ taken \in [Tracks -> Seq(Got)]
        BY DEF Kept
      <3> HIDE DEF n
      <3>3. file'.mdat = file.mdat \o Data(n, p) /\ DOMAIN file' = {"box", "mdat", "moov"}
        BY <3>1, <3>2
      <3>4. /\ file.mdat \o Data(n, p) \in Seq(Cells)
            /\ Len(file.mdat \o Data(n, p)) = Len(file.mdat) + Size(p)
        BY <1>1, <3>2, DataAppended
      <3>5. [n |-> n, p |-> p] \in Got BY <1>1 DEF Got
      <3>6. Append(taken[i], [n |-> n, p |-> p]) \in Seq(Got) BY <1>1, <3>2, <3>5, AppendProperties
      <3>7. taken' \in [Tracks -> Seq(Got)] BY <3>1, <3>2, <3>6
      <3>8. mdat_size' = Len(file'.mdat) /\ mdat_size' \in Nat BY <1>1, <3>1, <3>2, <3>3, <3>4
      <3> QED BY <3>3, <3>4, <3>7, <3>8
    <2> QED BY <2>1, <2>2
  <1>8. /\ drv' = drv /\ last_stream_idx' \in Tracks \cup {-1}
        /\ life' \in {"writing", "finished"} => drv'.mTrackCnt = 2
    BY <1>1, <1>4, <1>5 DEF WritePacket, Kept
  <1> QED BY <1>3, <1>4, <1>5, <1>6, <1>7, <1>8 DEF Kept

\* The entry the trailer makes.
LEMMA TrailerEntry ==
    ASSUME Kept, last_stream_idx # -1
    PROVE  LET new == [s \in {<<"stsc", last_stream_idx>>} |-> stsc_cnt]
           IN /\ DOMAIN new \subseteq Slots /\ \A s \in DOMAIN new : new[s] \in Entry
              /\ DOMAIN new = {<<"stsc", last_stream_idx>>}
              /\ new[<<"stsc", last_stream_idx>>] = stsc_cnt
  <1>1. last_stream_idx \in Tracks /\ stsc_cnt \in Nat BY DEF Kept
  <1>2. <<"stsc", last_stream_idx>> \in Slots BY <1>1 DEF Slots, Tracks
  <1> QED BY <1>1, <1>2 DEF Entry

\* The trailer keeps the types, and the media data.
LEMMA KeptWriteTrailer ==
    ASSUME Kept, WriteTrailer
    PROVE  /\ Kept' /\ life = "writing" /\ life' \in {"finished", "corrupt"}
           /\ life' = "finished" => last_stream_idx # -1
           /\ file'.mdat = file.mdat /\ UNCHANGED <<drv, keys, stsc_cnt, last_stream_idx, taken>>
  <1>1. /\ life = "writing" /\ life' \in {"finished", "corrupt"}
        /\ UNCHANGED <<drv, keys, mdat_size, stsc_cnt, last_stream_idx, taken>>
        /\ life' = "finished" => last_stream_idx # -1
    BY DEF WriteTrailer
  <1>2. CASE last_stream_idx = -1
    <2>1. UNCHANGED <<count, inf, file>> /\ life' = "corrupt" BY <1>2 DEF WriteTrailer
    <2> QED BY <1>1, <2>1 DEF Kept
  <1>3. CASE last_stream_idx # -1
    <2> DEFINE new == [s \in {<<"stsc", last_stream_idx>>} |-> stsc_cnt]
    <2>1. /\ Enter(new) /\ life' = "finished"
          /\ \E b, m : file' = [file EXCEPT !.box = b, !.moov = m]
      BY <1>3 DEF WriteTrailer
    <2>2. DOMAIN new \subseteq Slots /\ \A s \in DOMAIN new : new[s] \in Entry BY <1>3, TrailerEntry
    <2>3. count \in [Slots -> Nat] /\ inf \in [Addresses -> Entry] BY DEF Kept
    <2> HIDE DEF new
    <2>4. count' \in [Slots -> Nat] /\ inf' \in [Addresses -> Entry] BY <2>1, <2>2, <2>3, EnterTypes
    <2>5. file'.mdat = file.mdat /\ DOMAIN file' = {"box", "mdat", "moov"} BY <2>1 DEF Kept
    <2>6. drv.mTrackCnt = 2 BY <1>1 DEF Kept
    <2> QED BY <1>1, <2>1, <2>4, <2>5, <2>6 DEF Kept
  <1> QED BY <1>2, <1>3

-----------------------------------------------------------------------------
\* A recording that fits in the tables fitted before.
LEMMA FitsBefore ==
    ASSUME Kept, NEW new, DOMAIN new \subseteq Slots, Enter(new), NEW j \in Tracks, Fits(j)'
    PROVE  Fits(j) /\ \A s \in Slots : s[2] = j => count'[s] <= Cap(s)
  <1>1. \A s \in Slots : s[2] = j => count'[s] <= Cap(s) BY DEF Fits, Cap
  <1>2. ASSUME NEW s \in Slots, s[2] = j PROVE count[s] <= Cap(s)
    <2>1. PICK c \in Nat, n \in Nat : c = count[s] /\ n = Cap(s) BY CapFacts DEF Kept
    <2>2. count'[s] = c + IF s \in DOMAIN new THEN 1 ELSE 0 BY <2>1 DEF Enter
    <2>3. count'[s] <= n BY <1>1, <1>2, <2>1
    <2> QED BY <2>1, <2>2, <2>3
  <1> QED BY <1>1, <1>2 DEF Fits

\* The tables of a track, after a packet p.
LEMMA TablesAfter ==
    ASSUME Kept, NEW p \in Packets, WritePacket(p), NEW j \in Tracks, Fits(j)'
    PROVE  LET i == p.stream_idx
               l == last_stream_idx
           IN /\ Fits(j)
              /\ Read(<<"stco", j>>)' =
                    IF j = i /\ i # l THEN Append(Read(<<"stco", j>>), mdat_size + mdat_start_pos)
                    ELSE Read(<<"stco", j>>)
              /\ Read(<<"stsc", j>>)' =
                    IF j = l /\ i # l THEN Append(Read(<<"stsc", j>>), stsc_cnt)
                    ELSE Read(<<"stsc", j>>)
              /\ Read(<<"stsz", j>>)' =
                    IF j = i THEN Append(Read(<<"stsz", j>>), Size(p)) ELSE Read(<<"stsz", j>>)
              /\ j = 0 => Read(<<"stts", 0>>)' =
                    IF i = 0 THEN Append(Read(<<"stts", 0>>), p.duration) ELSE Read(<<"stts", 0>>)
  <1> DEFINE i == p.stream_idx
             l == last_stream_idx
             new == Entries(p)
  <1>1. /\ DOMAIN new \subseteq Slots
        /\ <<"stco", j>> \in DOMAIN new <=> j = i /\ i # l
        /\ <<"stsc", j>> \in DOMAIN new <=> j = l /\ i # l
        /\ <<"stsz", j>> \in DOMAIN new <=> j = i
        /\ <<"stts", 0>> \in DOMAIN new <=> i = 0
        /\ <<"stco", i>> \in DOMAIN new => new[<<"stco", i>>] = mdat_size + mdat_start_pos
        /\ <<"stsc", l>> \in DOMAIN new => new[<<"stsc", l>>] = stsc_cnt
        /\ new[<<"stsz", i>>] = Size(p)
        /\ i = 0 => new[<<"stts", 0>>] = p.duration
    BY EntriesFacts
  <1>2. Enter(new) BY DEF WritePacket
  <1> HIDE DEF new
  <1>3. Fits(j) /\ \A s \in Slots : s[2] = j => count'[s] <= Cap(s) BY <1>1, <1>2, FitsBefore
  <1>4. /\ <<"stco", j>> \in Slots /\ <<"stsz", j>> \in Slots /\ <<"stsc", j>> \in Slots
        /\ <<"stts", 0>> \in Slots
    BY DEF Slots, Tracks
  <1>5. count \in [Slots -> Nat] /\ inf \in [Addresses -> Entry] BY DEF Kept
  <1>6. Read(<<"stco", j>>)' = IF <<"stco", j>> \in DOMAIN new
                               THEN Append(Read(<<"stco", j>>), new[<<"stco", j>>])
                               ELSE Read(<<"stco", j>>)
    <2>1. count'[<<"stco", j>>] <= Cap(<<"stco", j>>) BY <1>3, <1>4
    <2> QED BY <1>1, <1>2, <1>4, <1>5, <2>1, ReadAfter
  <1>7. Read(<<"stsc", j>>)' = IF <<"stsc", j>> \in DOMAIN new
                               THEN Append(Read(<<"stsc", j>>), new[<<"stsc", j>>])
                               ELSE Read(<<"stsc", j>>)
    <2>1. count'[<<"stsc", j>>] <= Cap(<<"stsc", j>>) BY <1>3, <1>4
    <2> QED BY <1>1, <1>2, <1>4, <1>5, <2>1, ReadAfter
  <1>8. Read(<<"stsz", j>>)' = IF <<"stsz", j>> \in DOMAIN new
                               THEN Append(Read(<<"stsz", j>>), new[<<"stsz", j>>])
                               ELSE Read(<<"stsz", j>>)
    <2>1. count'[<<"stsz", j>>] <= Cap(<<"stsz", j>>) BY <1>3, <1>4
    <2> QED BY <1>1, <1>2, <1>4, <1>5, <2>1, ReadAfter
  <1>9. ASSUME j = 0
        PROVE  Read(<<"stts", 0>>)' = IF <<"stts", 0>> \in DOMAIN new
                                      THEN Append(Read(<<"stts", 0>>), new[<<"stts", 0>>])
                                      ELSE Read(<<"stts", 0>>)
    <2>1. count'[<<"stts", 0>>] <= Cap(<<"stts", 0>>) BY <1>3, <1>4, <1>9
    <2> QED BY <1>1, <1>2, <1>4, <1>5, <2>1, ReadAfter
  <1> QED BY <1>1, <1>3, <1>6, <1>7, <1>8, <1>9

\* Media data only gets longer, by the sample of an accepted packet.
LEMMA DataAfter ==
    ASSUME Kept, NEW p \in Packets, WritePacket(p)
    PROVE  LET i == p.stream_idx
               n == Len(taken[0]) + Len(taken[1]) + 1
           IN /\ Longer(file.mdat, file'.mdat) /\ file'.mdat \in Seq(Cells) /\ n \in Nat
              /\ \A j \in Tracks : j # i => taken'[j] = taken[j]
              /\ Accepted(i) =>
                    /\ file'.mdat = file.mdat \o Data(n, p)
                    /\ taken'[i] = Append(taken[i], [n |-> n, p |-> p])
              /\ ~Accepted(i) => taken' = taken
              /\ \A j \in Tracks : Accepted(j)' <=> Accepted(j)
  <1> DEFINE i == p.stream_idx
             n == Len(taken[0]) + Len(taken[1]) + 1
  <1>1. i \in Tracks /\ n \in Nat BY PacketFacts, NumberFacts
  <1> HIDE DEF n
  <1>2. /\ file.mdat \in Seq(Cells) /\ DOMAIN file = {"box", "mdat", "moov"}
        /\ taken \in [Tracks -> Seq(Got)] /\ drv' = drv
    BY DEF Kept, WritePacket
  <1>3. \A j \in Tracks : Accepted(j)' <=> Accepted(j) BY <1>2 DEF Accepted
  <1>4. CASE ~Accepted(i)
    <2>1. UNCHANGED <<file, taken>> BY <1>4 DEF WritePacket, Accepted
    <2>2. Longer(file.mdat, file.mdat) BY <1>2 DEF Longer
    <2>3. file'.mdat = file.mdat /\ taken' = taken BY <2>1
    <2> QED BY <1>1, <1>2, <1>3, <1>4, <2>2, <2>3 DEF n
  <1>5. CASE Accepted(i)
    <2>1. /\ file' = [file EXCEPT !.mdat = @ \o Data(n, p)]
          /\ taken' = [taken EXCEPT ![i] = Append(@, [n |-> n, p |-> p])]
      BY <1>5 DEF WritePacket, Accepted, n
    <2>2. file'.mdat = file.mdat \o Data(n, p) BY <1>2, <2>1
    <2>3. /\ file.mdat \o Data(n, p) \in Seq(Cells)
          /\ Longer(file.mdat, file.mdat \o Data(n, p))
      BY <1>1, <1>2, DataAppended
    <2>4. /\ \A j \in Tracks : j # i => taken'[j] = taken[j]
          /\ taken'[i] = Append(taken[i], [n |-> n, p |-> p])
      BY <1>1, <1>2, <2>1
    <2> QED BY <1>1, <1>3, <1>5, <2>2, <2>3, <2>4 DEF n
  <1> QED BY <1>4, <1>5

\* The samples of a track stay found when a packet comes.
LEMMA ChunkedAfter ==
    ASSUME Kept, Recording, NEW p \in Packets, WritePacket(p), NEW j \in Tracks,
           Fits(j)', Accepted(j)
    PROVE  /\ \A id \in {"stco", "stsz", "stsc"} : Read(<<id, j>>)' \in Seq(Nat)
           /\ Chunked(Read(<<"stco", j>>)', Read(<<"stsc", j>>)', Read(<<"stsz", j>>)',
                      taken'[j], file'.mdat, Waiting(j)')
  <1>0. PICK i, l, n, data, data2, got, co, sc, sz, t :
          /\ i = p.stream_idx /\ l = last_stream_idx
          /\ n = Len(taken[0]) + Len(taken[1]) + 1
          /\ data = file.mdat /\ data2 = file'.mdat /\ got = taken[j]
          /\ co = Read(<<"stco", j>>) /\ sc = Read(<<"stsc", j>>) /\ sz = Read(<<"stsz", j>>)
          /\ t = [n |-> n, p |-> p]
    OBVIOUS
  <1>1. /\ i \in Tracks /\ Size(p) \in Nat /\ mdat_start_pos \in Nat
        /\ data \in Seq(Cells) /\ mdat_size = Len(data) /\ got \in Seq(Got)
        /\ l \in Tracks \cup {-1} /\ stsc_cnt \in Nat
    BY <1>0, PacketFacts, StartFacts DEF Kept
  <1>2. /\ Fits(j)
        /\ Read(<<"stco", j>>)' = IF j = i /\ i # l THEN Append(co, mdat_size + mdat_start_pos) ELSE co
        /\ Read(<<"stsc", j>>)' = IF j = l /\ i # l THEN Append(sc, stsc_cnt) ELSE sc
        /\ Read(<<"stsz", j>>)' = IF j = i THEN Append(sz, Size(p)) ELSE sz
    BY <1>0, TablesAfter
  <1>3. /\ Longer(data, data2) /\ data2 \in Seq(Cells) /\ n \in Nat
        /\ j # i => taken'[j] = got
        /\ j = i => data2 = data \o Data(n, p) /\ taken'[j] = Append(got, t)
    BY <1>0, DataAfter
  <1>4. life = "writing" /\ stsc_cnt' = (IF i # l THEN 0 ELSE stsc_cnt) + 1 /\ last_stream_idx' = i
    BY <1>0 DEF WritePacket
  <1>5. /\ l # -1 => stsc_cnt > 0
        /\ co \in Seq(Nat) /\ sc \in Seq(Nat) /\ sz \in Seq(Nat)
        /\ Chunked(co, sc, sz, got, data, Waiting(j))
    BY <1>0, <1>2, <1>4 DEF Recording
  <1>6. Waiting(j) = IF j = l THEN stsc_cnt ELSE 0 BY <1>0 DEF Waiting
  <1>7. Waiting(j)' = IF j = i THEN stsc_cnt' ELSE 0 BY <1>4 DEF Waiting
  <1>8. CASE j = i /\ i = l
    <2>1. stsc_cnt # 0 /\ Waiting(j) = stsc_cnt /\ Waiting(j)' = stsc_cnt + 1
      BY <1>1, <1>4, <1>5, <1>6, <1>7, <1>8 DEF Tracks
    <2>2. Chunked(co, sc, Append(sz, Size(p)), Append(got, t), data \o Data(n, p), stsc_cnt + 1)
      <3>1. Chunked(co, sc, sz, got, data, stsc_cnt) BY <1>5, <2>1
      <3>2. Chunked(co, sc, Append(sz, Size(p)), Append(got, [n |-> n, p |-> p]),
                    data \o Data(n, p), stsc_cnt + 1)
        BY <1>1, <1>3, <1>5, <2>1, <3>1, NextSample
      <3> QED BY <1>0, <3>2
    <2>3. Append(sz, Size(p)) \in Seq(Nat) BY <1>1, <1>5
    <2> QED BY <1>0, <1>2, <1>3, <1>5, <1>8, <2>1, <2>2, <2>3
  <1>9. CASE j = i /\ i # l
    <2>1. Waiting(j) = 0 /\ Waiting(j)' = 1 BY <1>4, <1>6, <1>7, <1>9
    <2>2. Chunked(Append(co, Len(data) + mdat_start_pos), sc, Append(sz, Size(p)),
                  Append(got, t), data \o Data(n, p), 1)
      <3>1. Chunked(co, sc, sz, got, data, 0) BY <1>5, <2>1
      <3>2. Chunked(Append(co, Len(data) + mdat_start_pos), sc, Append(sz, Size(p)),
                    Append(got, [n |-> n, p |-> p]), data \o Data(n, p), 1)
        BY <1>1, <1>3, <1>5, <3>1, NewChunk
      <3> QED BY <1>0, <3>2
    <2>3. Append(sz, Size(p)) \in Seq(Nat) BY <1>1, <1>5
    <2>4. Append(co, mdat_size + mdat_start_pos) \in Seq(Nat)
      <3>1. mdat_size + mdat_start_pos \in Nat BY <1>1
      <3> QED BY <1>5, <3>1
    <2> QED BY <1>0, <1>1, <1>2, <1>3, <1>5, <1>9, <2>1, <2>2, <2>3, <2>4
  <1>10. CASE j # i /\ j = l
    <2>1. stsc_cnt # 0 /\ Waiting(j) = stsc_cnt /\ Waiting(j)' = 0
      BY <1>1, <1>5, <1>6, <1>7, <1>10 DEF Tracks
    <2>2. Append(sc, stsc_cnt) \in Seq(Nat) BY <1>1, <1>5
    <2>3. Chunked(co, Append(sc, stsc_cnt), sz, got, data, 0)
      <3>1. Chunked(co, sc, sz, got, data, stsc_cnt) BY <1>5, <2>1
      <3> QED BY <1>1, <1>5, <2>1, <3>1, ChunkCloses
    <2>4. Chunked(co, Append(sc, stsc_cnt), sz, got, data2, 0)
      <3>1. PICK sc2 : sc2 = Append(sc, stsc_cnt) OBVIOUS
      <3>2. sc2 \in Seq(Nat) /\ Chunked(co, sc2, sz, got, data, 0) BY <2>2, <2>3, <3>1
      <3>3. Chunked(co, sc2, sz, got, data2, 0) BY <1>1, <1>3, <1>5, <3>2, OthersAppend
      <3> QED BY <3>1, <3>3
    <2> QED BY <1>0, <1>2, <1>3, <1>5, <1>10, <2>1, <2>2, <2>4
  <1>11. CASE j # i /\ j # l
    <2>1. Waiting(j) = 0 /\ Waiting(j)' = 0 BY <1>6, <1>7, <1>11
    <2>2. Chunked(co, sc, sz, got, data2, 0)
      <3>1. Chunked(co, sc, sz, got, data, 0) BY <1>5, <2>1
      <3> QED BY <1>1, <1>3, <1>5, <3>1, OthersAppend
    <2> QED BY <1>0, <1>2, <1>3, <1>5, <1>11, <2>1, <2>2
  <1> QED BY <1>8, <1>9, <1>10, <1>11

\* What the samples of a track are counted by, after a packet.
LEMMA CountsAfter ==
    ASSUME Kept, NEW p \in Packets, WritePacket(p)
    PROVE  /\ \A j \in Tracks :
                 count'[<<"stsz", j>>] = count[<<"stsz", j>>] + IF j = p.stream_idx THEN 1 ELSE 0
           /\ count'[<<"stts", 0>>] = count[<<"stts", 0>>] + IF p.stream_idx = 0 THEN 1 ELSE 0
  <1> DEFINE new == Entries(p)
  <1>1. /\ DOMAIN new \subseteq Slots /\ \A s \in DOMAIN new : new[s] \in Entry
        /\ \A j \in Tracks : <<"stsz", j>> \in DOMAIN new <=> j = p.stream_idx
        /\ <<"stts", 0>> \in DOMAIN new <=> p.stream_idx = 0
    BY EntriesFacts
  <1>2. Enter(new) /\ count \in [Slots -> Nat] /\ inf \in [Addresses -> Entry]
    BY DEF WritePacket, Kept
  <1> HIDE DEF new
  <1>3. \A s \in Slots : count'[s] = count[s] + IF s \in DOMAIN new THEN 1 ELSE 0
    BY <1>1, <1>2, EnterTypes
  <1>4. <<"stts", 0>> \in Slots /\ \A j \in Tracks : <<"stsz", j>> \in Slots BY DEF Slots, Tracks
  <1> QED BY <1>1, <1>3, <1>4

\* With each packet the tables tell where one sample more is.
LEMMA RecordingWritePacket ==
    ASSUME Kept, Recording, NEW p \in Packets, WritePacket(p)
    PROVE  Recording'
  <1> DEFINE i == p.stream_idx
  <1>1. stsc_cnt' > 0
    <2>1. stsc_cnt \in Nat BY DEF Kept
    <2> QED BY <2>1 DEF WritePacket
  <1>2. life = "writing" BY DEF WritePacket
  <1>3. ASSUME NEW j \in Tracks, Accepted(j)' PROVE count'[<<"stsz", j>>] = Len(taken'[j])
    <2>1. Accepted(j) BY <1>3, DataAfter
    <2>2. taken[j] \in Seq(Got) BY DEF Kept
    <2>3. count[<<"stsz", j>>] = Len(taken[j]) BY <1>2, <2>1 DEF Recording
    <2>4. count'[<<"stsz", j>>] = count[<<"stsz", j>>] + IF j = i THEN 1 ELSE 0 BY CountsAfter
    <2>5. CASE j = i
      <3>1. \E t : taken'[j] = Append(taken[j], t) /\ t \in Got
        <4>1. [n |-> Len(taken[0]) + Len(taken[1]) + 1, p |-> p] \in Got
          BY NumberFacts DEF Got
        <4> QED BY <2>1, <2>5, <4>1, DataAfter
      <3>2. Len(taken'[j]) = Len(taken[j]) + 1 BY <2>2, <3>1, AppendProperties
      <3> QED BY <2>3, <2>4, <2>5, <3>2
    <2>6. CASE j # i
      <3>1. taken'[j] = taken[j] BY <2>6, DataAfter
      <3>2. count[<<"stsz", j>>] \in Nat BY DEF Kept, Slots, Tracks
      <3> QED BY <2>3, <2>4, <2>6, <3>1, <3>2
    <2> QED BY <2>5, <2>6
  <1>4. ASSUME NEW j \in Tracks, Fits(j)', Accepted(j)'
        PROVE  /\ \A id \in {"stco", "stsz", "stsc"} : Read(<<id, j>>)' \in Seq(Nat)
               /\ Chunked(Read(<<"stco", j>>)', Read(<<"stsc", j>>)', Read(<<"stsz", j>>)',
                          taken'[j], file'.mdat, Waiting(j)')
    <2>1. Accepted(j) BY <1>4, DataAfter
    <2> QED BY <1>4, <2>1, ChunkedAfter
  <1> QED BY <1>1, <1>3, <1>4 DEF Recording

\* The writer finds the NAL header, wherever a frame was split.
LEMMA KeyframeFound == ASSUME NEW p \in Packets PROVE IsKeyframe(p) <=> p.idr
  <1>1. p.size0 \in Nat /\ (p.idr => p.size0 > 0) /\ p.idr \in BOOLEAN BY PacketFacts
  <1>2. p.size0 > 0 => NalByte(p) = 5 BY <1>1 DEF NalByte
  <1> QED BY <1>1, <1>2 DEF IsKeyframe

\* With each packet the durations and key frame numbers are those of one more.
LEMMA NumberingWritePacket ==
    ASSUME Kept, Recording, Numbering, NEW p \in Packets, WritePacket(p)
    PROVE  Numbering'
  <1> SUFFICES ASSUME life' = "writing", Accepted(0)' PROVE Numbering' BY DEF Numbering
  <1> DEFINE i == p.stream_idx
             n == Len(taken[0]) + Len(taken[1]) + 1
             t == [n |-> n, p |-> p]
  <1>0. 0 \in Tracks /\ <<"stts", 0>> \in Slots BY DEF Tracks, Slots
  <1>1. life = "writing" /\ Accepted(0) BY <1>0, DataAfter DEF WritePacket
  <1>2. PICK got, ks : got = taken[0] /\ ks = keys OBVIOUS
  <1>3. got \in Seq(Got) /\ ks \in Seq(Nat \ {0}) BY <1>0, <1>2 DEF Kept
  <1>4. PICK len \in Nat : len = Len(got) BY <1>3
  <1>5. /\ count[<<"stts", 0>>] = len
        /\ \A k \in 1..len : (\E j \in DOMAIN ks : ks[j] = k) <=> got[k].p.idr
        /\ \A j \in DOMAIN ks : ks[j] <= len
        /\ \A j, l \in DOMAIN ks : j < l => ks[j] < ks[l]
        /\ Fits(0) => \A k \in 1..len : Read(<<"stts", 0>>)[k] = got[k].p.duration
    BY <1>1, <1>2, <1>3, <1>4 DEF Numbering
  <1>6. count'[<<"stts", 0>>] = len + IF i = 0 THEN 1 ELSE 0 BY <1>5, CountsAfter
  <1>7. \A k \in DOMAIN ks : ks[k] \in Nat \ {0} BY <1>3
  <1>8. i = 0 => drv.codec = "H264" BY <1>1 DEF Accepted
  <1>9. CASE i # 0
    <2>1. keys' = ks BY <1>2, <1>9 DEF WritePacket
    <2>2. taken'[0] = got BY <1>0, <1>2, <1>9, DataAfter
    <2>3. ASSUME Fits(0)' PROVE Fits(0) /\ Read(<<"stts", 0>>)' = Read(<<"stts", 0>>)
      BY <1>0, <1>9, <2>3, TablesAfter
    <2>4. DOMAIN got = 1..len BY <1>3, <1>4
    <2>5. \A k \in DOMAIN got : (\E j \in DOMAIN ks : ks[j] = k) <=> got[k].p.idr BY <1>5, <2>4
    <2>6. count'[<<"stts", 0>>] = len BY <1>6, <1>9
    <2>7. Fits(0)' => \A k \in 1..len : Read(<<"stts", 0>>)'[k] = got[k].p.duration BY <1>5, <2>3
    <2> QED BY <1>4, <1>5, <2>1, <2>2, <2>5, <2>6, <2>7 DEF Numbering
  <1>10. CASE i = 0
    <2>1. PICK got2, ks2 : got2 = taken'[0] /\ ks2 = keys' OBVIOUS
    <2>2. t \in Got BY NumberFacts DEF Got
    <2>3. got2 = Append(got, t) BY <1>1, <1>2, <1>10, <2>1, DataAfter
    <2> HIDE DEF n
    <2>4. /\ got2 \in Seq(Got) /\ Len(got2) = len + 1 /\ DOMAIN got2 = 1..(len + 1)
          /\ got2[len + 1] = t /\ \A k \in 1..len : got2[k] = got[k]
      BY <1>3, <1>4, <2>2, <2>3
    <2>5. SampleNumber = len + 1 BY <1>6, <1>10 DEF SampleNumber
    <2>6. ks2 = IF p.idr THEN Append(ks, len + 1) ELSE ks
      BY <1>2, <1>8, <1>10, <2>1, <2>5, KeyframeFound DEF WritePacket
    <2>7. t.p = p BY DEF t
    <2> HIDE DEF t
    <2>8. /\ \A k \in 1..(len + 1) : (\E j \in DOMAIN ks2 : ks2[j] = k) <=> got2[k].p.idr
          /\ \A j \in DOMAIN ks2 : ks2[j] <= len + 1
          /\ \A j, l \in DOMAIN ks2 : j < l => ks2[j] < ks2[l]
      <3>1. CASE p.idr
        <4>1. PICK m \in Nat : m = Len(ks) BY <1>3
        <4>2. /\ DOMAIN ks = 1..m /\ DOMAIN ks2 = 1..(m + 1) /\ ks2[m + 1] = len + 1
              /\ \A j \in 1..m : ks2[j] = ks[j]
          BY <1>3, <2>6, <3>1, <4>1
        <4>3. ASSUME NEW k \in 1..(len + 1)
              PROVE  (\E j \in DOMAIN ks2 : ks2[j] = k) <=> got2[k].p.idr
          <5>1. CASE k = len + 1
            <6>1. m + 1 \in DOMAIN ks2 BY <4>2
            <6>2. \E j \in DOMAIN ks2 : ks2[j] = k BY <4>2, <5>1, <6>1
            <6>3. got2[k].p = p BY <2>4, <2>7, <5>1
            <6> QED BY <3>1, <6>2, <6>3
          <5>2. CASE k # len + 1
            <6>1. k \in 1..len BY <5>2
            <6>2. (\E j \in DOMAIN ks2 : ks2[j] = k) <=> (\E j \in DOMAIN ks : ks[j] = k)
              <7>1. \A j \in 1..m : j \in 1..(m + 1) OBVIOUS
              <7>2. \A j \in 1..(m + 1) : j = m + 1 \/ j \in 1..m OBVIOUS
              <7> QED BY <4>2, <5>2, <7>1, <7>2
            <6>3. got2[k] = got[k] BY <2>4, <6>1
            <6> QED BY <1>5, <6>1, <6>2, <6>3
          <5> QED BY <5>1, <5>2
        <4>4. \A j \in 1..(m + 1) : j = m + 1 \/ j \in 1..m OBVIOUS
        <4>5. \A j \in 1..m : ks[j] \in Nat /\ ks[j] <= len BY <1>5, <1>7, <4>2
        <4>6. ASSUME NEW j \in DOMAIN ks2 PROVE ks2[j] <= len + 1
          <5>1. CASE j = m + 1 BY <4>2, <5>1
          <5>2. CASE j \in 1..m BY <4>2, <4>5, <5>2
          <5> QED BY <4>2, <4>4, <5>1, <5>2
        <4>7. ASSUME NEW j \in DOMAIN ks2, NEW l \in DOMAIN ks2, j < l PROVE ks2[j] < ks2[l]
          <5>1. j \in 1..m BY <4>2, <4>7
          <5>2. CASE l = m + 1 BY <4>2, <4>5, <5>1, <5>2
          <5>3. CASE l \in 1..m BY <1>5, <4>2, <4>7, <5>1, <5>3
          <5> QED BY <4>2, <4>4, <5>2, <5>3
        <4> QED BY <4>3, <4>6, <4>7
      <3>2. CASE ~p.idr
        <4>1. ks2 = ks BY <2>6, <3>2
        <4>2. ASSUME NEW k \in 1..(len + 1)
              PROVE  (\E j \in DOMAIN ks : ks[j] = k) <=> got2[k].p.idr
          <5>1. CASE k = len + 1
            <6>1. got2[k].p = p BY <2>4, <2>7, <5>1
            <6>2. ~\E j \in DOMAIN ks : ks[j] = k BY <1>5, <1>7, <5>1
            <6> QED BY <3>2, <6>1, <6>2
          <5>2. CASE k # len + 1
            <6>1. k \in 1..len BY <5>2
            <6>2. got2[k] = got[k] BY <2>4, <6>1
            <6> QED BY <1>5, <6>1, <6>2
          <5> QED BY <5>1, <5>2
        <4>3. \A j \in DOMAIN ks : ks[j] <= len + 1 BY <1>5, <1>7
        <4> QED BY <1>5, <4>1, <4>2, <4>3
      <3> QED BY <3>1, <3>2
    <2>9. ASSUME Fits(0)', NEW k \in 1..(len + 1)
          PROVE  Read(<<"stts", 0>>)'[k] = got2[k].p.duration
      <3>1. PICK r : r = Read(<<"stts", 0>>) OBVIOUS
      <3>2. Fits(0) /\ Read(<<"stts", 0>>)' = Append(r, p.duration)
        BY <1>0, <1>10, <2>9, <3>1, TablesAfter
      <3>3. r = [m \in 1..len |-> inf[Base(<<"stts", 0>>) + m - 1]] BY <1>5, <3>1 DEF Read
      <3>4. Len(r) = len BY <3>3
      <3>5. Append(r, p.duration) = [m \in 1..(len + 1) |-> IF m = len + 1 THEN p.duration ELSE r[m]]
        BY <3>4 DEF Append
      <3>6. CASE k = len + 1 BY <2>4, <2>7, <3>2, <3>5, <3>6
      <3>7. CASE k # len + 1
        <4>1. k \in 1..len BY <3>7
        <4> QED BY <1>5, <2>4, <3>1, <3>2, <3>5, <3>7, <4>1, SMTT(30)
      <3> QED BY <3>6, <3>7
    <2>10. count'[<<"stts", 0>>] = Len(got2) BY <1>6, <1>10, <2>4
    <2> QED BY <2>1, <2>4, <2>8, <2>9, <2>10 DEF Numbering
  <1> QED BY <1>9, <1>10

\* The header begins a recording of nothing.
LEMMA RecordingWriteHeader ==
    ASSUME Kept, Fresh, WriteHeader
    PROVE  Kept' /\ Recording' /\ Numbering' /\ life' = "writing"
  <1>1. /\ life = "opened" /\ life' = "writing" /\ file' = HeaderBoxes
        /\ drv' = drv /\ UNCHANGED movVars /\ drv.mTrackCnt = 2
    BY DEF WriteHeader
  <1>2. UNCHANGED <<count, inf, keys, mdat_size, stsc_cnt, last_stream_idx, taken>>
    BY <1>1 DEF movVars
  <1>3. /\ count = [s \in Slots |-> 0] /\ keys = <<>> /\ stsc_cnt = 0
        /\ last_stream_idx = -1 /\ taken = [i \in Tracks |-> <<>>] /\ mdat_size = 0
    BY <1>1 DEF Fresh
  <1>4. DOMAIN file' = {"box", "mdat", "moov"} /\ file'.mdat = <<>> BY <1>1 DEF HeaderBoxes
  <1>5. Kept' BY <1>1, <1>2, <1>3, <1>4 DEF Kept
  <1>6. /\ \A i \in Tracks : taken'[i] = <<>> BY <1>2, <1>3
  <1>7. ASSUME NEW i \in Tracks, NEW id \in {"stco", "stsz", "stsc"}
        PROVE  count'[<<id, i>>] = 0 /\ Read(<<id, i>>)' = <<>>
    <2>1. <<id, i>> \in Slots BY DEF Slots, Tracks
    <2>2. count'[<<id, i>>] = 0 BY <1>2, <1>3, <2>1
    <2>3. Read(<<id, i>>)' = [k \in 1..0 |-> inf'[Base(<<id, i>>) + k - 1]] BY <2>2 DEF Read
    <2> QED BY <2>2, <2>3
  <1>8. ASSUME NEW i \in Tracks PROVE Waiting(i)' = 0 BY <1>2, <1>3 DEF Waiting, Tracks
  <1>9. Chunked(<<>>, <<>>, <<>>, <<>>, <<>>, 0)
    <2> DEFINE e == <<>>
    <2>0. Len(e) = 0 /\ 1..Len(e) = {} OBVIOUS
    <2>1. Sum(e, 1, Len(e)) + 0 = Len(e)
      <3>1. 1 \in Int /\ 1 - 1 = 0 OBVIOUS
      <3>2. Sum(e, 1, 0) = 0 BY <3>1, SumEmpty
      <3> QED BY <2>0, <3>2
    <2> HIDE DEF e
    <2>2. Chunked(e, e, e, e, e, 0) BY <2>0, <2>1 DEF Chunked
    <2> QED BY <2>2 DEF e
  <1>10. Recording'
    <2>1. ASSUME NEW i \in Tracks
          PROVE  /\ count'[<<"stsz", i>>] = Len(taken'[i])
                 /\ \A id \in {"stco", "stsz", "stsc"} : Read(<<id, i>>)' \in Seq(Nat)
                 /\ Chunked(Read(<<"stco", i>>)', Read(<<"stsc", i>>)', Read(<<"stsz", i>>)',
                            taken'[i], file'.mdat, Waiting(i)')
      <3>1. /\ Read(<<"stco", i>>)' = <<>> /\ Read(<<"stsc", i>>)' = <<>>
            /\ Read(<<"stsz", i>>)' = <<>> /\ count'[<<"stsz", i>>] = 0
        BY <1>7
      <3>2. taken'[i] = <<>> /\ Len(taken'[i]) = 0 BY <1>6
      <3>3. /\ Read(<<"stco", i>>)' \in Seq(Nat) /\ Read(<<"stsc", i>>)' \in Seq(Nat)
            /\ Read(<<"stsz", i>>)' \in Seq(Nat)
        <4>1. <<>> \in Seq(Nat) OBVIOUS
        <4> QED BY <3>1, <4>1
      <3> QED BY <1>4, <1>8, <1>9, <3>1, <3>2, <3>3
    <2>2. last_stream_idx' = -1 BY <1>2, <1>3
    <2> QED BY <2>1, <2>2 DEF Recording
  <1>11. Numbering'
    <2>1. <<"stts", 0>> \in Slots /\ 0 \in Tracks BY DEF Slots, Tracks
    <2>2. count'[<<"stts", 0>>] = 0 /\ taken'[0] = <<>> /\ keys' = <<>>
      BY <1>2, <1>3, <1>6, <2>1
    <2> QED BY <2>2 DEF Numbering
  <1> QED BY <1>1, <1>5, <1>10, <1>11

\* What the trailer finds in the tables, and writes.
LEMMA TablesWritten ==
    ASSUME Kept, WriteTrailer, life' = "finished", NEW j \in Tracks
    PROVE  /\ Fits(j)' => /\ Fits(j)
                          /\ \A s \in Slots : s[2] = j =>
                                Read(s)' = IF s = <<"stsc", last_stream_idx>>
                                           THEN Append(Read(s), stsc_cnt) ELSE Read(s)
           /\ count'[<<"stsz", j>>] = count[<<"stsz", j>>]
           /\ j \in DOMAIN moov' <=> count[<<"stsz", j>>] > 0
           /\ j \in DOMAIN moov' =>
                 /\ moov'[j].stco = Read(<<"stco", j>>)' /\ moov'[j].stsc = Read(<<"stsc", j>>)'
                 /\ moov'[j].stsz = Read(<<"stsz", j>>)' /\ moov'[j].stts = SttsTable(j)
                 /\ moov'[j].stss = IF j = 0 THEN keys ELSE <<>>
  <1> DEFINE new == [s \in {<<"stsc", last_stream_idx>>} |-> stsc_cnt]
  <1>0. last_stream_idx # -1 /\ life = "writing" BY KeptWriteTrailer
  <1>1. /\ DOMAIN new = {<<"stsc", last_stream_idx>>}
        /\ DOMAIN new \subseteq Slots /\ \A s \in DOMAIN new : new[s] \in Entry
        /\ new[<<"stsc", last_stream_idx>>] = stsc_cnt
    BY <1>0, TrailerEntry
  <1>2. Enter(new) /\ moov' = [i \in WithSamples |-> Trak(i)] BY <1>0 DEF WriteTrailer
  <1> HIDE DEF new
  <1>3. count \in [Slots -> Nat] /\ inf \in [Addresses -> Entry] /\ drv.mTrackCnt = 2
    BY <1>0 DEF Kept
  <1>4. \A s \in Slots : count'[s] = count[s] + IF s \in DOMAIN new THEN 1 ELSE 0
    BY <1>1, <1>2, <1>3, EnterTypes
  <1>5. <<"stsz", j>> \in Slots /\ <<"stsz", j>> \notin DOMAIN new BY <1>1 DEF Slots, Tracks
  <1>6. count'[<<"stsz", j>>] = count[<<"stsz", j>>] BY <1>3, <1>4, <1>5
  <1>7. j \in WithSamples <=> count[<<"stsz", j>>] > 0
    BY <1>3, <1>6 DEF WithSamples, Tracks
  <1>8. ASSUME Fits(j)'
        PROVE  /\ Fits(j)
               /\ \A s \in Slots : s[2] = j =>
                     Read(s)' = IF s = <<"stsc", last_stream_idx>>
                                THEN Append(Read(s), stsc_cnt) ELSE Read(s)
    <2>1. Fits(j) /\ \A s \in Slots : s[2] = j => count'[s] <= Cap(s)
      BY <1>1, <1>2, <1>8, FitsBefore
    <2>2. ASSUME NEW s \in Slots, s[2] = j
          PROVE  Read(s)' = IF s = <<"stsc", last_stream_idx>>
                            THEN Append(Read(s), stsc_cnt) ELSE Read(s)
      <3>1. count'[s] <= Cap(s) BY <2>1, <2>2
      <3>2. Read(s)' = IF s \in DOMAIN new THEN Append(Read(s), new[s]) ELSE Read(s)
        BY <1>1, <1>2, <1>3, <3>1, ReadAfter
      <3> QED BY <1>1, <3>2
    <2> QED BY <2>1, <2>2
  <1>9. ASSUME j \in DOMAIN moov'
        PROVE  /\ moov'[j].stco = Read(<<"stco", j>>)' /\ moov'[j].stsc = Read(<<"stsc", j>>)'
               /\ moov'[j].stsz = Read(<<"stsz", j>>)' /\ moov'[j].stts = SttsTable(j)
               /\ moov'[j].stss = IF j = 0 THEN keys ELSE <<>>
    <2>1. moov'[j] = Trak(j) BY <1>2, <1>9
    <2> QED BY <2>1 DEF Trak, Table, Read
  <1>10. DOMAIN moov' = WithSamples BY <1>2
  <1> QED BY <1>6, <1>7, <1>8, <1>9, <1>10

\* The trailer closes the last chunk, and its tables tell where all samples are.
LEMMA FinishedWriteTrailer ==
    ASSUME Kept, Recording, WriteTrailer, life' = "finished"
    PROVE  Finished'
  <1> SUFFICES ASSUME NEW j \in Tracks, Fits(j)', Accepted(j)'
               PROVE  /\ j \notin DOMAIN moov' => taken'[j] = <<>>
                      /\ j \in DOMAIN moov' =>
                            /\ \A id \in {"stco", "stsz", "stsc"} : moov'[j][id] \in Seq(Nat)
                            /\ Chunked(moov'[j].stco, moov'[j].stsc, moov'[j].stsz, taken'[j],
                                       file'.mdat, 0)
    BY DEF Finished
  <1>1. /\ life = "writing" /\ file'.mdat = file.mdat /\ taken' = taken
        /\ drv' = drv /\ last_stream_idx # -1
    BY KeptWriteTrailer
  <1>2. Accepted(j) BY <1>1 DEF Accepted
  <1>3. PICK l, data, got, co, sc, sz :
          /\ l = last_stream_idx /\ data = file.mdat /\ got = taken[j]
          /\ co = Read(<<"stco", j>>) /\ sc = Read(<<"stsc", j>>) /\ sz = Read(<<"stsz", j>>)
    OBVIOUS
  <1>4. /\ <<"stco", j>> \in Slots /\ <<"stsz", j>> \in Slots /\ <<"stsc", j>> \in Slots
    BY DEF Slots, Tracks
  <1>5. /\ Fits(j) /\ Read(<<"stco", j>>)' = co /\ Read(<<"stsz", j>>)' = sz
        /\ Read(<<"stsc", j>>)' = IF j = l THEN Append(sc, stsc_cnt) ELSE sc
    <2>1. Fits(j) /\ \A s \in Slots : s[2] = j =>
                        Read(s)' = IF s = <<"stsc", last_stream_idx>>
                                   THEN Append(Read(s), stsc_cnt) ELSE Read(s)
      BY TablesWritten
    <2> QED BY <1>3, <1>4, <2>1
  <1>6. /\ data \in Seq(Cells) /\ got \in Seq(Got) /\ stsc_cnt \in Nat BY <1>3 DEF Kept
  <1>7. /\ stsc_cnt > 0 /\ count[<<"stsz", j>>] = Len(got)
        /\ co \in Seq(Nat) /\ sc \in Seq(Nat) /\ sz \in Seq(Nat)
        /\ Chunked(co, sc, sz, got, data, Waiting(j))
    BY <1>1, <1>2, <1>3, <1>5 DEF Recording
  <1>8. PICK sc2 : sc2 = Read(<<"stsc", j>>)' OBVIOUS
  <1>9. sc2 \in Seq(Nat) /\ Chunked(co, sc2, sz, got, data, 0)
    <2>1. CASE j = l
      <3>1. Waiting(j) = stsc_cnt /\ stsc_cnt # 0 BY <1>3, <1>6, <1>7, <2>1 DEF Waiting
      <3>2. Chunked(co, sc, sz, got, data, stsc_cnt) BY <1>7, <3>1
      <3>3. Chunked(co, Append(sc, stsc_cnt), sz, got, data, 0)
        BY <1>6, <1>7, <3>1, <3>2, ChunkCloses
      <3>4. sc2 = Append(sc, stsc_cnt) BY <1>5, <1>8, <2>1
      <3>5. sc2 \in Seq(Nat) BY <1>6, <1>7, <3>4, AppendProperties
      <3> QED BY <3>3, <3>4, <3>5
    <2>2. CASE j # l
      <3>1. Waiting(j) = 0 BY <1>3, <2>2 DEF Waiting
      <3> QED BY <1>5, <1>7, <1>8, <2>2, <3>1
    <2> QED BY <2>1, <2>2
  <1>10. ASSUME j \notin DOMAIN moov' PROVE taken'[j] = <<>>
    <2>1. ~(count[<<"stsz", j>>] > 0) BY <1>10, TablesWritten
    <2>2. Len(got) = 0 BY <1>6, <1>7, <2>1
    <2> QED BY <1>1, <1>3, <1>6, <2>2, EmptySeq
  <1>11. ASSUME j \in DOMAIN moov'
         PROVE  /\ \A id \in {"stco", "stsz", "stsc"} : moov'[j][id] \in Seq(Nat)
                /\ Chunked(moov'[j].stco, moov'[j].stsc, moov'[j].stsz, taken'[j], file'.mdat, 0)
    <2>1. moov'[j].stco = co /\ moov'[j].stsc = sc2 /\ moov'[j].stsz = sz
      BY <1>5, <1>8, <1>11, TablesWritten
    <2> QED BY <1>1, <1>3, <1>7, <1>9, <2>1
  <1> QED BY <1>10, <1>11

\* The time tables the trailer writes hold the durations.
LEMMA TimesWriteTrailer ==
    ASSUME Kept, Recording, Numbering, WriteTrailer
    PROVE  TimesReadBack'
  <1> SUFFICES ASSUME NEW j, (j \in DOMAIN moov)', Readable(j)'
               PROVE  /\ Len(moov'[j].stts) = Len(moov'[j].stsz)
                      /\ j = 0 => \A k \in 1..(Len(moov'[0].stts) - 1) :
                                     moov'[0].stts[k] = taken'[0][k + 1].p.duration
                      /\ j = 1 => \A k \in DOMAIN moov'[1].stts : moov'[1].stts[k] = FrameSize
    BY DEF TimesReadBack
  <1>1. life' = "finished" /\ Fits(j)' /\ (j = 0 => drv'.codec = "H264") BY DEF Readable
  <1>2. /\ life = "writing" /\ drv' = drv /\ taken' = taken /\ last_stream_idx # -1
    BY <1>1, KeptWriteTrailer
  <1>3. j \in Tracks
    <2>1. moov' = [i \in WithSamples |-> Trak(i)] BY <1>1, <1>2 DEF WriteTrailer
    <2> QED BY <2>1 DEF WithSamples
  <1>4. /\ Fits(j) /\ moov'[j].stsz = Read(<<"stsz", j>>)' /\ moov'[j].stts = SttsTable(j)
        /\ count'[<<"stsz", j>>] = count[<<"stsz", j>>] /\ count[<<"stsz", j>>] > 0
        /\ \A s \in Slots : s[2] = j => Read(s)' = IF s = <<"stsc", last_stream_idx>>
                                                   THEN Append(Read(s), stsc_cnt) ELSE Read(s)
    BY <1>1, <1>3, TablesWritten
  <1>5. <<"stsz", j>> \in Slots /\ <<"stts", 0>> \in Slots BY <1>3 DEF Slots, Tracks
  <1>6. PICK n \in Nat : n = count[<<"stsz", j>>] BY <1>5 DEF Kept
  <1>7. n > 0 BY <1>4, <1>6
  <1>8. Len(moov'[j].stsz) = n
    <2>1. Read(<<"stsz", j>>)' = [k \in 1..n |-> inf'[Base(<<"stsz", j>>) + k - 1]]
      BY <1>4, <1>6 DEF Read
    <2> QED BY <1>4, <2>1
  <1>9. CASE j = 1
    <2>1. moov'[1].stts = [k \in 1..n |-> FrameSize] BY <1>4, <1>6, <1>9 DEF SttsTable
    <2> QED BY <1>8, <1>9, <2>1
  <1>10. CASE j = 0
    <2>1. Accepted(0) /\ Fits(0) BY <1>1, <1>2, <1>4, <1>10 DEF Accepted
    <2>2. count[<<"stsz", 0>>] = Len(taken[0]) BY <1>2, <2>1 DEF Recording, Tracks
    <2>3. /\ count[<<"stts", 0>>] = n
          /\ \A k \in 1..n : Read(<<"stts", 0>>)[k] = taken[0][k].p.duration
      BY <1>2, <1>6, <1>10, <2>1, <2>2 DEF Numbering
    <2>4. PICK r : r = Read(<<"stts", 0>>) OBVIOUS
    <2>5. r = [k \in 1..n |-> r[k]] BY <2>3, <2>4 DEF Read
    <2>6. Read(<<"stts", 0>>)' = r BY <1>4, <1>5, <1>10, <2>4
    <2>7. Table("stts", 0) = r BY <2>6 DEF Table, Read
    <2>8. moov'[0].stts = Append(Tail(r), 0) BY <1>4, <1>10, <2>7 DEF SttsTable
    <2> DEFINE S == {r[k] : k \in 1..n} \cup {0}
    <2>9. /\ Tail(r) \in Seq(S) /\ Len(Tail(r)) = n - 1
          /\ \A k \in 1..(n - 1) : Tail(r)[k] = r[k + 1]
      <3>1. r \in Seq(S) /\ Len(r) = n BY <2>5
      <3>2. r # <<>> BY <1>7, <3>1
      <3> HIDE DEF S
      <3> QED BY <1>7, <3>1, <3>2, HeadTailProperties
    <2>10. /\ Len(Append(Tail(r), 0)) = n
           /\ \A k \in 1..(n - 1) : Append(Tail(r), 0)[k] = Tail(r)[k]
      <3>1. 0 \in S OBVIOUS
      <3> HIDE DEF S
      <3>2. /\ Len(Append(Tail(r), 0)) = Len(Tail(r)) + 1
            /\ \A k \in 1..Len(Tail(r)) : Append(Tail(r), 0)[k] = Tail(r)[k]
        BY <2>9, <3>1, AppendProperties
      <3> QED BY <2>9, <3>2
    <2> HIDE DEF S
    <2>11. Len(moov'[0].stts) = n BY <2>8, <2>10
    <2>12. ASSUME NEW k \in 1..(n - 1) PROVE moov'[0].stts[k] = taken[0][k + 1].p.duration
      <3>1. k \in 1..n /\ k # n /\ k + 1 \in 1..n BY <1>7
      <3>2. moov'[0].stts[k] = r[k + 1] BY <2>8, <2>9, <2>10, <3>1
      <3> QED BY <2>3, <2>4, <3>1, <3>2
    <2> QED BY <1>2, <1>8, <1>10, <2>11, <2>12
  <1> QED BY <1>3, <1>9, <1>10 DEF Tracks

\* The sync sample table the trailer writes lists the IDR frames.
LEMMA SyncWriteTrailer ==
    ASSUME Kept, Numbering, WriteTrailer
    PROVE  SyncSamplesAreIdr'
  <1> SUFFICES ASSUME Readable(0)', (0 \in DOMAIN moov)'
               PROVE  /\ \A k \in DOMAIN taken'[0] :
                           (\E j \in DOMAIN moov'[0].stss : moov'[0].stss[j] = k)
                              <=> taken'[0][k].p.idr
                      /\ \A j, l \in DOMAIN moov'[0].stss :
                           j < l => moov'[0].stss[j] < moov'[0].stss[l]
    BY DEF SyncSamplesAreIdr
  <1>1. life' = "finished" /\ drv'.codec = "H264" BY DEF Readable
  <1>2. life = "writing" /\ drv' = drv /\ taken' = taken BY KeptWriteTrailer
  <1>3. moov'[0].stss = keys
    <2>1. 0 \in Tracks BY DEF Tracks
    <2> QED BY <1>1, <2>1, TablesWritten
  <1>4. Accepted(0) BY <1>1, <1>2 DEF Accepted
  <1>5. /\ \A k \in DOMAIN taken[0] : (\E j \in DOMAIN keys : keys[j] = k) <=> taken[0][k].p.idr
        /\ \A j, l \in DOMAIN keys : j < l => keys[j] < keys[l]
    BY <1>2, <1>4 DEF Numbering
  <1> QED BY <1>2, <1>3, <1>5

\* A player of the tables finds every sample.
LEMMA FinishedPlays == ASSUME Kept, Finished PROVE SamplesReadBack
  <1> SUFFICES ASSUME NEW i \in Tracks, Readable(i)
               PROVE  /\ Len(Recorded(i)) = Len(taken[i])
                      /\ i \in DOMAIN moov =>
                            /\ Len(moov[i].stco) = Len(moov[i].stsc)
                            /\ Sum(moov[i].stsc, 1, Len(moov[i].stsc)) = Len(moov[i].stsz)
                            /\ Played(i) = [k \in DOMAIN taken[i] |->
                                               Sample(taken[i][k].n, taken[i][k].p)]
    BY DEF SamplesReadBack
  <1>1. life = "finished" /\ Fits(i) /\ Accepted(i) BY DEF Readable, Accepted
  <1>2. taken[i] \in Seq(Got) /\ file.mdat \in Seq(Cells) BY DEF Kept
  <1>3. CASE i \notin DOMAIN moov
    <2>1. taken[i] = <<>> BY <1>1, <1>3 DEF Finished
    <2>2. Recorded(i) = <<>> BY <1>3 DEF Recorded
    <2> QED BY <1>3, <2>1, <2>2
  <1>4. CASE i \in DOMAIN moov
    <2>1. PICK t, got : t = moov[i] /\ got = taken[i] OBVIOUS
    <2>2. /\ \A id \in {"stco", "stsz", "stsc"} : moov[i][id] \in Seq(Nat)
          /\ Chunked(moov[i].stco, moov[i].stsc, moov[i].stsz, taken[i], file.mdat, 0)
      BY <1>1, <1>4 DEF Finished
    <2>3. /\ t.stco \in Seq(Nat) /\ t.stsc \in Seq(Nat) /\ t.stsz \in Seq(Nat)
          /\ Chunked(t.stco, t.stsc, t.stsz, got, file.mdat, 0) /\ got \in Seq(Got)
      BY <1>2, <2>1, <2>2
    <2>4. /\ Len(t.stco) = Len(t.stsc) /\ Len(t.stsz) = Len(got)
          /\ Sum(t.stsc, 1, Len(t.stsc)) = Len(got)
      <3>1. PICK z \in Nat : z = 0 OBVIOUS
      <3>2. Chunked(t.stco, t.stsc, t.stsz, got, file.mdat, z) BY <2>3, <3>1
      <3>3. /\ Len(t.stsz) = Len(got) /\ Sum(t.stsc, 1, Len(t.stsc)) \in Nat
            /\ Sum(t.stsc, 1, Len(t.stsc)) + z = Len(got)
            /\ z = 0 => Len(t.stco) = Len(t.stsc)
        BY <2>3, <3>2, ChunkedFacts
      <3> QED BY <3>1, <3>3
    <2>5. Recorded(i) = t.stsz BY <1>4, <2>1 DEF Recorded
    <2>6. DOMAIN t.stsz = DOMAIN got /\ DOMAIN got = 1..Len(got) BY <2>3, <2>4
    <2>7. \A k \in DOMAIN got : Contents(OffsetOf(t, k), t.stsz[k]) = Sample(got[k].n, got[k].p)
      BY <1>2, <2>3, <2>6, SampleFound
    <2>8. Played(i) = [k \in DOMAIN got |-> Sample(got[k].n, got[k].p)]
      BY <2>1, <2>6, <2>7 DEF Played
    <2> QED BY <2>1, <2>4, <2>5, <2>8
  <1> QED BY <1>3, <1>4
-----------------------------------------------------------------------------
\* The invariant holds at first.
LEMMA InvInit == ASSUME Init PROVE IInv /\ TimesReadBack /\ SyncSamplesAreIdr
  <1>1. Kept BY KeptInit
  <1>2. Fresh BY DEF Init, Fresh
  <1>3. life = "none" /\ moov = <<>> BY DEF Init
  <1>4. Recording /\ Finished /\ Numbering BY <1>3 DEF Recording, Finished, Numbering
  <1>5. TimesReadBack BY <1>3 DEF TimesReadBack, Readable
  <1>6. SyncSamplesAreIdr BY <1>3 DEF SyncSamplesAreIdr, Readable
  <1> QED BY <1>1, <1>2, <1>4, <1>5, <1>6 DEF IInv

\* Every step keeps the invariant.
LEMMA InvNext ==
    ASSUME IInv, TimesReadBack, SyncSamplesAreIdr, [Next]_vars
    PROVE  IInv' /\ TimesReadBack' /\ SyncSamplesAreIdr'
  <1> DEFINE Idle == /\ life' \notin {"writing", "finished"}
             Quiet == Recording' /\ Finished' /\ Numbering' /\ TimesReadBack' /\ SyncSamplesAreIdr'
  <1>1. ASSUME Idle PROVE Quiet
    BY <1>1 DEF Recording, Finished, Numbering, TimesReadBack, SyncSamplesAreIdr, Readable
  <1>2. Kept /\ Fresh /\ Recording /\ Finished /\ Numbering BY DEF IInv
  <1> HIDE DEF Idle, Quiet
  <1>3. CASE Open
    <2>1. life = "none" /\ life' = "opened" /\ UNCHANGED <<drv, file, movVars>> BY <1>3 DEF Open
    <2>2. UNCHANGED <<count, inf, keys, mdat_size, stsc_cnt, last_stream_idx, taken>>
      BY <2>1 DEF movVars
    <2>3. Kept' BY <1>2, <2>1, <2>2 DEF Kept
    <2>4. Fresh' BY <1>2, <2>1, <2>2 DEF Fresh
    <2>5. Quiet BY <1>1, <2>1 DEF Idle
    <2> QED BY <2>3, <2>4, <2>5 DEF IInv, Quiet
  <1>4. CASE \/ SetStream \/ SetCacheMode \/ SetCacheSize
             \/ \E c \in Codecs : SetTrackInfo(c)
             \/ \E csd \in VideoCsds : WriteCSD(0, csd)
             \/ \E csd \in AudioCsds : WriteCSD(1, csd)
    <2>1. Kept' /\ life' = "opened" /\ life = "opened" /\ UNCHANGED <<file, movVars>>
      BY <1>2, <1>4, KeptSetup
    <2>2. UNCHANGED <<count, inf, keys, mdat_size, stsc_cnt, last_stream_idx, taken>>
      BY <2>1 DEF movVars
    <2>3. Fresh' BY <1>2, <2>1, <2>2 DEF Fresh
    <2>4. Quiet BY <1>1, <2>1 DEF Idle
    <2> QED BY <2>1, <2>3, <2>4 DEF IInv, Quiet
  <1>5. CASE WriteHeader
    <2>1. Kept' /\ Recording' /\ Numbering' /\ life' = "writing"
      BY <1>2, <1>5, RecordingWriteHeader
    <2>2. Fresh' /\ Finished' /\ TimesReadBack' /\ SyncSamplesAreIdr'
      BY <2>1 DEF Fresh, Finished, TimesReadBack, SyncSamplesAreIdr, Readable
    <2> QED BY <2>1, <2>2 DEF IInv
  <1>6. ASSUME NEW p \in Packets, WritePacket(p)
        PROVE  IInv' /\ TimesReadBack' /\ SyncSamplesAreIdr'
    <2>1. Kept' /\ life' \in {"writing", "corrupt"} BY <1>2, <1>6, KeptWritePacket
    <2>2. Recording' BY <1>2, <1>6, RecordingWritePacket
    <2>3. Numbering' BY <1>2, <1>6, NumberingWritePacket
    <2>4. Fresh' /\ Finished' /\ TimesReadBack' /\ SyncSamplesAreIdr'
      BY <2>1 DEF Fresh, Finished, TimesReadBack, SyncSamplesAreIdr, Readable
    <2> QED BY <2>1, <2>2, <2>3, <2>4 DEF IInv
  <1>7. CASE WriteTrailer
    <2>1. Kept' /\ life' \in {"finished", "corrupt"} BY <1>2, <1>7, KeptWriteTrailer
    <2>2. Finished'
      <3>1. CASE life' = "finished" BY <1>2, <1>7, <3>1, FinishedWriteTrailer
      <3>2. CASE life' # "finished" BY <3>2 DEF Finished
      <3> QED BY <3>1, <3>2
    <2>3. TimesReadBack' /\ SyncSamplesAreIdr' BY <1>2, <1>7, TimesWriteTrailer, SyncWriteTrailer
    <2>4. Fresh' /\ Recording' /\ Numbering' BY <2>1 DEF Fresh, Recording, Numbering
    <2> QED BY <2>1, <2>2, <2>3, <2>4 DEF IInv
  <1>8. CASE Close
    <2>1. life' = "closed" /\ UNCHANGED <<drv, file, movVars>> BY <1>8 DEF Close
    <2>2. UNCHANGED <<count, inf, keys, mdat_size, stsc_cnt, last_stream_idx, taken>>
      BY <2>1 DEF movVars
    <2>3. Kept' BY <1>2, <2>1, <2>2 DEF Kept
    <2>4. Fresh' BY <2>1 DEF Fresh
    <2>5. Quiet BY <1>1, <2>1 DEF Idle
    <2> QED BY <2>3, <2>4, <2>5 DEF IInv, Quiet
  <1>9. CASE UNCHANGED vars
    <2>1. /\ UNCHANGED <<life, drv, count, inf, keys, mdat_size, stsc_cnt, last_stream_idx,
                         file, moov, taken>>
      BY <1>9 DEF vars
    <2>2. Kept' BY <1>2, <2>1 DEF Kept
    <2>3. Fresh' BY <1>2, <2>1 DEF Fresh
    <2>4. Recording' BY <1>2, <2>1 DEF Recording, Accepted, Fits, Read, Waiting
    <2>5. Finished' BY <1>2, <2>1 DEF Finished, Accepted, Fits
    <2>6. Numbering' BY <1>2, <2>1 DEF Numbering, Accepted, Fits, Read
    <2>7. TimesReadBack' BY <2>1 DEF TimesReadBack, Readable, Fits
    <2>8. SyncSamplesAreIdr' BY <2>1 DEF SyncSamplesAreIdr, Readable, Fits
    <2> QED BY <2>2, <2>3, <2>4, <2>5, <2>6, <2>7, <2>8 DEF IInv
  <1> QED BY <1>3, <1>4, <1>5, <1>6, <1>7, <1>8, <1>9 DEF Next

\* The invariant, and the two properties that hold by the trailer alone.
LEMMA Inductive == Spec => [](IInv /\ TimesReadBack /\ SyncSamplesAreIdr)
  <1>1. Init => IInv /\ TimesReadBack /\ SyncSamplesAreIdr BY InvInit
  <1>2. (IInv /\ TimesReadBack /\ SyncSamplesAreIdr) /\ [Next]_vars
        => (IInv /\ TimesReadBack /\ SyncSamplesAreIdr)'
    BY InvNext
  <1> QED BY <1>1, <1>2, PTL DEF Spec

\* A finished file plays back what was recorded, for any packets in any order
\* and any sizes of the tables, as long as the tables of the track did not
\* overflow: mov_write_packet and the trailer put every sample where the chunk,
\* size and offset tables say, and lose none.
THEOREM SamplesPlayBack == Spec => []SamplesReadBack
  <1>1. IInv => SamplesReadBack BY FinishedPlays DEF IInv
  <1> QED BY <1>1, Inductive, PTL

\* The sync sample table lists exactly the IDR frames, in order: the writer
\* finds the NAL header of every frame, wherever a ring buffer split it.
THEOREM SyncSamplesCorrect == Spec => []SyncSamplesAreIdr
  BY Inductive, PTL

\* The time tables of any recording hold the duration of each sample.
THEOREM TimesPlayBack == Spec => []TimesReadBack
  BY Inductive, PTL

-----------------------------------------------------------------------------
\* What the proofs about the boxes rest on besides: every video sample has a
\* duration, and until the trailer the file has the boxes of the header.
Timed == life = "writing" => count[<<"stts", 0>>] = count[<<"stsz", 0>>]
Layout == life = "writing" => file.box = HeaderBoxes.box

\* No more packets are recorded than counted, and no more counted than may be.
Bounded ==
    /\ \A i \in Tracks : Len(taken[i]) <= count[<<"stsz", i>>]
    /\ count[<<"stsz", 0>>] + count[<<"stsz", 1>>] <= MaxPackets

\* Boxes have a size, and moov has tables of tracks.
Shaped ==
    /\ \A x \in DOMAIN file.box : x \in Nat /\ file.box[x].size \in Nat
    /\ DOMAIN moov \subseteq Tracks

\* Four boxes, each beginning where the one before ends.
Row(f, p, q, r, t) ==
    /\ DOMAIN f = {p, q, r, t} /\ \A x \in DOMAIN f : f[x].size \in Nat /\ f[x].size >= 8
    /\ p + f[p].size = q /\ q + f[q].size = r /\ r + f[r].size = t

\* They tile.
LEMMA RowOfFour ==
    ASSUME NEW f, NEW p \in Nat, NEW q \in Nat, NEW r \in Nat, NEW t \in Nat, Row(f, p, q, r, t)
    PROVE  /\ \A x, y \in DOMAIN f : x < y => x + f[x].size <= y
           /\ \A x \in DOMAIN f : x + f[x].size \in DOMAIN f \/ \A y \in DOMAIN f : y <= x
  <1>0. DOMAIN f = {p, q, r, t} /\ p + f[p].size = q /\ q + f[q].size = r /\ r + f[r].size = t
    BY DEF Row
  <1>1. p < q /\ q < r /\ r < t BY DEF Row
  <1>2. ASSUME NEW x \in DOMAIN f, NEW y \in DOMAIN f, x < y PROVE x + f[x].size <= y
    BY <1>0, <1>1, <1>2
  <1>3. ASSUME NEW x \in DOMAIN f
        PROVE  x + f[x].size \in DOMAIN f \/ \A y \in DOMAIN f : y <= x
    BY <1>0, <1>1
  <1> QED BY <1>2, <1>3

\* The tracks the trailer describes are tracks as Mp4Boxes knows them.
LEMMA TracksWritten ==
    ASSUME Kept, Timed, WriteTrailer, life' = "finished"
    PROVE  \A i \in DOMAIN WrittenTracks : WrittenTracks[i] \in Track
  <1> SUFFICES ASSUME NEW i \in WithSamples PROVE TrackOf(i) \in Track
    BY DEF WrittenTracks
  <1>1. i \in Tracks /\ count'[<<"stsz", i>>] > 0 BY DEF WithSamples
  <1>2. life = "writing" /\ count' \in [Slots -> Nat] /\ keys \in Seq(Nat \ {0})
        /\ last_stream_idx # -1
    BY KeptWriteTrailer DEF Kept
  <1> DEFINE new == [s \in {<<"stsc", last_stream_idx>>} |-> stsc_cnt]
  <1>3. count'[<<"stts", 0>>] = count'[<<"stsz", 0>>]
    <2>1. Enter(new) BY <1>2 DEF WriteTrailer
    <2>2. DOMAIN new = {<<"stsc", last_stream_idx>>} OBVIOUS
    <2>3. <<"stts", 0>> \in Slots \ DOMAIN new /\ <<"stsz", 0>> \in Slots \ DOMAIN new
      BY <2>2 DEF Slots
    <2> HIDE DEF new
    <2>4. /\ count'[<<"stts", 0>>] = count[<<"stts", 0>>]
          /\ count'[<<"stsz", 0>>] = count[<<"stsz", 0>>]
      BY <2>1, <2>3 DEF Enter, Kept
    <2> QED BY <1>2, <2>4 DEF Timed
  <1>4. /\ <<"stco", i>> \in Slots /\ <<"stsz", i>> \in Slots /\ <<"stsc", i>> \in Slots
        /\ <<"stts", 0>> \in Slots
    BY <1>1 DEF Slots, Tracks
  <1>5. PICK n : n = TrackOf(i).n OBVIOUS
  <1>6. n \in [stco : Nat, stsz : Nat, stsc : Nat, stts : Nat, stss : Nat]
    <2>1. Len(keys) \in Nat BY <1>2
    <2> QED BY <1>2, <1>4, <1>5, <2>1 DEF TrackOf
  <1>7. i = 0 => n.stts > 0 BY <1>1, <1>2, <1>3, <1>4, <1>5 DEF TrackOf
  <1>8. drv.csd[i] \in Seq(Byte) /\ (i = 0 => drv.csd[i] \in VideoCsds \cup {<<>>})
    <2>1. drv.csd[0] \in VideoCsds \cup {<<>>} /\ drv.csd[1] \in AudioCsds \cup {<<>>} BY DEF Kept
    <2>2. VideoCsds \subseteq Seq(Byte) /\ AudioCsds \subseteq Seq(Byte) /\ <<>> \in Seq(Byte)
      BY BoxesAssumption, Mp4Assumption DEF Byte
    <2> QED BY <1>1, <2>1, <2>2 DEF Tracks
  <1>9. PICK tag : tag = TrackOf(i).tag OBVIOUS
  <1>10. tag \in Type BY <1>9, TypeFacts DEF TrackOf
  <1>11. PICK t : t = TrackOf(i) OBVIOUS
  <1>12. t \in [video : BOOLEAN, tag : Type, csd : Seq(Byte),
                n : [stco : Nat, stsz : Nat, stsc : Nat, stts : Nat, stss : Nat]]
    BY <1>5, <1>6, <1>8, <1>9, <1>10, <1>11 DEF TrackOf
  <1>13. (t.video <=> i = 0) /\ t.csd = drv.csd[i] /\ t.n = n BY <1>5, <1>11 DEF TrackOf
  <1> QED BY <1>7, <1>8, <1>11, <1>12, <1>13 DEF Track

\* The moov box the trailer writes, and where it goes.
LEMMA TrailerWrites ==
    ASSUME Kept, Timed, WriteTrailer, life' = "finished"
    PROVE  /\ Misfits(file'.moov) = {}
           /\ \E m : \E size \in Nat :
                 /\ size >= 116 /\ m[1].size = size /\ BytesOf(m) = size
                 /\ file'.box = Overwrite(Overwrite(file.box, MoovBoxes(m)), MdatBox)
  <1>1. last_stream_idx # -1 /\ DOMAIN file = {"box", "mdat", "moov"} BY KeptWriteTrailer DEF Kept
  <1>2. PICK traks, m :
           /\ traks = WrittenTracks /\ m = MoovTag(traks)
           /\ file' = [file EXCEPT !.box = Overwrite(Overwrite(@, MoovBoxes(m)), MdatBox), !.moov = m]
    BY <1>1 DEF WriteTrailer
  <1>3. file'.moov = m /\ file'.box = Overwrite(Overwrite(file.box, MoovBoxes(m)), MdatBox)
    BY <1>1, <1>2
  <1>4. \A i \in DOMAIN traks : traks[i] \in Track BY <1>2, TracksWritten
  <1>5. /\ Misfits(m) = {} /\ m[1].size \in Nat /\ m[1].size >= 116 /\ BytesOf(m) = m[1].size
    BY <1>2, <1>4, MoovFits
  <1> QED BY <1>3, <1>5

\* With moov in the reserved space, or behind mdat, the boxes are in a row.
LEMMA TilesWriteTrailer ==
    ASSUME Kept, Timed, Layout, WriteTrailer, life' = "finished"
    PROVE  BoxesTile' /\ \A x \in DOMAIN file'.box : x \in Nat /\ file'.box[x].size \in Nat
  <1>1. PICK m : \E size \in Nat :
           /\ size >= 116 /\ m[1].size = size /\ BytesOf(m) = size
           /\ file'.box = Overwrite(Overwrite(file.box, MoovBoxes(m)), MdatBox)
    BY TrailerWrites
  <1>2. PICK size \in Nat :
           /\ size >= 116 /\ m[1].size = size /\ BytesOf(m) = size
           /\ file'.box = Overwrite(Overwrite(file.box, MoovBoxes(m)), MdatBox)
    BY <1>1
  <1>3. life = "writing" /\ file'.mdat = file.mdat /\ mdat_size = Len(file.mdat) /\ mdat_size \in Nat
    BY KeptWriteTrailer DEF Kept
  <1>4. PICK R \in Nat, D \in Nat : R = Reserve /\ D = mdat_size BY <1>3, ConstantFacts
  <1>5. R >= 36 BY <1>4, ConstantFacts
  <1>6. PICK b, f, g, h : b = file.box /\ f = file'.box /\ g = MoovBoxes(m) /\ h = MdatBox OBVIOUS
  <1>7. /\ DOMAIN b = {0, 28, R} /\ b[0] = [type |-> "ftyp", size |-> 28]
        /\ b[28] = [type |-> "free", size |-> R - 28] /\ b[R] = [type |-> "mdat", size |-> 0]
    <2>1. b = HeaderBoxes.box BY <1>3, <1>6 DEF Layout
    <2>2. b = [x \in {0, 28, R} |->
                  CASE x = 0 -> [type |-> "ftyp", size |-> 28]
                    [] x = 28 -> [type |-> "free", size |-> R - 28]
                    [] x = R -> [type |-> "mdat", size |-> 0]]
      BY <1>4, <2>1 DEF HeaderBoxes, free_pos, mdat_pos
    <2>3. 0 # 28 /\ 0 # R /\ 28 # R BY <1>5
    <2> QED BY <2>2, <2>3
  <1>8. DOMAIN h = {R} /\ h[R] = [type |-> "mdat", size |-> D + 8]
    BY <1>4, <1>6 DEF MdatBox, mdat_pos
  <1>9. /\ DOMAIN f = DOMAIN b \cup DOMAIN g \cup DOMAIN h
        /\ \A x \in DOMAIN f : f[x] = IF x \in DOMAIN h THEN h[x]
                                      ELSE IF x \in DOMAIN g THEN g[x] ELSE b[x]
    BY <1>2, <1>6 DEF Overwrite
  <1>10. ASSUME NEW p \in Nat, NEW q \in Nat, NEW r \in Nat, NEW t \in Nat,
                Row(f, p, q, r, t), NEW o, {x \in DOMAIN f : f[x].type = "moov"} = {o},
                R + f[R].size = R + 8 + D
         PROVE  BoxesTile' /\ \A x \in DOMAIN file'.box : x \in Nat /\ file'.box[x].size \in Nat
    <2>1. /\ \A x, y \in DOMAIN f : x < y => x + f[x].size <= y
          /\ \A x \in DOMAIN f : x + f[x].size \in DOMAIN f \/ \A y \in DOMAIN f : y <= x
      BY <1>10, RowOfFour
    <2>2. Cardinality({x \in DOMAIN f : f[x].type = "moov"}) = 1 BY <1>10, FS_Singleton
    <2>3. mdat_pos + f[mdat_pos].size = mdat_start_pos + Len(file'.mdat)
      BY <1>3, <1>4, <1>10 DEF mdat_pos, mdat_start_pos
    <2>4. \A x \in DOMAIN f : x \in Nat /\ f[x].size \in Nat /\ f[x].size >= 8 BY <1>10 DEF Row
    <2> QED BY <1>6, <2>1, <2>2, <2>3, <2>4 DEF BoxesTile
  <1>11. CASE size + 28 + 8 <= R
    <2>1. PICK r \in Nat, rest \in Nat : r = 28 + size /\ rest = R - size - 28 BY <1>11
    <2>2. /\ DOMAIN g = {28, r} /\ g[28] = [type |-> "moov", size |-> size]
          /\ g[r] = [type |-> "free", size |-> rest]
      <3>1. FitsReserve(size) BY <1>4, <1>11 DEF FitsReserve
      <3>2. g = [x \in {28, 28 + size} |-> IF x = 28 THEN [type |-> "moov", size |-> size]
                                           ELSE [type |-> "free", size |-> Reserve - size - 28]]
        BY <1>2, <1>6, <3>1 DEF MoovBoxes, free_pos
      <3>3. r # 28 BY <1>2, <2>1
      <3> QED BY <1>4, <2>1, <3>2, <3>3
    <2>3. 28 < r /\ r < R /\ 0 < 28 /\ rest >= 8 /\ r + rest = R BY <1>2, <1>11, <2>1
    <2>4. DOMAIN f = {0, 28, r, R} BY <1>7, <1>8, <1>9, <2>2
    <2>5. /\ f[0] = [type |-> "ftyp", size |-> 28] /\ f[28] = [type |-> "moov", size |-> size]
          /\ f[r] = [type |-> "free", size |-> rest] /\ f[R] = [type |-> "mdat", size |-> D + 8]
      BY <1>7, <1>8, <1>9, <2>2, <2>3, <2>4
    <2>6. /\ f[0].size = 28 /\ f[28].size = size /\ f[r].size = rest /\ f[R].size = D + 8
          /\ f[0].type = "ftyp" /\ f[28].type = "moov" /\ f[r].type = "free" /\ f[R].type = "mdat"
      BY <2>5
    <2>7. \A x \in DOMAIN f : f[x].size \in Nat /\ f[x].size >= 8 BY <1>2, <2>3, <2>4, <2>6
    <2>8. {x \in DOMAIN f : f[x].type = "moov"} = {28} BY <2>4, <2>6
    <2>9. 0 + f[0].size = 28 /\ 28 + f[28].size = r /\ r + f[r].size = R
          /\ R + f[R].size = R + 8 + D
      BY <2>1, <2>3, <2>6
    <2>10. Row(f, 0, 28, r, R) BY <2>4, <2>7, <2>9 DEF Row
    <2>11. 0 \in Nat /\ 28 \in Nat OBVIOUS
    <2> QED BY <1>10, <2>8, <2>9, <2>10, <2>11
  <1>12. CASE ~(size + 28 + 8 <= R)
    <2>1. PICK t \in Nat : t = R + 8 + D OBVIOUS
    <2>2. DOMAIN g = {t} /\ g[t] = [type |-> "moov", size |-> size]
      <3>1. ~FitsReserve(size) BY <1>4, <1>12 DEF FitsReserve
      <3>2. g = [x \in {mdat_start_pos + Len(file.mdat)} |-> [type |-> "moov", size |-> size]]
        BY <1>2, <1>6, <3>1 DEF MoovBoxes
      <3>3. mdat_start_pos + Len(file.mdat) = t BY <1>3, <1>4, <2>1 DEF mdat_start_pos, mdat_pos
      <3> QED BY <3>2, <3>3
    <2>3. 0 < 28 /\ 28 < R /\ R < t /\ R - 28 \in Nat /\ R - 28 >= 8 BY <1>5, <2>1
    <2>4. DOMAIN f = {0, 28, R, t} BY <1>7, <1>8, <1>9, <2>2
    <2>5. /\ f[0] = [type |-> "ftyp", size |-> 28] /\ f[28] = [type |-> "free", size |-> R - 28]
          /\ f[R] = [type |-> "mdat", size |-> D + 8] /\ f[t] = [type |-> "moov", size |-> size]
      BY <1>7, <1>8, <1>9, <2>2, <2>3, <2>4
    <2>6. /\ f[0].size = 28 /\ f[28].size = R - 28 /\ f[R].size = D + 8 /\ f[t].size = size
          /\ f[0].type = "ftyp" /\ f[28].type = "free" /\ f[R].type = "mdat" /\ f[t].type = "moov"
      BY <2>5
    <2>7. \A x \in DOMAIN f : f[x].size \in Nat /\ f[x].size >= 8 BY <1>2, <2>3, <2>4, <2>6
    <2>8. {x \in DOMAIN f : f[x].type = "moov"} = {t} BY <2>4, <2>6
    <2>9. 0 + f[0].size = 28 /\ 28 + f[28].size = R /\ R + f[R].size = t
          /\ R + f[R].size = R + 8 + D
      BY <2>1, <2>3, <2>6
    <2>10. Row(f, 0, 28, R, t) BY <2>4, <2>7, <2>9 DEF Row
    <2>11. 0 \in Nat /\ 28 \in Nat OBVIOUS
    <2> QED BY <1>10, <2>8, <2>9, <2>10, <2>11
  <1> QED BY <1>11, <1>12

\* How a packet counts.
LEMMA PacketCounts ==
    ASSUME Kept, Timed, Bounded, NEW p \in Packets, WritePacket(p)
    PROVE  /\ count'[<<"stts", 0>>] = count'[<<"stsz", 0>>]
           /\ Bounded'
  <1> DEFINE i == p.stream_idx
             new == Entries(p)
  <1>1. /\ DOMAIN new \subseteq Slots /\ \A s \in DOMAIN new : new[s] \in Entry
        /\ \A j \in Tracks : <<"stsz", j>> \in DOMAIN new <=> j = i
        /\ <<"stts", 0>> \in DOMAIN new <=> i = 0
    BY EntriesFacts
  <1>2. /\ Enter(new) /\ count \in [Slots -> Nat] /\ inf \in [Addresses -> Entry]
        /\ life = "writing" /\ count[<<"stsz", 0>>] + count[<<"stsz", 1>>] < MaxPackets
        /\ taken \in [Tracks -> Seq(Got)] /\ i \in Tracks
    BY PacketFacts DEF WritePacket, Kept
  <1> HIDE DEF new
  <1>3. \A s \in Slots : count'[s] = count[s] + IF s \in DOMAIN new THEN 1 ELSE 0
    BY <1>1, <1>2, EnterTypes
  <1>4. <<"stsz", 0>> \in Slots /\ <<"stsz", 1>> \in Slots /\ <<"stts", 0>> \in Slots BY DEF Slots
  <1>5. 0 \in Tracks /\ 1 \in Tracks /\ Tracks = {0, 1} BY DEF Tracks
  <1>6. PICK v \in Nat, a \in Nat : v = count[<<"stsz", 0>>] /\ a = count[<<"stsz", 1>>]
    BY <1>2, <1>4
  <1>7. /\ count'[<<"stsz", 0>>] = v + IF i = 0 THEN 1 ELSE 0
        /\ count'[<<"stsz", 1>>] = a + IF i = 1 THEN 1 ELSE 0
        /\ count'[<<"stts", 0>>] = v + IF i = 0 THEN 1 ELSE 0
    BY <1>1, <1>2, <1>3, <1>4, <1>5, <1>6 DEF Timed
  <1>8. v + a < MaxPackets /\ MaxPackets \in Nat BY <1>2, <1>6, ConstantFacts
  <1>9. count'[<<"stsz", 0>>] + count'[<<"stsz", 1>>] <= MaxPackets BY <1>2, <1>5, <1>7, <1>8
  <1>10. ASSUME NEW j \in Tracks PROVE Len(taken'[j]) <= count'[<<"stsz", j>>]
    <2>1. PICK l \in Nat, c \in Nat : l = Len(taken[j]) /\ c = count[<<"stsz", j>>]
      <3>1. taken[j] \in Seq(Got) BY <1>2
      <3>2. Len(taken[j]) \in Nat BY ONLY <3>1
      <3>3. <<"stsz", j>> \in Slots BY <1>4, <1>5
      <3>4. count[<<"stsz", j>>] \in Nat BY <1>2, <3>3
      <3> QED BY ONLY <3>2, <3>4
    <2>2. l <= c BY <2>1 DEF Bounded
    <2>3. count'[<<"stsz", j>>] = c + IF j = i THEN 1 ELSE 0 BY <1>5, <1>6, <1>7, <2>1
    <2>4. CASE j = i /\ taken' # taken
      <3>1. PICK e : taken' = [taken EXCEPT ![i] = Append(@, e)] BY <2>4 DEF WritePacket
      <3>2. taken'[j] = Append(taken[j], e) BY <1>2, <2>4, <3>1
      <3>3. Len(taken'[j]) = l + 1 BY <1>2, <2>1, <3>2
      <3> QED BY <2>2, <2>3, <2>4, <3>3
    <2>5. CASE j # i \/ taken' = taken
      <3>1. taken'[j] = taken[j] BY <1>2, <2>5 DEF WritePacket
      <3> QED BY <2>1, <2>2, <2>3, <3>1
    <2> QED BY <2>4, <2>5
  <1> QED BY <1>7, <1>9, <1>10 DEF Bounded

\* The invariant about boxes.
BInv == Timed /\ Layout /\ Bounded /\ Shaped /\ BoxesTile /\ BoxesNest

\* At first there are no boxes.
LEMMA BoxesInit == ASSUME Init PROVE BInv
  <1>1. life = "none" /\ file.box = <<>> /\ moov = <<>> BY DEF Init, NoFile
  <1>2. Timed /\ Layout /\ BoxesTile /\ BoxesNest BY <1>1 DEF Timed, Layout, BoxesTile, BoxesNest
  <1>3. Shaped BY <1>1 DEF Shaped
  <1>4. <<"stsz", 0>> \in Slots /\ <<"stsz", 1>> \in Slots /\ Tracks = {0, 1} BY DEF Slots, Tracks
  <1>5. Bounded
    <2>1. /\ count[<<"stsz", 0>>] = 0 /\ count[<<"stsz", 1>>] = 0
          /\ \A i \in Tracks : taken[i] = <<>>
      BY <1>4 DEF Init
    <2> QED BY <1>4, <2>1, ConstantFacts DEF Bounded
  <1> QED BY <1>2, <1>3, <1>5 DEF BInv

\* A step that leaves the counts, the file and the tables alone.
LEMMA BoxesIdle ==
    ASSUME BInv, UNCHANGED <<count, file, moov, taken>>, life' \notin {"writing", "finished"}
    PROVE  BInv'
  <1>1. Timed' /\ Layout' /\ BoxesTile' /\ BoxesNest' BY DEF Timed, Layout, BoxesTile, BoxesNest
  <1>2. Bounded' BY DEF BInv, Bounded
  <1>3. Shaped' BY DEF BInv, Shaped
  <1> QED BY <1>1, <1>2, <1>3 DEF BInv

\* The header writes three boxes.
LEMMA BoxesWriteHeader ==
    ASSUME Fresh, BInv, WriteHeader
    PROVE  BInv'
  <1>1. /\ life = "opened" /\ life' = "writing" /\ file' = HeaderBoxes
        /\ UNCHANGED <<count, moov, taken>>
    BY DEF WriteHeader, movVars
  <1>2. BoxesTile' /\ BoxesNest' /\ Layout' BY <1>1 DEF BoxesTile, BoxesNest, Layout, HeaderBoxes
  <1>3. Timed'
    <2>1. <<"stts", 0>> \in Slots /\ <<"stsz", 0>> \in Slots BY DEF Slots
    <2> QED BY <1>1, <2>1 DEF Fresh, Timed
  <1>4. Bounded' BY <1>1 DEF BInv, Bounded
  <1>5. Shaped'
    <2>1. file'.box = [x \in {0, 28, Reserve} |->
                          CASE x = 0 -> [type |-> "ftyp", size |-> 28]
                            [] x = 28 -> [type |-> "free", size |-> Reserve - 28]
                            [] x = Reserve -> [type |-> "mdat", size |-> 0]]
      BY <1>1 DEF HeaderBoxes, free_pos, mdat_pos
    <2>2. PICK R \in Nat : R = Reserve /\ R >= 36 BY ConstantFacts
    <2>3. R - 28 \in Nat /\ 0 # 28 /\ 0 # R /\ 28 # R BY <2>2
    <2>4. /\ DOMAIN file'.box = {0, 28, R} /\ file'.box[0].size = 28
          /\ file'.box[28].size = R - 28 /\ file'.box[R].size = 0
      BY <2>1, <2>2, <2>3
    <2>5. \A x \in DOMAIN file'.box : x \in Nat /\ file'.box[x].size \in Nat BY <2>3, <2>4
    <2> QED BY <1>1, <2>5 DEF BInv, Shaped
  <1> QED BY <1>2, <1>3, <1>4, <1>5 DEF BInv

\* A packet leaves the boxes alone.
LEMMA BoxesWritePacket ==
    ASSUME Kept, BInv, NEW p \in Packets, WritePacket(p)
    PROVE  BInv'
  <1>1. life = "writing" /\ life' \in {"writing", "corrupt"} BY KeptWritePacket
  <1>2. file'.box = file.box /\ moov' = moov BY DEF WritePacket, Kept
  <1>3. BoxesTile' /\ BoxesNest' BY <1>1 DEF BoxesTile, BoxesNest
  <1>4. Timed' /\ Bounded' BY PacketCounts DEF BInv, Timed
  <1>5. Layout' BY <1>1, <1>2 DEF BInv, Layout, HeaderBoxes
  <1>6. Shaped' BY <1>2 DEF BInv, Shaped
  <1> QED BY <1>3, <1>4, <1>5, <1>6 DEF BInv

\* The trailer writes them as they should be.
LEMMA BoxesWriteTrailer ==
    ASSUME Kept, BInv, WriteTrailer
    PROVE  BInv'
  <1>1. life' \in {"finished", "corrupt"} /\ taken' = taken BY KeptWriteTrailer
  <1>2. CASE life' = "corrupt"
    <2>1. last_stream_idx = -1 BY <1>2 DEF WriteTrailer
    <2>2. UNCHANGED <<count, file, moov, taken>> BY <1>1, <2>1 DEF WriteTrailer
    <2> QED BY <1>2, <2>2, BoxesIdle
  <1>3. CASE life' = "finished"
    <2>1. Timed /\ Layout /\ Bounded BY DEF BInv
    <2>2. BoxesTile' /\ \A x \in DOMAIN file'.box : x \in Nat /\ file'.box[x].size \in Nat
      BY <1>3, <2>1, TilesWriteTrailer
    <2>3. Misfits(file'.moov) = {} BY <1>3, <2>1, TrailerWrites
    <2>4. BoxesNest' BY <2>3 DEF BoxesNest
    <2>5. DOMAIN moov' \subseteq Tracks
      <3>1. last_stream_idx # -1 BY <1>3, KeptWriteTrailer
      <3>2. moov' = [i \in WithSamples |-> Trak(i)] BY <3>1 DEF WriteTrailer
      <3> QED BY <3>2 DEF WithSamples
    <2>6. \A j \in Tracks : count'[<<"stsz", j>>] = count[<<"stsz", j>>] BY <1>3, TablesWritten
    <2>7. Bounded'
      <3>1. 0 \in Tracks /\ 1 \in Tracks BY DEF Tracks
      <3> QED BY <1>1, <2>1, <2>6, <3>1 DEF Bounded
    <2> QED BY <1>3, <2>2, <2>4, <2>5, <2>7 DEF BInv, Timed, Layout, Shaped
  <1> QED BY <1>1, <1>2, <1>3

\* Every step keeps the invariant about boxes.
LEMMA BoxesNext ==
    ASSUME IInv, BInv, [Next]_vars
    PROVE  BInv'
  <1>1. Kept /\ Fresh BY DEF IInv
  <1>2. CASE Open BY <1>2, BoxesIdle DEF Open, movVars
  <1>3. CASE \/ SetStream \/ SetCacheMode \/ SetCacheSize
             \/ \E c \in Codecs : SetTrackInfo(c)
             \/ \E csd \in VideoCsds : WriteCSD(0, csd)
             \/ \E csd \in AudioCsds : WriteCSD(1, csd)
    <2>1. life' = "opened" /\ UNCHANGED <<file, movVars>> BY <1>1, <1>3, KeptSetup
    <2> QED BY <2>1, BoxesIdle DEF movVars
  <1>4. CASE WriteHeader BY <1>1, <1>4, BoxesWriteHeader
  <1>5. ASSUME NEW p \in Packets, WritePacket(p) PROVE BInv' BY <1>1, <1>5, BoxesWritePacket
  <1>6. CASE WriteTrailer BY <1>1, <1>6, BoxesWriteTrailer
  <1>7. CASE Close BY <1>7, BoxesIdle DEF Close, movVars
  <1>8. CASE UNCHANGED vars
    <2>1. UNCHANGED <<life, count, file, moov, taken>> BY <1>8 DEF vars
    <2>2. Timed' /\ Layout' /\ Bounded' /\ Shaped'
      BY <2>1 DEF BInv, Timed, Layout, HeaderBoxes, Bounded, Shaped
    <2>3. BoxesTile' /\ BoxesNest' BY <2>1 DEF BInv, BoxesTile, BoxesNest
    <2> QED BY <2>2, <2>3 DEF BInv
  <1> QED BY <1>2, <1>3, <1>4, <1>5, <1>6, <1>7, <1>8 DEF Next

\* Both invariants together.
LEMMA BoxesInductive == Spec => [](IInv /\ BInv)
  <1>1. Init => BInv BY BoxesInit
  <1>2. IInv /\ BInv /\ [Next]_vars => BInv' BY BoxesNext
  <1> QED BY <1>1, <1>2, Inductive, PTL DEF Spec

\* A finished file is a row of boxes, whatever was recorded and however big the
\* reserved space: mov_write_moov_tag puts moov where it fits, with a free box
\* behind it, or behind the media data, and the trailer closes mdat.
THEOREM BoxesAlwaysTile == Spec => []BoxesTile
  BY BoxesInductive, PTL DEF BInv

\* In the moov box of every finished file, each movGet...TagSize tells the size
\* of what its mov_write_..._tag writes, for any codec data, title and tables.
THEOREM BoxesAlwaysNest == Spec => []BoxesNest
  BY BoxesInductive, PTL DEF BInv

\* The types of the writer's state.
THEOREM TypesCorrect == Spec => []TypeOK
  <1>1. IInv /\ BInv => TypeOK
    <2> SUFFICES ASSUME IInv, BInv PROVE TypeOK OBVIOUS
    <2>1. Kept /\ Bounded /\ Shaped BY DEF IInv, BInv
    <2>2. \A i \in Tracks : Len(taken[i]) <= MaxPackets
      <3>1. ASSUME NEW i \in Tracks PROVE Len(taken[i]) <= MaxPackets
        <4>1. <<"stsz", 0>> \in Slots /\ <<"stsz", 1>> \in Slots /\ <<"stsz", i>> \in Slots
              /\ i \in {0, 1}
          BY DEF Slots, Tracks
        <4>2. PICK v \in Nat, a \in Nat, l \in Nat :
                 v = count[<<"stsz", 0>>] /\ a = count[<<"stsz", 1>>] /\ l = Len(taken[i])
          BY <2>1, <4>1 DEF Kept
        <4>3. l <= count[<<"stsz", i>>] BY <2>1, <4>2 DEF Bounded
        <4>4. v + a <= MaxPackets /\ MaxPackets \in Nat BY <2>1, <4>2, ConstantFacts DEF Bounded
        <4>5. CASE i = 0 BY <4>2, <4>3, <4>4, <4>5
        <4>6. CASE i = 1 BY <4>2, <4>3, <4>4, <4>6
        <4> QED BY <4>1, <4>5, <4>6
      <3> QED BY <3>1
    <2> QED BY <2>1, <2>2 DEF Kept, Shaped, TypeOK, Entry
  <1> QED BY <1>1, BoxesInductive, PTL
-----------------------------------------------------------------------------
\* The trailer puts the parameter sets of the codec data into moov.
LEMMA ConfiguredWriteTrailer ==
    ASSUME Kept, Timed, WriteTrailer, life' = "finished"
    PROVE  DecoderConfigured'
  <1> DEFINE d == drv.csd[0]
  <1>1. last_stream_idx # -1 /\ DOMAIN file = {"box", "mdat", "moov"} /\ drv' = drv
    BY KeptWriteTrailer DEF Kept, WriteTrailer
  <1>2. PICK traks : traks = WrittenTracks OBVIOUS
  <1>3. file'.moov = MoovTag(traks)
    <2>1. PICK m :
             /\ m = MoovTag(traks)
             /\ file' = [file EXCEPT !.box = Overwrite(Overwrite(@, MoovBoxes(m)), MdatBox), !.moov = m]
      BY <1>1, <1>2 DEF WriteTrailer
    <2> QED BY <1>1, <2>1
  <1>4. moov' = [i \in WithSamples |-> Trak(i)] BY <1>1 DEF WriteTrailer
  <1>5. DOMAIN traks = DOMAIN moov' BY <1>2, <1>4 DEF WrittenTracks
  <1>6. \A i \in DOMAIN traks : traks[i] = TrackOf(i) BY <1>2 DEF WrittenTracks
  <1>7. ASSUME 0 \in DOMAIN moov', drv.codec = "H264", Len(d) > 6, HasStartCode(d) => Unstuffed(d)
        PROVE  Carries(file'.moov,
                  IF HasStartCode(d)
                  THEN <<LastOfType(AnnexB(d), SPS), LastOfType(AnnexB(d), PPS)>> ELSE <<d>>)
    <2>1. traks[0] = TrackOf(0) /\ 0 \in DOMAIN traks BY <1>5, <1>6, <1>7
    <2>2. traks[0].video /\ traks[0].tag = "avc1" /\ traks[0].csd = d
      <3>1. (TrackOf(0).video <=> 0 = 0) /\ TrackOf(0).csd = d BY DEF TrackOf
      <3>2. TrackOf(0).tag = "avc1" BY <1>7 DEF TrackOf
      <3> QED BY <2>1, <3>1, <3>2
    <2>3. 1 \in DOMAIN traks => ~traks[1].video
      <3>1. TrackOf(1).video <=> 1 = 0 BY DEF TrackOf
      <3> QED BY <1>6, <3>1
    <2>4. d \in VideoCsds
      <3>1. d \in VideoCsds \cup {<<>>} BY DEF Kept
      <3>2. Len(<<>>) = 0 OBVIOUS
      <3> QED BY <1>7, <3>1, <3>2
    <2>5. Carries(file'.moov, ParameterSets(d))
      BY <1>3, <1>7, <2>1, <2>2, <2>3, <2>4, HoldsMoov
    <2>6. CASE ~HasStartCode(d) BY <2>5, <2>6 DEF ParameterSets
    <2>7. CASE HasStartCode(d)
      <3>1. d \in Seq(Byte) BY <2>4, BoxesAssumption DEF Byte
      <3>2. /\ \A q \in DOMAIN AnnexB(d) : Len(AnnexB(d)[q]) >= 4
            /\ \A q \in Codes(d, 1, Len(d) - 3) : d[q] = 0
        BY <2>4, <2>7, Mp4Assumption
      <3>3. Stream(d) BY <1>7, <2>7, <3>1, <3>2 DEF Stream
      <3>4. /\ LastOfType(NalUnits(d), SPS) = LastOfType(AnnexB(d), SPS)
            /\ LastOfType(NalUnits(d), PPS) = LastOfType(AnnexB(d), PPS)
        BY <3>3, ParameterSetFound
      <3> QED BY <2>5, <2>7, <3>4 DEF ParameterSets
    <2> QED BY <2>6, <2>7
  <1> QED BY <1>1, <1>7 DEF DecoderConfigured

\* No other step finishes a file, or changes a finished one.
LEMMA ConfiguredNext ==
    ASSUME IInv, BInv, DecoderConfigured, [Next]_vars
    PROVE  DecoderConfigured'
  <1>1. Kept /\ Timed BY DEF IInv, BInv
  <1>2. ASSUME life' # "finished" PROVE DecoderConfigured' BY <1>2 DEF DecoderConfigured
  <1>3. CASE Open BY <1>2, <1>3 DEF Open
  <1>4. CASE \/ SetStream \/ SetCacheMode \/ SetCacheSize
             \/ \E c \in Codecs : SetTrackInfo(c)
             \/ \E csd \in VideoCsds : WriteCSD(0, csd)
             \/ \E csd \in AudioCsds : WriteCSD(1, csd)
    BY <1>1, <1>2, <1>4, KeptSetup
  <1>5. CASE WriteHeader BY <1>2, <1>5 DEF WriteHeader
  <1>6. ASSUME NEW p \in Packets, WritePacket(p) PROVE DecoderConfigured'
    BY <1>1, <1>2, <1>6, KeptWritePacket
  <1>7. CASE WriteTrailer BY <1>1, <1>2, <1>7, ConfiguredWriteTrailer
  <1>8. CASE Close BY <1>2, <1>8 DEF Close
  <1>9. CASE UNCHANGED vars BY <1>9 DEF vars, DecoderConfigured
  <1> QED BY <1>3, <1>4, <1>5, <1>6, <1>7, <1>8, <1>9 DEF Next

\* The decoder of every finished H264 file gets the encoder's parameter sets:
\* ff_avc_find_startcode and ff_avc_parse_nal_units, word by word or byte by
\* byte, find in any codec data the units between its start codes, and
\* ff_isom_write_avcc writes the last of each type into the one avcC box.
THEOREM DecoderAlwaysConfigured == Spec => []DecoderConfigured
  <1>1. Init => DecoderConfigured BY DEF Init, DecoderConfigured
  <1>2. IInv /\ BInv /\ DecoderConfigured /\ [Next]_vars => DecoderConfigured' BY ConfiguredNext
  <1> QED BY <1>1, <1>2, BoxesInductive, PTL DEF Spec
=============================================================================
