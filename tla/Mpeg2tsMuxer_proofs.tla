-------------------------- MODULE Mpeg2tsMuxer_proofs --------------------------
(***************************************************************************)
(* Proofs about Mpeg2tsMuxer for every set of frames, every codec data and *)
(* every recording, however long.                                          *)
(***************************************************************************)
EXTENDS Mpeg2tsMuxer, Sums_proofs, FiniteSetTheorems, SequenceTheorems

\* What the writer appends to the file.
Tables == [is : {"table"}, pid : Nat, cc : Nat, lists : SUBSET Nat]
Starts == [is : {"start"}, pid : Nat, cc : Nat, af : Nat, pes_len : Nat,
           pts : {PtsBytes(p.pts) : p \in Packets}]
Middles == [is : {"middle"}, pid : Nat, cc : Nat]
Lasts == [is : {"last"}, pid : Nat, cc : Nat, af : Int]
Headers == Tables \cup Starts \cup Middles \cup Lasts
Contents == [is : {"aud", "csd"}] \cup [is : {"adts"}, frame_length : Nat]
            \cup [is : {"frame"}, n : Nat]

Segment == [at : Nat, of : Headers \cup Contents, from : Int, len : Nat \ {0}]
File == [segs : Seq(Segment), size : Nat]

\* The segments lie within what is written.
Within(f) == \A j \in DOMAIN f.segs : f.segs[j].at + f.segs[j].len <= f.size

\* The packets of the application, without the bound on their times.
LEMMA PacketFacts ==
    ASSUME NEW p \in Packets
    PROVE  /\ p.stream_idx \in {0, 1} /\ p.flags \in BOOLEAN
           /\ p.size0 \in Nat \ {0} /\ p.size1 \in Nat
           /\ p.data1 \in Int /\ p.pts \in Nat
           /\ p.size1 # 0 => p.data1 >= p.size0 \/ p.data1 + p.size1 <= 0
  BY TsAssumption, SMT

\* The other constants.
LEMMA ConstantFacts ==
    CsdLens \subseteq Nat /\ Wrap \in Nat \ {0} /\ MaxPes \in Nat /\ MaxUnits \in Nat
  BY TsAssumption, SMT
-----------------------------------------------------------------------------
\* cache_write appends a segment, unless there is nothing to write.
LEMMA CacheWriteFacts ==
    ASSUME NEW f \in File, NEW of \in Headers \cup Contents, NEW from \in Int, NEW len \in Nat
    PROVE  LET g == CacheWrite(f, of, from, len)
           IN /\ g \in File
              /\ g.size = f.size + len
              /\ Within(f) => Within(g)
              /\ len = 0 => g = f
              /\ len # 0 => /\ Len(g.segs) = Len(f.segs) + 1
                            /\ g.segs[Len(f.segs) + 1] =
                                  [at |-> f.size, of |-> of, from |-> from, len |-> len]
              /\ \A k \in 1..Len(f.segs) : g.segs[k] = f.segs[k]
  <1> DEFINE s == [at |-> f.size, of |-> of, from |-> from, len |-> len]
             g == CacheWrite(f, of, from, len)
  <1>1. f.segs \in Seq(Segment) /\ f.size \in Nat /\ Len(f.segs) \in Nat
        /\ DOMAIN f.segs = 1..Len(f.segs)
    BY DEF File
  <1>2. CASE len = 0 BY <1>1, <1>2 DEF CacheWrite
  <1>3. CASE len # 0
    <2>1. s \in Segment BY <1>1, <1>3 DEF Segment
    <2>2. g = [segs |-> Append(f.segs, s), size |-> f.size + len]
      BY <1>3 DEF CacheWrite
    <2> HIDE DEF s, g
    <2>3. /\ Append(f.segs, s) \in Seq(Segment)
          /\ Len(Append(f.segs, s)) = Len(f.segs) + 1
          /\ Append(f.segs, s)[Len(f.segs) + 1] = s
          /\ \A k \in 1..Len(f.segs) : Append(f.segs, s)[k] = f.segs[k]
      BY <1>1, <2>1
    <2>4. g.segs = Append(f.segs, s) /\ g.size = f.size + len BY <2>2
    <2>5. g \in File BY <1>1, <2>2, <2>3 DEF File
    <2>6. DOMAIN g.segs = 1..(Len(f.segs) + 1) BY <1>1, <2>3, <2>4
    <2>7. ASSUME Within(f) PROVE Within(g)
      <3> SUFFICES ASSUME NEW j \in 1..(Len(f.segs) + 1)
                   PROVE  g.segs[j].at + g.segs[j].len <= g.size
        BY <2>6 DEF Within
      <3>1. CASE j = Len(f.segs) + 1 BY <1>1, <2>3, <2>4, <3>1 DEF s
      <3>2. CASE j \in 1..Len(f.segs)
        <4>1. g.segs[j] = f.segs[j] BY <2>3, <2>4, <3>2
        <4>2. f.segs[j].at + f.segs[j].len <= f.size BY <1>1, <2>7, <3>2 DEF Within
        <4>3. f.segs[j] \in Segment BY <1>1, <3>2
        <4>4. f.segs[j].at \in Nat /\ f.segs[j].len \in Nat BY <4>3 DEF Segment
        <4> QED BY <1>1, <2>4, <4>1, <4>2, <4>4, SMTT(30)
      <3> QED BY <1>1, <3>1, <3>2
    <2> QED BY <1>3, <2>3, <2>4, <2>5, <2>7 DEF s, g
  <1> QED BY <1>2, <1>3

\* g is f with segments behind it that begin no TS packet.
Extends(f, g) ==
    /\ g \in File
    /\ Len(f.segs) <= Len(g.segs) /\ f.size <= g.size
    /\ \A k \in 1..Len(f.segs) : g.segs[k] = f.segs[k]
    /\ \A k \in (Len(f.segs) + 1)..Len(g.segs) :
          ~IsHeader(g.segs[k]) /\ g.segs[k].of \in Contents
    /\ Within(f) => Within(g)

\* Every file extends itself, and extensions can be put behind each other.
LEMMA ExtendsItself == ASSUME NEW f \in File PROVE Extends(f, f)
  <1>1. Len(f.segs) \in Nat /\ f.size \in Nat BY DEF File
  <1> QED BY <1>1 DEF Extends

\* The second half of the above.
LEMMA ExtendsOn ==
    ASSUME NEW f \in File, NEW g, NEW h, Extends(f, g), Extends(g, h)
    PROVE  Extends(f, h)
  <1>1. /\ Len(f.segs) \in Nat /\ Len(g.segs) \in Nat /\ Len(h.segs) \in Nat
        /\ f.size \in Nat /\ g.size \in Nat /\ h.size \in Nat
    BY DEF File, Extends
  <1>2. Len(f.segs) <= Len(g.segs) /\ Len(g.segs) <= Len(h.segs)
        /\ f.size <= g.size /\ g.size <= h.size
    BY DEF Extends
  <1>3. Len(f.segs) <= Len(h.segs) /\ f.size <= h.size BY <1>1, <1>2
  <1>4. ASSUME NEW k \in 1..Len(f.segs) PROVE h.segs[k] = f.segs[k]
    <2>1. k \in 1..Len(g.segs) BY <1>1, <1>2
    <2> QED BY <2>1 DEF Extends
  <1>5. ASSUME NEW k \in (Len(f.segs) + 1)..Len(h.segs)
        PROVE  ~IsHeader(h.segs[k]) /\ h.segs[k].of \in Contents
    <2>1. CASE k \in 1..Len(g.segs)
      <3>1. k \in (Len(f.segs) + 1)..Len(g.segs) /\ h.segs[k] = g.segs[k]
        BY <1>1, <2>1 DEF Extends
      <3> QED BY <3>1 DEF Extends
    <2>2. CASE k \notin 1..Len(g.segs)
      <3>1. k \in (Len(g.segs) + 1)..Len(h.segs) BY <1>1, <1>2, <2>2
      <3> QED BY <3>1 DEF Extends
    <2> QED BY <2>1, <2>2
  <1> QED BY <1>3, <1>4, <1>5 DEF Extends

\* What is written between headers extends the file.
LEMMA WriteExtends ==
    ASSUME NEW f \in File, NEW of \in Contents, NEW from \in Int, NEW len \in Nat
    PROVE  /\ Extends(f, CacheWrite(f, of, from, len))
           /\ CacheWrite(f, of, from, len) \in File
           /\ CacheWrite(f, of, from, len).size = f.size + len
  <1> DEFINE g == CacheWrite(f, of, from, len)
  <1>1. /\ g \in File /\ g.size = f.size + len
        /\ Within(f) => Within(g)
        /\ len = 0 => g = f
        /\ len # 0 => /\ Len(g.segs) = Len(f.segs) + 1
                      /\ g.segs[Len(f.segs) + 1] =
                            [at |-> f.size, of |-> of, from |-> from, len |-> len]
        /\ \A k \in 1..Len(f.segs) : g.segs[k] = f.segs[k]
    BY CacheWriteFacts
  <1> HIDE DEF g
  <1>2. Len(f.segs) \in Nat /\ f.size \in Nat /\ Len(g.segs) \in Nat BY <1>1 DEF File
  <1>3. of.is \in {"aud", "csd", "adts", "frame"} BY DEF Contents
  <1>4. ASSUME len = 0 PROVE Extends(f, g) BY <1>1, <1>4, ExtendsItself
  <1>5. ASSUME len # 0 PROVE Extends(f, g)
    <2>1. ASSUME NEW k \in (Len(f.segs) + 1)..Len(g.segs)
          PROVE  ~IsHeader(g.segs[k]) /\ g.segs[k].of \in Contents
      <3>1. k = Len(f.segs) + 1 BY <1>1, <1>2, <1>5
      <3>2. g.segs[k].of = of BY <1>1, <1>5, <3>1
      <3> QED BY <1>3, <3>2 DEF IsHeader, HeaderKinds
    <2>2. Len(f.segs) <= Len(g.segs) /\ f.size <= g.size BY <1>1, <1>2, <1>5
    <2> QED BY <1>1, <2>1, <2>2 DEF Extends
  <1>6. Extends(f, g) BY <1>4, <1>5
  <1> QED BY <1>1, <1>6 DEF g
-----------------------------------------------------------------------------
\* The frame in the loop.
UnitType == [n : Nat \ {0}, p : Packets, pid : Nat, left : Nat \ {0}, ptr : Int]

\* curDataBlockNum = 0 and curDataBlockLeftSize.
InFirst(u) == 0 <= u.ptr /\ u.ptr < u.p.size0
BlockLeft(u) == IF InFirst(u) THEN u.p.size0 - u.ptr ELSE u.p.data1 + u.p.size1 - u.ptr

\* The outcomes of write_av_ts_packet.
FromOne(f, u, ts) ==
    /\ ts \in 0..u.left /\ ts <= BlockLeft(u)
    /\ Proceed(WithFrame(f, u, u.ptr, ts), u, ts, u.ptr + ts)
FromBoth(f, u, ts) ==
    /\ ts \in 0..u.left /\ ts > BlockLeft(u) /\ InFirst(u)
    /\ Proceed(WithFrame(WithFrame(f, u, u.ptr, BlockLeft(u)), u, u.p.data1,
                         ts - BlockLeft(u)),
               u, ts, u.p.data1 + (ts - BlockLeft(u)))
Overrun(f, u, ts) == ts < 0 /\ Stop(f, "overrun")
Aborted(f, u, ts) ==
    /\ ts > u.left \/ (ts > BlockLeft(u) /\ ~InFirst(u))
    /\ Stop(f, "aborted")

\* The numbers of a frame in the loop.
LEMMA UnitFacts ==
    ASSUME NEW u \in UnitType
    PROVE  /\ u.p \in Packets /\ u.left \in Nat \ {0} /\ u.ptr \in Int /\ u.n \in Nat \ {0}
           /\ u.pid \in Nat /\ u # NoUnit
           /\ u.p.size0 \in Nat \ {0} /\ u.p.size1 \in Nat /\ u.p.data1 \in Int
           /\ BlockLeft(u) \in Int /\ (InFirst(u) => BlockLeft(u) > 0)
  <1>1. /\ u.p \in Packets /\ u.left \in Nat \ {0} /\ u.ptr \in Int /\ u.n \in Nat \ {0}
        /\ u.pid \in Nat
    BY DEF UnitType
  <1>2. u # NoUnit BY <1>1 DEF NoUnit
  <1>3. u.p.size0 \in Nat \ {0} /\ u.p.size1 \in Nat /\ u.p.data1 \in Int
    BY <1>1, PacketFacts
  <1>4. BlockLeft(u) \in Int /\ (InFirst(u) => BlockLeft(u) > 0)
    BY <1>1, <1>3 DEF BlockLeft, InFirst
  <1> QED BY <1>1, <1>2, <1>3, <1>4

\* write_av_ts_packet has one of these outcomes.
LEMMA WriteAvTsPacketCases ==
    ASSUME NEW f, NEW u \in UnitType, NEW ts \in Int, ts < 0 => InFirst(u),
           WriteAvTsPacket(f, u, ts)
    PROVE  FromOne(f, u, ts) \/ FromBoth(f, u, ts) \/ Overrun(f, u, ts) \/ Aborted(f, u, ts)
  <1>1. /\ u.left \in Nat \ {0} /\ BlockLeft(u) \in Int
        /\ InFirst(u) => BlockLeft(u) > 0
    BY UnitFacts
  <1> DEFINE b == BlockLeft(u)
  <1>2. WriteAvTsPacket(f, u, ts) =
          CASE ts < 0 -> Stop(f, "overrun")
            [] ts > u.left -> Stop(f, "aborted")
            [] ts >= 0 /\ ts <= u.left /\ ts <= b ->
                  Proceed(WithFrame(f, u, u.ptr, ts), u, ts, u.ptr + ts)
            [] ts <= u.left /\ ts > b /\ InFirst(u) ->
                  Proceed(WithFrame(WithFrame(f, u, u.ptr, b), u, u.p.data1, ts - b),
                          u, ts, u.p.data1 + (ts - b))
            [] ts <= u.left /\ ts > b /\ ~InFirst(u) -> Stop(f, "aborted")
    BY DEF WriteAvTsPacket, BlockLeft, InFirst
  <1> HIDE DEF b
  <1>3. CASE ts < 0
    <2>1. ~(ts > u.left) /\ ~(ts >= 0) /\ ~(ts > b) BY <1>1, <1>3 DEF b
    <2>2. WriteAvTsPacket(f, u, ts) = Stop(f, "overrun") BY <1>2, <1>3, <2>1
    <2> QED BY <1>3, <2>2 DEF Overrun
  <1>4. CASE ts > u.left
    <2>1. ~(ts < 0) /\ ~(ts <= u.left) BY <1>1, <1>4
    <2> QED BY <1>2, <1>4, <2>1 DEF Aborted
  <1>5. CASE ts >= 0 /\ ts <= u.left /\ ts <= b
    <2>1. ~(ts < 0) /\ ~(ts > u.left) /\ ~(ts > b) /\ ts \in 0..u.left
      BY <1>1, <1>5 DEF b
    <2> QED BY <1>2, <1>5, <2>1 DEF FromOne, b
  <1>6. CASE ts >= 0 /\ ts <= u.left /\ ts > b /\ InFirst(u)
    <2>1. ~(ts < 0) /\ ~(ts > u.left) /\ ~(ts <= b) /\ ts \in 0..u.left
      BY <1>1, <1>6 DEF b
    <2> QED BY <1>2, <1>6, <2>1 DEF FromBoth, b
  <1>7. CASE ts >= 0 /\ ts <= u.left /\ ts > b /\ ~InFirst(u)
    <2>1. ~(ts < 0) /\ ~(ts > u.left) /\ ~(ts <= b) BY <1>1, <1>7 DEF b
    <2> QED BY <1>2, <1>7, <2>1 DEF Aborted, b
  <1> QED BY <1>1, <1>3, <1>4, <1>5, <1>6, <1>7 DEF b

\* A piece of the frame extends the file by its length.
LEMMA WithFrameExtends ==
    ASSUME NEW f \in File, NEW u \in UnitType, NEW a \in Int, NEW len \in Nat
    PROVE  /\ Extends(f, WithFrame(f, u, a, len))
           /\ WithFrame(f, u, a, len) \in File
           /\ WithFrame(f, u, a, len).size = f.size + len
  <1> DEFINE of == [is |-> "frame", n |-> u.n]
             from == FrameByte(u.p, a)
  <1>1. of \in Contents
    <2>1. u.n \in Nat BY UnitFacts
    <2> QED BY <2>1 DEF Contents
  <1>2. from \in Int BY UnitFacts DEF FrameByte
  <1>3. WithFrame(f, u, a, len) = CacheWrite(f, of, from, len) BY DEF WithFrame
  <1> HIDE DEF of, from
  <1> QED BY <1>1, <1>2, <1>3, WriteExtends

\* write_av_ts_packet only extends the file, by ts bytes unless it stops the
\* writer, and leaves the loop when nothing of the frame is left.
LEMMA WriteAvTsPacketExtends ==
    ASSUME NEW f \in File, NEW u \in UnitType, NEW ts \in Int, ts < 0 => InFirst(u),
           WriteAvTsPacket(f, u, ts)
    PROVE  /\ Extends(f, out')
           /\ \/ life' = life /\ ts \in 0..u.left /\ out'.size = f.size + ts
              \/ life' \in {"overrun", "aborted"} /\ unit' = NoUnit
           /\ \/ unit' = NoUnit
              \/ /\ unit' \in UnitType /\ unit'.left = u.left - ts
                 /\ unit'.n = u.n /\ unit'.p = u.p /\ unit'.pid = u.pid
  <1>1. /\ u.left \in Nat \ {0} /\ BlockLeft(u) \in Int /\ u.ptr \in Int
        /\ InFirst(u) => BlockLeft(u) > 0
        /\ u.p.data1 \in Int
    BY UnitFacts
  <1>2. ASSUME NEW g, NEW a \in Int, ts \in 0..u.left, Proceed(g, u, ts, a)
        PROVE  /\ out' = g /\ life' = life
               /\ \/ unit' = NoUnit
                  \/ /\ unit' \in UnitType /\ unit'.left = u.left - ts
                     /\ unit'.n = u.n /\ unit'.p = u.p /\ unit'.pid = u.pid
    <2>1. CASE u.left = ts BY <1>2, <2>1 DEF Proceed
    <2>2. CASE u.left # ts
      <3>1. unit' = [u EXCEPT !.left = u.left - ts, !.ptr = a]
        BY <1>2, <2>2 DEF Proceed
      <3>2. u.left - ts \in Nat \ {0} BY <1>1, <1>2, <2>2
      <3> QED BY <1>2, <3>1, <3>2 DEF UnitType, Proceed
    <2> QED BY <2>1, <2>2
  <1>3. CASE FromOne(f, u, ts)
    <2> DEFINE g == WithFrame(f, u, u.ptr, ts)
    <2>1. ts \in 0..u.left /\ ts \in Nat /\ u.ptr + ts \in Int BY <1>1, <1>3 DEF FromOne
    <2>2. Extends(f, g) /\ g.size = f.size + ts BY <1>1, <2>1, WithFrameExtends
    <2>3. Proceed(g, u, ts, u.ptr + ts) BY <1>3 DEF FromOne
    <2> HIDE DEF g
    <2> QED BY <1>2, <2>1, <2>2, <2>3
  <1>4. CASE FromBoth(f, u, ts)
    <2> DEFINE b == BlockLeft(u)
               f1 == WithFrame(f, u, u.ptr, b)
               g == WithFrame(f1, u, u.p.data1, ts - b)
    <2>1. /\ ts \in 0..u.left /\ b \in Nat /\ ts - b \in Nat
          /\ u.p.data1 + (ts - b) \in Int
      BY <1>1, <1>4 DEF FromBoth
    <2>2. Proceed(g, u, ts, u.p.data1 + (ts - b)) BY <1>4 DEF FromBoth
    <2> HIDE DEF b
    <2>3. Extends(f, f1) /\ f1 \in File /\ f1.size = f.size + b
      BY <1>1, <2>1, WithFrameExtends
    <2> HIDE DEF f1
    <2>4. Extends(f1, g) /\ g.size = f1.size + (ts - b)
      BY <1>1, <2>1, <2>3, WithFrameExtends
    <2> HIDE DEF g
    <2>5. Extends(f, g) BY <2>3, <2>4, ExtendsOn
    <2>6. g.size = f.size + ts
      <3>1. f.size \in Nat BY DEF File
      <3> QED BY <2>1, <2>3, <2>4, <3>1
    <2> QED BY <1>2, <2>1, <2>2, <2>5, <2>6
  <1>5. CASE Overrun(f, u, ts) \/ Aborted(f, u, ts)
    BY <1>5, ExtendsItself DEF Overrun, Aborted, Stop
  <1> QED BY <1>3, <1>4, <1>5, WriteAvTsPacketCases
-----------------------------------------------------------------------------
\* g is f with one TS packet behind it that begins with head.
Packet(f, head, g) ==
    /\ g \in File
    /\ Len(f.segs) + 1 <= Len(g.segs) /\ f.size <= g.size
    /\ \A k \in 1..Len(f.segs) : g.segs[k] = f.segs[k]
    /\ LET s == g.segs[Len(f.segs) + 1] IN s.of = head /\ s.at = f.size /\ s.from = 0
    /\ \A k \in (Len(f.segs) + 2)..Len(g.segs) :
          ~IsHeader(g.segs[k]) /\ g.segs[k].of \in Contents
    /\ Within(f) => Within(g)

\* A header that is written begins a packet, of its own length so far.
LEMMA HeaderBegins ==
    ASSUME NEW f \in File, NEW head \in Headers, NEW len \in Nat \ {0}
    PROVE  /\ CacheWrite(f, head, 0, len) \in File
           /\ Packet(f, head, CacheWrite(f, head, 0, len))
           /\ CacheWrite(f, head, 0, len).size = f.size + len
           /\ Len(CacheWrite(f, head, 0, len).segs) = Len(f.segs) + 1
  <1> DEFINE g == CacheWrite(f, head, 0, len)
  <1>1. /\ g \in File /\ g.size = f.size + len
        /\ Within(f) => Within(g)
        /\ Len(g.segs) = Len(f.segs) + 1
        /\ g.segs[Len(f.segs) + 1] = [at |-> f.size, of |-> head, from |-> 0, len |-> len]
        /\ \A k \in 1..Len(f.segs) : g.segs[k] = f.segs[k]
    <2>1. head \in Headers \cup Contents /\ 0 \in Int /\ len \in Nat /\ len # 0 OBVIOUS
    <2> QED BY <2>1, CacheWriteFacts, SMTT(30)
  <1> HIDE DEF g
  <1>2. Len(f.segs) \in Nat /\ f.size \in Nat BY DEF File
  <1>3. Packet(f, head, g) BY <1>1, <1>2 DEF Packet
  <1> QED BY <1>1, <1>3 DEF g

\* What is written behind the header belongs to the packet.
LEMMA PacketExtends ==
    ASSUME NEW f \in File, NEW head, NEW g, NEW h, Packet(f, head, g), Extends(g, h)
    PROVE  Packet(f, head, h)
  <1>1. /\ Len(f.segs) \in Nat /\ Len(g.segs) \in Nat /\ Len(h.segs) \in Nat
        /\ f.size \in Nat /\ g.size \in Nat /\ h.size \in Nat
    BY DEF File, Extends, Packet
  <1>2. Len(f.segs) + 1 <= Len(g.segs) /\ Len(g.segs) <= Len(h.segs)
        /\ f.size <= g.size /\ g.size <= h.size
    BY DEF Extends, Packet
  <1>3. ASSUME NEW k \in 1..(Len(f.segs) + 1) PROVE h.segs[k] = g.segs[k]
    <2>1. k \in 1..Len(g.segs) BY <1>1, <1>2
    <2> QED BY <2>1 DEF Extends
  <1>4. ASSUME NEW k \in (Len(f.segs) + 2)..Len(h.segs)
        PROVE  ~IsHeader(h.segs[k]) /\ h.segs[k].of \in Contents
    <2>1. CASE k \in 1..Len(g.segs)
      <3>1. k \in (Len(f.segs) + 2)..Len(g.segs) /\ h.segs[k] = g.segs[k]
        BY <1>1, <2>1 DEF Extends
      <3> QED BY <3>1 DEF Packet
    <2>2. CASE k \notin 1..Len(g.segs)
      <3>1. k \in (Len(g.segs) + 1)..Len(h.segs) BY <1>1, <1>2, <2>2
      <3> QED BY <3>1 DEF Extends
    <2> QED BY <2>1, <2>2
  <1>5. h \in File /\ (Within(f) => Within(h)) BY DEF Extends, Packet
  <1>6. \A k \in 1..Len(f.segs) : h.segs[k] = f.segs[k]
    <2> SUFFICES ASSUME NEW k \in 1..Len(f.segs) PROVE h.segs[k] = f.segs[k] OBVIOUS
    <2>1. k \in 1..(Len(f.segs) + 1) BY <1>1
    <2> QED BY <1>3, <2>1 DEF Packet
  <1>7. h.segs[Len(f.segs) + 1] = g.segs[Len(f.segs) + 1]
    <2>1. Len(f.segs) + 1 \in 1..(Len(f.segs) + 1) BY <1>1
    <2> QED BY <1>3, <2>1
  <1>8. Len(f.segs) + 1 <= Len(h.segs) /\ f.size <= h.size BY <1>1, <1>2
  <1> QED BY <1>4, <1>5, <1>6, <1>7, <1>8 DEF Packet
-----------------------------------------------------------------------------
\* The type invariant, with what the file and the frame in the loop are.
DrvType == [stream : BOOLEAN, simple : BOOLEAN, sized : BOOLEAN, audio : BOOLEAN,
            csdLen : [Tracks -> CsdLens \cup {0}]]
TypeInv ==
    /\ TypeOK
    /\ drv \in DrvType
    /\ out \in File /\ Within(out)
    /\ unit = NoUnit \/ /\ unit \in UnitType /\ life = "writing"
                        /\ unit.n = Len(taken) /\ unit.pid = mTrackPid[unit.p.stream_idx]

\* The counters' increments stay below the modulus.
LEMMA AdvanceTypes ==
    ASSUME NEW c \in 0..(Wrap - 1)
    PROVE  Advance(c) \in 0..(Wrap - 1) /\ AdvanceInLoop(c) \in 0..(Wrap - 1)
  BY ConstantFacts DEF Advance, AdvanceInLoop

\* The sizes that are computed for a packet.
LEMMA SizeTypes ==
    ASSUME NEW p \in Packets, drv.csdLen \in [Tracks -> CsdLens \cup {0}]
    PROVE  /\ drv.csdLen[0] \in Nat
           /\ StreamSize(p) \in Nat /\ PesLength(p) \in Nat
           /\ PaddingSize(p) \in Nat /\ StartSize(p) \in Nat \ {0}
           /\ PrefixSize(p) \in Nat
  <1>1. /\ p.size0 \in Nat /\ p.size1 \in Nat
    BY PacketFacts
  <1>2. drv.csdLen[0] \in Nat
    <2>1. 0 \in Tracks BY DEF Tracks
    <2>2. drv.csdLen[0] \in CsdLens \cup {0} BY <2>1
    <2>3. CsdLens \cup {0} \subseteq Nat BY ConstantFacts
    <2> QED BY <2>2, <2>3
  <1>3. StreamSize(p) \in Nat BY <1>1, <1>2 DEF StreamSize, ADTS_SZ, NAL_AUD_SZ
  <1>4. PesLength(p) \in Nat BY <1>3 DEF PesLength
  <1>5. PaddingSize(p) \in Nat BY <1>3 DEF PaddingSize, TS_PACKAGE_SZ
  <1>6. PrefixSize(p) \in Nat BY <1>2 DEF PrefixSize, ADTS_SZ, NAL_AUD_SZ
  <1> QED BY <1>2, <1>3, <1>4, <1>5, <1>6 DEF StartSize

\* The prefix extends the file by PrefixSize.
LEMMA PrefixExtends ==
    ASSUME NEW f \in File, NEW p \in Packets, drv.csdLen \in [Tracks -> CsdLens \cup {0}]
    PROVE  /\ Extends(f, WithPrefix(f, p))
           /\ WithPrefix(f, p) \in File
           /\ WithPrefix(f, p).size = f.size + PrefixSize(p)
  <1>1. drv.csdLen[0] \in Nat /\ StreamSize(p) \in Nat BY SizeTypes
  <1>2. CASE p.stream_idx = 1
    <2> DEFINE of == [is |-> "adts", frame_length |-> StreamSize(p)]
    <2>1. of \in Contents BY <1>1 DEF Contents
    <2>2. WithPrefix(f, p) = CacheWrite(f, of, 0, 7) BY <1>2 DEF WithPrefix, ADTS_SZ
    <2>3. PrefixSize(p) = 7 BY <1>2 DEF PrefixSize, ADTS_SZ
    <2> HIDE DEF of
    <2> QED BY <2>1, <2>2, <2>3, WriteExtends
  <1>3. CASE p.stream_idx # 1
    <2> DEFINE aud == [is |-> "aud"]
               csd == [is |-> "csd"]
               g == CacheWrite(f, aud, 0, 6)
               h == CacheWrite(g, csd, 0, drv.csdLen[0])
    <2>1. aud \in Contents /\ csd \in Contents BY DEF Contents
    <2>2. WithPrefix(f, p) = IF p.flags THEN h ELSE g
      BY <1>3 DEF WithPrefix, NAL_AUD_SZ
    <2>3. PrefixSize(p) = 6 + IF p.flags THEN drv.csdLen[0] ELSE 0
      BY <1>3 DEF PrefixSize, NAL_AUD_SZ
    <2> HIDE DEF aud, csd
    <2>4. Extends(f, g) /\ g \in File /\ g.size = f.size + 6 BY <2>1, WriteExtends
    <2> HIDE DEF g
    <2>5. Extends(g, h) /\ h \in File /\ h.size = g.size + drv.csdLen[0]
      BY <1>1, <2>1, <2>4, WriteExtends
    <2> HIDE DEF h
    <2>6. Extends(f, h) BY <2>4, <2>5, ExtendsOn
    <2>7. f.size \in Nat BY DEF File
    <2>8. ASSUME p.flags PROVE WithPrefix(f, p) = h /\ PrefixSize(p) = 6 + drv.csdLen[0]
      BY <2>2, <2>3, <2>8
    <2>9. ASSUME ~p.flags PROVE WithPrefix(f, p) = g /\ PrefixSize(p) = 6
      BY <2>2, <2>3, <2>9
    <2>10. CASE p.flags
      <3>1. h.size = f.size + (6 + drv.csdLen[0]) BY <1>1, <2>4, <2>5, <2>7
      <3> QED BY <2>5, <2>6, <2>8, <2>10, <3>1
    <2>11. CASE ~p.flags BY <2>4, <2>9, <2>11
    <2> QED BY <2>10, <2>11
  <1> QED BY <1>2, <1>3
-----------------------------------------------------------------------------
\* The PAT and the PMT that are written next.
Pat == [is |-> "table", pid |-> 0, cc |-> mPATContinuityCounter, lists |-> {PmtPid}]
Pmt == [is |-> "table", pid |-> PmtPid, cc |-> mPMTContinuityCounter,
        lists |-> {mTrackPid[i] : i \in 0..(mTrackCnt - 1)}]
WithPat == CacheWrite(out, Pat, 0, TS_PACKAGE_SZ)

\* Both are packets, of 188 bytes each.
LEMMA TablesArePackets ==
    ASSUME TypeInv
    PROVE  /\ Pat \in Tables /\ Pmt \in Tables
           /\ WithPat \in File /\ WithTables(out) \in File
           /\ Packet(out, Pat, WithPat) /\ Packet(WithPat, Pmt, WithTables(out))
           /\ WithPat.size = out.size + 188 /\ WithTables(out).size = out.size + 376
           /\ Len(WithPat.segs) = Len(out.segs) + 1
           /\ Len(WithTables(out).segs) = Len(out.segs) + 2
  <1>1. /\ mPATContinuityCounter \in Nat /\ mPMTContinuityCounter \in Nat
        /\ mTrackCnt \in 0..2 /\ mTrackPid \in [Tracks -> Nat]
        /\ out \in File
    BY ConstantFacts DEF TypeInv, TypeOK
  <1>2. {mTrackPid[i] : i \in 0..(mTrackCnt - 1)} \in SUBSET Nat
    <2>1. \A i \in 0..(mTrackCnt - 1) : i \in Tracks BY <1>1 DEF Tracks
    <2> QED BY <1>1, <2>1
  <1>3. Pat \in Tables
    <2>1. {PmtPid} \in SUBSET Nat BY DEF PmtPid
    <2> QED BY <1>1, <2>1 DEF Pat, Tables
  <1>4. Pmt \in Tables BY <1>1, <1>2 DEF Pmt, Tables, PmtPid
  <1>5. Pat \in Headers /\ Pmt \in Headers /\ 188 \in Nat \ {0} BY <1>3, <1>4 DEF Headers
  <1>6. WithPat = CacheWrite(out, Pat, 0, 188) BY DEF WithPat, TS_PACKAGE_SZ
  <1>7. WithTables(out) = CacheWrite(WithPat, Pmt, 0, 188)
    BY DEF WithTables, Pat, Pmt, WithPat, TS_PACKAGE_SZ
  <1>8. /\ WithPat \in File /\ Packet(out, Pat, WithPat) /\ WithPat.size = out.size + 188
        /\ Len(WithPat.segs) = Len(out.segs) + 1
    BY <1>1, <1>5, <1>6, HeaderBegins
  <1>9. /\ WithTables(out) \in File /\ Packet(WithPat, Pmt, WithTables(out))
        /\ WithTables(out).size = WithPat.size + 188
        /\ Len(WithTables(out).segs) = Len(WithPat.segs) + 1
    BY <1>5, <1>7, <1>8, HeaderBegins
  <1>10. out.size \in Nat /\ Len(out.segs) \in Nat BY <1>1 DEF File
  <1> QED BY <1>3, <1>4, <1>8, <1>9, <1>10

\* What precedes the first packet of a frame.
BaseFile(p) == IF p.stream_idx = 0 THEN WithTables(out) ELSE out

\* A frame's first packet: its frame is in the loop, or is written, or has
\* stopped the writer.
LEMMA StartsPacket ==
    ASSUME TypeInv, NEW p \in Packets, WriteAccessUnit(p)
    PROVE  /\ StartHeader(p) \in Starts
           /\ BaseFile(p) \in File
           /\ Packet(BaseFile(p), StartHeader(p), out')
           /\ \/ life' = life /\ out'.size = BaseFile(p).size + 188
              \/ life' \in {"overrun", "aborted"} /\ unit' = NoUnit
           /\ \/ unit' = NoUnit
              \/ /\ unit' \in UnitType /\ unit'.p = p /\ unit'.n = Len(taken) + 1
                 /\ unit'.pid = mTrackPid[p.stream_idx] /\ life' = life
  <1>1. p.stream_idx \in Tracks /\ p.size0 \in Nat \ {0} /\ p.size1 \in Nat
    BY PacketFacts DEF Tracks
  <1>2. /\ mTrackPid[p.stream_idx] \in Nat /\ mTSContinuityCounter[p.stream_idx] \in Nat
        /\ drv.csdLen \in [Tracks -> CsdLens \cup {0}]
        /\ Len(taken) \in Nat /\ out \in File
    BY <1>1, ConstantFacts DEF TypeInv, TypeOK
  <1>3. /\ PesLength(p) \in Nat /\ PaddingSize(p) \in Nat
        /\ StartSize(p) \in Nat \ {0} /\ PrefixSize(p) \in Nat
    BY <1>2, SizeTypes
  <1>4. StartHeader(p) \in Starts BY <1>2, <1>3 DEF StartHeader, Starts
  <1>5. StartHeader(p) \in Headers BY <1>4 DEF Headers
  <1>6. BaseFile(p) \in File BY <1>2, TablesArePackets DEF BaseFile
  <1> DEFINE u == [n |-> Len(taken) + 1, p |-> p, pid |-> mTrackPid[p.stream_idx],
                   left |-> p.size0 + p.size1, ptr |-> 0]
             begun == CacheWrite(BaseFile(p), StartHeader(p), 0, StartSize(p))
             started == WithPrefix(begun, p)
             ts == TS_PACKAGE_SZ - StartSize(p) - PrefixSize(p)
  <1>7. WriteAvTsPacket(started, u, ts) BY DEF WriteAccessUnit, BaseFile
  <1>8. u \in UnitType BY <1>1, <1>2 DEF UnitType
  <1>9. InFirst(u) BY <1>1 DEF InFirst
  <1>10. ts \in Int /\ ts = 188 - StartSize(p) - PrefixSize(p)
    BY <1>3 DEF TS_PACKAGE_SZ
  <1>11. u.left = p.size0 + p.size1 /\ u.n = Len(taken) + 1 /\ u.p = p
         /\ u.pid = mTrackPid[p.stream_idx]
    OBVIOUS
  <1> HIDE DEF u, ts
  <1>12. /\ begun \in File /\ Packet(BaseFile(p), StartHeader(p), begun)
         /\ begun.size = BaseFile(p).size + StartSize(p)
    BY <1>3, <1>5, <1>6, HeaderBegins
  <1> HIDE DEF begun
  <1>13. /\ started \in File /\ Extends(begun, started)
         /\ started.size = begun.size + PrefixSize(p)
    BY <1>2, <1>12, PrefixExtends
  <1> HIDE DEF started
  <1>14. /\ Extends(started, out')
         /\ \/ life' = life /\ ts \in 0..u.left /\ out'.size = started.size + ts
            \/ life' \in {"overrun", "aborted"} /\ unit' = NoUnit
         /\ \/ unit' = NoUnit
            \/ /\ unit' \in UnitType /\ unit'.left = u.left - ts
               /\ unit'.n = u.n /\ unit'.p = u.p /\ unit'.pid = u.pid
    BY <1>7, <1>8, <1>9, <1>10, <1>13, WriteAvTsPacketExtends
  <1>15. Extends(begun, out') BY <1>12, <1>13, <1>14, ExtendsOn
  <1>16. Packet(BaseFile(p), StartHeader(p), out')
    BY <1>6, <1>12, <1>15, PacketExtends
  <1>17. BaseFile(p).size \in Nat BY <1>6 DEF File
  <1>18. ASSUME out'.size = started.size + ts PROVE out'.size = BaseFile(p).size + 188
    BY <1>3, <1>10, <1>12, <1>13, <1>17, <1>18
  <1> QED BY <1>4, <1>6, <1>11, <1>14, <1>16, <1>18

\* The header of a later packet of the frame in the loop.
FragmentHead ==
    IF IsLast(unit.left)
    THEN [is |-> "last", pid |-> unit.pid, cc |-> mTSContinuityCounter[unit.p.stream_idx],
          af |-> StuffingSize(unit.left) - 1]
    ELSE [is |-> "middle", pid |-> unit.pid,
          cc |-> mTSContinuityCounter[unit.p.stream_idx]]

\* A later packet: header, stuffing and a fragment fill it exactly.
LEMMA FragmentsPacket ==
    ASSUME TypeInv, WriteFragment
    PROVE  /\ FragmentHead \in Middles \cup Lasts
           /\ FragmentHead.pid = unit.pid
           /\ FragmentHead.cc = mTSContinuityCounter[unit.p.stream_idx]
           /\ Packet(out, FragmentHead, out')
           /\ \/ life' = life /\ out'.size = out.size + 188
              \/ life' \in {"overrun", "aborted"} /\ unit' = NoUnit
           /\ \/ unit' = NoUnit
              \/ /\ unit' \in UnitType /\ unit'.p = unit.p /\ unit'.n = unit.n
                 /\ unit'.pid = unit.pid /\ life' = life
  <1>1. unit \in UnitType /\ out \in File BY DEF TypeInv, WriteFragment
  <1>2. unit.p \in Packets /\ unit.left \in Nat \ {0} /\ unit.pid \in Nat
    BY <1>1, UnitFacts
  <1>3. mTSContinuityCounter[unit.p.stream_idx] \in Nat
    <2>1. unit.p.stream_idx \in Tracks BY <1>2, PacketFacts DEF Tracks
    <2> QED BY <2>1, ConstantFacts DEF TypeInv, TypeOK
  <1> DEFINE stuffing == IF IsLast(unit.left) THEN StuffingSize(unit.left) ELSE 0
             ts == TS_PACKAGE_SZ - 4 - stuffing
             g == CacheWrite(out, FragmentHead, 0, 4 + stuffing)
  <1>4. WriteAvTsPacket(g, unit, ts) BY DEF WriteFragment, FragmentHead
  <1>5. stuffing \in Nat /\ ts \in Nat /\ ts = 184 - stuffing
    BY <1>2 DEF IsLast, StuffingSize, TS_PACKAGE_SZ
  <1>6. /\ FragmentHead \in Middles \cup Lasts
        /\ FragmentHead.pid = unit.pid
        /\ FragmentHead.cc = mTSContinuityCounter[unit.p.stream_idx]
    <2>1. CASE IsLast(unit.left)
      <3>1. StuffingSize(unit.left) - 1 \in Int
        BY <1>2 DEF StuffingSize, TS_PACKAGE_SZ
      <3> QED BY <1>2, <1>3, <2>1, <3>1 DEF FragmentHead, Lasts
    <2>2. CASE ~IsLast(unit.left)
      BY <1>2, <1>3, <2>2 DEF FragmentHead, Middles
    <2> QED BY <2>1, <2>2
  <1>7. FragmentHead \in Headers BY <1>6 DEF Headers
  <1> HIDE DEF stuffing, ts
  <1>8. 4 + stuffing \in Nat \ {0} BY <1>5
  <1>9. g \in File /\ Packet(out, FragmentHead, g) /\ g.size = out.size + (4 + stuffing)
    BY <1>1, <1>7, <1>8, HeaderBegins
  <1> HIDE DEF g
  <1>10. ts \in Int /\ ~(ts < 0) BY <1>5
  <1>11. /\ Extends(g, out')
         /\ \/ life' = life /\ ts \in 0..unit.left /\ out'.size = g.size + ts
            \/ life' \in {"overrun", "aborted"} /\ unit' = NoUnit
         /\ \/ unit' = NoUnit
            \/ /\ unit' \in UnitType /\ unit'.left = unit.left - ts
               /\ unit'.n = unit.n /\ unit'.p = unit.p /\ unit'.pid = unit.pid
    BY <1>1, <1>4, <1>9, <1>10, WriteAvTsPacketExtends
  <1>12. Packet(out, FragmentHead, out') BY <1>1, <1>9, <1>11, PacketExtends
  <1>13. out.size \in Nat BY <1>1 DEF File
  <1>14. ASSUME out'.size = g.size + ts PROVE out'.size = out.size + 188
    BY <1>5, <1>9, <1>13, <1>14
  <1> QED BY <1>6, <1>11, <1>12, <1>14
-----------------------------------------------------------------------------
\* A packet, and the tables before it, lie within what is written.
LEMMA BaseFileWithin ==
    ASSUME TypeInv, NEW p \in Packets
    PROVE  Within(BaseFile(p))
  BY TablesArePackets DEF BaseFile, TypeInv, Packet

\* What the types need of a segment.
LEMMA WithinType ==
    ASSUME NEW f \in File, Within(f)
    PROVE  f.size \in Nat /\ \A j \in DOMAIN f.segs : f.segs[j].at + f.segs[j].len <= f.size
  BY DEF File, Within

\* Operations that change the driver's settings only keep the types.
LEMMA SetupTypes ==
    ASSUME TypeInv, drv' \in DrvType, UNCHANGED <<life, muxVars>>
    PROVE  TypeInv'
  BY DEF TypeInv, TypeOK, muxVars, counters, DrvType

\* Operations that only change life keep the types.
LEMMA LifeTypes ==
    ASSUME TypeInv, UNCHANGED <<drv, muxVars>>, unit = NoUnit,
           life' \in {"opened", "finished", "closed", "crashed"}
    PROVE  TypeInv'
  BY DEF TypeInv, TypeOK, muxVars, counters

\* The first packet of a frame keeps the types.
LEMMA StartTypes ==
    ASSUME TypeInv, NEW p \in Packets, WriteAccessUnit(p)
    PROVE  TypeInv'
  <1>1. /\ Packet(BaseFile(p), StartHeader(p), out')
        /\ life' = life \/ life' \in {"overrun", "aborted"}
        /\ \/ unit' = NoUnit
           \/ /\ unit' \in UnitType /\ unit'.p = p /\ unit'.n = Len(taken) + 1
              /\ unit'.pid = mTrackPid[p.stream_idx] /\ life' = life
    BY StartsPacket
  <1>2. out' \in File /\ Within(out') BY <1>1, BaseFileWithin DEF Packet
  <1>3. /\ life = "writing" /\ taken' = Append(taken, p) /\ drv' = drv
        /\ mTrackCnt' = mTrackCnt /\ mTrackPid' = mTrackPid
    BY DEF WriteAccessUnit
  <1>4. taken' \in Seq(Packets) /\ Len(taken') = Len(taken) + 1
    BY <1>3 DEF TypeInv, TypeOK
  <1>5. /\ mPATContinuityCounter' \in 0..(Wrap - 1)
        /\ mPMTContinuityCounter' \in 0..(Wrap - 1)
    <2>1. /\ mPATContinuityCounter \in 0..(Wrap - 1)
          /\ mPMTContinuityCounter \in 0..(Wrap - 1)
      BY DEF TypeInv, TypeOK
    <2> QED BY <2>1, AdvanceTypes DEF WriteAccessUnit
  <1>6. mTSContinuityCounter' \in [Tracks -> 0..(Wrap - 1)]
    <2>1. mTSContinuityCounter \in [Tracks -> 0..(Wrap - 1)] /\ p.stream_idx \in Tracks
      BY PacketFacts DEF TypeInv, TypeOK, Tracks
    <2>2. Advance(mTSContinuityCounter[p.stream_idx]) \in 0..(Wrap - 1)
      BY <2>1, AdvanceTypes
    <2>3. mTSContinuityCounter' =
            [mTSContinuityCounter EXCEPT ![p.stream_idx] =
                Advance(mTSContinuityCounter[p.stream_idx])]
      BY DEF WriteAccessUnit
    <2> QED BY <2>1, <2>2, <2>3
  <1>7. unit' = NoUnit \/ /\ unit' \in UnitType /\ life' = "writing"
                          /\ unit'.n = Len(taken') /\ unit'.p = p
                          /\ unit'.pid = mTrackPid'[p.stream_idx]
    BY <1>1, <1>3, <1>4
  <1>8. unit' = NoUnit \/ /\ unit'.n = Len(taken') /\ unit'.p \in Packets
                          /\ unit'.left \in Nat \ {0}
    BY <1>7 DEF UnitType
  <1>9. /\ out'.size \in Nat
        /\ \A j \in DOMAIN out'.segs : out'.segs[j].at + out'.segs[j].len <= out'.size
    BY <1>2, WithinType
  <1>10. life' \in {"none", "opened", "writing", "finished", "closed",
                    "crashed", "overrun", "aborted"}
    BY <1>1, <1>3
  <1>11. TypeOK'
    <2>1. /\ drv.stream \in BOOLEAN /\ drv.simple \in BOOLEAN /\ drv.sized \in BOOLEAN
          /\ drv.audio \in BOOLEAN /\ drv.csdLen \in [Tracks -> CsdLens \cup {0}]
          /\ mTrackCnt \in 0..2 /\ mTrackPid \in [Tracks -> Nat]
      BY DEF TypeInv, TypeOK
    <2> QED BY <1>3, <1>4, <1>5, <1>6, <1>8, <1>9, <1>10, <2>1 DEF TypeOK
  <1> QED BY <1>2, <1>3, <1>7, <1>11 DEF TypeInv

\* A later packet keeps the types.
LEMMA FragmentTypes ==
    ASSUME TypeInv, WriteFragment
    PROVE  TypeInv'
  <1>1. /\ Packet(out, FragmentHead, out')
        /\ life' = life \/ life' \in {"overrun", "aborted"}
        /\ \/ unit' = NoUnit
           \/ /\ unit' \in UnitType /\ unit'.p = unit.p /\ unit'.n = unit.n
              /\ unit'.pid = unit.pid /\ life' = life
    BY FragmentsPacket
  <1>2. out' \in File /\ Within(out') BY <1>1 DEF Packet, TypeInv
  <1>3. /\ unit \in UnitType /\ life = "writing"
        /\ unit.n = Len(taken) /\ unit.pid = mTrackPid[unit.p.stream_idx]
    BY DEF TypeInv, WriteFragment
  <1>4. /\ taken' = taken /\ drv' = drv
        /\ mTrackCnt' = mTrackCnt /\ mTrackPid' = mTrackPid
        /\ mPATContinuityCounter' = mPATContinuityCounter
        /\ mPMTContinuityCounter' = mPMTContinuityCounter
    BY DEF WriteFragment
  <1>5. mTSContinuityCounter' \in [Tracks -> 0..(Wrap - 1)]
    <2>1. mTSContinuityCounter \in [Tracks -> 0..(Wrap - 1)] BY DEF TypeInv, TypeOK
    <2>2. unit.p.stream_idx \in Tracks BY <1>3, UnitFacts, PacketFacts DEF Tracks
    <2>3. AdvanceInLoop(mTSContinuityCounter[unit.p.stream_idx]) \in 0..(Wrap - 1)
      BY <2>1, <2>2, AdvanceTypes
    <2>4. mTSContinuityCounter' =
            [mTSContinuityCounter EXCEPT ![unit.p.stream_idx] =
                AdvanceInLoop(mTSContinuityCounter[unit.p.stream_idx])]
      BY DEF WriteFragment
    <2> QED BY <2>1, <2>2, <2>3, <2>4
  <1>6. unit' = NoUnit \/ /\ unit'.n = Len(taken') /\ unit'.p \in Packets
                          /\ unit'.left \in Nat \ {0}
    BY <1>1, <1>3, <1>4 DEF UnitType
  <1>7. /\ out'.size \in Nat
        /\ \A j \in DOMAIN out'.segs : out'.segs[j].at + out'.segs[j].len <= out'.size
    BY <1>2, WithinType
  <1>8. life' \in {"none", "opened", "writing", "finished", "closed",
                   "crashed", "overrun", "aborted"}
    BY <1>1, <1>3
  <1>9. TypeOK'
    <2>1. /\ drv.stream \in BOOLEAN /\ drv.simple \in BOOLEAN /\ drv.sized \in BOOLEAN
          /\ drv.audio \in BOOLEAN /\ drv.csdLen \in [Tracks -> CsdLens \cup {0}]
          /\ mTrackCnt \in 0..2 /\ mTrackPid \in [Tracks -> Nat]
          /\ mPATContinuityCounter \in 0..(Wrap - 1)
          /\ mPMTContinuityCounter \in 0..(Wrap - 1)
          /\ taken \in Seq(Packets)
      BY DEF TypeInv, TypeOK
    <2> QED BY <1>4, <1>5, <1>6, <1>7, <1>8, <2>1 DEF TypeOK
  <1>10. unit' = NoUnit \/ /\ unit' \in UnitType /\ life' = "writing"
                           /\ unit'.n = Len(taken')
                           /\ unit'.pid = mTrackPid'[unit'.p.stream_idx]
    BY <1>1, <1>3, <1>4
  <1> QED BY <1>2, <1>4, <1>9, <1>10 DEF TypeInv

\* The types hold at the start.
LEMMA InitTypes == Init => TypeInv
  <1> SUFFICES ASSUME Init PROVE TypeInv OBVIOUS
  <1>1. Wrap \in Nat \ {0} BY ConstantFacts
  <1>2. out \in File /\ out.segs = <<>> /\ out.size = 0
    BY DEF Init, File
  <1>3. Within(out) BY <1>2 DEF Within
  <1>4. drv \in DrvType BY DEF Init, DrvType
  <1>5. 0 \in 0..(Wrap - 1) BY <1>1
  <1>6. mTSContinuityCounter \in [Tracks -> 0..(Wrap - 1)] BY <1>5 DEF Init
  <1>7. TypeOK BY <1>2, <1>4, <1>5, <1>6 DEF Init, TypeOK, DrvType
  <1> QED BY <1>2, <1>3, <1>4, <1>7 DEF Init, TypeInv

\* Every operation keeps the types.
LEMMA NextTypes == TypeInv /\ [Next]_vars => TypeInv'
  <1> SUFFICES ASSUME TypeInv, [Next]_vars PROVE TypeInv' OBVIOUS
  <1>1. CASE Open
    <2>1. unit = NoUnit BY <1>1 DEF Open, TypeInv
    <2> QED BY <1>1, <2>1, LifeTypes DEF Open
  <1>2. CASE SetStream
    <2>1. drv' \in DrvType BY <1>2 DEF SetStream, TypeInv, DrvType
    <2> QED BY <1>2, <2>1, SetupTypes DEF SetStream, Setup
  <1>3. CASE SetCacheMode \/ SetCacheSize
    <2>1. drv' \in DrvType BY <1>3 DEF SetCacheMode, SetCacheSize, TypeInv, DrvType
    <2> QED BY <1>3, <2>1, SetupTypes DEF SetCacheMode, SetCacheSize, Setup
  <1>4. CASE \E h264, audio \in BOOLEAN : SetTrackInfo(h264, audio)
    <2>1. PICK h264 \in BOOLEAN, audio \in BOOLEAN : SetTrackInfo(h264, audio) BY <1>4
    <2>2. drv' \in DrvType BY <2>1 DEF SetTrackInfo, TypeInv, DrvType
    <2> QED BY <2>1, <2>2, SetupTypes DEF SetTrackInfo, Setup
  <1>5. CASE \E i \in Tracks, len \in CsdLens : WriteCSD(i, len)
    <2>1. PICK i \in Tracks, len \in CsdLens : WriteCSD(i, len) BY <1>5
    <2>2. drv' \in DrvType BY <2>1 DEF WriteCSD, TypeInv, DrvType
    <2> QED BY <2>1, <2>2, SetupTypes DEF WriteCSD, Setup
  <1>6. CASE WriteHeader
    <2>1. unit = NoUnit BY <1>6 DEF WriteHeader, TypeInv
    <2>2. /\ life' \in {"writing", "opened"} /\ mTrackCnt' \in 0..2
          /\ mTrackPid' \in [Tracks -> Nat]
      BY <1>6 DEF WriteHeader
    <2>3. UNCHANGED <<drv, mPATContinuityCounter, mPMTContinuityCounter,
                      mTSContinuityCounter, out, unit, taken>>
      BY <1>6 DEF WriteHeader, counters
    <2> QED BY <2>1, <2>2, <2>3 DEF TypeInv, TypeOK
  <1>7. CASE \E p \in Packets : WriteAccessUnit(p) BY <1>7, StartTypes
  <1>8. CASE \E p \in Packets : WriteCrashes(p) BY <1>8, LifeTypes DEF WriteCrashes
  <1>9. CASE WriteFragment BY <1>9, FragmentTypes
  <1>10. CASE WriteTrailer \/ Close BY <1>10, LifeTypes DEF WriteTrailer, Close
  <1>11. CASE UNCHANGED vars BY <1>11 DEF vars, counters, TypeInv, TypeOK
  <1> QED BY <1>1, <1>2, <1>3, <1>4, <1>5, <1>6, <1>7, <1>8, <1>9, <1>10, <1>11 DEF Next

\* The type invariant always holds.
LEMMA TypeInvAlways == Spec => []TypeInv
  BY InitTypes, NextTypes, PTL DEF Spec

\* The types are right in every state: the counters stay below the modulus, so
\* that their bits do not run into the flags beside them, and no segment
\* reaches beyond what is written.
THEOREM TypesCorrect == Spec => []TypeOK
  <1>1. TypeInv => TypeOK BY DEF TypeInv
  <1> QED BY <1>1, TypeInvAlways, PTL
-----------------------------------------------------------------------------
\* The file is a row of packets.
Whole(f) ==
    /\ f.size % 188 = 0
    /\ \A n \in 1..(f.size \div 188) :
          \E j \in 1..Len(f.segs) : f.segs[j].at = 188 * (n - 1) /\ IsHeader(f.segs[j])
    /\ \A j \in 1..Len(f.segs) : IsHeader(f.segs[j]) => f.segs[j].at % 188 = 0

\* One packet more leaves it a row of packets.
LEMMA PacketWhole ==
    ASSUME NEW f \in File, NEW head \in Headers, NEW g, Packet(f, head, g),
           g.size = f.size + 188, Whole(f)
    PROVE  Whole(g)
  <1>1. /\ Len(f.segs) \in Nat /\ Len(g.segs) \in Nat /\ f.size \in Nat
        /\ Len(f.segs) + 1 <= Len(g.segs)
    BY DEF File, Packet
  <1>2. PICK m \in Nat : f.size = 188 * m
    <2>1. f.size % 188 = 0 BY DEF Whole
    <2>2. ASSUME NEW z \in Nat, z % 188 = 0
          PROVE  z = 188 * (z \div 188) /\ z \div 188 \in Nat
      BY <2>2
    <2> QED BY <1>1, <2>1, <2>2
  <1>3. /\ f.size \div 188 = m /\ g.size \div 188 = m + 1
        /\ g.size % 188 = 0 /\ f.size % 188 = 0
    BY <1>1, <1>2
  <1>4. LET s == g.segs[Len(f.segs) + 1]
        IN s.at = f.size /\ s.from = 0 /\ IsHeader(s)
    <2>1. head.is \in HeaderKinds
      BY DEF Headers, Tables, Starts, Middles, Lasts, HeaderKinds
    <2> QED BY <2>1 DEF Packet, IsHeader
  <1>5. ASSUME NEW n \in 1..(m + 1)
        PROVE  \E j \in 1..Len(g.segs) :
                  g.segs[j].at = 188 * (n - 1) /\ IsHeader(g.segs[j])
    <2>1. CASE n = m + 1
      <3>1. Len(f.segs) + 1 \in 1..Len(g.segs) BY <1>1
      <3>2. g.segs[Len(f.segs) + 1].at = 188 * (n - 1) BY <1>2, <1>4, <2>1
      <3> QED BY <1>4, <3>1, <3>2
    <2>2. CASE n # m + 1
      <3>1. n \in 1..m BY <1>2, <2>2
      <3>2. PICK j \in 1..Len(f.segs) : f.segs[j].at = 188 * (n - 1) /\ IsHeader(f.segs[j])
        BY <1>3, <3>1, ZenonT(30) DEF Whole
      <3>3. j \in 1..Len(g.segs) /\ g.segs[j] = f.segs[j] BY <1>1 DEF Packet
      <3> QED BY <3>2, <3>3
    <2> QED BY <2>1, <2>2
  <1>6. ASSUME NEW j \in 1..Len(g.segs), IsHeader(g.segs[j])
        PROVE  g.segs[j].at % 188 = 0
    <2>1. CASE j \in 1..Len(f.segs) BY <1>6, <2>1 DEF Packet, Whole
    <2>2. CASE j = Len(f.segs) + 1 BY <1>3, <1>4, <2>2
    <2>3. ~(j \in (Len(f.segs) + 2)..Len(g.segs)) BY <1>6 DEF Packet
    <2>4. j \in 1..Len(f.segs) \/ j = Len(f.segs) + 1 BY <1>1, <2>3
    <2> QED BY <2>1, <2>2, <2>4
  <1> QED BY <1>3, <1>5, <1>6 DEF Whole

\* Until a fragment does not fit, the file is a row of packets.
WholeInv == FragmentsFit => Whole(out)

\* The tables leave it one.
LEMMA BaseFileWhole ==
    ASSUME TypeInv, Whole(out), NEW p \in Packets
    PROVE  Whole(BaseFile(p))
  <1>1. CASE p.stream_idx # 0 BY <1>1 DEF BaseFile
  <1>2. CASE p.stream_idx = 0
    <2>1. /\ out \in File /\ out.size \in Nat
          /\ Pat \in Headers /\ Pmt \in Headers
          /\ WithPat \in File /\ WithTables(out) \in File
          /\ Packet(out, Pat, WithPat) /\ Packet(WithPat, Pmt, WithTables(out))
          /\ WithPat.size = out.size + 188 /\ WithTables(out).size = out.size + 376
      BY TablesArePackets DEF TypeInv, File, Headers
    <2>2. Whole(WithPat) BY <2>1, PacketWhole
    <2>3. WithTables(out).size = WithPat.size + 188 BY <2>1
    <2>4. Whole(WithTables(out)) BY <2>1, <2>2, <2>3, PacketWhole
    <2> QED BY <1>2, <2>4 DEF BaseFile
  <1> QED BY <1>1, <1>2

\* Every operation leaves it one.
LEMMA NextWhole == TypeInv /\ WholeInv /\ [Next]_vars => WholeInv'
  <1> SUFFICES ASSUME TypeInv, WholeInv, [Next]_vars, FragmentsFit' PROVE Whole(out)'
    BY DEF WholeInv
  <1>1. CASE \E p \in Packets : WriteAccessUnit(p)
    <2>1. PICK p \in Packets : WriteAccessUnit(p) BY <1>1
    <2>2. /\ StartHeader(p) \in Starts /\ BaseFile(p) \in File
          /\ Packet(BaseFile(p), StartHeader(p), out')
          /\ life' = life /\ out'.size = BaseFile(p).size + 188
      BY <2>1, StartsPacket DEF FragmentsFit
    <2>3. Whole(out) BY <2>2 DEF WholeInv, FragmentsFit
    <2>4. StartHeader(p) \in Headers BY <2>2 DEF Headers
    <2>5. Whole(out') BY <2>2, <2>3, <2>4, BaseFileWhole, PacketWhole
    <2> QED BY <2>5
  <1>2. CASE WriteFragment
    <2>1. /\ FragmentHead \in Middles \cup Lasts
          /\ Packet(out, FragmentHead, out')
          /\ life' = life /\ out'.size = out.size + 188
      BY <1>2, FragmentsPacket DEF FragmentsFit
    <2>2. Whole(out) /\ out \in File BY <2>1 DEF WholeInv, FragmentsFit, TypeInv
    <2>3. FragmentHead \in Headers BY <2>1 DEF Headers
    <2>4. Whole(out') BY <2>1, <2>2, <2>3, PacketWhole
    <2> QED BY <2>4
  <1>3. CASE UNCHANGED out /\ life \notin {"overrun", "aborted"}
    BY <1>3 DEF WholeInv, FragmentsFit, Whole
  <1>4. CASE UNCHANGED vars
    BY <1>4 DEF WholeInv, FragmentsFit, Whole, vars
  <1> QED
    BY <1>1, <1>2, <1>3, <1>4
    DEF Next, Open, SetStream, SetCacheMode, SetCacheSize, SetTrackInfo, WriteCSD, Setup,
        WriteHeader, WriteCrashes, WriteTrailer, Close, muxVars

\* However a frame is cut, prefixed and stuffed, the file is a row of TS
\* packets, as long as no fragment is refused: its length is a multiple of 188,
\* and headers are written where a packet begins and nowhere else.
THEOREM WholePacketsAlways == Spec => []WholePackets
  <1>1. Init => WholeInv
    <2> SUFFICES ASSUME Init PROVE WholeInv OBVIOUS
    <2>1. out.segs = <<>> /\ out.size = 0 BY DEF Init
    <2>2. Len(out.segs) = 0 /\ out.size % 188 = 0 /\ out.size \div 188 = 0 BY <2>1
    <2> QED BY <2>2 DEF WholeInv, Whole
  <1>2. TypeInv /\ WholeInv => WholePackets
    <2> SUFFICES ASSUME TypeInv, WholeInv, FragmentsFit PROVE WholePackets
      BY DEF WholePackets
    <2>1. Whole(out) BY DEF WholeInv
    <2>2. DOMAIN out.segs = 1..Len(out.segs) BY DEF TypeInv, File
    <2> QED BY <2>1, <2>2 DEF Whole, WholePackets, Boundary, TS_PACKAGE_SZ
  <1> QED BY <1>1, <1>2, NextWhole, TypeInvAlways, PTL DEF Spec
-----------------------------------------------------------------------------
\* Quotient and remainder are unique.
LEMMA QuotientUnique ==
    ASSUME NEW w \in Nat \ {0}, NEW q \in Int, NEW r \in Int,
           NEW c \in 0..(w - 1), NEW d \in 0..(w - 1), (w * q) + c = (w * r) + d
    PROVE  q = r
  <1>1. ASSUME NEW a \in Int, NEW b \in Int, NEW x \in 0..(w - 1), NEW y \in 0..(w - 1),
               (w * a) + x = (w * b) + y, a < b
        PROVE  FALSE
    <2>1. PICK e \in Nat : b = a + 1 + e
      <3>1. b - a - 1 \in Nat BY <1>1
      <3> QED BY <3>1
    <2>2. w * b = (w * a) + w + (w * e) BY <2>1
    <2>3. w * e \in Nat BY <2>1
    <2> QED BY <1>1, <2>2, <2>3
  <1> QED BY <1>1

\* Quotient and remainder by definition.
LEMMA QuotientFacts ==
    ASSUME NEW w \in Nat \ {0}, NEW z \in Nat
    PROVE  /\ z = (w * (z \div w)) + (z % w)
           /\ z % w \in 0..(w - 1) /\ z \div w \in Int
  <1>1. z % w \in 0..(w - 1) OBVIOUS
  <1>2. z = (w * (z \div w)) + (z % w) OBVIOUS
  <1> QED BY <1>1, <1>2

\* A counter of both kinds counts modulo Wrap.
LEMMA AdvanceCounts ==
    ASSUME NEW z \in Nat
    PROVE  /\ Advance(z % Wrap) = (z + 1) % Wrap
           /\ AdvanceInLoop(z % Wrap) = (z + 1) % Wrap
  <1> DEFINE c == z % Wrap
             q == z \div Wrap
             d == (z + 1) % Wrap
             r == (z + 1) \div Wrap
  <1>1. Wrap \in Nat \ {0} BY ConstantFacts
  <1>2. z = (Wrap * q) + c /\ c \in 0..(Wrap - 1) /\ q \in Int BY <1>1, QuotientFacts
  <1>3. z + 1 = (Wrap * r) + d /\ d \in 0..(Wrap - 1) /\ r \in Int
    <2>1. z + 1 \in Nat OBVIOUS
    <2> QED BY <1>1, <2>1, QuotientFacts
  <1> HIDE DEF c, q, d, r
  <1>4. d = IF c + 1 >= Wrap THEN 0 ELSE c + 1
    <2>1. CASE c + 1 >= Wrap
      <3>1. c + 1 = Wrap BY <1>1, <1>2, <2>1
      <3>2. Wrap * (q + 1) = (Wrap * q) + Wrap BY <1>1, <1>2
      <3>3. q + 1 \in Int /\ 0 \in 0..(Wrap - 1) BY <1>1, <1>2
      <3>4. (Wrap * r) + d = (Wrap * (q + 1)) + 0 BY <1>1, <1>2, <1>3, <3>1, <3>2
      <3>5. r = q + 1 BY <1>1, <1>3, <3>3, <3>4, QuotientUnique
      <3> QED BY <1>1, <1>3, <2>1, <3>4, <3>5
    <2>2. CASE ~(c + 1 >= Wrap)
      <3>1. c + 1 \in 0..(Wrap - 1) BY <1>1, <1>2, <2>2
      <3>2. (Wrap * r) + d = (Wrap * q) + (c + 1) BY <1>1, <1>2, <1>3
      <3>3. r = q BY <1>1, <1>2, <1>3, <3>1, <3>2, QuotientUnique
      <3> QED BY <1>1, <1>2, <1>3, <2>2, <3>2, <3>3
    <2> QED BY <2>1, <2>2
  <1>5. Advance(c) = d BY <1>4 DEF Advance
  <1>6. AdvanceInLoop(c) = d BY <1>1, <1>2, <1>4 DEF AdvanceInLoop
  <1> QED BY <1>5, <1>6 DEF c, d
-----------------------------------------------------------------------------
\* The packets of pid in all of f.
Total(f, pid) == PacketsBefore(f.segs, pid, Len(f.segs) + 1)

\* A packet is counted behind it, for its own PID.
LEMMA PacketTotals ==
    ASSUME NEW f \in File, NEW head \in Headers, NEW g, Packet(f, head, g), NEW pid
    PROVE  /\ Total(f, pid) \in Nat
           /\ \A j \in 1..(Len(f.segs) + 1) :
                 PacketsBefore(g.segs, pid, j) = PacketsBefore(f.segs, pid, j)
           /\ head.pid = pid => Total(g, pid) = Total(f, pid) + 1
           /\ head.pid # pid => Total(g, pid) = Total(f, pid)
  <1>1. /\ Len(f.segs) \in Nat /\ Len(g.segs) \in Nat /\ Len(f.segs) + 1 <= Len(g.segs)
    BY DEF File, Packet
  <1> DEFINE Before(h, j) == {k \in 1..(j - 1) : IsHeader(h.segs[k]) /\ h.segs[k].of.pid = pid}
             m == Len(f.segs) + 1
             F == Before(f, m)
             G == Before(g, Len(g.segs) + 1)
  <1>2. \A k \in 1..Len(f.segs) : g.segs[k] = f.segs[k] BY DEF Packet
  <1>3. IsHeader(g.segs[m]) /\ g.segs[m].of.pid = head.pid
    <2>1. head.is \in HeaderKinds
      BY DEF Headers, Tables, Starts, Middles, Lasts, HeaderKinds
    <2> QED BY <2>1 DEF Packet, IsHeader
  <1>4. \A k \in (m + 1)..Len(g.segs) : ~IsHeader(g.segs[k])
    <2>1. m + 1 = Len(f.segs) + 2 BY <1>1
    <2> QED BY <2>1 DEF Packet
  <1>5. IsFiniteSet(F)
    <2>1. IsFiniteSet(1..(m - 1)) BY <1>1, FS_Interval, SMTT(30)
    <2>2. F \subseteq 1..(m - 1) OBVIOUS
    <2> QED BY <2>1, <2>2, FS_Subset
  <1>6. \A j \in 1..m : Before(g, j) = Before(f, j)
    <2> SUFFICES ASSUME NEW j \in 1..m PROVE Before(g, j) = Before(f, j) OBVIOUS
    <2>1. \A k \in 1..(j - 1) : k \in 1..Len(f.segs) BY <1>1
    <2> QED BY <1>2, <2>1
  <1>7. m \in 1..Len(g.segs) /\ m \notin F /\ 1..(m - 1) \subseteq 1..Len(g.segs)
    BY <1>1
  <1>8. \A k \in 1..Len(g.segs) : k \in 1..(m - 1) \/ k = m \/ k \in (m + 1)..Len(g.segs)
    BY <1>1
  <1>9. \A k \in 1..(m - 1) : k \in 1..Len(f.segs) BY <1>1
  <1>10. \A k : k \in 1..((Len(g.segs) + 1) - 1) <=> k \in 1..Len(g.segs) BY <1>1
  <1>11. /\ Total(f, pid) = Cardinality(F) /\ Total(g, pid) = Cardinality(G)
         /\ \A j : PacketsBefore(g.segs, pid, j) = Cardinality(Before(g, j))
         /\ \A j : PacketsBefore(f.segs, pid, j) = Cardinality(Before(f, j))
    BY DEF Total, PacketsBefore
  <1>12. ASSUME head.pid = pid PROVE G = F \cup {m}
    BY <1>2, <1>3, <1>4, <1>7, <1>8, <1>9, <1>10, <1>12
  <1>13. ASSUME head.pid # pid PROVE G = F
    BY <1>2, <1>3, <1>4, <1>7, <1>8, <1>9, <1>10, <1>13
  <1>14. \A j \in 1..(Len(f.segs) + 1) :
            PacketsBefore(g.segs, pid, j) = PacketsBefore(f.segs, pid, j)
    BY <1>6, <1>11
  <1> HIDE DEF F, G
  <1>15. Cardinality(F) \in Nat BY <1>5, FS_CardinalityType
  <1>16. Cardinality(F \cup {m}) = Cardinality(F) + 1
    BY <1>5, <1>7, FS_AddElement
  <1> QED BY <1>11, <1>12, <1>13, <1>14, <1>15, <1>16

\* Every header has the number of its packet on its PID.
Counted(f) ==
    \A j \in 1..Len(f.segs) : IsHeader(f.segs[j]) =>
        f.segs[j].of.cc = PacketsBefore(f.segs, f.segs[j].of.pid, j) % Wrap

\* It stays so when the next packet has the next number.
LEMMA PacketCounted ==
    ASSUME NEW f \in File, NEW head \in Headers, NEW g, Packet(f, head, g),
           Counted(f), head.cc = Total(f, head.pid) % Wrap
    PROVE  Counted(g)
  <1>1. /\ Len(f.segs) \in Nat /\ Len(g.segs) \in Nat /\ Len(f.segs) + 1 <= Len(g.segs)
    BY DEF File, Packet
  <1> SUFFICES ASSUME NEW j \in 1..Len(g.segs), IsHeader(g.segs[j])
               PROVE  g.segs[j].of.cc = PacketsBefore(g.segs, g.segs[j].of.pid, j) % Wrap
    BY DEF Counted
  <1> DEFINE pid == g.segs[j].of.pid
  <1>2. \A i \in 1..(Len(f.segs) + 1) :
           PacketsBefore(g.segs, pid, i) = PacketsBefore(f.segs, pid, i)
    <2> HIDE DEF pid
    <2> QED BY PacketTotals
  <1>3. CASE j \in 1..Len(f.segs)
    <2>1. g.segs[j] = f.segs[j] BY <1>3 DEF Packet
    <2>2. j \in 1..(Len(f.segs) + 1) BY <1>1, <1>3
    <2>3. f.segs[j].of.cc = PacketsBefore(f.segs, f.segs[j].of.pid, j) % Wrap
      BY <1>3, <2>1 DEF Counted
    <2> QED BY <1>2, <2>1, <2>2, <2>3
  <1>4. CASE j = Len(f.segs) + 1
    <2>1. g.segs[j].of = head BY <1>4 DEF Packet
    <2>2. j \in 1..(Len(f.segs) + 1) BY <1>1, <1>4
    <2> QED BY <1>2, <1>4, <2>1, <2>2 DEF Total
  <1>5. ~(j \in (Len(f.segs) + 2)..Len(g.segs)) BY DEF Packet
  <1> QED BY <1>1, <1>3, <1>4, <1>5
-----------------------------------------------------------------------------
\* What the header announces: 481 for video, 482 for audio if there is any.
Announced ==
    /\ mTrackCnt = (IF drv.audio THEN 2 ELSE 1)
    /\ mTrackPid[0] = 481 /\ mTrackPid[1] = (IF drv.audio THEN 482 ELSE 0)

\* Frames are only written behind the header, and nothing else is.
Begun ==
    /\ life \in {"none", "opened"} => taken = <<>>
    /\ (life = "writing" \/ taken # <<>>) => Announced
    /\ taken = <<>> =>
          /\ out.segs = <<>>
          /\ mPATContinuityCounter = 0 /\ mPMTContinuityCounter = 0
          /\ mTSContinuityCounter[0] = 0 /\ mTSContinuityCounter[1] = 0
    /\ unit # NoUnit => taken[Len(taken)] = unit.p

\* A frame taken is the last one.
LEMMA TakenGrows ==
    ASSUME taken \in Seq(Packets), NEW p \in Packets
    PROVE  /\ Append(taken, p) # <<>>
           /\ Len(Append(taken, p)) = Len(taken) + 1
           /\ Append(taken, p)[Len(Append(taken, p))] = p
           /\ Append(taken, p)[Len(taken) + 1] = p
           /\ \A n \in 1..Len(taken) : Append(taken, p)[n] = taken[n]
           /\ DOMAIN taken = 1..Len(taken)
           /\ DOMAIN Append(taken, p) = 1..(Len(taken) + 1)
           /\ Len(taken) \in Nat
  OBVIOUS

\* There is a frame while one is in the loop.
LEMMA LoopTaken ==
    ASSUME TypeInv, unit # NoUnit
    PROVE  /\ taken # <<>> /\ Len(taken) \in DOMAIN taken /\ Len(taken) >= 1
           /\ unit.p \in Packets /\ unit.p.stream_idx \in {0, 1}
  <1>1. unit \in UnitType /\ unit.n = Len(taken) /\ taken \in Seq(Packets)
    BY DEF TypeInv, TypeOK
  <1>2. unit.n \in Nat \ {0} BY <1>1, UnitFacts
  <1>3. unit.p \in Packets /\ unit.p.stream_idx \in {0, 1} BY <1>1, UnitFacts, PacketFacts
  <1> QED BY <1>1, <1>2, <1>3

\* Every operation keeps the above.
LEMMA NextBegun == TypeInv /\ Begun /\ [Next]_vars => Begun'
  <1> SUFFICES ASSUME TypeInv, Begun, [Next]_vars PROVE Begun' OBVIOUS
  <1>1. CASE \E p \in Packets : WriteAccessUnit(p)
    <2>1. PICK p \in Packets : WriteAccessUnit(p) BY <1>1
    <2>2. /\ life' = life \/ life' \in {"overrun", "aborted"}
          /\ unit' = NoUnit \/ unit'.p = p
      BY <2>1, StartsPacket
    <2>3. /\ life = "writing" /\ taken' = Append(taken, p) /\ drv' = drv
          /\ mTrackCnt' = mTrackCnt /\ mTrackPid' = mTrackPid
      BY <2>1 DEF WriteAccessUnit
    <2>4. taken \in Seq(Packets) BY DEF TypeInv, TypeOK
    <2>5. taken' # <<>> /\ taken'[Len(taken')] = p BY <2>3, <2>4, TakenGrows
    <2>6. Announced' BY <2>3 DEF Begun, Announced
    <2>7. life' \notin {"none", "opened"} BY <2>2, <2>3
    <2> QED BY <2>2, <2>5, <2>6, <2>7 DEF Begun
  <1>2. CASE WriteFragment
    <2>1. /\ life' = life \/ life' \in {"overrun", "aborted"}
          /\ unit' = NoUnit \/ unit'.p = unit.p
      BY <1>2, FragmentsPacket
    <2>2. /\ unit # NoUnit /\ taken' = taken /\ drv' = drv
          /\ mTrackCnt' = mTrackCnt /\ mTrackPid' = mTrackPid
      BY <1>2 DEF WriteFragment
    <2>3. taken # <<>> /\ life = "writing" BY <2>2, LoopTaken DEF TypeInv
    <2>4. Announced' BY <2>2, <2>3 DEF Begun, Announced
    <2> QED BY <2>1, <2>2, <2>3, <2>4 DEF Begun
  <1>3. CASE WriteHeader
    <2>1. taken = <<>> /\ unit = NoUnit BY <1>3 DEF WriteHeader, Begun, TypeInv
    <2>2. taken' = taken /\ unit' = unit /\ UNCHANGED <<counters, out>>
      BY <1>3 DEF WriteHeader
    <2>3. Announced' BY <1>3 DEF WriteHeader, Announced, Tracks
    <2> QED BY <2>1, <2>2, <2>3 DEF Begun, counters
  <1>4. CASE /\ UNCHANGED <<muxVars, life>> /\ life = "opened"
    <2>1. taken = <<>> BY <1>4 DEF Begun
    <2> QED BY <1>4, <2>1 DEF Begun, muxVars, counters
  <1>5. CASE /\ UNCHANGED <<muxVars, drv>> /\ life \notin {"none", "opened"}
             /\ life' \in {"finished", "closed", "crashed"}
    BY <1>5 DEF Begun, muxVars, counters, Announced
  <1>6. CASE /\ UNCHANGED <<muxVars, drv>> /\ life \in {"none", "opened"}
             /\ life' \in {"opened", "closed", "crashed"}
    <2>1. taken = <<>> BY <1>6 DEF Begun
    <2> QED BY <1>6, <2>1 DEF Begun, muxVars, counters
  <1>7. CASE UNCHANGED vars BY <1>7 DEF Begun, vars, counters, Announced
  <1>8. CASE SetStream \/ SetCacheMode \/ SetCacheSize
             \/ (\E h264, audio \in BOOLEAN : SetTrackInfo(h264, audio))
             \/ (\E i \in Tracks, len \in CsdLens : WriteCSD(i, len))
    BY <1>4, <1>8 DEF SetStream, SetCacheMode, SetCacheSize, SetTrackInfo, WriteCSD, Setup
  <1>9. CASE Open \/ (\E p \in Packets : WriteCrashes(p)) \/ WriteTrailer \/ Close
    BY <1>5, <1>6, <1>9 DEF Open, WriteCrashes, WriteTrailer, Close
  <1> QED BY <1>1, <1>2, <1>3, <1>7, <1>8, <1>9 DEF Next

\* The above holds from the start.
LEMMA BegunAlways == Spec => []Begun
  <1>1. Init => Begun BY DEF Init, Begun, Tracks
  <1> QED BY <1>1, NextBegun, TypeInvAlways, PTL DEF Spec
-----------------------------------------------------------------------------
\* Audio was announced, if there is any.
AudioAnnounced == drv.audio \/ \A n \in DOMAIN taken : taken[n].stream_idx = 0

\* The counters are the numbers of the packets written, and those in the
\* headers too.
CountInv ==
    AudioAnnounced =>
        /\ Counted(out)
        /\ mPATContinuityCounter = Total(out, 0) % Wrap
        /\ mPMTContinuityCounter = Total(out, 480) % Wrap
        /\ mTSContinuityCounter[0] = Total(out, 481) % Wrap
        /\ mTSContinuityCounter[1] = Total(out, 482) % Wrap

\* A packet with the next number, and how it is counted on the four PIDs.
LEMMA CountOne ==
    ASSUME NEW f \in File, NEW head \in Headers, NEW g, Packet(f, head, g), Counted(f),
           NEW c, NEW pid, c = Total(f, pid) % Wrap, head.cc = c, head.pid = pid
    PROVE  /\ Counted(g)
           /\ Advance(c) = Total(g, pid) % Wrap /\ AdvanceInLoop(c) = Total(g, pid) % Wrap
           /\ \A q : q # pid => Total(g, q) = Total(f, q)
  <1>1. Counted(g) BY PacketCounted
  <1>2. Total(f, pid) \in Nat /\ Total(g, pid) = Total(f, pid) + 1 BY PacketTotals
  <1>3. ASSUME NEW q, q # pid PROVE Total(g, q) = Total(f, q)
    <2>1. head.pid # q BY <1>3
    <2> QED BY <2>1, PacketTotals
  <1>4. Advance(c) = Total(g, pid) % Wrap /\ AdvanceInLoop(c) = Total(g, pid) % Wrap
    BY <1>2, AdvanceCounts
  <1> QED BY <1>1, <1>3, <1>4

\* A video frame counts on three PIDs.
LEMMA VideoCounts ==
    ASSUME TypeInv, Begun, CountInv, NEW p \in Packets, WriteAccessUnit(p),
           p.stream_idx = 0, AudioAnnounced
    PROVE  CountInv'
  <1>1. mTrackPid[0] = 481 BY DEF WriteAccessUnit, Begun, Announced
  <1>2. /\ StartHeader(p) \in Headers /\ WithTables(out) \in File
        /\ Packet(WithTables(out), StartHeader(p), out')
    BY StartsPacket DEF BaseFile, Headers
  <1>3. StartHeader(p).pid = 481 /\ StartHeader(p).cc = mTSContinuityCounter[0]
    BY <1>1 DEF StartHeader
  <1>4. /\ out \in File
        /\ Pat \in Headers /\ Pmt \in Headers /\ WithPat \in File
        /\ Packet(out, Pat, WithPat) /\ Packet(WithPat, Pmt, WithTables(out))
    BY TablesArePackets DEF TypeInv, Headers
  <1>5. Pat.pid = 0 /\ Pat.cc = mPATContinuityCounter
        /\ Pmt.pid = 480 /\ Pmt.cc = mPMTContinuityCounter
    BY DEF Pat, Pmt, PmtPid
  <1>6. /\ Counted(out)
        /\ mPATContinuityCounter = Total(out, 0) % Wrap
        /\ mPMTContinuityCounter = Total(out, 480) % Wrap
        /\ mTSContinuityCounter[0] = Total(out, 481) % Wrap
        /\ mTSContinuityCounter[1] = Total(out, 482) % Wrap
    BY DEF CountInv
  <1>7. /\ Counted(WithPat) /\ Advance(mPATContinuityCounter) = Total(WithPat, 0) % Wrap
        /\ \A q : q # 0 => Total(WithPat, q) = Total(out, q)
    BY <1>4, <1>5, <1>6, CountOne
  <1>8. mPMTContinuityCounter = Total(WithPat, 480) % Wrap BY <1>6, <1>7
  <1>9. /\ Counted(WithTables(out))
        /\ Advance(mPMTContinuityCounter) = Total(WithTables(out), 480) % Wrap
        /\ \A q : q # 480 => Total(WithTables(out), q) = Total(WithPat, q)
    BY <1>4, <1>5, <1>7, <1>8, CountOne
  <1>10. mTSContinuityCounter[0] = Total(WithTables(out), 481) % Wrap
    BY <1>6, <1>7, <1>9
  <1>11. /\ Counted(out')
         /\ Advance(mTSContinuityCounter[0]) = Total(out', 481) % Wrap
         /\ \A q : q # 481 => Total(out', q) = Total(WithTables(out), q)
    BY <1>2, <1>3, <1>9, <1>10, CountOne
  <1>12. /\ mPATContinuityCounter' = Advance(mPATContinuityCounter)
         /\ mPMTContinuityCounter' = Advance(mPMTContinuityCounter)
         /\ mTSContinuityCounter'[0] = Advance(mTSContinuityCounter[0])
         /\ mTSContinuityCounter'[1] = mTSContinuityCounter[1]
    BY DEF WriteAccessUnit, TypeInv, TypeOK, Tracks
  <1>13. /\ Total(out', 0) = Total(WithPat, 0)
         /\ Total(out', 480) = Total(WithTables(out), 480)
         /\ Total(out', 482) = Total(out, 482)
    BY <1>7, <1>9, <1>11
  <1> QED BY <1>6, <1>7, <1>9, <1>11, <1>12, <1>13 DEF CountInv

\* An audio frame's first packet counts on its PID.
LEMMA AudioCounts ==
    ASSUME TypeInv, Begun, CountInv, NEW p \in Packets, WriteAccessUnit(p),
           p.stream_idx = 1, drv.audio
    PROVE  CountInv'
  <1>1. mTrackPid[1] = 482 BY DEF WriteAccessUnit, Begun, Announced
  <1>2. /\ StartHeader(p) \in Headers /\ out \in File
        /\ Packet(out, StartHeader(p), out')
    BY StartsPacket DEF BaseFile, Headers, TypeInv
  <1>3. StartHeader(p).pid = 482 /\ StartHeader(p).cc = mTSContinuityCounter[1]
    BY <1>1 DEF StartHeader
  <1>4. /\ Counted(out)
        /\ mPATContinuityCounter = Total(out, 0) % Wrap
        /\ mPMTContinuityCounter = Total(out, 480) % Wrap
        /\ mTSContinuityCounter[0] = Total(out, 481) % Wrap
        /\ mTSContinuityCounter[1] = Total(out, 482) % Wrap
    BY DEF CountInv, AudioAnnounced
  <1>5. /\ Counted(out')
        /\ Advance(mTSContinuityCounter[1]) = Total(out', 482) % Wrap
        /\ \A q : q # 482 => Total(out', q) = Total(out, q)
    BY <1>2, <1>3, <1>4, CountOne
  <1>6. /\ mPATContinuityCounter' = mPATContinuityCounter
        /\ mPMTContinuityCounter' = mPMTContinuityCounter
        /\ mTSContinuityCounter'[1] = Advance(mTSContinuityCounter[1])
        /\ mTSContinuityCounter'[0] = mTSContinuityCounter[0]
    BY DEF WriteAccessUnit, TypeInv, TypeOK, Tracks
  <1>7. /\ Total(out', 0) = Total(out, 0) /\ Total(out', 480) = Total(out, 480)
        /\ Total(out', 481) = Total(out, 481)
    BY <1>5
  <1> QED BY <1>4, <1>5, <1>6, <1>7 DEF CountInv

\* A later packet counts on the PID of its frame.
LEMMA FragmentCounts ==
    ASSUME TypeInv, Begun, CountInv, WriteFragment, AudioAnnounced
    PROVE  CountInv'
  <1> DEFINE i == unit.p.stream_idx
             pid == mTrackPid[i]
  <1>1. unit # NoUnit BY DEF WriteFragment
  <1>2. /\ taken # <<>> /\ Len(taken) \in DOMAIN taken /\ i \in {0, 1}
    BY <1>1, LoopTaken
  <1>3. /\ mTrackPid[0] = 481 /\ mTrackPid[1] = (IF drv.audio THEN 482 ELSE 0)
        /\ taken[Len(taken)] = unit.p /\ unit.pid = pid
    BY <1>1, <1>2 DEF Begun, Announced, TypeInv
  <1>4. pid = IF i = 0 THEN 481 ELSE 482
    <2>1. CASE i = 0 BY <1>3, <2>1
    <2>2. CASE i = 1
      <3>1. drv.audio BY <1>2, <1>3, <2>2 DEF AudioAnnounced
      <3> QED BY <1>3, <2>2, <3>1
    <2> QED BY <1>2, <2>1, <2>2
  <1>5. /\ FragmentHead \in Headers /\ out \in File /\ Packet(out, FragmentHead, out')
        /\ FragmentHead.pid = pid /\ FragmentHead.cc = mTSContinuityCounter[i]
    BY <1>3, FragmentsPacket DEF Headers, TypeInv
  <1>6. /\ Counted(out)
        /\ mPATContinuityCounter = Total(out, 0) % Wrap
        /\ mPMTContinuityCounter = Total(out, 480) % Wrap
        /\ mTSContinuityCounter[0] = Total(out, 481) % Wrap
        /\ mTSContinuityCounter[1] = Total(out, 482) % Wrap
    BY DEF CountInv
  <1>7. mTSContinuityCounter[i] = Total(out, pid) % Wrap BY <1>2, <1>4, <1>6
  <1>8. mTSContinuityCounter' = [mTSContinuityCounter EXCEPT ![i] =
                                   AdvanceInLoop(mTSContinuityCounter[i])]
        /\ mPATContinuityCounter' = mPATContinuityCounter
        /\ mPMTContinuityCounter' = mPMTContinuityCounter
    BY DEF WriteFragment
  <1> HIDE DEF pid, i
  <1>9. /\ Counted(out')
        /\ AdvanceInLoop(mTSContinuityCounter[i]) = Total(out', pid) % Wrap
        /\ \A q : q # pid => Total(out', q) = Total(out, q)
    BY <1>5, <1>6, <1>7, CountOne
  <1>10. mTSContinuityCounter \in [Tracks -> Nat] /\ Tracks = {0, 1}
    BY ConstantFacts DEF TypeInv, TypeOK, Tracks
  <1>11. CASE i = 0
    <2>1. /\ mTSContinuityCounter'[0] = AdvanceInLoop(mTSContinuityCounter[0])
          /\ mTSContinuityCounter'[1] = mTSContinuityCounter[1]
      BY <1>8, <1>10, <1>11
    <2>2. pid = 481 BY <1>4, <1>11
    <2>3. /\ Total(out', 0) = Total(out, 0) /\ Total(out', 480) = Total(out, 480)
          /\ Total(out', 482) = Total(out, 482)
      BY <1>9, <2>2
    <2> QED BY <1>6, <1>8, <1>9, <1>11, <2>1, <2>2, <2>3 DEF CountInv
  <1>12. CASE i = 1
    <2>1. /\ mTSContinuityCounter'[1] = AdvanceInLoop(mTSContinuityCounter[1])
          /\ mTSContinuityCounter'[0] = mTSContinuityCounter[0]
      BY <1>8, <1>10, <1>12
    <2>2. pid = 482 BY <1>4, <1>12
    <2>3. /\ Total(out', 0) = Total(out, 0) /\ Total(out', 480) = Total(out, 480)
          /\ Total(out', 481) = Total(out, 481)
      BY <1>9, <2>2
    <2> QED BY <1>6, <1>8, <1>9, <1>12, <2>1, <2>2, <2>3 DEF CountInv
  <1> QED BY <1>2, <1>11, <1>12

\* The frames taken so far were announced when those after a step are.
LEMMA AnnouncedBefore ==
    ASSUME TypeInv, NEW p \in Packets, WriteAccessUnit(p), AudioAnnounced'
    PROVE  AudioAnnounced /\ (p.stream_idx = 1 => drv.audio)
  <1>1. taken \in Seq(Packets) /\ taken' = Append(taken, p) /\ drv' = drv
    BY DEF WriteAccessUnit, TypeInv, TypeOK
  <1>2. /\ taken'[Len(taken) + 1] = p
        /\ \A n \in 1..Len(taken) : taken'[n] = taken[n]
        /\ DOMAIN taken = 1..Len(taken) /\ DOMAIN taken' = 1..(Len(taken) + 1)
        /\ Len(taken) \in Nat
    BY <1>1, TakenGrows
  <1>3. DOMAIN taken \subseteq DOMAIN taken' /\ Len(taken) + 1 \in DOMAIN taken'
    BY <1>2
  <1> QED BY <1>1, <1>2, <1>3 DEF AudioAnnounced

\* Every operation counts what it writes.
LEMMA NextCounts == TypeInv /\ Begun /\ CountInv /\ [Next]_vars => CountInv'
  <1> SUFFICES ASSUME TypeInv, Begun, CountInv, [Next]_vars, AudioAnnounced'
               PROVE  CountInv'
    BY DEF CountInv
  <1>1. CASE \E p \in Packets : WriteAccessUnit(p)
    <2>1. PICK p \in Packets : WriteAccessUnit(p) BY <1>1
    <2>2. AudioAnnounced /\ (p.stream_idx = 1 => drv.audio) BY <2>1, AnnouncedBefore
    <2>3. p.stream_idx \in {0, 1} BY PacketFacts
    <2> QED BY <2>1, <2>2, <2>3, VideoCounts, AudioCounts
  <1>2. CASE WriteFragment
    <2>1. AudioAnnounced BY <1>2 DEF WriteFragment, AudioAnnounced
    <2> QED BY <1>2, <2>1, FragmentCounts
  <1>3. CASE UNCHANGED <<muxVars, life>> /\ life = "opened"
    <2>1. taken = <<>> BY <1>3 DEF Begun
    <2>2. AudioAnnounced BY <2>1 DEF AudioAnnounced
    <2> QED BY <1>3, <2>2 DEF CountInv, muxVars, counters
  <1>4. CASE UNCHANGED <<counters, out, drv, taken>>
    BY <1>4 DEF CountInv, counters, AudioAnnounced
  <1>5. CASE SetStream \/ SetCacheMode \/ SetCacheSize
             \/ (\E h264, audio \in BOOLEAN : SetTrackInfo(h264, audio))
             \/ (\E i \in Tracks, len \in CsdLens : WriteCSD(i, len))
    BY <1>3, <1>5 DEF SetStream, SetCacheMode, SetCacheSize, SetTrackInfo, WriteCSD, Setup
  <1>6. CASE Open \/ WriteHeader \/ (\E p \in Packets : WriteCrashes(p))
             \/ WriteTrailer \/ Close \/ UNCHANGED vars
    BY <1>4, <1>6
    DEF Open, WriteHeader, WriteCrashes, WriteTrailer, Close, muxVars, vars
  <1> QED BY <1>1, <1>2, <1>5, <1>6 DEF Next

\* The packets of a PID are counted modulo Wrap, across the two places that
\* count them and whatever the other track writes in between, so that a reader
\* sees no gap; when audio was announced if there is any.
THEOREM ContinuityNeverBreaks == Spec => []ContinuityCounts
  <1>1. Init => CountInv
    <2> SUFFICES ASSUME Init PROVE CountInv OBVIOUS
    <2>1. /\ out.segs = <<>> /\ mPATContinuityCounter = 0 /\ mPMTContinuityCounter = 0
          /\ mTSContinuityCounter[0] = 0 /\ mTSContinuityCounter[1] = 0
      BY DEF Init, Tracks
    <2>2. Len(out.segs) = 0 BY <2>1
    <2>3. ASSUME NEW pid PROVE Total(out, pid) = 0
      <3>1. 1..((Len(out.segs) + 1) - 1) = {} BY <2>2
      <3>2. {k \in {} : IsHeader(out.segs[k]) /\ out.segs[k].of.pid = pid} = {} OBVIOUS
      <3>3. Total(out, pid) = Cardinality({}) BY <3>1, <3>2 DEF Total, PacketsBefore
      <3> QED BY <3>3, FS_EmptySet
    <2>4. 0 % Wrap = 0 BY ConstantFacts
    <2> QED BY <2>1, <2>2, <2>3, <2>4 DEF CountInv, Counted
  <1>2. TypeInv /\ CountInv => ContinuityCounts
    <2> SUFFICES ASSUME TypeInv, CountInv, Sound PROVE ContinuityCounts
      BY DEF ContinuityCounts
    <2>1. Counted(out) BY DEF CountInv, Sound, AudioAnnounced
    <2>2. DOMAIN out.segs = 1..Len(out.segs) BY DEF TypeInv, File
    <2> QED BY <2>1, <2>2 DEF Counted, ContinuityCounts
  <1> QED BY <1>1, <1>2, NextCounts, BegunAlways, TypeInvAlways, PTL DEF Spec
-----------------------------------------------------------------------------
\* A segment is the header of a first packet.
IsStart(s) == s.of.is = "start"

\* Where the segments of a packet come from.
LEMMA PacketSegments ==
    ASSUME NEW f \in File, NEW head \in Headers, NEW g, Packet(f, head, g)
    PROVE  /\ Len(f.segs) \in Nat /\ Len(g.segs) \in Nat
           /\ Len(f.segs) + 1 \in 1..Len(g.segs) /\ 1..Len(f.segs) \subseteq 1..Len(g.segs)
           /\ \A k \in 1..Len(f.segs) : g.segs[k] = f.segs[k]
           /\ g.segs[Len(f.segs) + 1].of = head
           /\ \A k \in 1..Len(g.segs) :
                 k \in 1..Len(f.segs) \/ k = Len(f.segs) + 1 \/ ~IsStart(g.segs[k])
  <1>1. /\ Len(f.segs) \in Nat /\ Len(g.segs) \in Nat /\ Len(f.segs) + 1 <= Len(g.segs)
    BY DEF File, Packet
  <1>2. /\ \A k \in 1..Len(f.segs) : g.segs[k] = f.segs[k]
        /\ g.segs[Len(f.segs) + 1].of = head
    BY DEF Packet
  <1>3. ASSUME NEW k \in (Len(f.segs) + 2)..Len(g.segs) PROVE ~IsStart(g.segs[k])
    <2>1. g.segs[k].of \in Contents BY DEF Packet
    <2>2. g.segs[k].of.is \in {"aud", "csd", "adts", "frame"} BY <2>1 DEF Contents
    <2> QED BY <2>2 DEF IsStart
  <1>4. ASSUME NEW k \in 1..Len(g.segs)
        PROVE  k \in 1..Len(f.segs) \/ k = Len(f.segs) + 1 \/ ~IsStart(g.segs[k])
    <2>1. k \in 1..Len(f.segs) \/ k = Len(f.segs) + 1 \/ k \in (Len(f.segs) + 2)..Len(g.segs)
      BY <1>1
    <2> QED BY <1>3, <2>1
  <1>5. Len(f.segs) + 1 \in 1..Len(g.segs) /\ 1..Len(f.segs) \subseteq 1..Len(g.segs)
    BY <1>1
  <1> QED BY <1>1, <1>2, <1>4, <1>5

\* The first packets up to segment j, and all of them, when there is one packet
\* more.
LEMMA PacketStarts ==
    ASSUME NEW f \in File, NEW head \in Headers, NEW g, Packet(f, head, g)
    PROVE  /\ \A j \in 1..Len(f.segs) : StartsUpTo(g.segs, j) = StartsUpTo(f.segs, j)
           /\ head.is = "start" =>
                 /\ StartsUpTo(g.segs, Len(f.segs) + 1)
                       = StartsUpTo(f.segs, Len(f.segs)) \cup {Len(f.segs) + 1}
                 /\ StartsUpTo(g.segs, Len(g.segs))
                       = StartsUpTo(f.segs, Len(f.segs)) \cup {Len(f.segs) + 1}
           /\ head.is # "start" =>
                 StartsUpTo(g.segs, Len(g.segs)) = StartsUpTo(f.segs, Len(f.segs))
           /\ IsFiniteSet(StartsUpTo(f.segs, Len(f.segs)))
           /\ Len(f.segs) + 1 \notin StartsUpTo(f.segs, Len(f.segs))
  <1> DEFINE m == Len(f.segs)
  <1>1. /\ m \in Nat /\ Len(g.segs) \in Nat
        /\ m + 1 \in 1..Len(g.segs) /\ 1..m \subseteq 1..Len(g.segs)
        /\ \A k \in 1..m : g.segs[k] = f.segs[k]
        /\ g.segs[m + 1].of = head
        /\ \A k \in 1..Len(g.segs) : k \in 1..m \/ k = m + 1 \/ ~IsStart(g.segs[k])
    BY PacketSegments
  <1> HIDE DEF m
  <1>2. \A j : /\ StartsUpTo(g.segs, j) = {k \in 1..j : IsStart(g.segs[k])}
               /\ StartsUpTo(f.segs, j) = {k \in 1..j : IsStart(f.segs[k])}
    BY DEF StartsUpTo, IsStart
  <1>3. \A j \in 1..m : StartsUpTo(g.segs, j) = StartsUpTo(f.segs, j)
    <2> SUFFICES ASSUME NEW j \in 1..m
                 PROVE  StartsUpTo(g.segs, j) = StartsUpTo(f.segs, j)
      OBVIOUS
    <2>1. 1..j \subseteq 1..m BY <1>1
    <2> QED BY <1>1, <1>2, <2>1
  <1>4. ASSUME head.is = "start"
        PROVE  /\ StartsUpTo(g.segs, m + 1) = StartsUpTo(f.segs, m) \cup {m + 1}
               /\ StartsUpTo(g.segs, Len(g.segs)) = StartsUpTo(f.segs, m) \cup {m + 1}
    <2>1. IsStart(g.segs[m + 1]) BY <1>1, <1>4 DEF IsStart
    <2>2. 1..(m + 1) = (1..m) \cup {m + 1} BY <1>1
    <2> QED BY <1>1, <1>2, <2>1, <2>2
  <1>5. ASSUME head.is # "start"
        PROVE  StartsUpTo(g.segs, Len(g.segs)) = StartsUpTo(f.segs, m)
    <2>1. ~IsStart(g.segs[m + 1]) BY <1>1, <1>5 DEF IsStart
    <2> QED BY <1>1, <1>2, <2>1
  <1>6. IsFiniteSet(StartsUpTo(f.segs, m)) /\ m + 1 \notin StartsUpTo(f.segs, m)
    <2>1. StartsUpTo(f.segs, m) \subseteq 1..m BY DEF StartsUpTo
    <2>2. IsFiniteSet(1..m)
      <3>1. 1 \in Int /\ m \in Int BY <1>1
      <3> QED BY <3>1, FS_Interval
    <2>3. m + 1 \notin 1..m BY <1>1
    <2> QED BY <2>1, <2>2, <2>3, FS_Subset
  <1> QED BY <1>3, <1>4, <1>5, <1>6 DEF m
-----------------------------------------------------------------------------
\* The PIDs that are announced.
Listed == IF drv.audio THEN {481, 482} ELSE {481}

\* Before every first packet of a video frame are the PAT and a PMT that lists
\* what is announced.
LeadsAt(f, j) ==
    /\ j > 2 /\ f.segs[j - 2].of.is = "table" /\ f.segs[j - 1].of.is = "table"
    /\ f.segs[j - 2].of.pid = 0 /\ f.segs[j - 1].of.pid \in f.segs[j - 2].of.lists
    /\ f.segs[j - 1].of.lists = Listed
Led(f) == \A j \in 1..Len(f.segs) : 
    IsStart(f.segs[j]) /\ f.segs[j].of.pid = 481 => LeadsAt(f, j)
StartsListed(f) == \A j \in 1..Len(f.segs) : IsStart(f.segs[j]) => f.segs[j].of.pid \in Listed
LeadInv == Led(out) /\ (AudioAnnounced => StartsListed(out))

\* They stay there, and a packet that begins no video frame needs none.
LEMMA PacketLeads ==
    ASSUME NEW f \in File, NEW head \in Headers, NEW g, Packet(f, head, g), Led(f),
           (head.is = "start" /\ head.pid = 481) => LeadsAt(g, Len(f.segs) + 1)
    PROVE  Led(g)
  <1>1. /\ Len(f.segs) \in Nat
        /\ \A k \in 1..Len(f.segs) : g.segs[k] = f.segs[k]
        /\ g.segs[Len(f.segs) + 1].of = head
        /\ \A k \in 1..Len(g.segs) :
              k \in 1..Len(f.segs) \/ k = Len(f.segs) + 1 \/ ~IsStart(g.segs[k])
    BY PacketSegments
  <1> SUFFICES ASSUME NEW j \in 1..Len(g.segs), IsStart(g.segs[j]), g.segs[j].of.pid = 481
               PROVE  LeadsAt(g, j)
    BY DEF Led
  <1>2. CASE j = Len(f.segs) + 1 BY <1>1, <1>2 DEF IsStart
  <1>3. CASE j \in 1..Len(f.segs)
    <2>1. LeadsAt(f, j) BY <1>1, <1>3 DEF Led
    <2>2. j - 2 \in 1..Len(f.segs) /\ j - 1 \in 1..Len(f.segs)
      BY <1>1, <1>3, <2>1, SMTT(30) DEF LeadsAt
    <2>3. g.segs[j - 2] = f.segs[j - 2] /\ g.segs[j - 1] = f.segs[j - 1] BY <1>1, <2>2, SMTT(30)
    <2> QED BY <2>1, <2>3 DEF LeadsAt
  <1> QED BY <1>1, <1>2, <1>3

\* The PIDs of first packets, with one packet more.
LEMMA PacketListed ==
    ASSUME NEW f \in File, NEW head \in Headers, NEW g, Packet(f, head, g),
           StartsListed(f), head.is = "start" => head.pid \in Listed
    PROVE  StartsListed(g)
  <1>1. /\ \A k \in 1..Len(f.segs) : g.segs[k] = f.segs[k]
        /\ g.segs[Len(f.segs) + 1].of = head
        /\ \A k \in 1..Len(g.segs) :
              k \in 1..Len(f.segs) \/ k = Len(f.segs) + 1 \/ ~IsStart(g.segs[k])
    BY PacketSegments
  <1> QED BY <1>1 DEF StartsListed, IsStart

\* A video frame's first packet, and what it is in front of it.
LEMMA VideoLeads ==
    ASSUME TypeInv, Begun, LeadInv, NEW p \in Packets, WriteAccessUnit(p),
           p.stream_idx = 0
    PROVE  Led(out') /\ (AudioAnnounced => StartsListed(out'))
  <1>1. Announced BY DEF WriteAccessUnit, Begun
  <1> DEFINE f == WithTables(out)
             m == Len(out.segs)
  <1>2. /\ StartHeader(p) \in Headers /\ f \in File
        /\ Packet(f, StartHeader(p), out')
    BY StartsPacket DEF BaseFile, Headers
  <1>3. StartHeader(p).is = "start" /\ StartHeader(p).pid = 481
    BY <1>1 DEF StartHeader, Announced
  <1>4. /\ out \in File /\ Pat \in Headers /\ Pmt \in Headers /\ WithPat \in File
        /\ Packet(out, Pat, WithPat) /\ Packet(WithPat, Pmt, f)
        /\ Len(WithPat.segs) = m + 1 /\ Len(f.segs) = m + 2
    BY TablesArePackets DEF TypeInv, Headers
  <1>5. /\ Pat.is = "table" /\ Pat.pid = 0 /\ Pat.lists = {480}
        /\ Pmt.is = "table" /\ Pmt.pid = 480
    BY DEF Pat, Pmt, PmtPid
  <1>6. Pmt.lists = Listed
    <2>1. Pmt.lists = {mTrackPid[i] : i \in 0..(mTrackCnt - 1)} BY DEF Pmt
    <2>2. CASE drv.audio
      <3>1. mTrackCnt - 1 = 1 /\ mTrackPid[0] = 481 /\ mTrackPid[1] = 482
        BY <1>1, <2>2 DEF Announced
      <3>2. \A i : i \in 0..1 <=> i = 0 \/ i = 1 OBVIOUS
      <3> QED BY <2>1, <2>2, <3>1, <3>2 DEF Listed
    <2>3. CASE ~drv.audio
      <3>1. mTrackCnt - 1 = 0 /\ mTrackPid[0] = 481 BY <1>1, <2>3 DEF Announced
      <3>2. \A i : i \in 0..0 <=> i = 0 OBVIOUS
      <3> QED BY <2>1, <2>3, <3>1, <3>2 DEF Listed
    <2> QED BY <2>2, <2>3
  <1> HIDE DEF f, m
  <1>7. m \in Nat BY <1>4 DEF File, m
  <1>8. WithPat.segs[m + 1].of = Pat BY <1>4, PacketSegments DEF m
  <1>9. f.segs[m + 1].of = Pat /\ f.segs[m + 2].of = Pmt
    <2>1. /\ \A k \in 1..Len(WithPat.segs) : f.segs[k] = WithPat.segs[k]
          /\ f.segs[Len(WithPat.segs) + 1].of = Pmt
      BY <1>4, PacketSegments
    <2>2. m + 1 \in 1..Len(WithPat.segs) /\ Len(WithPat.segs) + 1 = m + 2 BY <1>4, <1>7
    <2> QED BY <1>8, <2>1, <2>2
  <1>10. out'.segs[m + 1].of = Pat /\ out'.segs[m + 2].of = Pmt
    <2>1. \A k \in 1..Len(f.segs) : out'.segs[k] = f.segs[k] BY <1>2, PacketSegments
    <2>2. m + 1 \in 1..Len(f.segs) /\ m + 2 \in 1..Len(f.segs) BY <1>4, <1>7
    <2> QED BY <1>9, <2>1, <2>2
  <1>11. LeadsAt(out', Len(f.segs) + 1)
    <2>1. /\ (Len(f.segs) + 1) - 2 = m + 1 /\ (Len(f.segs) + 1) - 1 = m + 2
          /\ Len(f.segs) + 1 > 2
      BY <1>4, <1>7
    <2> QED BY <1>5, <1>6, <1>10, <2>1 DEF LeadsAt
  <1>12. Led(WithPat) BY <1>4, <1>5, PacketLeads DEF LeadInv
  <1>13. Led(f) BY <1>4, <1>5, <1>12, PacketLeads
  <1>14. Led(out') BY <1>2, <1>11, <1>13, PacketLeads
  <1>15. ASSUME AudioAnnounced PROVE StartsListed(out')
    <2>1. StartsListed(out) BY <1>15 DEF LeadInv
    <2>2. StartsListed(WithPat) BY <1>4, <1>5, <2>1, PacketListed
    <2>3. StartsListed(f) BY <1>4, <1>5, <2>2, PacketListed
    <2>4. StartHeader(p).pid \in Listed BY <1>3 DEF Listed
    <2> QED BY <1>2, <2>3, <2>4, PacketListed
  <1> QED BY <1>14, <1>15

\* Any other packet.
LEMMA OthersLead ==
    ASSUME TypeInv, LeadInv, NEW head \in Headers, Packet(out, head, out'),
           head.is = "start" => head.pid # 481 /\ (AudioAnnounced' => head.pid \in Listed),
           AudioAnnounced' => AudioAnnounced
    PROVE  Led(out') /\ (AudioAnnounced' => StartsListed(out'))
  <1>1. out \in File BY DEF TypeInv
  <1>2. Led(out') BY <1>1, PacketLeads DEF LeadInv
  <1>3. ASSUME AudioAnnounced' PROVE StartsListed(out')
    <2>1. StartsListed(out) BY <1>3 DEF LeadInv
    <2> QED BY <1>1, <1>3, <2>1, PacketListed
  <1> QED BY <1>2, <1>3

\* Every operation keeps the tables in front.
LEMMA NextLeads == TypeInv /\ Begun /\ LeadInv /\ [Next]_vars => LeadInv'
  <1> SUFFICES ASSUME TypeInv, Begun, LeadInv, [Next]_vars PROVE LeadInv' OBVIOUS
  <1>1. ASSUME drv' = drv, Led(out'), AudioAnnounced' => StartsListed(out') PROVE LeadInv'
    <2>1. Listed' = Listed BY <1>1 DEF Listed
    <2> QED BY <1>1, <2>1 DEF LeadInv, Led, LeadsAt, StartsListed
  <1>2. CASE \E p \in Packets : WriteAccessUnit(p)
    <2>1. PICK p \in Packets : WriteAccessUnit(p) BY <1>2
    <2>2. drv' = drv /\ Announced BY <2>1 DEF WriteAccessUnit, Begun
    <2>3. AudioAnnounced' => AudioAnnounced /\ (p.stream_idx = 1 => drv.audio)
      BY <2>1, AnnouncedBefore
    <2>4. CASE p.stream_idx = 0 BY <1>1, <2>1, <2>2, <2>3, <2>4, VideoLeads
    <2>5. CASE p.stream_idx = 1
      <3>1. StartHeader(p) \in Headers /\ Packet(out, StartHeader(p), out')
        BY <2>1, <2>5, StartsPacket DEF BaseFile, Headers
      <3>2. StartHeader(p).pid = (IF drv.audio THEN 482 ELSE 0)
        BY <2>2, <2>5 DEF StartHeader, Announced
      <3>3. StartHeader(p).pid # 481 /\ (drv.audio => StartHeader(p).pid \in Listed)
        BY <3>2 DEF Listed
      <3>4. Led(out') /\ (AudioAnnounced' => StartsListed(out'))
        BY <2>3, <2>5, <3>1, <3>3, OthersLead
      <3> QED BY <1>1, <2>2, <3>4
    <2> QED BY <2>4, <2>5, PacketFacts
  <1>3. CASE WriteFragment
    <2>1. FragmentHead \in Headers /\ Packet(out, FragmentHead, out')
      BY <1>3, FragmentsPacket DEF Headers
    <2>2. FragmentHead.is # "start" BY DEF FragmentHead
    <2>3. drv' = drv /\ (AudioAnnounced' => AudioAnnounced)
      BY <1>3 DEF WriteFragment, AudioAnnounced
    <2>4. Led(out') /\ (AudioAnnounced' => StartsListed(out'))
      BY <2>1, <2>2, <2>3, OthersLead
    <2> QED BY <1>1, <2>3, <2>4
  <1>4. CASE out' = out /\ taken' = taken /\ taken = <<>>
    <2>1. out'.segs = <<>> BY <1>4 DEF Begun
    <2>2. Len(out'.segs) = 0 BY <2>1
    <2> QED BY <2>2 DEF LeadInv, Led, StartsListed
  <1>5. CASE UNCHANGED <<out, drv, taken>>
    BY <1>5 DEF LeadInv, Led, LeadsAt, StartsListed, Listed, AudioAnnounced
  <1>6. CASE SetStream \/ SetCacheMode \/ SetCacheSize
             \/ (\E h264, audio \in BOOLEAN : SetTrackInfo(h264, audio))
             \/ (\E i \in Tracks, len \in CsdLens : WriteCSD(i, len))
    <2>1. UNCHANGED muxVars /\ life = "opened"
      BY <1>6 DEF SetStream, SetCacheMode, SetCacheSize, SetTrackInfo, WriteCSD, Setup
    <2> QED BY <1>4, <2>1 DEF muxVars, Begun
  <1>7. CASE Open \/ WriteHeader \/ (\E p \in Packets : WriteCrashes(p))
             \/ WriteTrailer \/ Close \/ UNCHANGED vars
    BY <1>5, <1>7
    DEF Open, WriteHeader, WriteCrashes, WriteTrailer, Close, muxVars, vars
  <1> QED BY <1>2, <1>3, <1>6, <1>7 DEF Next

\* A reader can tune in at any video frame: in front of it are a PAT and a PMT,
\* and the PMT lists the PIDs of all frames before and after it.
THEOREM TablesAlwaysLead == Spec => []TablesLead
  <1>1. Init => LeadInv
    <2> SUFFICES ASSUME Init PROVE LeadInv OBVIOUS
    <2>1. out.segs = <<>> BY DEF Init
    <2>2. Len(out.segs) = 0 BY <2>1
    <2> QED BY <2>2 DEF LeadInv, Led, StartsListed
  <1>2. TypeInv /\ LeadInv => TablesLead
    <2> SUFFICES ASSUME TypeInv, LeadInv, Sound PROVE TablesLead BY DEF TablesLead
    <2>1. Led(out) /\ StartsListed(out) BY DEF LeadInv, Sound, AudioAnnounced
    <2>2. DOMAIN out.segs = 1..Len(out.segs) BY DEF TypeInv, File
    <2> QED BY <2>1, <2>2, SMTT(30) DEF Led, LeadsAt, StartsListed, IsStart, TablesLead
  <1> QED BY <1>1, <1>2, NextLeads, BegunAlways, TypeInvAlways, PTL DEF Spec
-----------------------------------------------------------------------------
\* The powers of two that the bytes are cut at.
LEMMA Powers ==
    /\ 2^7 = 128 /\ 2^15 = 32768 /\ 2^22 = 4194304 /\ 2^30 = 1073741824
  BY SMT

\* The five pieces of a time stamp, put together.
PiecesOf(v) ==
    (v % 128) + 128 * ((v \div 128) % 256) + 32768 * ((v \div 32768) % 128)
    + 4194304 * ((v \div 4194304) % 256) + 1073741824 * ((v \div 1073741824) % 8)

\* A number below 2^32 is the sum of its five pieces.
LEMMA Pieces ==
    ASSUME NEW v \in Nat, v < 4294967296
    PROVE  v = PiecesOf(v)
  <1>1. v = 128 * (v \div 128) + (v % 128) BY SMT
  <1>2. (v \div 128) = 256 * (v \div 32768) + ((v \div 128) % 256) BY SMT
  <1>3. (v \div 32768) = 128 * (v \div 4194304) + ((v \div 32768) % 128) BY SMT
  <1>4. (v \div 4194304) = 256 * (v \div 1073741824) + ((v \div 4194304) % 256) BY SMT
  <1>5. (v \div 1073741824) = ((v \div 1073741824) % 8) BY SMT
  <1> DEFINE a == v \div 128
             b == v \div 32768
             c == v \div 4194304
             d == v \div 1073741824
             x == v % 128
             y == (v \div 128) % 256
             z == (v \div 32768) % 128
             t == (v \div 4194304) % 256
             w == (v \div 1073741824) % 8
  <1>6. a \in Int /\ b \in Int /\ c \in Int /\ d \in Int
        /\ x \in Int /\ y \in Int /\ z \in Int /\ t \in Int /\ w \in Int
    BY SMT
  <1>7. v = 128 * a + x /\ a = 256 * b + y /\ b = 128 * c + z /\ c = 256 * d + t /\ d = w
    BY <1>1, <1>2, <1>3, <1>4, <1>5, SMT
  <1> HIDE DEF a, b, c, d, x, y, z, t, w
  <1>8. v = x + 128 * y + 32768 * z + 4194304 * t + 1073741824 * w
    BY <1>6, <1>7, SMT
  <1> QED BY <1>8, SMT DEF x, y, z, t, w, PiecesOf

\* The five bytes read back.
LEMMA PtsRead ==
    ASSUME NEW pts \in Nat, pts < 47721859
    PROVE  /\ Pts(PtsBytes(pts)) = 90 * pts
           /\ PtsBytes(pts)[1] % 2 = 1 /\ PtsBytes(pts)[3] % 2 = 1
           /\ PtsBytes(pts)[5] % 2 = 1
  <1> DEFINE v == pts * 90
             x == v % 128
             y == (v \div 128) % 256
             z == (v \div 32768) % 128
             t == (v \div 4194304) % 256
             w == (v \div 1073741824) % 8
  <1>1. v \in Nat /\ v < 4294967296 /\ v = 90 * pts BY SMT
  <1>2. PtsBytes(pts) = <<33 + 2 * w, t, 1 + 2 * z, y, 1 + 2 * x>>
    BY Powers, SMT DEF PtsBytes
  <1> HIDE DEF v
  <1>3. v = x + 128 * y + 32768 * z + 4194304 * t + 1073741824 * w
    <2> HIDE DEF x, y, z, t, w
    <2>1. v = PiecesOf(v) BY <1>1, Pieces, SMT
    <2> QED BY <2>1, SMT DEF x, y, z, t, w, PiecesOf
  <1>4. /\ x \in 0..127 /\ y \in 0..255 /\ z \in 0..127 /\ t \in 0..255 /\ w \in 0..7
    BY <1>1, SMT
  <1> HIDE DEF x, y, z, t, w
  <1> DEFINE s == <<33 + 2 * w, t, 1 + 2 * z, y, 1 + 2 * x>>
  <1>5. s[1] = 33 + 2 * w /\ s[2] = t /\ s[3] = 1 + 2 * z /\ s[4] = y /\ s[5] = 1 + 2 * x
    OBVIOUS
  <1> HIDE DEF s
  <1>6. ((s[5] \div 2) % 128) = x /\ ((s[3] \div 2) % 128) = z /\ ((s[1] \div 2) % 8) = w
    BY <1>4, <1>5, SMT
  <1>7. Pts(s) = x + y * 128 + z * 32768 + t * 4194304 + w * 1073741824
    BY <1>5, <1>6, Powers, SMT DEF Pts
  <1>8. Pts(s) = v BY <1>3, <1>4, <1>7, SMT
  <1>9. s[1] % 2 = 1 /\ s[3] % 2 = 1 /\ s[5] % 2 = 1 BY <1>4, <1>5, SMT
  <1> QED BY <1>1, <1>2, <1>8, <1>9, SMT DEF s

\* The first packet at segment j is the one of its frame.
StartOf(f, j, ps) ==
    LET n == Cardinality(StartsUpTo(f.segs, j))
    IN /\ n \in 1..Len(ps)
       /\ f.segs[j].of.pid = mTrackPid[ps[n].stream_idx]
       /\ f.segs[j].of.pts = PtsBytes(ps[n].pts)

\* The frames ps, and nothing else, have a first packet.
AllStart(f, ps) ==
    /\ Cardinality(StartsUpTo(f.segs, Len(f.segs))) = Len(ps)
    /\ \A j \in 1..Len(f.segs) : IsStart(f.segs[j]) => StartOf(f, j, ps)
TimesInv == AllStart(out, taken)

\* A packet that is not a frame's first leaves it so.
LEMMA OthersStart ==
    ASSUME NEW f \in File, NEW head \in Headers, NEW g, Packet(f, head, g),
           NEW ps, AllStart(f, ps), head.is # "start"
    PROVE  AllStart(g, ps)
  <1>1. /\ \A k \in 1..Len(f.segs) : g.segs[k] = f.segs[k]
        /\ g.segs[Len(f.segs) + 1].of = head
        /\ \A k \in 1..Len(g.segs) :
              k \in 1..Len(f.segs) \/ k = Len(f.segs) + 1 \/ ~IsStart(g.segs[k])
    BY PacketSegments
  <1>2. /\ \A j \in 1..Len(f.segs) : StartsUpTo(g.segs, j) = StartsUpTo(f.segs, j)
        /\ StartsUpTo(g.segs, Len(g.segs)) = StartsUpTo(f.segs, Len(f.segs))
    BY PacketStarts
  <1>3. ASSUME NEW j \in 1..Len(g.segs), IsStart(g.segs[j]) PROVE StartOf(g, j, ps)
    <2>1. j \in 1..Len(f.segs) BY <1>1, <1>3 DEF IsStart
    <2>2. StartOf(f, j, ps) BY <1>1, <1>3, <2>1 DEF AllStart
    <2> QED BY <1>1, <1>2, <2>1, <2>2 DEF StartOf
  <1> QED BY <1>2, <1>3 DEF AllStart

\* A frame's first packet is the last of them.
LEMMA FrameStarts ==
    ASSUME NEW f \in File, NEW head \in Headers, NEW g, Packet(f, head, g),
           taken \in Seq(Packets), AllStart(f, taken), NEW p \in Packets,
           head.is = "start", head.pid = mTrackPid[p.stream_idx], head.pts = PtsBytes(p.pts)
    PROVE  AllStart(g, Append(taken, p))
  <1> DEFINE m == Len(f.segs)
             S == StartsUpTo(f.segs, m)
             ps == Append(taken, p)
  <1>1. /\ \A k \in 1..m : g.segs[k] = f.segs[k]
        /\ g.segs[m + 1].of = head
        /\ \A k \in 1..Len(g.segs) : k \in 1..m \/ k = m + 1 \/ ~IsStart(g.segs[k])
    BY PacketSegments
  <1>2. /\ \A j \in 1..m : StartsUpTo(g.segs, j) = StartsUpTo(f.segs, j)
        /\ StartsUpTo(g.segs, m + 1) = S \cup {m + 1}
        /\ StartsUpTo(g.segs, Len(g.segs)) = S \cup {m + 1}
        /\ IsFiniteSet(S) /\ m + 1 \notin S
    BY PacketStarts, ZenonT(30)
  <1>3. /\ Len(ps) = Len(taken) + 1 /\ Len(taken) \in Nat
        /\ ps[Len(taken) + 1] = p
        /\ \A n \in 1..Len(taken) : ps[n] = taken[n]
    BY TakenGrows
  <1>4. Cardinality(S) = Len(taken) BY DEF AllStart
  <1> HIDE DEF m, S, ps
  <1>5. Cardinality(S \cup {m + 1}) = Len(taken) + 1
    BY <1>2, <1>4, FS_AddElement
  <1>6. ASSUME NEW j \in 1..Len(g.segs), IsStart(g.segs[j]) PROVE StartOf(g, j, ps)
    <2>1. CASE j \in 1..m
      <3>1. StartOf(f, j, taken) BY <1>1, <1>6, <2>1 DEF AllStart, m
      <3> DEFINE n == Cardinality(StartsUpTo(f.segs, j))
      <3>2. /\ n \in 1..Len(taken)
            /\ f.segs[j].of.pid = mTrackPid[taken[n].stream_idx]
            /\ f.segs[j].of.pts = PtsBytes(taken[n].pts)
        BY <3>1 DEF StartOf
      <3>3. Cardinality(StartsUpTo(g.segs, j)) = n BY <1>2, <2>1
      <3> HIDE DEF n
      <3>4. n \in 1..Len(ps) /\ ps[n] = taken[n] BY <1>3, <3>2
      <3> QED BY <1>1, <2>1, <3>2, <3>3, <3>4 DEF StartOf
    <2>2. CASE j = m + 1
      <3>1. Cardinality(StartsUpTo(g.segs, j)) = Len(taken) + 1 BY <1>2, <1>5, <2>2
      <3>2. Len(taken) + 1 \in 1..Len(ps) BY <1>3
      <3> QED BY <1>1, <1>3, <2>2, <3>1, <3>2 DEF StartOf
    <2> QED BY <1>1, <1>6, <2>1, <2>2
  <1>7. Cardinality(StartsUpTo(g.segs, Len(g.segs))) = Len(ps) BY <1>2, <1>3, <1>5
  <1>8. AllStart(g, ps) BY <1>6, <1>7 DEF AllStart
  <1> QED BY <1>8 DEF ps

\* Every operation leaves it so.
LEMMA NextTimes == TypeInv /\ Begun /\ TimesInv /\ [Next]_vars => TimesInv'
  <1> SUFFICES ASSUME TypeInv, Begun, TimesInv, [Next]_vars PROVE TimesInv' OBVIOUS
  <1>1. ASSUME mTrackPid' = mTrackPid, AllStart(out', taken') PROVE TimesInv'
    BY <1>1 DEF TimesInv, AllStart, StartOf
  <1>2. out \in File /\ taken \in Seq(Packets) /\ AllStart(out, taken)
    BY DEF TypeInv, TypeOK, TimesInv
  <1>3. CASE \E p \in Packets : WriteAccessUnit(p)
    <2>1. PICK p \in Packets : WriteAccessUnit(p) BY <1>3
    <2>2. /\ StartHeader(p) \in Headers /\ BaseFile(p) \in File
          /\ Packet(BaseFile(p), StartHeader(p), out')
      BY <2>1, StartsPacket DEF Headers
    <2>3. taken' = Append(taken, p) /\ mTrackPid' = mTrackPid
      BY <2>1 DEF WriteAccessUnit
    <2>4. AllStart(BaseFile(p), taken)
      <3>1. CASE p.stream_idx # 0 BY <1>2, <3>1 DEF BaseFile
      <3>2. CASE p.stream_idx = 0
        <4>1. /\ Pat \in Headers /\ Pmt \in Headers /\ WithPat \in File
              /\ Packet(out, Pat, WithPat) /\ Packet(WithPat, Pmt, WithTables(out))
          BY TablesArePackets DEF Headers
        <4>2. Pat.is # "start" /\ Pmt.is # "start" BY DEF Pat, Pmt
        <4>3. AllStart(WithPat, taken) BY <1>2, <4>1, <4>2, OthersStart
        <4>4. AllStart(WithTables(out), taken) BY <4>1, <4>2, <4>3, OthersStart
        <4> QED BY <3>2, <4>4 DEF BaseFile
      <3> QED BY <3>1, <3>2
    <2>5. /\ StartHeader(p).is = "start" /\ StartHeader(p).pid = mTrackPid[p.stream_idx]
          /\ StartHeader(p).pts = PtsBytes(p.pts)
      BY DEF StartHeader
    <2>6. AllStart(out', Append(taken, p)) BY <1>2, <2>2, <2>4, <2>5, FrameStarts
    <2> QED BY <1>1, <2>3, <2>6
  <1>4. CASE WriteFragment
    <2>1. FragmentHead \in Headers /\ Packet(out, FragmentHead, out')
      BY <1>4, FragmentsPacket DEF Headers
    <2>2. FragmentHead.is # "start" BY DEF FragmentHead
    <2>3. taken' = taken /\ mTrackPid' = mTrackPid BY <1>4 DEF WriteFragment
    <2>4. AllStart(out', taken) BY <1>2, <2>1, <2>2, OthersStart
    <2> QED BY <1>1, <2>3, <2>4
  <1>5. CASE WriteHeader
    <2>1. out' = out /\ taken' = taken /\ taken = <<>>
      BY <1>5 DEF WriteHeader, Begun
    <2>2. out.segs = <<>> BY <2>1 DEF Begun
    <2>3. Len(out.segs) = 0 BY <2>2
    <2> QED BY <1>2, <2>1, <2>3 DEF TimesInv, AllStart
  <1>6. CASE UNCHANGED <<out, taken, mTrackPid>> BY <1>1, <1>2, <1>6
  <1> QED
    BY <1>3, <1>4, <1>5, <1>6
    DEF Next, Open, SetStream, SetCacheMode, SetCacheSize, SetTrackInfo, WriteCSD, Setup,
        WriteCrashes, WriteTrailer, Close, muxVars, vars

\* Every frame taken, and nothing else, begins on the PID of its track and
\* carries its time, to all 32 bits and with the marker bits set; also in a
\* file that ends where the writer was stopped.
THEOREM TimesAlwaysReadBack == Spec => []TimesReadBack
  <1>1. Init => TimesInv
    <2> SUFFICES ASSUME Init PROVE TimesInv OBVIOUS
    <2>1. out.segs = <<>> /\ taken = <<>> BY DEF Init
    <2>2. Len(out.segs) = 0 /\ Len(taken) = 0 BY <2>1
    <2>3. 1..Len(out.segs) = {} BY <2>2
    <2>4. StartsUpTo(out.segs, Len(out.segs)) = {} BY <2>3 DEF StartsUpTo
    <2>5. Cardinality({}) = 0 BY FS_EmptySet
    <2> QED BY <2>2, <2>4, <2>5 DEF TimesInv, AllStart
  <1>2. TypeInv /\ TimesInv => TimesReadBack
    <2> SUFFICES ASSUME TypeInv, TimesInv PROVE TimesReadBack OBVIOUS
    <2>1. AllStart(out, taken) /\ taken \in Seq(Packets) BY DEF TimesInv, TypeInv, TypeOK
    <2> SUFFICES ASSUME NEW j \in StartsUpTo(out.segs, Len(out.segs))
                 PROVE  LET p == taken[Cardinality(StartsUpTo(out.segs, j))]
                            start == out.segs[j].of
                        IN /\ start.pid = mTrackPid[p.stream_idx]
                           /\ Pts(start.pts) = 90 * p.pts
                           /\ \A b \in {1, 3, 5} : start.pts[b] % 2 = 1
      BY <2>1 DEF TimesReadBack, AllStart
    <2>2. j \in 1..Len(out.segs) /\ IsStart(out.segs[j]) BY DEF StartsUpTo, IsStart
    <2>3. StartOf(out, j, taken) BY <2>1, <2>2 DEF AllStart
    <2> DEFINE n == Cardinality(StartsUpTo(out.segs, j))
    <2>4. /\ n \in 1..Len(taken)
          /\ out.segs[j].of.pid = mTrackPid[taken[n].stream_idx]
          /\ out.segs[j].of.pts = PtsBytes(taken[n].pts)
      BY <2>3 DEF StartOf
    <2> HIDE DEF n
    <2>5. taken[n] \in Packets BY <2>1, <2>4
    <2>6. taken[n].pts \in Nat /\ taken[n].pts < 47721859 BY <2>5, TsAssumption, SMT
    <2>7. /\ Pts(PtsBytes(taken[n].pts)) = 90 * taken[n].pts
          /\ \A b \in {1, 3, 5} : PtsBytes(taken[n].pts)[b] % 2 = 1
      <3> DEFINE z == taken[n].pts
      <3>1. z \in Nat /\ z < 47721859 BY <2>6, SMT
      <3> HIDE DEF z
      <3>2. Pts(PtsBytes(z)) = 90 * z BY <3>1, PtsRead, SMT
      <3>3. PtsBytes(z)[1] % 2 = 1 /\ PtsBytes(z)[3] % 2 = 1 /\ PtsBytes(z)[5] % 2 = 1
        BY <3>1, PtsRead, SMT
      <3> QED BY <3>2, <3>3 DEF z
    <2> QED BY <2>4, <2>7 DEF n
  <1> QED BY <1>1, <1>2, NextTimes, BegunAlways, TypeInvAlways, PTL DEF Spec
-----------------------------------------------------------------------------
\* What the first packet of p takes of the frame, for codec data of that length.
FirstFragment(p, csdLen) ==
    162 - IF p.stream_idx = 1 THEN ADTS_SZ ELSE NAL_AUD_SZ + IF p.flags THEN csdLen ELSE 0

\* The frames this writer can write: each fills its first packet together with
\* its prefix, which has room there; and when the two pieces do not lie side by
\* side, no packet ends exactly where the first piece does, because then the
\* address is in neither piece.
FramesFit ==
    \A p \in Packets : \A csdLen \in CsdLens \cup {0} :
        LET first == FirstFragment(p, csdLen)
        IN /\ first \in 0..(p.size0 + p.size1)
           /\ (p.size1 # 0 /\ p.data1 # p.size0) =>
                 ~(p.size0 >= first /\ (p.size0 - first) % 184 = 0)

\* The address and the bytes left of the frame in the loop agree.
InPlace(u) ==
    \/ InFirst(u) /\ u.left = u.p.size0 + u.p.size1 - u.ptr
    \/ /\ u.p.size1 # 0
       /\ u.p.data1 <= u.ptr /\ u.ptr < u.p.data1 + u.p.size1
       /\ u.left = u.p.data1 + u.p.size1 - u.ptr

\* A packet ended at this address of the first piece.
OnGrid(u, first) == InFirst(u) => u.ptr >= first /\ (u.ptr - first) % 184 = 0

LoopInv ==
    /\ FragmentsFit
    /\ unit # NoUnit =>
          InPlace(unit) /\ OnGrid(unit, FirstFragment(unit.p, drv.csdLen[0]))

\* Only one of the two pieces has the address.
LEMMA PiecesApart ==
    ASSUME NEW u \in UnitType, u.p.size1 # 0,
           u.p.data1 <= u.ptr, u.ptr < u.p.data1 + u.p.size1
    PROVE  ~InFirst(u)
  <1>1. /\ u.p \in Packets /\ u.ptr \in Int
        /\ u.p.size0 \in Nat \ {0} /\ u.p.size1 \in Nat /\ u.p.data1 \in Int
    BY UnitFacts
  <1>2. u.p.data1 >= u.p.size0 \/ u.p.data1 + u.p.size1 <= 0 BY <1>1, PacketFacts
  <1> QED BY <1>1, <1>2 DEF InFirst

\* A fragment that is not larger than what is left is written, and the frame is
\* in place behind it.
LEMMA FragmentInPlace ==
    ASSUME NEW f, NEW u \in UnitType, NEW ts \in 0..u.left, InPlace(u),
           (InFirst(u) /\ u.ptr + ts = u.p.size0) => u.p.size1 = 0 \/ u.p.data1 = u.p.size0,
           WriteAvTsPacket(f, u, ts)
    PROVE  /\ life' = life
           /\ u.left = ts => unit' = NoUnit
           /\ unit' # NoUnit =>
                 /\ InPlace(unit') /\ unit'.p = u.p
                 /\ InFirst(unit') => InFirst(u) /\ unit'.ptr = u.ptr + ts
  <1>1. /\ u.p \in Packets /\ u.left \in Nat \ {0} /\ u.ptr \in Int
        /\ u.p.size0 \in Nat \ {0} /\ u.p.size1 \in Nat /\ u.p.data1 \in Int
    BY UnitFacts
  <1>2. u.p.size1 # 0 => u.p.data1 >= u.p.size0 \/ u.p.data1 + u.p.size1 <= 0
    BY <1>1, PacketFacts
  <1>3. ts \in Int /\ ~(ts < 0) /\ ~(ts > u.left) BY <1>1
  <1>4. ~InFirst(u) => BlockLeft(u) = u.left BY <1>1 DEF InPlace, BlockLeft
  <1>5. InFirst(u) => BlockLeft(u) = u.p.size0 - u.ptr
                      /\ u.left = u.p.size0 + u.p.size1 - u.ptr
    <2>1. ASSUME InFirst(u), u.p.size1 # 0,
                 u.p.data1 <= u.ptr, u.ptr < u.p.data1 + u.p.size1
          PROVE  FALSE
      BY <2>1, PiecesApart
    <2> QED BY <2>1 DEF InPlace, BlockLeft
  <1>6. ASSUME NEW g, NEW a \in Int, Proceed(g, u, ts, a), u.left # ts,
               NEW v, v = [u EXCEPT !.left = u.left - ts, !.ptr = a],
               InPlace(v), InFirst(v) => InFirst(u) /\ a = u.ptr + ts
        PROVE  /\ life' = life
               /\ unit' # NoUnit =>
                     /\ InPlace(unit') /\ unit'.p = u.p
                     /\ InFirst(unit') => InFirst(u) /\ unit'.ptr = u.ptr + ts
    <2>1. unit' = v /\ life' = life BY <1>6 DEF Proceed
    <2>2. v.p = u.p /\ v.ptr = a BY <1>6 DEF UnitType
    <2> QED BY <1>6, <2>1, <2>2
  <1>7. ASSUME NEW g, NEW a \in Int, Proceed(g, u, ts, a), u.left = ts
        PROVE  life' = life /\ unit' = NoUnit
    BY <1>7 DEF Proceed
  <1>8. CASE FromOne(f, u, ts)
    <2> DEFINE g == WithFrame(f, u, u.ptr, ts)
               a == u.ptr + ts
               v == [u EXCEPT !.left = u.left - ts, !.ptr = a]
    <2>1. Proceed(g, u, ts, a) /\ ts <= BlockLeft(u) /\ a \in Int
      BY <1>1, <1>3, <1>8 DEF FromOne
    <2>2. CASE u.left = ts
      <3> HIDE DEF g, a
      <3> QED BY <1>7, <2>1, <2>2
    <2>3. CASE u.left # ts
      <3>1. v.p = u.p /\ v.ptr = a /\ v.left = u.left - ts BY DEF UnitType
      <3>2. v \in UnitType
        <4>1. u.left - ts \in Nat \ {0} BY <1>1, <2>3
        <4> QED BY <2>1, <4>1 DEF UnitType
      <3>3. a = u.ptr + ts OBVIOUS
      <3> HIDE DEF v, g, a
      <3>4. CASE InFirst(u)
        <4>1. 0 <= a /\ a <= u.p.size0 BY <1>1, <1>3, <1>5, <2>1, <3>3, <3>4 DEF InFirst
        <4>2. CASE a < u.p.size0
          <5>1. InFirst(v) BY <3>1, <4>1, <4>2 DEF InFirst
          <5>2. v.left = u.p.size0 + u.p.size1 - a
            BY <1>1, <1>3, <1>5, <3>1, <3>3, <3>4
          <5>3. InPlace(v) BY <3>1, <5>1, <5>2 DEF InPlace
          <5> QED BY <1>6, <2>1, <2>3, <3>3, <3>4, <5>3 DEF v
        <4>3. CASE a = u.p.size0
          <5>1. u.p.size1 = 0 \/ u.p.data1 = u.p.size0 BY <3>3, <3>4, <4>3
          <5>2. v.left = u.p.size1
            BY <1>1, <1>3, <1>5, <3>1, <3>3, <3>4, <4>3
          <5>3. u.p.size1 # 0 /\ u.p.data1 = u.p.size0
            BY <1>1, <2>3, <3>1, <5>1, <5>2, <3>2 DEF UnitType
          <5>4. ~InFirst(v) BY <1>1, <3>1, <4>3 DEF InFirst
          <5>5. InPlace(v) BY <1>1, <3>1, <4>3, <5>2, <5>3 DEF InPlace
          <5> QED BY <1>6, <2>1, <2>3, <5>4, <5>5 DEF v
        <4> QED BY <1>1, <2>1, <4>1, <4>2, <4>3
      <3>5. CASE ~InFirst(u)
        <4>1. /\ u.p.size1 # 0 /\ u.p.data1 <= u.ptr
              /\ u.left = u.p.data1 + u.p.size1 - u.ptr
          BY <3>5 DEF InPlace
        <4>2. /\ u.p.data1 <= a /\ a < u.p.data1 + u.p.size1
              /\ v.left = u.p.data1 + u.p.size1 - a
          BY <1>1, <1>3, <2>3, <3>1, <3>3, <4>1
        <4>3. InPlace(v) BY <3>1, <4>1, <4>2 DEF InPlace
        <4>4. ~InFirst(v) BY <3>1, <3>2, <4>1, <4>2, PiecesApart
        <4> QED BY <1>6, <2>1, <2>3, <4>3, <4>4 DEF v
      <3> QED BY <3>4, <3>5
    <2> QED BY <2>2, <2>3
  <1>9. CASE FromBoth(f, u, ts)
    <2> DEFINE b == BlockLeft(u)
               g == WithFrame(WithFrame(f, u, u.ptr, b), u, u.p.data1, ts - b)
               a == u.p.data1 + (ts - b)
               v == [u EXCEPT !.left = u.left - ts, !.ptr = a]
    <2>1. Proceed(g, u, ts, a) /\ ts > b /\ InFirst(u) BY <1>9 DEF FromBoth
    <2>2. b = u.p.size0 - u.ptr /\ u.left = u.p.size0 + u.p.size1 - u.ptr /\ b \in Int
      BY <1>1, <1>5, <2>1
    <2>3. a = u.p.data1 + (ts - b) OBVIOUS
    <2> HIDE DEF b
    <2>4. a \in Int BY <1>1, <1>3, <2>2
    <2>5. CASE u.left = ts
      <3> HIDE DEF g, a
      <3> QED BY <1>7, <2>1, <2>4, <2>5
    <2>6. CASE u.left # ts
      <3>1. v.p = u.p /\ v.ptr = a /\ v.left = u.left - ts BY DEF UnitType
      <3>2. v \in UnitType
        <4>1. u.left - ts \in Nat \ {0} BY <1>1, <2>6
        <4> QED BY <2>4, <4>1 DEF UnitType
      <3> HIDE DEF v, g, a
      <3>3. /\ u.p.size1 # 0 /\ u.p.data1 <= a /\ a < u.p.data1 + u.p.size1
            /\ v.left = u.p.data1 + u.p.size1 - a
        BY <1>1, <1>3, <2>1, <2>2, <2>3, <2>6, <3>1
      <3>4. InPlace(v) BY <3>1, <3>3 DEF InPlace
      <3>5. ~InFirst(v) BY <3>1, <3>2, <3>3, PiecesApart
      <3> QED BY <1>6, <2>1, <2>4, <2>6, <3>4, <3>5 DEF v
    <2> QED BY <2>5, <2>6
  <1>10. ~Overrun(f, u, ts) BY <1>3 DEF Overrun
  <1>11. ~Aborted(f, u, ts) BY <1>1, <1>3, <1>4 DEF Aborted
  <1> QED BY <1>3, <1>8, <1>9, <1>10, <1>11, WriteAvTsPacketCases

\* Every operation leaves the frame in place, when the frames fit.
LEMMA NextLoop == FramesFit /\ TypeInv /\ LoopInv /\ [Next]_vars => LoopInv'
  <1> SUFFICES ASSUME FramesFit, TypeInv, LoopInv, [Next]_vars PROVE LoopInv' OBVIOUS
  <1> DEFINE len == drv.csdLen[0]
  <1>1. len \in CsdLens \cup {0} /\ len \in Nat /\ drv.csdLen \in [Tracks -> CsdLens \cup {0}]
    <2>1. drv.csdLen \in [Tracks -> CsdLens \cup {0}] /\ 0 \in Tracks
      BY DEF TypeInv, TypeOK, Tracks
    <2>2. drv.csdLen[0] \in CsdLens \cup {0} BY <2>1
    <2>3. CsdLens \cup {0} \subseteq Nat BY ConstantFacts
    <2> QED BY <2>1, <2>2, <2>3
  <1>2. ASSUME NEW p \in Packets
        PROVE  /\ FirstFragment(p, len) \in 0..(p.size0 + p.size1)
               /\ (p.size1 # 0 /\ p.data1 # p.size0) =>
                     ~(p.size0 >= FirstFragment(p, len)
                       /\ (p.size0 - FirstFragment(p, len)) % 184 = 0)
    BY <1>1 DEF FramesFit
  <1>3. CASE \E p \in Packets : WriteAccessUnit(p)
    <2>1. PICK p \in Packets : WriteAccessUnit(p) BY <1>3
    <2>2. p.size0 \in Nat \ {0} /\ p.size1 \in Nat /\ p.data1 \in Int /\ p.stream_idx \in {0, 1}
      BY PacketFacts
    <2> DEFINE first == FirstFragment(p, len)
               u == [n |-> Len(taken) + 1, p |-> p, pid |-> mTrackPid[p.stream_idx],
                     left |-> p.size0 + p.size1, ptr |-> 0]
               f == WithPrefix(CacheWrite(BaseFile(p), StartHeader(p), 0, StartSize(p)), p)
               ts == TS_PACKAGE_SZ - StartSize(p) - PrefixSize(p)
    <2>3. first \in 0..(p.size0 + p.size1) /\ first = 162 - PrefixSize(p)
      BY <1>2 DEF FirstFragment, PrefixSize
    <2>4. ts = first
      <3>1. PrefixSize(p) \in Nat /\ StreamSize(p) = p.size0 + p.size1 + PrefixSize(p)
        BY <1>1, <2>2, SizeTypes DEF StreamSize, PrefixSize, ADTS_SZ, NAL_AUD_SZ
      <3>2. StreamSize(p) >= 162 BY <2>2, <2>3, <3>1
      <3>3. PaddingSize(p) = 0 BY <2>2, <3>1, <3>2 DEF PaddingSize, TS_PACKAGE_SZ
      <3>4. StartSize(p) = 26 BY <3>3 DEF StartSize
      <3> QED BY <2>3, <3>1, <3>4 DEF TS_PACKAGE_SZ
    <2>5. WriteAvTsPacket(f, u, ts) BY <2>1 DEF WriteAccessUnit, BaseFile
    <2>6. u \in UnitType
      <3>1. mTrackPid[p.stream_idx] \in Nat /\ Len(taken) \in Nat
        BY <2>2 DEF TypeInv, TypeOK, Tracks
      <3> QED BY <2>2, <3>1 DEF UnitType
    <2>7. InFirst(u) /\ InPlace(u) BY <2>2 DEF InFirst, InPlace
    <2>8. u.left = p.size0 + p.size1 /\ u.ptr = 0 /\ u.p = p OBVIOUS
    <2> HIDE DEF first, u, f, ts
    <2>9. ts \in 0..u.left BY <2>3, <2>4, <2>8
    <2>10. (InFirst(u) /\ u.ptr + ts = u.p.size0) => u.p.size1 = 0 \/ u.p.data1 = u.p.size0
      <3> SUFFICES ASSUME first = p.size0, p.size1 # 0, p.data1 # p.size0 PROVE FALSE
        BY <2>2, <2>3, <2>4, <2>8
      <3>1. p.size0 >= first /\ (p.size0 - first) % 184 = 0 BY <2>2
      <3> QED BY <1>2, <3>1 DEF first
    <2>11. /\ life' = life
           /\ unit' # NoUnit =>
                 /\ InPlace(unit') /\ unit'.p = u.p
                 /\ InFirst(unit') => InFirst(u) /\ unit'.ptr = u.ptr + ts
      BY <2>5, <2>6, <2>7, <2>9, <2>10, FragmentInPlace
    <2>12. unit' # NoUnit => OnGrid(unit', first)
      BY <2>3, <2>4, <2>8, <2>11 DEF OnGrid
    <2>13. drv' = drv BY <2>1 DEF WriteAccessUnit
    <2> QED BY <2>8, <2>11, <2>12, <2>13 DEF LoopInv, FragmentsFit, first
  <1>4. CASE WriteFragment
    <2>1. /\ unit \in UnitType /\ unit # NoUnit /\ drv' = drv
      BY <1>4 DEF WriteFragment, TypeInv
    <2>2. unit.p \in Packets /\ unit.left \in Nat \ {0} /\ unit.ptr \in Int
          /\ unit.p.size0 \in Nat /\ unit.p.size1 \in Nat /\ unit.p.data1 \in Int
      BY <2>1, UnitFacts
    <2> DEFINE first == FirstFragment(unit.p, len)
               stuffing == IF IsLast(unit.left) THEN StuffingSize(unit.left) ELSE 0
               ts == TS_PACKAGE_SZ - 4 - stuffing
               f == CacheWrite(out, FragmentHead, 0, 4 + stuffing)
    <2>3. WriteAvTsPacket(f, unit, ts) BY <1>4 DEF WriteFragment, FragmentHead
    <2>4. ts = (IF unit.left < 184 THEN unit.left ELSE 184)
      BY <2>2 DEF IsLast, StuffingSize, TS_PACKAGE_SZ
    <2>5. InPlace(unit) /\ OnGrid(unit, first) BY <2>1 DEF LoopInv
    <2>6. /\ first \in Int
          /\ (unit.p.size1 # 0 /\ unit.p.data1 # unit.p.size0) =>
                ~(unit.p.size0 >= first /\ (unit.p.size0 - first) % 184 = 0)
      BY <1>2, <2>2
    <2> HIDE DEF ts, f, first
    <2>7. ts \in 0..unit.left BY <2>2, <2>4
    <2>8. (InFirst(unit) /\ unit.ptr + ts = unit.p.size0) =>
              unit.p.size1 = 0 \/ unit.p.data1 = unit.p.size0
      <3> SUFFICES ASSUME InFirst(unit), unit.ptr + ts = unit.p.size0,
                          unit.p.size1 # 0, unit.p.data1 # unit.p.size0
                   PROVE  FALSE
        OBVIOUS
      <3>1. unit.left = unit.p.size0 + unit.p.size1 - unit.ptr
        BY <2>1, <2>5, PiecesApart DEF InPlace
      <3>2. ts = 184 BY <2>2, <2>4, <3>1
      <3>3. unit.ptr >= first /\ (unit.ptr - first) % 184 = 0 BY <2>5 DEF OnGrid
      <3>4. unit.p.size0 >= first /\ (unit.p.size0 - first) % 184 = 0
        BY <2>2, <2>6, <3>2, <3>3
      <3> QED BY <2>6, <3>4
    <2>9. /\ life' = life
          /\ unit.left = ts => unit' = NoUnit
          /\ unit' # NoUnit =>
                /\ InPlace(unit') /\ unit'.p = unit.p
                /\ InFirst(unit') => InFirst(unit) /\ unit'.ptr = unit.ptr + ts
      BY <2>1, <2>3, <2>5, <2>7, <2>8, FragmentInPlace
    <2>10. ASSUME unit' # NoUnit PROVE OnGrid(unit', first)
      <3>1. ts = 184 BY <2>2, <2>4, <2>9, <2>10
      <3> SUFFICES ASSUME InFirst(unit')
                   PROVE  unit'.ptr >= first /\ (unit'.ptr - first) % 184 = 0
        BY DEF OnGrid
      <3>2. InFirst(unit) /\ unit'.ptr = unit.ptr + 184 BY <2>9, <2>10, <3>1
      <3>3. unit.ptr >= first /\ (unit.ptr - first) % 184 = 0 BY <2>5, <3>2 DEF OnGrid
      <3> QED BY <2>2, <2>6, <3>2, <3>3
    <2> QED BY <2>1, <2>9, <2>10 DEF LoopInv, FragmentsFit, first
  <1>5. CASE UNCHANGED <<unit, drv>> /\ life' \notin {"overrun", "aborted"}
    BY <1>5 DEF LoopInv, FragmentsFit
  <1>6. CASE UNCHANGED unit /\ unit = NoUnit /\ life' \notin {"overrun", "aborted"}
    BY <1>6 DEF LoopInv, FragmentsFit
  <1>7. CASE UNCHANGED vars BY <1>7 DEF vars, LoopInv, FragmentsFit
  <1>8. CASE SetStream \/ SetCacheMode \/ SetCacheSize
             \/ (\E h264, audio \in BOOLEAN : SetTrackInfo(h264, audio))
             \/ (\E i \in Tracks, l \in CsdLens : WriteCSD(i, l))
    <2>1. life = "opened" /\ UNCHANGED <<life, muxVars>>
      BY <1>8 DEF SetStream, SetCacheMode, SetCacheSize, SetTrackInfo, WriteCSD, Setup
    <2>2. unit = NoUnit BY <2>1 DEF TypeInv
    <2> QED BY <1>6, <2>1, <2>2 DEF muxVars
  <1>9. CASE Open \/ WriteHeader \/ (\E p \in Packets : WriteCrashes(p))
             \/ WriteTrailer \/ Close
    BY <1>5, <1>9 DEF Open, WriteHeader, WriteCrashes, WriteTrailer, Close, muxVars
  <1> QED BY <1>3, <1>4, <1>7, <1>8, <1>9 DEF Next

\* Of frames that fit, no fragment is larger than what is left, none begins
\* beside the two pieces and none has a negative size, for every way to place
\* the pieces and every order of the frames: the assertions "this case can NOT
\* happen" hold.
THEOREM FragmentsAlwaysFit == FramesFit /\ Spec => []FragmentsFit
  <1> SUFFICES ASSUME FramesFit PROVE Spec => []FragmentsFit OBVIOUS
  <1>1. Init => LoopInv BY DEF Init, LoopInv, FragmentsFit
  <1>2. TypeInv /\ LoopInv /\ [Next]_vars => LoopInv' BY NextLoop
  <1>3. LoopInv => FragmentsFit BY DEF LoopInv
  <1> QED BY <1>1, <1>2, <1>3, TypeInvAlways, PTL DEF Spec
-----------------------------------------------------------------------------
\* The bytes of frames in the file.
FrameSize(p) == p.size0 + p.size1
IsFrame(s) == s.of.is = "frame"
NoFrame(f, a, b) == \A k \in a..b : ~IsFrame(f.segs[k])

\* Where a segment of a frame begins, and what comes next: the rest of the
\* frame, or the next frame.
Place(s) == [n |-> s.of.n, from |-> s.from]
FirstPlace == [n |-> 1, from |-> 0]
Follows(s, ps) ==
    IF s.from + s.len < FrameSize(ps[s.of.n])
    THEN [n |-> s.of.n, from |-> s.from + s.len]
    ELSE [n |-> s.of.n + 1, from |-> 0]

\* The frames ps are in the file whole, one after the other and each from its
\* first byte to its last, and the byte to come is next.
InOrder(f, ps, next) ==
    /\ \A j \in 1..Len(f.segs) : IsFrame(f.segs[j]) =>
          /\ f.segs[j].of.n \in 1..Len(ps) /\ f.segs[j].from \in Nat
          /\ f.segs[j].from + f.segs[j].len <= FrameSize(ps[f.segs[j].of.n])
    /\ \A j \in 1..Len(f.segs) :
          IsFrame(f.segs[j]) /\ NoFrame(f, 1, j - 1) => Place(f.segs[j]) = FirstPlace
    /\ \A i, j \in 1..Len(f.segs) :
          i < j /\ IsFrame(f.segs[i]) /\ IsFrame(f.segs[j]) /\ NoFrame(f, i + 1, j - 1) =>
              Place(f.segs[j]) = Follows(f.segs[i], ps)
    /\ \A i \in 1..Len(f.segs) :
          IsFrame(f.segs[i]) /\ NoFrame(f, i + 1, Len(f.segs)) => next = Follows(f.segs[i], ps)
    /\ NoFrame(f, 1, Len(f.segs)) => next = FirstPlace

\* Up to the byte the loop has reached.
Reached(u, ps) ==
    IF u = NoUnit THEN [n |-> Len(ps) + 1, from |-> 0]
    ELSE [n |-> u.n, from |-> FrameSize(u.p) - u.left]
FramesInOrder == InOrder(out, taken, Reached(unit, taken))

\* g is f with segments of other kinds behind it.
Quiet(f, g) ==
    /\ g \in File /\ Len(f.segs) <= Len(g.segs)
    /\ \A k \in 1..Len(f.segs) : g.segs[k] = f.segs[k]
    /\ \A k \in (Len(f.segs) + 1)..Len(g.segs) : ~IsFrame(g.segs[k])

\* The order is not disturbed by them.
LEMMA QuietOrder ==
    ASSUME NEW f \in File, NEW g, Quiet(f, g), NEW ps, NEW next, InOrder(f, ps, next)
    PROVE  InOrder(g, ps, next)
  <1> DEFINE m == Len(f.segs)
             l == Len(g.segs)
  <1>1. /\ m \in Nat /\ l \in Nat /\ m <= l
        /\ \A k \in 1..m : k \in 1..l /\ g.segs[k] = f.segs[k]
        /\ \A k \in 1..l : k \in 1..m \/ ~IsFrame(g.segs[k])
    <2>1. m \in Nat /\ l \in Nat /\ m <= l BY DEF Quiet, File
    <2>2. \A k \in 1..l : k \in 1..m \/ k \in (m + 1)..l BY <2>1
    <2> QED BY <2>1, <2>2 DEF Quiet
  <1> HIDE DEF m, l
  <1>2. ASSUME NEW a \in Nat, NEW b \in Int, a >= 1, b <= m, NoFrame(g, a, b)
        PROVE  NoFrame(f, a, b)
    <2>1. \A k \in a..b : k \in 1..m BY <1>1, <1>2
    <2> QED BY <1>1, <1>2, <2>1 DEF NoFrame
  <1>3. ASSUME NEW a \in Nat, a >= 1, NoFrame(g, a, l) PROVE NoFrame(f, a, m)
    <2>1. \A k \in a..m : k \in a..l /\ k \in 1..m BY <1>1, <1>3
    <2> QED BY <1>1, <1>3, <2>1 DEF NoFrame
  <1>4. \A j \in 1..l : IsFrame(g.segs[j]) => j \in 1..m /\ g.segs[j] = f.segs[j]
    BY <1>1
  <1>5. /\ \A j \in 1..m : IsFrame(f.segs[j]) =>
              /\ f.segs[j].of.n \in 1..Len(ps) /\ f.segs[j].from \in Nat
              /\ f.segs[j].from + f.segs[j].len <= FrameSize(ps[f.segs[j].of.n])
        /\ \A j \in 1..m :
              IsFrame(f.segs[j]) /\ NoFrame(f, 1, j - 1) => Place(f.segs[j]) = FirstPlace
        /\ \A i, j \in 1..m :
              i < j /\ IsFrame(f.segs[i]) /\ IsFrame(f.segs[j]) /\ NoFrame(f, i + 1, j - 1) =>
                  Place(f.segs[j]) = Follows(f.segs[i], ps)
        /\ \A i \in 1..m :
              IsFrame(f.segs[i]) /\ NoFrame(f, i + 1, m) => next = Follows(f.segs[i], ps)
        /\ NoFrame(f, 1, m) => next = FirstPlace
    BY DEF InOrder, m
  <1>6. ASSUME NEW j \in 1..l, IsFrame(g.segs[j])
        PROVE  /\ g.segs[j].of.n \in 1..Len(ps) /\ g.segs[j].from \in Nat
               /\ g.segs[j].from + g.segs[j].len <= FrameSize(ps[g.segs[j].of.n])
    BY <1>4, <1>5, <1>6
  <1>7. ASSUME NEW j \in 1..l, IsFrame(g.segs[j]), NoFrame(g, 1, j - 1)
        PROVE  Place(g.segs[j]) = FirstPlace
    <2>1. j \in 1..m /\ g.segs[j] = f.segs[j] BY <1>4, <1>7
    <2>2. j - 1 \in Int /\ j - 1 <= m BY <1>1, <2>1
    <2>3. NoFrame(f, 1, j - 1) BY <1>2, <1>7, <2>2
    <2> QED BY <1>5, <1>7, <2>1, <2>3
  <1>8. ASSUME NEW i \in 1..l, NEW j \in 1..l, i < j, IsFrame(g.segs[i]), IsFrame(g.segs[j]),
               NoFrame(g, i + 1, j - 1)
        PROVE  Place(g.segs[j]) = Follows(g.segs[i], ps)
    <2>1. /\ i \in 1..m /\ g.segs[i] = f.segs[i]
          /\ j \in 1..m /\ g.segs[j] = f.segs[j]
      BY <1>4, <1>8
    <2>2. j - 1 \in Int /\ j - 1 <= m /\ i + 1 \in Nat /\ i + 1 >= 1 BY <1>1, <2>1
    <2>3. NoFrame(f, i + 1, j - 1) BY <1>2, <1>8, <2>2
    <2> QED BY <1>5, <1>8, <2>1, <2>3
  <1>9. ASSUME NEW i \in 1..l, IsFrame(g.segs[i]), NoFrame(g, i + 1, l)
        PROVE  next = Follows(g.segs[i], ps)
    <2>1. i \in 1..m /\ g.segs[i] = f.segs[i] BY <1>4, <1>9
    <2>2. i + 1 \in Nat /\ i + 1 >= 1 BY <1>1, <2>1
    <2>3. NoFrame(f, i + 1, m) BY <1>3, <1>9, <2>2
    <2> QED BY <1>5, <1>9, <2>1, <2>3
  <1>10. ASSUME NoFrame(g, 1, l) PROVE next = FirstPlace
    <2>1. NoFrame(f, 1, m) BY <1>3, <1>10
    <2> QED BY <1>5, <2>1
  <1> QED BY <1>6, <1>7, <1>8, <1>9, <1>10 DEF InOrder, l

\* A segment of a frame that begins where the last one ended goes on with the
\* order.
LEMMA FrameOrder ==
    ASSUME NEW f \in File, NEW g \in File, NEW ps, NEW next, InOrder(f, ps, next),
           Len(g.segs) = Len(f.segs) + 1,
           \A k \in 1..Len(f.segs) : g.segs[k] = f.segs[k],
           NEW s, s = g.segs[Len(f.segs) + 1], IsFrame(s), Place(s) = next,
           s.of.n \in 1..Len(ps), s.from \in Nat,
           s.from + s.len <= FrameSize(ps[s.of.n])
    PROVE  InOrder(g, ps, Follows(s, ps))
  <1> DEFINE m == Len(f.segs)
  <1>1. /\ m \in Nat /\ Len(g.segs) = m + 1 /\ g.segs[m + 1] = s
        /\ \A k \in 1..m : g.segs[k] = f.segs[k]
        /\ \A k \in 1..(m + 1) : k \in 1..m \/ k = m + 1
    BY DEF File
  <1>2. /\ \A j \in 1..m : IsFrame(f.segs[j]) =>
              /\ f.segs[j].of.n \in 1..Len(ps) /\ f.segs[j].from \in Nat
              /\ f.segs[j].from + f.segs[j].len <= FrameSize(ps[f.segs[j].of.n])
        /\ \A j \in 1..m :
              IsFrame(f.segs[j]) /\ NoFrame(f, 1, j - 1) => Place(f.segs[j]) = FirstPlace
        /\ \A i, j \in 1..m :
              i < j /\ IsFrame(f.segs[i]) /\ IsFrame(f.segs[j]) /\ NoFrame(f, i + 1, j - 1) =>
                  Place(f.segs[j]) = Follows(f.segs[i], ps)
        /\ \A i \in 1..m :
              IsFrame(f.segs[i]) /\ NoFrame(f, i + 1, m) => next = Follows(f.segs[i], ps)
        /\ NoFrame(f, 1, m) => next = FirstPlace
    BY DEF InOrder
  <1> HIDE DEF m
  <1>3. ASSUME NEW a \in Nat, NEW b \in Int, a >= 1, b <= m, NoFrame(g, a, b)
        PROVE  NoFrame(f, a, b)
    <2>1. \A k \in a..b : k \in 1..m BY <1>1, <1>3
    <2> QED BY <1>1, <1>3, <2>1 DEF NoFrame
  <1>4. ASSUME NEW j \in 1..(m + 1), IsFrame(g.segs[j])
        PROVE  /\ g.segs[j].of.n \in 1..Len(ps) /\ g.segs[j].from \in Nat
               /\ g.segs[j].from + g.segs[j].len <= FrameSize(ps[g.segs[j].of.n])
    BY <1>1, <1>2, <1>4
  <1>5. ASSUME NEW j \in 1..(m + 1), IsFrame(g.segs[j]), NoFrame(g, 1, j - 1)
        PROVE  Place(g.segs[j]) = FirstPlace
    <2>1. j - 1 \in Int /\ j - 1 <= m BY <1>1
    <2>2. NoFrame(f, 1, j - 1) BY <1>3, <1>5, <2>1
    <2>3. CASE j \in 1..m BY <1>1, <1>2, <1>5, <2>2, <2>3
    <2>4. CASE j = m + 1
      <3>1. j - 1 = m BY <1>1, <2>4
      <3> QED BY <1>1, <1>2, <2>2, <2>4, <3>1
    <2> QED BY <1>1, <2>3, <2>4
  <1>6. ASSUME NEW i \in 1..(m + 1), NEW j \in 1..(m + 1), i < j,
               IsFrame(g.segs[i]), IsFrame(g.segs[j]), NoFrame(g, i + 1, j - 1)
        PROVE  Place(g.segs[j]) = Follows(g.segs[i], ps)
    <2>1. j - 1 \in Int /\ j - 1 <= m /\ i + 1 \in Nat /\ i + 1 >= 1 /\ i \in 1..m
      BY <1>1, <1>6
    <2>2. NoFrame(f, i + 1, j - 1) BY <1>3, <1>6, <2>1
    <2>3. CASE j \in 1..m BY <1>1, <1>2, <1>6, <2>1, <2>2, <2>3
    <2>4. CASE j = m + 1
      <3>1. j - 1 = m BY <1>1, <2>4
      <3> QED BY <1>1, <1>2, <1>6, <2>1, <2>2, <2>4, <3>1
    <2> QED BY <1>1, <2>3, <2>4
  <1>7. ASSUME NEW i \in 1..(m + 1), NoFrame(g, i + 1, m + 1)
        PROVE  i = m + 1
    <2> SUFFICES ASSUME i # m + 1 PROVE FALSE OBVIOUS
    <2>1. m + 1 \in (i + 1)..(m + 1) BY <1>1
    <2> QED BY <1>1, <1>7, <2>1 DEF NoFrame
  <1>8. ~NoFrame(g, 1, m + 1)
    <2>1. m + 1 \in 1..(m + 1) BY <1>1
    <2> QED BY <1>1, <2>1 DEF NoFrame
  <1> QED BY <1>1, <1>4, <1>5, <1>6, <1>7, <1>8 DEF InOrder

\* Nothing, and one thing after the other.
LEMMA QuietOn ==
    ASSUME NEW f \in File, NEW g, NEW h, Quiet(f, g), Quiet(g, h)
    PROVE  Quiet(f, h)
  <1>1. /\ Len(f.segs) \in Nat /\ Len(g.segs) \in Nat /\ Len(h.segs) \in Nat
        /\ Len(f.segs) <= Len(g.segs) /\ Len(g.segs) <= Len(h.segs)
        /\ h \in File
    BY DEF Quiet, File
  <1>2. \A k \in 1..Len(f.segs) : k \in 1..Len(g.segs) BY <1>1
  <1>3. ASSUME NEW k \in (Len(f.segs) + 1)..Len(h.segs) PROVE ~IsFrame(h.segs[k])
    <2>1. CASE k \in 1..Len(g.segs)
      <3>1. k \in (Len(f.segs) + 1)..Len(g.segs) BY <1>1, <2>1
      <3> QED BY <2>1, <3>1 DEF Quiet
    <2>2. CASE k \notin 1..Len(g.segs)
      <3>1. k \in (Len(g.segs) + 1)..Len(h.segs) BY <1>1, <2>2
      <3> QED BY <3>1 DEF Quiet
    <2> QED BY <2>1, <2>2
  <1>4. Len(f.segs) <= Len(h.segs) BY <1>1
  <1> QED BY <1>1, <1>2, <1>3, <1>4 DEF Quiet

\* A write of anything but a frame.
LEMMA QuietWrite ==
    ASSUME NEW f \in File, NEW of \in Headers \cup Contents, of.is # "frame", NEW len \in Nat
    PROVE  CacheWrite(f, of, 0, len) \in File /\ Quiet(f, CacheWrite(f, of, 0, len))
  <1> DEFINE g == CacheWrite(f, of, 0, len)
  <1>1. /\ g \in File
        /\ len = 0 => g = f
        /\ len # 0 => /\ Len(g.segs) = Len(f.segs) + 1
                      /\ g.segs[Len(f.segs) + 1] =
                            [at |-> f.size, of |-> of, from |-> 0, len |-> len]
        /\ \A k \in 1..Len(f.segs) : g.segs[k] = f.segs[k]
    <2>1. 0 \in Int OBVIOUS
    <2> QED BY <2>1, CacheWriteFacts
  <1> HIDE DEF g
  <1>2. Len(f.segs) \in Nat /\ Len(g.segs) \in Nat BY <1>1 DEF File
  <1>3. ASSUME NEW k \in (Len(f.segs) + 1)..Len(g.segs) PROVE ~IsFrame(g.segs[k])
    <2>1. len # 0 BY <1>1, <1>2
    <2>2. k = Len(f.segs) + 1 BY <1>1, <1>2, <2>1
    <2>3. g.segs[k].of = of BY <1>1, <2>1, <2>2
    <2> QED BY <2>3 DEF IsFrame
  <1>4. Len(f.segs) <= Len(g.segs) BY <1>1, <1>2
  <1> QED BY <1>1, <1>3, <1>4 DEF Quiet, g

\* What is written before a frame.
LEMMA PrefixQuiet ==
    ASSUME TypeInv, NEW p \in Packets
    PROVE  LET f == WithPrefix(CacheWrite(BaseFile(p), StartHeader(p), 0, StartSize(p)), p)
           IN f \in File /\ Quiet(out, f)
  <1> DEFINE f0 == BaseFile(p)
             f1 == CacheWrite(f0, StartHeader(p), 0, StartSize(p))
             f2 == WithPrefix(f1, p)
  <1>1. drv.csdLen \in [Tracks -> CsdLens \cup {0}] /\ out \in File
    BY DEF TypeInv, TypeOK
  <1>2. /\ StartSize(p) \in Nat /\ drv.csdLen[0] \in Nat /\ StreamSize(p) \in Nat
        /\ PesLength(p) \in Nat /\ PaddingSize(p) \in Nat
    BY <1>1, SizeTypes
  <1>3. f0 \in File /\ Quiet(out, f0)
    <2>1. CASE p.stream_idx # 0
      <3>1. f0 = out /\ Len(out.segs) \in Nat BY <1>1, <2>1 DEF BaseFile, File
      <3> HIDE DEF f0
      <3> QED BY <1>1, <3>1 DEF Quiet
    <2>2. CASE p.stream_idx = 0
      <3>1. Pat \in Headers /\ Pmt \in Headers BY TablesArePackets DEF Headers
      <3>2. Pat.is # "frame" /\ Pmt.is # "frame" BY DEF Pat, Pmt
      <3>3. WithPat = CacheWrite(out, Pat, 0, 188) BY DEF WithPat, TS_PACKAGE_SZ
      <3>4. f0 = CacheWrite(WithPat, Pmt, 0, 188)
        BY <2>2 DEF BaseFile, WithTables, Pat, Pmt, WithPat, TS_PACKAGE_SZ
      <3> HIDE DEF f0
      <3>5. WithPat \in File /\ Quiet(out, WithPat) BY <1>1, <3>1, <3>2, <3>3, QuietWrite
      <3>6. f0 \in File /\ Quiet(WithPat, f0) BY <3>1, <3>2, <3>4, <3>5, QuietWrite
      <3> QED BY <1>1, <3>5, <3>6, QuietOn
    <2> QED BY <2>1, <2>2
  <1> HIDE DEF f0
  <1>4. f1 \in File /\ Quiet(f0, f1)
    <2>1. mTrackPid[p.stream_idx] \in Nat /\ mTSContinuityCounter[p.stream_idx] \in Nat
      BY PacketFacts, ConstantFacts DEF TypeInv, TypeOK, Tracks
    <2>2. StartHeader(p) \in Starts BY <1>2, <2>1 DEF StartHeader, Starts
    <2>3. StartHeader(p) \in Headers BY <2>2 DEF Headers
    <2>4. StartHeader(p).is # "frame" BY DEF StartHeader
    <2> QED BY <1>2, <1>3, <2>3, <2>4, QuietWrite
  <1> HIDE DEF f1
  <1>5. f2 \in File /\ Quiet(f1, f2)
    <2>1. CASE p.stream_idx = 1
      <3> DEFINE of == [is |-> "adts", frame_length |-> StreamSize(p)]
      <3>1. of \in Contents /\ of.is # "frame" BY <1>2 DEF Contents
      <3>2. f2 = CacheWrite(f1, of, 0, 7) BY <2>1 DEF WithPrefix, ADTS_SZ
      <3> HIDE DEF of, f2
      <3> QED BY <1>4, <3>1, <3>2, QuietWrite
    <2>2. CASE p.stream_idx # 1
      <3> DEFINE aud == [is |-> "aud"]
                 csd == [is |-> "csd"]
                 g == CacheWrite(f1, aud, 0, 6)
                 h == CacheWrite(g, csd, 0, drv.csdLen[0])
      <3>1. aud \in Contents /\ csd \in Contents /\ aud.is # "frame" /\ csd.is # "frame"
        BY DEF Contents
      <3>2. f2 = IF p.flags THEN h ELSE g BY <2>2 DEF WithPrefix, NAL_AUD_SZ
      <3> HIDE DEF aud, csd, f2
      <3>3. g \in File /\ Quiet(f1, g) BY <1>4, <3>1, QuietWrite
      <3> HIDE DEF g
      <3>4. h \in File /\ Quiet(g, h) BY <1>2, <3>1, <3>3, QuietWrite
      <3> HIDE DEF h
      <3>5. Quiet(f1, h) BY <1>4, <3>3, <3>4, QuietOn
      <3> QED BY <3>2, <3>3, <3>4, <3>5
    <2> QED BY <2>1, <2>2
  <1> HIDE DEF f2
  <1>6. Quiet(out, f2) BY <1>1, <1>3, <1>4, <1>5, QuietOn
  <1> QED BY <1>5, <1>6 DEF f0, f1, f2
-----------------------------------------------------------------------------
\* What comes after that many bytes of frame n.
NextPlace(n, p, done) ==
    IF done < FrameSize(p) THEN [n |-> n, from |-> done] ELSE [n |-> n + 1, from |-> 0]

\* A piece of a frame, from the byte that comes next.
LEMMA WithFrameOrder ==
    ASSUME NEW f \in File, NEW u \in UnitType, NEW a \in Int, NEW len \in Nat,
           NEW ps, u.n \in 1..Len(ps), ps[u.n] = u.p,
           NEW done \in Nat, done = FrameByte(u.p, a), done < FrameSize(u.p),
           done + len <= FrameSize(u.p), InOrder(f, ps, NextPlace(u.n, u.p, done))
    PROVE  /\ WithFrame(f, u, a, len) \in File
           /\ InOrder(WithFrame(f, u, a, len), ps, NextPlace(u.n, u.p, done + len))
  <1> DEFINE of == [is |-> "frame", n |-> u.n]
             g == CacheWrite(f, of, done, len)
             s == [at |-> f.size, of |-> of, from |-> done, len |-> len]
  <1>1. of \in Headers \cup Contents
    <2>1. u.n \in Nat BY UnitFacts
    <2> QED BY <2>1 DEF Contents
  <1>2. WithFrame(f, u, a, len) = g BY DEF WithFrame
  <1>3. /\ s.of.is = "frame" /\ s.of.n = u.n /\ s.from = done /\ s.len = len
    OBVIOUS
  <1>4. /\ g \in File
        /\ len = 0 => g = f
        /\ len # 0 => /\ Len(g.segs) = Len(f.segs) + 1
                      /\ g.segs[Len(f.segs) + 1] = s
        /\ \A k \in 1..Len(f.segs) : g.segs[k] = f.segs[k]
    <2>1. ASSUME NEW c \in Headers \cup Contents, NEW from \in Int
          PROVE  LET h == CacheWrite(f, c, from, len)
                 IN /\ h \in File
                    /\ len = 0 => h = f
                    /\ len # 0 => /\ Len(h.segs) = Len(f.segs) + 1
                                  /\ h.segs[Len(f.segs) + 1] =
                                        [at |-> f.size, of |-> c, from |-> from, len |-> len]
                    /\ \A k \in 1..Len(f.segs) : h.segs[k] = f.segs[k]
      BY CacheWriteFacts, SMTT(30)
    <2>2. done \in Int OBVIOUS
    <2> HIDE DEF of
    <2> QED BY <1>1, <2>1, <2>2
  <1> HIDE DEF of, g, s
  <1>5. CASE len = 0 BY <1>2, <1>4, <1>5
  <1>6. CASE len # 0
    <2>1. Place(s) = NextPlace(u.n, u.p, done) BY <1>3 DEF Place, NextPlace
    <2>2. Follows(s, ps) = NextPlace(u.n, u.p, done + len)
      BY <1>3 DEF Follows, NextPlace
    <2>3. IsFrame(s) BY <1>3 DEF IsFrame
    <2>4. s = g.segs[Len(f.segs) + 1] /\ Len(g.segs) = Len(f.segs) + 1 BY <1>4, <1>6
    <2>5. /\ s.of.n \in 1..Len(ps) /\ s.from \in Nat
          /\ s.from + s.len <= FrameSize(ps[s.of.n])
      BY <1>3
    <2>6. InOrder(g, ps, Follows(s, ps)) BY <1>4, <2>1, <2>3, <2>4, <2>5, FrameOrder
    <2> QED BY <1>2, <1>4, <2>2, <2>6
  <1> QED BY <1>5, <1>6

\* What write_av_ts_packet leaves in the loop.
Leaves(u, ts) ==
    /\ u.left = ts => unit' = NoUnit
    /\ u.left # ts => /\ unit' # NoUnit /\ unit'.left = u.left - ts
                      /\ unit'.n = u.n /\ unit'.p = u.p

\* A fragment is the next bytes of the frame, from one piece of memory or from
\* both.
LEMMA FragmentBytes ==
    ASSUME NEW f \in File, NEW u \in UnitType, NEW ts \in 0..u.left, InPlace(u),
           WriteAvTsPacket(f, u, ts), NEW done, done = FrameSize(u.p) - u.left
    PROVE  /\ done \in Nat /\ done < FrameSize(u.p) /\ FrameSize(u.p) \in Nat
           /\ done + ts <= FrameSize(u.p)
           /\ FrameByte(u.p, u.ptr) = done /\ u.ptr \in Int
           /\ \/ out' = WithFrame(f, u, u.ptr, ts)
              \/ \E b \in Nat :
                    /\ ts - b \in Nat /\ done + b < FrameSize(u.p)
                    /\ FrameByte(u.p, u.p.data1) = done + b /\ u.p.data1 \in Int
                    /\ out' = WithFrame(WithFrame(f, u, u.ptr, b), u, u.p.data1, ts - b)
           /\ Leaves(u, ts)
  <1>1. /\ u.p \in Packets /\ u.left \in Nat \ {0} /\ u.ptr \in Int /\ u # NoUnit
        /\ u.p.size0 \in Nat \ {0} /\ u.p.size1 \in Nat /\ u.p.data1 \in Int
        /\ u.n \in Nat \ {0}
    BY UnitFacts
  <1>2. u.p.size1 # 0 => u.p.data1 >= u.p.size0 \/ u.p.data1 + u.p.size1 <= 0
    BY <1>1, PacketFacts
  <1>3. ts \in Nat /\ ts <= u.left /\ ~(ts < 0) /\ ~(ts > u.left) BY <1>1
  <1>4. ~InFirst(u) => BlockLeft(u) = u.left BY <1>1 DEF InPlace, BlockLeft
  <1>5. InFirst(u) => BlockLeft(u) = u.p.size0 - u.ptr
                      /\ u.left = u.p.size0 + u.p.size1 - u.ptr
    <2>1. ASSUME InFirst(u), u.p.size1 # 0,
                 u.p.data1 <= u.ptr, u.ptr < u.p.data1 + u.p.size1
          PROVE  FALSE
      BY <2>1, PiecesApart
    <2> QED BY <2>1 DEF InPlace, BlockLeft
  <1>6. FrameByte(u.p, u.ptr) = done
    <2>1. CASE InFirst(u)
      <3>1. FrameByte(u.p, u.ptr) = u.ptr BY <2>1 DEF FrameByte, InFirst
      <3> QED BY <1>1, <1>5, <2>1, <3>1 DEF FrameSize
    <2>2. CASE ~InFirst(u)
      <3>1. /\ u.p.data1 <= u.ptr /\ u.ptr < u.p.data1 + u.p.size1
            /\ u.left = u.p.data1 + u.p.size1 - u.ptr
        BY <2>2 DEF InPlace
      <3>2. FrameByte(u.p, u.ptr) = u.p.size0 + u.ptr - u.p.data1
        BY <2>2, <3>1 DEF FrameByte, InFirst
      <3> QED BY <1>1, <3>1, <3>2, SMTT(30) DEF FrameSize
    <2> QED BY <2>1, <2>2
  <1>7. done \in Nat /\ done < FrameSize(u.p) /\ FrameSize(u.p) \in Nat
        /\ u.left = FrameSize(u.p) - done /\ done + ts <= FrameSize(u.p)
    <2>1. FrameSize(u.p) \in Nat /\ done \in Int BY <1>1, SMTT(30) DEF FrameSize
    <2>2. done >= 0
      <3>1. CASE InFirst(u) BY <1>1, <1>5, <3>1 DEF FrameSize, InFirst
      <3>2. CASE ~InFirst(u) BY <1>1, <3>2, SMTT(30) DEF FrameSize, InPlace
      <3> QED BY <3>1, <3>2
    <2> QED BY <1>1, <1>3, <2>1, <2>2
  <1>8. ASSUME NEW g, NEW a \in Int, Proceed(g, u, ts, a) PROVE out' = g /\ Leaves(u, ts)
    <2>1. out' = g BY <1>8 DEF Proceed
    <2>2. CASE u.left = ts BY <1>8, <2>1, <2>2 DEF Proceed, Leaves
    <2>3. CASE u.left # ts
      <3>1. unit' = [u EXCEPT !.left = u.left - ts, !.ptr = a]
        BY <1>8, <2>3 DEF Proceed
      <3>2. u.left - ts \in Nat \ {0} BY <1>1, <1>3, <2>3
      <3>3. /\ unit' \in UnitType /\ unit'.left = u.left - ts /\ unit'.n = u.n
            /\ unit'.p = u.p
        BY <1>8, <3>1, <3>2 DEF UnitType
      <3>4. unit' # NoUnit
        <4>1. DOMAIN NoUnit = {"n"} BY DEF NoUnit
        <4>2. "left" \in DOMAIN unit' BY <3>3 DEF UnitType
        <4> QED BY <4>1, <4>2
      <3> QED BY <2>1, <2>3, <3>3, <3>4 DEF Leaves
    <2> QED BY <2>2, <2>3
  <1>9. CASE FromOne(f, u, ts)
    <2> DEFINE g == WithFrame(f, u, u.ptr, ts)
    <2>1. Proceed(g, u, ts, u.ptr + ts) /\ u.ptr + ts \in Int
      BY <1>1, <1>3, <1>9 DEF FromOne
    <2> HIDE DEF g
    <2>2. out' = g /\ Leaves(u, ts) BY <1>8, <2>1
    <2> QED BY <1>1, <1>6, <1>7, <2>2 DEF g
  <1>10. CASE FromBoth(f, u, ts)
    <2> DEFINE b == BlockLeft(u)
               g == WithFrame(WithFrame(f, u, u.ptr, b), u, u.p.data1, ts - b)
               a == u.p.data1 + (ts - b)
    <2>1. Proceed(g, u, ts, a) /\ ts > b /\ InFirst(u) BY <1>10 DEF FromBoth
    <2>2. /\ b = u.p.size0 - u.ptr /\ u.left = u.p.size0 + u.p.size1 - u.ptr
          /\ b \in Int
      BY <1>1, <1>5, <2>1
    <2> HIDE DEF b
    <2>3. b \in Nat /\ ts - b \in Nat /\ ts - b > 0 /\ a \in Int
      <3>1. 0 <= u.ptr /\ u.ptr < u.p.size0 BY <2>1 DEF InFirst
      <3>2. b \in Nat BY <1>1, <2>2, <3>1
      <3>3. ts > b BY <2>1
      <3>4. ts - b \in Nat /\ ts - b > 0 BY <1>3, <3>2, <3>3
      <3> QED BY <1>1, <3>2, <3>4
    <2>4. u.p.size1 # 0 /\ done + b = u.p.size0 /\ done + b < FrameSize(u.p)
      <3>1. FrameSize(u.p) = u.p.size0 + u.p.size1 BY DEF FrameSize
      <3>2. done = u.ptr
        <4>1. u.left = FrameSize(u.p) - u.ptr BY <1>1, <2>2, <3>1
        <4>2. u.left = FrameSize(u.p) - done /\ done \in Int /\ FrameSize(u.p) \in Int
          BY <1>7
        <4>3. u.ptr \in Int BY <1>1
        <4> QED BY <4>1, <4>2, <4>3
      <3>3. done + b = u.p.size0 BY <1>1, <2>2, <3>2
      <3>4. ts > b BY <2>1
      <3>5. u.p.size1 # 0 BY <1>1, <1>3, <2>2, <3>4
      <3> QED BY <1>1, <3>1, <3>3, <3>5
    <2>5. FrameByte(u.p, u.p.data1) = done + b
      <3>1. ~(0 <= u.p.data1 /\ u.p.data1 < u.p.size0) BY <1>1, <1>2, <2>4
      <3>2. u.p.data1 <= u.p.data1 /\ u.p.data1 < u.p.data1 + u.p.size1 BY <1>1, <2>4
      <3>3. FrameByte(u.p, u.p.data1) = u.p.size0 + u.p.data1 - u.p.data1
        BY <3>1, <3>2 DEF FrameByte
      <3> QED BY <1>1, <2>4, <3>3
    <2> HIDE DEF a, g
    <2>6. out' = g /\ Leaves(u, ts) BY <1>8, <2>1, <2>3
    <2> QED BY <1>1, <1>6, <1>7, <2>3, <2>4, <2>5, <2>6 DEF g
  <1>11. ~Overrun(f, u, ts) BY <1>3 DEF Overrun
  <1>12. ~Aborted(f, u, ts) BY <1>1, <1>3, <1>4 DEF Aborted
  <1>13. ts \in Int /\ (ts < 0 => InFirst(u)) BY <1>3
  <1> QED BY <1>9, <1>10, <1>11, <1>12, <1>13, WriteAvTsPacketCases

\* A fragment leaves the frames in order.
LEMMA FragmentOrder ==
    ASSUME NEW f \in File, NEW u \in UnitType, NEW ts \in 0..u.left, InPlace(u),
           NEW ps, u.n = Len(ps), ps[u.n] = u.p,
           InOrder(f, ps, Reached(u, ps)), WriteAvTsPacket(f, u, ts)
    PROVE  InOrder(out', ps, Reached(unit', ps))
  <1>1. PICK done : done = FrameSize(u.p) - u.left OBVIOUS
  <1>2. /\ done \in Nat /\ done < FrameSize(u.p) /\ FrameSize(u.p) \in Nat
        /\ done + ts <= FrameSize(u.p)
        /\ FrameByte(u.p, u.ptr) = done /\ u.ptr \in Int
        /\ \/ out' = WithFrame(f, u, u.ptr, ts)
           \/ \E b \in Nat :
                 /\ ts - b \in Nat /\ done + b < FrameSize(u.p)
                 /\ FrameByte(u.p, u.p.data1) = done + b /\ u.p.data1 \in Int
                 /\ out' = WithFrame(WithFrame(f, u, u.ptr, b), u, u.p.data1, ts - b)
        /\ Leaves(u, ts)
    BY <1>1, FragmentBytes
  <1>3. u # NoUnit /\ u.n \in Nat \ {0} /\ u.left \in Nat \ {0} BY UnitFacts
  <1>4. ts \in Nat /\ u.n \in 1..Len(ps) BY <1>3
  <1>5. InOrder(f, ps, NextPlace(u.n, u.p, done))
    <2>1. Reached(u, ps) = NextPlace(u.n, u.p, done)
      BY <1>1, <1>2, <1>3 DEF Reached, NextPlace
    <2> QED BY <2>1
  <1>6. InOrder(out', ps, NextPlace(u.n, u.p, done + ts))
    <2>1. CASE out' = WithFrame(f, u, u.ptr, ts)
      BY <1>2, <1>4, <1>5, <2>1, WithFrameOrder
    <2>2. ASSUME NEW b \in Nat, ts - b \in Nat, done + b < FrameSize(u.p),
                 FrameByte(u.p, u.p.data1) = done + b, u.p.data1 \in Int,
                 out' = WithFrame(WithFrame(f, u, u.ptr, b), u, u.p.data1, ts - b)
          PROVE  InOrder(out', ps, NextPlace(u.n, u.p, done + ts))
      <3> DEFINE f1 == WithFrame(f, u, u.ptr, b)
      <3>1. done + b \in Nat /\ done + b <= FrameSize(u.p)
            /\ (done + b) + (ts - b) = done + ts
        BY <1>2, <1>4, <2>2
      <3>2. f1 \in File /\ InOrder(f1, ps, NextPlace(u.n, u.p, done + b))
        BY <1>2, <1>4, <1>5, <3>1, WithFrameOrder
      <3> HIDE DEF f1
      <3>3. out' = WithFrame(f1, u, u.p.data1, ts - b) BY <2>2 DEF f1
      <3>4. InOrder(WithFrame(f1, u, u.p.data1, ts - b), ps,
                    NextPlace(u.n, u.p, (done + b) + (ts - b)))
        BY <1>2, <1>4, <2>2, <3>1, <3>2, WithFrameOrder
      <3> QED BY <3>1, <3>3, <3>4
    <2> QED BY <1>2, <2>1, <2>2
  <1>7. CASE u.left = ts
    <2>1. unit' = NoUnit BY <1>2, <1>7 DEF Leaves
    <2>2. NextPlace(u.n, u.p, done + ts) = [n |-> Len(ps) + 1, from |-> 0]
      BY <1>1, <1>2, <1>3, <1>7 DEF NextPlace
    <2> QED BY <1>6, <2>1, <2>2 DEF Reached
  <1>8. CASE u.left # ts
    <2>1. unit' # NoUnit /\ unit'.left = u.left - ts /\ unit'.n = u.n /\ unit'.p = u.p
      BY <1>2, <1>8 DEF Leaves
    <2>2. done + ts < FrameSize(u.p) /\ done + ts = FrameSize(u.p) - (u.left - ts)
      BY <1>1, <1>2, <1>3, <1>4, <1>8, SMTT(30)
    <2>3. NextPlace(u.n, u.p, done + ts)
            = [n |-> u.n, from |-> FrameSize(u.p) - (u.left - ts)]
      BY <2>2 DEF NextPlace
    <2> QED BY <1>6, <2>1, <2>3 DEF Reached
  <1> QED BY <1>7, <1>8

\* The order does not depend on frames taken later.
LEMMA OrderLater ==
    ASSUME taken \in Seq(Packets), NEW p \in Packets, NEW f, NEW next,
           InOrder(f, taken, next)
    PROVE  InOrder(f, Append(taken, p), next)
  <1> DEFINE ps == Append(taken, p)
  <1>1. /\ Len(ps) = Len(taken) + 1 /\ Len(taken) \in Nat
        /\ \A n \in 1..Len(taken) : ps[n] = taken[n]
    BY TakenGrows
  <1> HIDE DEF ps
  <1>2. ASSUME NEW n \in 1..Len(taken) PROVE n \in 1..Len(ps) /\ ps[n] = taken[n]
    BY <1>1
  <1>3. ASSUME NEW j \in 1..Len(f.segs), IsFrame(f.segs[j])
        PROVE  /\ f.segs[j].of.n \in 1..Len(ps) /\ f.segs[j].from \in Nat
               /\ f.segs[j].from + f.segs[j].len <= FrameSize(ps[f.segs[j].of.n])
               /\ Follows(f.segs[j], ps) = Follows(f.segs[j], taken)
    <2>1. /\ f.segs[j].of.n \in 1..Len(taken) /\ f.segs[j].from \in Nat
          /\ f.segs[j].from + f.segs[j].len <= FrameSize(taken[f.segs[j].of.n])
      BY <1>3 DEF InOrder
    <2>2. f.segs[j].of.n \in 1..Len(ps) /\ ps[f.segs[j].of.n] = taken[f.segs[j].of.n]
      BY <1>2, <2>1
    <2> QED BY <2>1, <2>2 DEF Follows
  <1>4. InOrder(f, ps, next) BY <1>3 DEF InOrder
  <1> QED BY <1>4 DEF ps

\* Every operation keeps the order, when the frames fit.
LEMMA NextOrder ==
    FramesFit /\ TypeInv /\ Begun /\ LoopInv /\ FramesInOrder /\ [Next]_vars => FramesInOrder'
  <1> SUFFICES ASSUME FramesFit, TypeInv, Begun, LoopInv, FramesInOrder, [Next]_vars
               PROVE  FramesInOrder'
    OBVIOUS
  <1>1. out \in File /\ taken \in Seq(Packets) /\ InOrder(out, taken, Reached(unit, taken))
    BY DEF TypeInv, TypeOK, FramesInOrder
  <1>2. ASSUME InOrder(out', taken', Reached(unit', taken')) PROVE FramesInOrder'
    BY <1>2 DEF FramesInOrder
  <1>3. CASE \E p \in Packets : WriteAccessUnit(p)
    <2>1. PICK p \in Packets : WriteAccessUnit(p) BY <1>3
    <2>2. /\ p.size0 \in Nat \ {0} /\ p.size1 \in Nat /\ p.data1 \in Int
          /\ p.stream_idx \in {0, 1}
      BY PacketFacts
    <2> DEFINE u == [n |-> Len(taken) + 1, p |-> p, pid |-> mTrackPid[p.stream_idx],
                     left |-> p.size0 + p.size1, ptr |-> 0]
               f == WithPrefix(CacheWrite(BaseFile(p), StartHeader(p), 0, StartSize(p)), p)
               ts == TS_PACKAGE_SZ - StartSize(p) - PrefixSize(p)
               ps == Append(taken, p)
    <2>3. WriteAvTsPacket(f, u, ts) BY <2>1 DEF WriteAccessUnit, BaseFile
    <2>4. taken' = ps /\ unit = NoUnit BY <2>1 DEF WriteAccessUnit
    <2>5. u \in UnitType
      <3>1. mTrackPid[p.stream_idx] \in Nat /\ Len(taken) \in Nat
        BY <2>2 DEF TypeInv, TypeOK, Tracks
      <3> QED BY <2>2, <3>1 DEF UnitType
    <2>6. InFirst(u) /\ InPlace(u) BY <2>2 DEF InFirst, InPlace
    <2>7. /\ u.left = p.size0 + p.size1 /\ u.ptr = 0 /\ u.p = p /\ u.n = Len(taken) + 1
      OBVIOUS
    <2>8. f \in File /\ Quiet(out, f) BY PrefixQuiet
    <2>9. Len(ps) = Len(taken) + 1 /\ ps[Len(taken) + 1] = p /\ Len(taken) \in Nat
      BY <1>1, TakenGrows
    <2>10. InOrder(out, ps, Reached(unit, taken)) BY <1>1, OrderLater
    <2> HIDE DEF u, f, ts, ps
    <2>11. Reached(unit, taken) = Reached(u, ps)
      <3>1. u # NoUnit BY <2>5, UnitFacts
      <3>2. FrameSize(p) - u.left = 0 BY <2>2, <2>7 DEF FrameSize
      <3> QED BY <2>4, <2>7, <2>9, <3>1, <3>2 DEF Reached
    <2>12. InOrder(f, ps, Reached(u, ps)) BY <1>1, <2>8, <2>10, <2>11, QuietOrder
    <2>13. ts \in 0..u.left
      <3> DEFINE len == drv.csdLen[0]
      <3>1. drv.csdLen \in [Tracks -> CsdLens \cup {0}] /\ 0 \in Tracks
        BY DEF TypeInv, TypeOK, Tracks
      <3>2. len \in CsdLens \cup {0} BY <3>1
      <3>3. FirstFragment(p, len) \in 0..(p.size0 + p.size1) BY <3>2 DEF FramesFit
      <3>4. FirstFragment(p, len) = 162 - PrefixSize(p) BY DEF FirstFragment, PrefixSize
      <3> HIDE DEF len
      <3>5. PrefixSize(p) \in Nat BY <3>1, SizeTypes
      <3>6. StreamSize(p) = p.size0 + p.size1 + PrefixSize(p)
        BY <2>2, <3>1, <3>5, SizeTypes DEF StreamSize, PrefixSize, ADTS_SZ, NAL_AUD_SZ
      <3>7. StreamSize(p) >= 162 BY <2>2, <3>3, <3>4, <3>5, <3>6
      <3>8. PaddingSize(p) = 0 BY <2>2, <3>5, <3>6, <3>7 DEF PaddingSize, TS_PACKAGE_SZ
      <3>9. StartSize(p) = 26 BY <3>8 DEF StartSize
      <3> QED BY <2>7, <3>3, <3>4, <3>5, <3>9 DEF ts, TS_PACKAGE_SZ
    <2>14. InOrder(out', ps, Reached(unit', ps))
      <3>1. u.n = Len(ps) /\ ps[u.n] = u.p BY <2>7, <2>9
      <3> QED BY <2>3, <2>5, <2>6, <2>8, <2>12, <2>13, <3>1, FragmentOrder
    <2> QED BY <1>2, <2>4, <2>14
  <1>4. CASE WriteFragment
    <2>1. /\ unit \in UnitType /\ unit # NoUnit /\ taken' = taken
          /\ unit.n = Len(taken) /\ taken[Len(taken)] = unit.p
      BY <1>4 DEF WriteFragment, TypeInv, Begun
    <2>2. unit.left \in Nat \ {0} BY <2>1, UnitFacts
    <2> DEFINE stuffing == IF IsLast(unit.left) THEN StuffingSize(unit.left) ELSE 0
               ts == TS_PACKAGE_SZ - 4 - stuffing
               f == CacheWrite(out, FragmentHead, 0, 4 + stuffing)
    <2>3. WriteAvTsPacket(f, unit, ts) BY <1>4 DEF WriteFragment, FragmentHead
    <2>4. ts \in 0..unit.left /\ stuffing \in Nat
      BY <2>2 DEF IsLast, StuffingSize, TS_PACKAGE_SZ
    <2>5. FragmentHead \in Headers /\ FragmentHead.is # "frame"
      <3>1. FragmentHead \in Middles \cup Lasts BY <1>4, FragmentsPacket
      <3> QED BY <3>1 DEF Headers, Middles, Lasts
    <2>6. InPlace(unit) BY <2>1 DEF LoopInv
    <2> HIDE DEF stuffing, ts
    <2>7. 4 + stuffing \in Nat BY <2>4
    <2>8. f \in File /\ Quiet(out, f) BY <1>1, <2>5, <2>7, QuietWrite
    <2> HIDE DEF f
    <2>9. InOrder(f, taken, Reached(unit, taken)) BY <1>1, <2>8, QuietOrder
    <2>10. InOrder(out', taken, Reached(unit', taken))
      BY <2>1, <2>3, <2>4, <2>6, <2>8, <2>9, FragmentOrder
    <2> QED BY <1>2, <2>1, <2>10
  <1>5. CASE UNCHANGED <<out, unit, taken>> BY <1>1, <1>2, <1>5
  <1> QED
    BY <1>3, <1>4, <1>5
    DEF Next, Open, SetStream, SetCacheMode, SetCacheSize, SetTrackInfo, WriteCSD, Setup,
        WriteHeader, WriteCrashes, WriteTrailer, Close, muxVars, vars

\* Of frames that fit, the file holds every byte once: the frames follow each
\* other in the order they were taken, each from its first byte to its last,
\* wherever the pieces of memory and the packets end, up to the byte the loop
\* has reached.
THEOREM FramesAlwaysInOrder == FramesFit /\ Spec => []FramesInOrder
  <1> SUFFICES ASSUME FramesFit PROVE Spec => []FramesInOrder OBVIOUS
  <1>1. Init => LoopInv BY DEF Init, LoopInv, FragmentsFit
  <1>2. TypeInv /\ LoopInv /\ [Next]_vars => LoopInv' BY NextLoop
  <1>3. TypeInv /\ Begun /\ LoopInv /\ FramesInOrder /\ [Next]_vars => FramesInOrder'
    BY NextOrder
  <1>4. Init => FramesInOrder
    <2> SUFFICES ASSUME Init PROVE FramesInOrder OBVIOUS
    <2>1. out.segs = <<>> /\ taken = <<>> /\ unit = NoUnit BY DEF Init
    <2>2. Len(out.segs) = 0 /\ Len(taken) = 0 BY <2>1
    <2>3. Reached(unit, taken) = FirstPlace BY <2>1, <2>2 DEF Reached, FirstPlace
    <2>4. 1..Len(out.segs) = {} BY <2>2
    <2> QED BY <2>3, <2>4 DEF FramesInOrder, InOrder
  <1> QED BY <1>1, <1>2, <1>3, <1>4, BegunAlways, TypeInvAlways, PTL DEF Spec
-----------------------------------------------------------------------------
\* What a TS packet with this header carries, and what the segments from j to e
\* carry of pid.
Payload(head) == 184 - IF head.is = "middle" THEN 0 ELSE head.af + 1
Carried(f, pid, j, e) == Sum(PayloadsOf(f.segs, pid), j, e)

\* What is still to be written of the PES packet of pid.
LeftOf(u, pid) == IF u # NoUnit /\ u.pid = pid THEN u.left ELSE 0

\* The lengths of the PES packets of pid are right, if that is added to the
\* last one.
PesOk(f, pid, left) ==
    \A j, e \in 1..Len(f.segs) : IsPes(f.segs, pid, j, e) =>
        /\ Carried(f, pid, j, e) \in Int
        /\ f.segs[j].of.pes_len =
              LengthField(Carried(f, pid, j, e) - 6 + IF e = Len(f.segs) THEN left ELSE 0)
PesInv == FragmentsFit => \A pid \in {481, 482} : PesOk(out, pid, LeftOf(unit, pid))

\* What the segments carry when there is one packet more.
LEMMA PacketCarried ==
    ASSUME NEW f \in File, NEW head \in Headers, NEW g, Packet(f, head, g), NEW pid,
           NEW n, n = IF head.pid = pid THEN Payload(head) ELSE 0, n \in Int
    PROVE  LET m == Len(f.segs) IN
           /\ \A j \in 1..m : \A e \in j..m : Carried(g, pid, j, e) = Carried(f, pid, j, e)
           /\ \A j \in 1..m : Carried(f, pid, j, m) \in Int =>
                 Carried(g, pid, j, Len(g.segs)) = Carried(f, pid, j, m) + n
           /\ Carried(g, pid, m + 1, Len(g.segs)) = n
  <1> DEFINE m == Len(f.segs)
             l == Len(g.segs)
             P == PayloadsOf(g.segs, pid)
             Q == PayloadsOf(f.segs, pid)
  <1>1. /\ m \in Nat /\ l \in Nat /\ m + 1 <= l /\ m + 1 \in 1..l /\ 1..m \subseteq 1..l
        /\ \A k \in 1..m : g.segs[k] = f.segs[k]
        /\ g.segs[m + 1].of = head /\ g.segs[m + 1].from = 0
        /\ \A k \in (m + 2)..l : ~IsHeader(g.segs[k])
        /\ DOMAIN f.segs = 1..m /\ DOMAIN g.segs = 1..l
    BY PacketSegments DEF Packet, File
  <1>2. \A k \in 1..m : P[k] = Q[k] BY <1>1 DEF PayloadsOf
  <1>3. P[m + 1] = n
    <2>1. head.is \in HeaderKinds BY DEF Headers, Tables, Starts, Middles, Lasts, HeaderKinds
    <2>2. IsHeader(g.segs[m + 1]) BY <1>1, <2>1 DEF IsHeader
    <2>3. PayloadSize(g.segs[m + 1]) = Payload(head)
      BY <1>1 DEF PayloadSize, Payload, TS_PACKAGE_SZ
    <2> QED BY <1>1, <2>2, <2>3 DEF PayloadsOf
  <1>4. \A k \in (m + 2)..l : P[k] = 0
    <2> SUFFICES ASSUME NEW k \in (m + 2)..l PROVE P[k] = 0 OBVIOUS
    <2>1. k \in 1..l BY <1>1
    <2> QED BY <1>1, <2>1 DEF PayloadsOf
  <1>5. \A j, e : Carried(g, pid, j, e) = Sum(P, j, e) /\ Carried(f, pid, j, e) = Sum(Q, j, e)
    BY DEF Carried
  <1> HIDE DEF m, l, P, Q
  <1>6. ASSUME NEW j \in 1..m, NEW e \in j..m PROVE Sum(P, j, e) = Sum(Q, j, e)
    <2>1. j \in Int /\ e \in Int /\ j - 1 <= e /\ \A k \in j..e : P[k] = Q[k]
      BY <1>1, <1>2
    <2> QED BY <2>1, SumSame
  <1>7. ASSUME NEW j \in 1..(m + 1), Sum(P, j, m) \in Int
        PROVE  Sum(P, j, l) = Sum(P, j, m) + n
    <2>1. j \in Int /\ m + 1 \in Int /\ l \in Int /\ j <= m + 1 /\ j - 1 <= m + 1
          /\ m + 1 <= l /\ (m + 1) - 1 = m
      BY <1>1
    <2>2. Sum(P, j, m + 1) = Sum(P, j, m) + n BY <1>3, <2>1, SumNext
    <2>3. Sum(P, j, m + 1) \in Int BY <1>7, <2>2
    <2>4. \A k \in ((m + 1) + 1)..l : P[k] = 0
      <3>1. (m + 1) + 1 = m + 2 BY <1>1
      <3> QED BY <1>4, <3>1
    <2>5. Sum(P, j, l) = Sum(P, j, m + 1) BY <2>1, <2>3, <2>4, SumStops
    <2> QED BY <2>2, <2>5
  <1>8. ASSUME NEW j \in 1..m, Sum(Q, j, m) \in Int PROVE Sum(P, j, l) = Sum(Q, j, m) + n
    <2>1. m \in j..m /\ j \in 1..(m + 1) BY <1>1
    <2>2. Sum(P, j, m) = Sum(Q, j, m) BY <1>6, <2>1
    <2> QED BY <1>7, <1>8, <2>1, <2>2
  <1>9. Sum(P, m + 1, l) = n
    <2>1. m + 1 \in Int /\ (m + 1) - 1 = m /\ m + 1 \in 1..(m + 1) BY <1>1
    <2>2. Sum(P, m + 1, m) = 0 BY <2>1, SumEmpty
    <2> QED BY <1>7, <2>1, <2>2
  <1> QED BY <1>5, <1>6, <1>8, <1>9 DEF m, l

\* A packet goes on with a PES packet, or begins one when the last is complete.
LEMMA PacketPes ==
    ASSUME NEW f \in File, NEW head \in Headers, NEW g, Packet(f, head, g), NEW pid,
           NEW left \in Nat, NEW rest \in Nat, PesOk(f, pid, left),
           \/ head.pid # pid /\ rest = left
           \/ head.pid = pid /\ head.is # "start" /\ Payload(head) = left - rest
           \/ /\ head.pid = pid /\ head.is = "start" /\ left = 0 /\ Payload(head) \in Int
              /\ head.pes_len = LengthField(Payload(head) - 6 + rest)
    PROVE  PesOk(g, pid, rest)
  <1> DEFINE m == Len(f.segs)
             l == Len(g.segs)
             n == IF head.pid = pid THEN Payload(head) ELSE 0
  <1>1. /\ m \in Nat /\ l \in Nat /\ m + 1 <= l /\ m + 1 \in 1..l /\ 1..m \subseteq 1..l
        /\ \A k \in 1..m : g.segs[k] = f.segs[k]
        /\ g.segs[m + 1].of = head
    BY PacketSegments DEF Packet
  <1>2. \A k \in 1..l : k \in 1..m \/ k = m + 1 \/ ~BeginsPes(g.segs[k], pid)
    BY PacketSegments DEF BeginsPes, IsStart
  <1>3. n \in Int OBVIOUS
  <1>4. /\ \A j \in 1..m : \A e \in j..m : Carried(g, pid, j, e) = Carried(f, pid, j, e)
        /\ \A j \in 1..m : Carried(f, pid, j, m) \in Int =>
              Carried(g, pid, j, l) = Carried(f, pid, j, m) + n
        /\ Carried(g, pid, m + 1, l) = n
    BY <1>3, PacketCarried
  <1>5. BeginsPes(g.segs[m + 1], pid) <=> head.is = "start" /\ head.pid = pid
    BY <1>1 DEF BeginsPes
  <1>6. ASSUME NEW j \in 1..m, IsPes(f.segs, pid, j, m)
        PROVE  /\ Carried(f, pid, j, m) \in Int
               /\ f.segs[j].of.pes_len = LengthField(Carried(f, pid, j, m) - 6 + left)
    <2>1. m \in 1..m BY <1>1
    <2> QED BY <1>6, <2>1 DEF PesOk
  <1>7. ASSUME NEW j \in 1..m, NEW e \in 1..m, e # m, IsPes(f.segs, pid, j, e)
        PROVE  /\ Carried(f, pid, j, e) \in Int
               /\ f.segs[j].of.pes_len = LengthField(Carried(f, pid, j, e) - 6)
    <2>1. /\ Carried(f, pid, j, e) \in Int
          /\ f.segs[j].of.pes_len = LengthField(Carried(f, pid, j, e) - 6 + 0)
      BY <1>7 DEF PesOk
    <2> QED BY <2>1
  <1> HIDE DEF m, l, n
  <1>8. ASSUME NEW j \in 1..l, IsPes(g.segs, pid, j, l)
        PROVE  /\ Carried(g, pid, j, l) \in Int
               /\ g.segs[j].of.pes_len = LengthField(Carried(g, pid, j, l) - 6 + rest)
    <2>1. BeginsPes(g.segs[j], pid) /\ \A k \in (j + 1)..l : ~BeginsPes(g.segs[k], pid)
      BY <1>8 DEF IsPes
    <2>2. CASE j \in 1..m
      <3>1. m + 1 \in (j + 1)..l BY <1>1, <2>2
      <3>2. ~(head.is = "start" /\ head.pid = pid) BY <1>5, <2>1, <3>1
      <3>3. IsPes(f.segs, pid, j, m)
        <4>1. j <= m /\ BeginsPes(f.segs[j], pid) BY <1>1, <2>1, <2>2
        <4>2. ASSUME NEW k \in (j + 1)..m PROVE ~BeginsPes(f.segs[k], pid)
          <5>1. k \in (j + 1)..l /\ k \in 1..m BY <1>1, <2>2
          <5> QED BY <1>1, <2>1, <5>1
        <4> QED BY <4>1, <4>2 DEF IsPes, m
      <3>4. /\ Carried(f, pid, j, m) \in Int
            /\ f.segs[j].of.pes_len = LengthField(Carried(f, pid, j, m) - 6 + left)
        BY <1>6, <2>2, <3>3
      <3>5. Carried(g, pid, j, l) = Carried(f, pid, j, m) + n BY <1>4, <2>2, <3>4
      <3>6. n = left - rest BY <3>2 DEF n
      <3>7. Carried(g, pid, j, l) \in Int
            /\ Carried(g, pid, j, l) - 6 + rest = Carried(f, pid, j, m) - 6 + left
        BY <3>4, <3>5, <3>6
      <3> QED BY <1>1, <2>2, <3>4, <3>7
    <2>3. CASE j = m + 1
      <3>1. head.is = "start" /\ head.pid = pid BY <1>5, <2>1, <2>3
      <3>2. n = Payload(head) /\ head.pes_len = LengthField(n - 6 + rest)
        BY <3>1 DEF n
      <3> QED BY <1>1, <1>3, <1>4, <2>3, <3>2
    <2> QED BY <1>2, <2>1, <2>2, <2>3
  <1>9. ASSUME NEW j \in 1..l, NEW e \in 1..l, e # l, IsPes(g.segs, pid, j, e)
        PROVE  /\ Carried(g, pid, j, e) \in Int
               /\ g.segs[j].of.pes_len = LengthField(Carried(g, pid, j, e) - 6)
    <2>1. /\ j <= e /\ BeginsPes(g.segs[j], pid) /\ BeginsPes(g.segs[e + 1], pid)
          /\ \A k \in (j + 1)..e : ~BeginsPes(g.segs[k], pid)
      BY <1>9 DEF IsPes, l
    <2>2. e + 1 \in 1..l BY <1>1, <1>9
    <2>3. e + 1 \in 1..m \/ e + 1 = m + 1 BY <1>2, <2>1, <2>2
    <2>4. e \in 1..m /\ j \in 1..m /\ e \in j..m BY <1>1, <2>1, <2>3
    <2>5. BeginsPes(f.segs[j], pid) /\ \A k \in (j + 1)..e : ~BeginsPes(f.segs[k], pid)
      <3>1. \A k \in (j + 1)..e : k \in 1..m BY <1>1, <2>4
      <3> QED BY <1>1, <2>1, <2>4, <3>1
    <2>6. g.segs[j] = f.segs[j] /\ Carried(g, pid, j, e) = Carried(f, pid, j, e)
      BY <1>1, <1>4, <2>4
    <2>7. CASE e = m
      <3>1. IsPes(f.segs, pid, j, m) BY <2>1, <2>5, <2>7 DEF IsPes, m
      <3>2. left = 0 BY <1>5, <2>1, <2>7
      <3>3. /\ Carried(f, pid, j, m) \in Int
            /\ f.segs[j].of.pes_len = LengthField(Carried(f, pid, j, m) - 6 + 0)
        BY <1>6, <2>4, <3>1, <3>2
      <3> QED BY <2>6, <2>7, <3>3
    <2>8. CASE e # m
      <3>1. e + 1 \in 1..m BY <1>1, <2>3, <2>4, <2>8
      <3>2. BeginsPes(f.segs[e + 1], pid) BY <1>1, <2>1, <3>1
      <3>3. IsPes(f.segs, pid, j, e) BY <2>1, <2>5, <3>2 DEF IsPes
      <3> QED BY <1>7, <2>4, <2>6, <2>8, <3>3
    <2> QED BY <2>7, <2>8
  <1>10. ASSUME NEW j \in 1..l, NEW e \in 1..l, IsPes(g.segs, pid, j, e)
         PROVE  /\ Carried(g, pid, j, e) \in Int
                /\ g.segs[j].of.pes_len =
                      LengthField(Carried(g, pid, j, e) - 6 + IF e = l THEN rest ELSE 0)
    <2>1. CASE e = l BY <1>8, <1>10, <2>1
    <2>2. CASE e # l
      <3>1. /\ Carried(g, pid, j, e) \in Int
            /\ g.segs[j].of.pes_len = LengthField(Carried(g, pid, j, e) - 6)
        BY <1>9, <1>10, <2>2
      <3>2. Carried(g, pid, j, e) - 6 + 0 = Carried(g, pid, j, e) - 6 BY <3>1
      <3> QED BY <2>2, <3>1, <3>2
    <2> QED BY <2>1, <2>2
  <1> QED BY <1>10 DEF PesOk, l

\* What write_av_ts_packet leaves of the frame, unless it stops the writer.
LEMMA FragmentLeaves ==
    ASSUME NEW f, NEW u \in UnitType, NEW ts \in Int, ts < 0 => InFirst(u),
           WriteAvTsPacket(f, u, ts), life' \notin {"overrun", "aborted"}
    PROVE  /\ ts \in 0..u.left
           /\ \A pid : LeftOf(unit', pid) = IF u.pid = pid THEN u.left - ts ELSE 0
  <1>1. u.left \in Nat \ {0} /\ u # NoUnit BY UnitFacts
  <1>2. ASSUME NEW g, NEW a, ts \in 0..u.left, Proceed(g, u, ts, a)
        PROVE  \A pid : LeftOf(unit', pid) = IF u.pid = pid THEN u.left - ts ELSE 0
    <2>1. CASE u.left = ts
      <3>1. unit' = NoUnit BY <1>2, <2>1 DEF Proceed
      <3>2. u.left - ts = 0 BY <1>1, <2>1
      <3> QED BY <3>1, <3>2 DEF LeftOf
    <2>2. CASE u.left # ts
      <3>1. unit' = [u EXCEPT !.left = u.left - ts, !.ptr = a]
        BY <1>2, <2>2 DEF Proceed
      <3>2. unit'.n = u.n /\ unit'.pid = u.pid /\ unit'.left = u.left - ts /\ u.n # 0
        BY <3>1 DEF UnitType
      <3>3. unit' # NoUnit BY <3>2 DEF NoUnit
      <3> QED BY <3>2, <3>3 DEF LeftOf
    <2> QED BY <2>1, <2>2
  <1>3. CASE FromOne(f, u, ts) BY <1>2, <1>3 DEF FromOne
  <1>4. CASE FromBoth(f, u, ts) BY <1>2, <1>4 DEF FromBoth
  <1>5. CASE Overrun(f, u, ts) \/ Aborted(f, u, ts) BY <1>5 DEF Overrun, Aborted, Stop
  <1> QED BY <1>3, <1>4, <1>5, WriteAvTsPacketCases
\* The tables carry nothing of a PES packet.
LEMMA BaseFilePes ==
    ASSUME TypeInv, NEW p \in Packets, NEW pid \in {481, 482}, PesOk(out, pid, 0)
    PROVE  PesOk(BaseFile(p), pid, 0)
  <1>1. CASE p.stream_idx # 0 BY <1>1 DEF BaseFile
  <1>2. CASE p.stream_idx = 0
    <2>1. /\ out \in File /\ Pat \in Headers /\ Pmt \in Headers /\ WithPat \in File
          /\ Packet(out, Pat, WithPat) /\ Packet(WithPat, Pmt, WithTables(out))
      BY TablesArePackets DEF TypeInv, Headers
    <2>2. Pat.pid # pid /\ Pmt.pid # pid BY DEF Pat, Pmt, PmtPid
    <2>3. PesOk(WithPat, pid, 0) BY <2>1, <2>2, PacketPes
    <2>4. PesOk(WithTables(out), pid, 0) BY <2>1, <2>2, <2>3, PacketPes
    <2> QED BY <1>2, <2>4 DEF BaseFile
  <1> QED BY <1>1, <1>2

\* What a frame's first packet carries and leaves is what its header announces.
LEMMA StartPes ==
    ASSUME TypeInv, NEW p \in Packets, WriteAccessUnit(p), FragmentsFit',
           NEW pid \in {481, 482}
    PROVE  /\ LeftOf(unit', pid) \in Nat
           /\ mTrackPid[p.stream_idx] # pid => LeftOf(unit', pid) = 0
           /\ mTrackPid[p.stream_idx] = pid =>
                 /\ Payload(StartHeader(p)) \in Int
                 /\ PesLength(p) = LengthField(Payload(StartHeader(p)) - 6 + LeftOf(unit', pid))
  <1> DEFINE u == [n |-> Len(taken) + 1, p |-> p, pid |-> mTrackPid[p.stream_idx],
                   left |-> p.size0 + p.size1, ptr |-> 0]
             f == WithPrefix(CacheWrite(BaseFile(p), StartHeader(p), 0, StartSize(p)), p)
             ts == TS_PACKAGE_SZ - StartSize(p) - PrefixSize(p)
  <1>1. p.stream_idx \in Tracks /\ p.size0 \in Nat \ {0} /\ p.size1 \in Nat
    BY PacketFacts DEF Tracks
  <1>2. /\ mTrackPid[p.stream_idx] \in Nat /\ Len(taken) \in Nat
        /\ drv.csdLen \in [Tracks -> CsdLens \cup {0}]
    BY <1>1 DEF TypeInv, TypeOK
  <1>3. /\ StreamSize(p) \in Nat /\ PaddingSize(p) \in Nat /\ PrefixSize(p) \in Nat
        /\ StartSize(p) = 26 + PaddingSize(p)
        /\ StreamSize(p) = p.size0 + p.size1 + PrefixSize(p)
    <2>1. /\ StreamSize(p) \in Nat /\ PaddingSize(p) \in Nat /\ PrefixSize(p) \in Nat
          /\ drv.csdLen[0] \in Nat
      BY <1>2, SizeTypes
    <2> QED BY <1>1, <2>1 DEF StartSize, StreamSize, PrefixSize, ADTS_SZ, NAL_AUD_SZ
  <1>4. WriteAvTsPacket(f, u, ts) BY DEF WriteAccessUnit, BaseFile
  <1>5. u \in UnitType BY <1>1, <1>2 DEF UnitType
  <1>6. InFirst(u) BY <1>1 DEF InFirst
  <1>7. u.left = p.size0 + p.size1 /\ u.pid = mTrackPid[p.stream_idx] OBVIOUS
  <1>8. ts \in Int /\ ts = 162 - PaddingSize(p) - PrefixSize(p)
    BY <1>3 DEF TS_PACKAGE_SZ
  <1> HIDE DEF u, f, ts
  <1>9. /\ ts \in 0..u.left
        /\ LeftOf(unit', pid) = IF u.pid = pid THEN u.left - ts ELSE 0
    BY <1>4, <1>5, <1>6, <1>8, FragmentLeaves DEF FragmentsFit
  <1>10. LeftOf(unit', pid) \in Nat BY <1>1, <1>7, <1>9
  <1>11. ASSUME mTrackPid[p.stream_idx] = pid
         PROVE  /\ Payload(StartHeader(p)) \in Int
                /\ PesLength(p) = LengthField(Payload(StartHeader(p)) - 6 + LeftOf(unit', pid))
    <2>1. Payload(StartHeader(p)) = 184 - ((PaddingSize(p) + 7) + 1)
      BY DEF Payload, StartHeader
    <2>2. LeftOf(unit', pid) = (p.size0 + p.size1) - ts BY <1>7, <1>9, <1>11
    <2>3. Payload(StartHeader(p)) - 6 + LeftOf(unit', pid) = StreamSize(p) + 8
      BY <1>1, <1>3, <1>8, <2>1, <2>2
    <2>4. Payload(StartHeader(p)) \in Int BY <1>3, <2>1
    <2> QED BY <2>3, <2>4 DEF PesLength, LengthField
  <1> QED BY <1>7, <1>9, <1>10, <1>11

\* A later packet carries what the loop has written.
LEMMA FragmentPes ==
    ASSUME TypeInv, WriteFragment, FragmentsFit', NEW pid
    PROVE  /\ LeftOf(unit', pid) \in Nat
           /\ unit.pid # pid => LeftOf(unit', pid) = 0
           /\ unit.pid = pid => Payload(FragmentHead) = unit.left - LeftOf(unit', pid)
  <1>1. unit \in UnitType /\ unit.left \in Nat \ {0}
    <2>1. unit \in UnitType BY DEF TypeInv, WriteFragment
    <2> QED BY <2>1, UnitFacts
  <1> DEFINE stuffing == IF IsLast(unit.left) THEN StuffingSize(unit.left) ELSE 0
             ts == TS_PACKAGE_SZ - 4 - stuffing
             f == CacheWrite(out, FragmentHead, 0, 4 + stuffing)
  <1>2. WriteAvTsPacket(f, unit, ts) BY DEF WriteFragment, FragmentHead
  <1>3. stuffing \in Nat /\ ts \in Int /\ ~(ts < 0) /\ ts = 184 - stuffing
    BY <1>1 DEF IsLast, StuffingSize, TS_PACKAGE_SZ
  <1>4. Payload(FragmentHead) = 184 - stuffing
    <2>1. CASE IsLast(unit.left)
      <3>1. StuffingSize(unit.left) \in Int BY <1>1 DEF StuffingSize, TS_PACKAGE_SZ
      <3>2. FragmentHead.is = "last" /\ FragmentHead.af = StuffingSize(unit.left) - 1
        BY <2>1 DEF FragmentHead
      <3> QED BY <2>1, <3>1, <3>2 DEF Payload
    <2>2. CASE ~IsLast(unit.left)
      <3>1. FragmentHead.is = "middle" BY <2>2 DEF FragmentHead
      <3> QED BY <2>2, <3>1 DEF Payload
    <2> QED BY <2>1, <2>2
  <1> HIDE DEF stuffing, ts, f
  <1>5. /\ ts \in 0..unit.left
        /\ LeftOf(unit', pid) = IF unit.pid = pid THEN unit.left - ts ELSE 0
    BY <1>1, <1>2, <1>3, FragmentLeaves DEF FragmentsFit
  <1> QED BY <1>1, <1>3, <1>4, <1>5

\* Every operation leaves the lengths right.
LEMMA NextPes == TypeInv /\ PesInv /\ [Next]_vars => PesInv'
  <1> SUFFICES ASSUME TypeInv, PesInv, [Next]_vars, FragmentsFit', NEW pid \in {481, 482}
               PROVE  PesOk(out', pid, LeftOf(unit', pid))
    BY DEF PesInv, PesOk, IsPes, BeginsPes, Carried, PayloadsOf, PayloadSize, IsHeader,
           LengthField, LeftOf
  <1>1. CASE \E p \in Packets : WriteAccessUnit(p)
    <2>1. PICK p \in Packets : WriteAccessUnit(p) BY <1>1
    <2>2. /\ StartHeader(p) \in Headers /\ BaseFile(p) \in File
          /\ Packet(BaseFile(p), StartHeader(p), out')
          /\ life' = life
      BY <2>1, StartsPacket DEF FragmentsFit, Headers
    <2>3. unit = NoUnit BY <2>1 DEF WriteAccessUnit
    <2>4. PesOk(out, pid, 0) BY <2>2, <2>3 DEF PesInv, FragmentsFit, LeftOf
    <2>5. PesOk(BaseFile(p), pid, 0) BY <2>1, <2>4, BaseFilePes
    <2>6. /\ StartHeader(p).is = "start" /\ StartHeader(p).pid = mTrackPid[p.stream_idx]
          /\ StartHeader(p).pes_len = PesLength(p)
      BY DEF StartHeader
    <2>7. /\ LeftOf(unit', pid) \in Nat
          /\ mTrackPid[p.stream_idx] # pid => LeftOf(unit', pid) = 0
          /\ mTrackPid[p.stream_idx] = pid =>
                /\ Payload(StartHeader(p)) \in Int
                /\ PesLength(p) = LengthField(Payload(StartHeader(p)) - 6 + LeftOf(unit', pid))
      BY <2>1, StartPes
    <2> QED BY <2>2, <2>5, <2>6, <2>7, PacketPes
  <1>2. CASE WriteFragment
    <2>1. /\ FragmentHead \in Headers /\ FragmentHead.pid = unit.pid
          /\ FragmentHead.is # "start"
          /\ Packet(out, FragmentHead, out') /\ life' = life
      <3>1. FragmentHead.is # "start" BY DEF FragmentHead
      <3> QED BY <1>2, <3>1, FragmentsPacket DEF FragmentsFit, Headers
    <2>2. out \in File /\ unit # NoUnit /\ unit.left \in Nat
      <3>1. unit \in UnitType BY <1>2 DEF TypeInv, WriteFragment
      <3> QED BY <3>1, UnitFacts DEF TypeInv
    <2>3. PesOk(out, pid, IF unit.pid = pid THEN unit.left ELSE 0)
      BY <2>1, <2>2 DEF PesInv, FragmentsFit, LeftOf
    <2>4. /\ LeftOf(unit', pid) \in Nat
          /\ unit.pid # pid => LeftOf(unit', pid) = 0
          /\ unit.pid = pid => Payload(FragmentHead) = unit.left - LeftOf(unit', pid)
      BY <1>2, FragmentPes
    <2> QED BY <2>1, <2>2, <2>3, <2>4, PacketPes
  <1>3. CASE UNCHANGED <<out, unit>> /\ life \notin {"overrun", "aborted"}
    BY <1>3 DEF PesInv, FragmentsFit
  <1>4. CASE UNCHANGED vars
    BY <1>4 DEF PesInv, FragmentsFit, vars
  <1> QED
    BY <1>1, <1>2, <1>3, <1>4
    DEF Next, Open, SetStream, SetCacheMode, SetCacheSize, SetTrackInfo, WriteCSD, Setup,
        WriteHeader, WriteCrashes, WriteTrailer, Close, muxVars

\* PES_packet_length, where it is not 0, counts the bytes behind it up to the
\* next PES packet of its PID, over all the TS packets of the frame, whatever
\* the other track wrote in between.
THEOREM PesLengthsAlwaysExact == Spec => []PesLengthsExact
  <1>1. Init => PesInv
    <2> SUFFICES ASSUME Init PROVE PesInv OBVIOUS
    <2>1. out.segs = <<>> BY DEF Init
    <2>2. 1..Len(out.segs) = {} BY <2>1
    <2> QED BY <2>2 DEF PesInv, PesOk
  <1>2. TypeInv /\ PesInv => PesLengthsExact
    <2> SUFFICES ASSUME TypeInv, PesInv, FragmentsFit, unit = NoUnit,
                        NEW pid \in {481, 482},
                        NEW j \in DOMAIN out.segs, NEW e \in DOMAIN out.segs,
                        IsPes(out.segs, pid, j, e)
                 PROVE  out.segs[j].of.pes_len
                           = LengthField(Sum(PayloadsOf(out.segs, pid), j, e) - 6)
      BY DEF PesLengthsExact
    <2>1. DOMAIN out.segs = 1..Len(out.segs) BY DEF TypeInv, File
    <2>2. PesOk(out, pid, 0) BY DEF PesInv, LeftOf
    <2> DEFINE c == Carried(out, pid, j, e)
    <2>3. c \in Int /\ out.segs[j].of.pes_len
                          = LengthField(c - 6 + IF e = Len(out.segs) THEN 0 ELSE 0)
      BY <2>1, <2>2 DEF PesOk
    <2> HIDE DEF c
    <2>4. c - 6 + (IF e = Len(out.segs) THEN 0 ELSE 0) = c - 6 BY <2>3
    <2>5. out.segs[j].of.pes_len = LengthField(c - 6) BY <2>3, <2>4
    <2> QED BY <2>5 DEF c, Carried
  <1> QED BY <1>1, <1>2, NextPes, TypeInvAlways, PTL DEF Spec
-----------------------------------------------------------------------------
\* r is what has been read behind each of the first n segments.
IsReading(r, segs, pid, isVideo, n) ==
    r = [k \in 0..n |-> IF k = 0 THEN Unread ELSE Read(r[k - 1], segs[k], pid, isVideo)]

\* That is the same as this, of functions on these numbers.
LEMMA ReadingSays ==
    ASSUME NEW r, NEW segs, NEW pid, NEW isVideo, NEW n \in Nat,
           IsReading(r, segs, pid, isVideo, n)
    PROVE  /\ r[0] = Unread
           /\ \A k \in 1..n : r[k] = Read(r[k - 1], segs[k], pid, isVideo)
  <1>1. 0 \in 0..n /\ \A k \in 1..n : k \in 0..n /\ k # 0 OBVIOUS
  <1> QED BY <1>1 DEF IsReading

\* The recursion Reading is defined by has a solution.
LEMMA ReadingExists ==
    ASSUME NEW segs, NEW pid, NEW isVideo, NEW n \in Nat
    PROVE  \E r : IsReading(r, segs, pid, isVideo, n)
  <1> DEFINE S == {j \in 0..n : \E r : IsReading(r, segs, pid, isVideo, j)}
  <1>1. 0 \in S
    <2> DEFINE r == [k \in 0..0 |-> Unread]
    <2>1. IsReading(r, segs, pid, isVideo, 0) BY DEF IsReading
    <2>2. 0 \in 0..n OBVIOUS
    <2> HIDE DEF r
    <2> QED BY <2>1, <2>2
  <1>2. ASSUME NEW j \in 0..(n - 1), j \in S PROVE j + 1 \in S
    <2>1. PICK r : IsReading(r, segs, pid, isVideo, j) BY <1>2
    <2>0. /\ r[0] = Unread /\ j \in Nat
          /\ \A k \in 1..j : r[k] = Read(r[k - 1], segs[k], pid, isVideo)
      BY <2>1, ReadingSays
    <2> DEFINE h == [k \in 0..(j + 1) |->
                        IF k = j + 1 THEN Read(r[j], segs[j + 1], pid, isVideo) ELSE r[k]]
    <2>2. ASSUME NEW k \in 0..(j + 1)
          PROVE  h[k] = IF k = 0 THEN Unread ELSE Read(h[k - 1], segs[k], pid, isVideo)
      <3>1. CASE k = 0
        <4>1. k # j + 1 /\ k \in 0..j BY <3>1
        <4> QED BY <2>0, <3>1, <4>1
      <3>2. CASE k # 0 /\ k # j + 1
        <4>1. k - 1 \in 0..(j + 1) /\ k - 1 # j + 1 /\ k \in 1..j BY <3>2
        <4>2. r[k] = Read(r[k - 1], segs[k], pid, isVideo) BY <2>0, <4>1
        <4> QED BY <3>2, <4>1, <4>2
      <3>3. CASE k = j + 1
        <4>1. k - 1 = j /\ j \in 0..(j + 1) /\ j # j + 1 /\ k # 0 BY <3>3
        <4>2. h[j] = r[j] BY <4>1
        <4>3. h[k] = Read(r[j], segs[k], pid, isVideo) BY <3>3
        <4> HIDE DEF h
        <4> QED BY <4>1, <4>2, <4>3
      <3> QED BY <3>1, <3>2, <3>3
    <2>3. IsReading(h, segs, pid, isVideo, j + 1) BY <2>2 DEF IsReading
    <2>4. j + 1 \in 0..n OBVIOUS
    <2> HIDE DEF h
    <2> QED BY <2>3, <2>4
  <1> HIDE DEF S
  <1>3. 0..n \subseteq S BY <1>1, <1>2, IntervalInduction
  <1> USE DEF S
  <1> QED BY <1>3

\* Reading is the last value of such a solution.
LEMMA ReadingRecursion ==
    ASSUME NEW segs, NEW pid, NEW isVideo, NEW n \in Nat
    PROVE  \E r : /\ IsReading(r, segs, pid, isVideo, n)
                  /\ Reading(segs, pid, isVideo, n) = r[n]
  <1> DEFINE read == CHOOSE r : IsReading(r, segs, pid, isVideo, n)
  <1>1. \E r : IsReading(r, segs, pid, isVideo, n) BY ReadingExists
  <1>2. Reading(segs, pid, isVideo, n) = read[n] BY DEF Reading, IsReading
  <1>3. IsReading(read, segs, pid, isVideo, n) BY <1>1
  <1> HIDE DEF read
  <1> QED BY <1>2, <1>3

\* Any function that reads one segment more at each step ends in Reading.
LEMMA ReadingUnique ==
    ASSUME NEW segs, NEW pid, NEW isVideo, NEW n \in Nat, NEW g, g[0] = Unread,
           \A k \in 1..n : g[k] = Read(g[k - 1], segs[k], pid, isVideo)
    PROVE  Reading(segs, pid, isVideo, n) = g[n]
  <1>1. PICK r : /\ IsReading(r, segs, pid, isVideo, n)
                 /\ Reading(segs, pid, isVideo, n) = r[n]
    BY ReadingRecursion
  <1>0. /\ r[0] = Unread
        /\ \A k \in 1..n : r[k] = Read(r[k - 1], segs[k], pid, isVideo)
    BY <1>1, ReadingSays
  <1> DEFINE S == {k \in 0..n : g[k] = r[k]}
  <1>2. 0 \in S BY <1>0
  <1>3. ASSUME NEW k \in 0..(n - 1), k \in S PROVE k + 1 \in S
    <2>1. k + 1 \in 1..n /\ k + 1 \in 0..n /\ k + 1 # 0 /\ (k + 1) - 1 = k OBVIOUS
    <2>2. g[k + 1] = Read(g[k], segs[k + 1], pid, isVideo) BY <2>1
    <2>3. r[k + 1] = Read(r[k], segs[k + 1], pid, isVideo) BY <1>0, <2>1
    <2> QED BY <1>3, <2>1, <2>2, <2>3
  <1> HIDE DEF S
  <1>4. 0..n \subseteq S BY <1>2, <1>3, IntervalInduction
  <1> USE DEF S
  <1> QED BY <1>1, <1>4

\* Nothing is read of no segments, and then one after the other.
LEMMA ReadingSteps ==
    ASSUME NEW segs, NEW pid, NEW isVideo
    PROVE  /\ Reading(segs, pid, isVideo, 0) = Unread
           /\ \A n \in Nat : Reading(segs, pid, isVideo, n + 1)
                = Read(Reading(segs, pid, isVideo, n), segs[n + 1], pid, isVideo)
  <1>1. Reading(segs, pid, isVideo, 0) = Unread
    <2>1. 0 \in Nat OBVIOUS
    <2>2. PICK r : /\ IsReading(r, segs, pid, isVideo, 0)
                   /\ Reading(segs, pid, isVideo, 0) = r[0]
      BY <2>1, ReadingRecursion
    <2> QED BY <2>1, <2>2, ReadingSays
  <1>2. ASSUME NEW n \in Nat
        PROVE  Reading(segs, pid, isVideo, n + 1)
                 = Read(Reading(segs, pid, isVideo, n), segs[n + 1], pid, isVideo)
    <2>1. n + 1 \in Nat OBVIOUS
    <2>2. PICK r : /\ IsReading(r, segs, pid, isVideo, n + 1)
                   /\ Reading(segs, pid, isVideo, n + 1) = r[n + 1]
      BY <2>1, ReadingRecursion
    <2>3. r[0] = Unread BY <2>1, <2>2, ReadingSays
    <2>4. \A k \in 1..(n + 1) : r[k] = Read(r[k - 1], segs[k], pid, isVideo)
      BY <2>1, <2>2, ReadingSays
    <2>5. \A k \in 1..n : r[k] = Read(r[k - 1], segs[k], pid, isVideo) BY <2>4
    <2>6. Reading(segs, pid, isVideo, n) = r[n] BY <2>3, <2>5, ReadingUnique
    <2>7. n + 1 \in 1..(n + 1) /\ (n + 1) - 1 = n OBVIOUS
    <2> QED BY <2>2, <2>4, <2>6, <2>7
  <1> QED BY <1>1, <1>2

\* What is read depends on the segments read only.
LEMMA ReadingSame ==
    ASSUME NEW segs, NEW more, NEW pid, NEW isVideo, NEW n \in Nat,
           \A k \in 1..n : more[k] = segs[k]
    PROVE  Reading(more, pid, isVideo, n) = Reading(segs, pid, isVideo, n)
  <1>1. PICK r : /\ IsReading(r, segs, pid, isVideo, n)
                 /\ Reading(segs, pid, isVideo, n) = r[n]
    BY ReadingRecursion
  <1>2. /\ r[0] = Unread
        /\ \A k \in 1..n : r[k] = Read(r[k - 1], segs[k], pid, isVideo)
    BY <1>1, ReadingSays
  <1>3. \A k \in 1..n : r[k] = Read(r[k - 1], more[k], pid, isVideo) BY <1>2
  <1> QED BY <1>1, <1>2, <1>3, ReadingUnique

\* r has behind each other the first parts, up to the n-th.
IsConcat(r, parts, n) ==
    r = [k \in 0..n |-> IF k = 0 THEN <<>> ELSE r[k - 1] \o parts[k]]

\* That is the same as this, of functions on these numbers.
LEMMA ConcatSays ==
    ASSUME NEW r, NEW parts, NEW n \in Nat, IsConcat(r, parts, n)
    PROVE  /\ r[0] = <<>>
           /\ \A k \in 1..n : r[k] = r[k - 1] \o parts[k]
  <1>1. 0 \in 0..n /\ \A k \in 1..n : k \in 0..n /\ k # 0 OBVIOUS
  <1> QED BY <1>1 DEF IsConcat

\* The recursion Concat is defined by has a solution.
LEMMA ConcatExists ==
    ASSUME NEW parts, NEW n \in Nat
    PROVE  \E r : IsConcat(r, parts, n)
  <1> DEFINE S == {j \in 0..n : \E r : IsConcat(r, parts, j)}
  <1>1. 0 \in S
    <2> DEFINE r == [k \in 0..0 |-> <<>>]
    <2>1. IsConcat(r, parts, 0) BY DEF IsConcat
    <2>2. 0 \in 0..n OBVIOUS
    <2> HIDE DEF r
    <2> QED BY <2>1, <2>2
  <1>2. ASSUME NEW j \in 0..(n - 1), j \in S PROVE j + 1 \in S
    <2>1. PICK r : IsConcat(r, parts, j) BY <1>2
    <2>5. j \in Nat OBVIOUS
    <2>0. r[0] = <<>> /\ \A k \in 1..j : r[k] = r[k - 1] \o parts[k]
      BY <2>1, <2>5, ConcatSays
    <2> DEFINE h == [k \in 0..(j + 1) |->
                        IF k = j + 1 THEN r[j] \o parts[j + 1] ELSE r[k]]
    <2>2. ASSUME NEW k \in 0..(j + 1)
          PROVE  h[k] = IF k = 0 THEN <<>> ELSE h[k - 1] \o parts[k]
      <3>1. CASE k = 0
        <4>1. k # j + 1 /\ k \in 0..j BY <3>1
        <4> QED BY <2>0, <3>1, <4>1
      <3>2. CASE k # 0 /\ k # j + 1
        <4>1. k - 1 \in 0..(j + 1) /\ k - 1 # j + 1 /\ k \in 1..j BY <3>2
        <4>2. r[k] = r[k - 1] \o parts[k] BY <2>0, <4>1
        <4> QED BY <3>2, <4>1, <4>2
      <3>3. CASE k = j + 1
        <4>1. k - 1 = j /\ j \in 0..(j + 1) /\ j # j + 1 /\ k # 0 BY <3>3
        <4>2. h[j] = r[j] BY <4>1
        <4>3. h[k] = r[j] \o parts[k] BY <3>3
        <4> HIDE DEF h
        <4> QED BY <4>1, <4>2, <4>3
      <3> QED BY <3>1, <3>2, <3>3
    <2>3. IsConcat(h, parts, j + 1) BY <2>2 DEF IsConcat
    <2>4. j + 1 \in 0..n OBVIOUS
    <2> HIDE DEF h
    <2> QED BY <2>3, <2>4
  <1> HIDE DEF S
  <1>3. 0..n \subseteq S BY <1>1, <1>2, IntervalInduction
  <1> USE DEF S
  <1> QED BY <1>3

\* Concat is the last value of such a solution.
LEMMA ConcatRecursion ==
    ASSUME NEW parts, NEW n \in Nat
    PROVE  \E r : IsConcat(r, parts, n) /\ Concat(parts, n) = r[n]
  <1> DEFINE all == CHOOSE r : IsConcat(r, parts, n)
  <1>1. \E r : IsConcat(r, parts, n) BY ConcatExists
  <1>2. Concat(parts, n) = all[n] BY DEF Concat, IsConcat
  <1>3. IsConcat(all, parts, n) BY <1>1
  <1> HIDE DEF all
  <1> QED BY <1>2, <1>3

\* Any function with one part more at each step ends in Concat.
LEMMA ConcatUnique ==
    ASSUME NEW parts, NEW n \in Nat, NEW g, g[0] = <<>>,
           \A k \in 1..n : g[k] = g[k - 1] \o parts[k]
    PROVE  Concat(parts, n) = g[n]
  <1>1. PICK r : IsConcat(r, parts, n) /\ Concat(parts, n) = r[n]
    BY ConcatRecursion
  <1>0. /\ r[0] = <<>>
        /\ \A k \in 1..n : r[k] = r[k - 1] \o parts[k]
    BY <1>1, ConcatSays
  <1> DEFINE S == {k \in 0..n : g[k] = r[k]}
  <1>2. 0 \in S BY <1>0
  <1>3. ASSUME NEW k \in 0..(n - 1), k \in S PROVE k + 1 \in S
    <2>1. k + 1 \in 1..n /\ k + 1 \in 0..n /\ k + 1 # 0 /\ (k + 1) - 1 = k OBVIOUS
    <2>2. g[k + 1] = g[k] \o parts[k + 1] BY <2>1
    <2>3. r[k + 1] = r[k] \o parts[k + 1] BY <1>0, <2>1
    <2> QED BY <1>3, <2>1, <2>2, <2>3
  <1> HIDE DEF S
  <1>4. 0..n \subseteq S BY <1>2, <1>3, IntervalInduction
  <1> USE DEF S
  <1> QED BY <1>1, <1>4

\* No parts make nothing, and a part more is put behind the others.
LEMMA ConcatSteps ==
    ASSUME NEW parts
    PROVE  /\ Concat(parts, 0) = <<>>
           /\ \A n \in Nat : Concat(parts, n + 1) = Concat(parts, n) \o parts[n + 1]
  <1>1. Concat(parts, 0) = <<>>
    <2>1. 0 \in Nat OBVIOUS
    <2>2. PICK r : /\ IsConcat(r, parts, 0)
                   /\ Concat(parts, 0) = r[0]
      BY <2>1, ConcatRecursion
    <2> QED BY <2>1, <2>2, ConcatSays
  <1>2. ASSUME NEW n \in Nat
        PROVE  Concat(parts, n + 1) = Concat(parts, n) \o parts[n + 1]
    <2>1. n + 1 \in Nat OBVIOUS
    <2>2. PICK r : /\ IsConcat(r, parts, n + 1)
                   /\ Concat(parts, n + 1) = r[n + 1]
      BY <2>1, ConcatRecursion
    <2>3. r[0] = <<>> BY <2>1, <2>2, ConcatSays
    <2>4. \A k \in 1..(n + 1) : r[k] = r[k - 1] \o parts[k]
      BY <2>1, <2>2, ConcatSays
    <2>5. ASSUME NEW k \in 1..n PROVE r[k] = r[k - 1] \o parts[k]
      <3>1. k \in 1..(n + 1) OBVIOUS
      <3> QED BY <2>4, <3>1
    <2>6. Concat(parts, n) = r[n] BY <2>3, <2>5, ConcatUnique
    <2>7. n + 1 \in 1..(n + 1) /\ (n + 1) - 1 = n OBVIOUS
    <2> QED BY <2>2, <2>4, <2>6, <2>7
  <1> QED BY <1>1, <1>2

\* The first n parts depend on these parts only.
LEMMA ConcatSame ==
    ASSUME NEW parts, NEW more, NEW n \in Nat,
           \A k \in 1..n : more[k] = parts[k]
    PROVE  Concat(more, n) = Concat(parts, n)
  <1>1. PICK r : IsConcat(r, parts, n) /\ Concat(parts, n) = r[n]
    BY ConcatRecursion
  <1>2. /\ r[0] = <<>>
        /\ \A k \in 1..n : r[k] = r[k - 1] \o parts[k]
    BY <1>1, ConcatSays
  <1>3. \A k \in 1..n : r[k] = r[k - 1] \o more[k] BY <1>2
  <1> QED BY <1>1, <1>2, <1>3, ConcatUnique

\* Parts over a set of pieces make a sequence of them.
LEMMA ConcatType ==
    ASSUME NEW S, NEW parts, NEW n \in Nat, \A k \in 1..n : parts[k] \in Seq(S)
    PROVE  Concat(parts, n) \in Seq(S)
  <1> DEFINE Good == {k \in 0..n : Concat(parts, k) \in Seq(S)}
  <1>1. 0 \in Good
    <2>1. <<>> \in Seq(S) /\ 0 \in 0..n OBVIOUS
    <2> QED BY <2>1, ConcatSteps
  <1>2. ASSUME NEW k \in 0..(n - 1), k \in Good PROVE k + 1 \in Good
    <2>1. k \in Nat /\ k + 1 \in 1..n /\ k + 1 \in 0..n OBVIOUS
    <2>2. Concat(parts, k + 1) = Concat(parts, k) \o parts[k + 1] BY <2>1, ConcatSteps
    <2>3. Concat(parts, k) \in Seq(S) /\ parts[k + 1] \in Seq(S) BY <1>2, <2>1
    <2>4. Concat(parts, k + 1) \in Seq(S)
      <3> DEFINE c == Concat(parts, k)
                 d == parts[k + 1]
      <3>1. c \in Seq(S) /\ d \in Seq(S) BY <2>3
      <3> HIDE DEF c, d
      <3>2. c \o d \in Seq(S) BY <3>1
      <3> QED BY <2>2, <3>2 DEF c, d
    <2> QED BY <2>1, <2>4
  <1> HIDE DEF Good
  <1>3. 0..n \subseteq Good
    <2>1. 0 \in Int /\ n \in Int OBVIOUS
    <2>2. \A k \in 0..(n - 1) : k \in Good => k + 1 \in Good BY <1>2
    <2> QED BY <1>1, <2>1, <2>2, IntervalInduction
  <1>4. n \in 0..n OBVIOUS
  <1> QED BY <1>3, <1>4 DEF Good
-----------------------------------------------------------------------------
\* Pieces of a stream.
StreamPieces == [of : Contents, from : Nat, len : Nat \ {0}]

\* Nothing, or one piece.
LEMMA PieceType ==
    ASSUME NEW of \in Contents, NEW len \in Nat
    PROVE  /\ Piece(of, len) \in Seq(StreamPieces)
           /\ len = 0 => Piece(of, len) = <<>>
           /\ len # 0 => Piece(of, len) = <<[of |-> of, from |-> 0, len |-> len]>>
  <1>1. CASE len = 0 BY <1>1 DEF Piece
  <1>2. CASE len # 0
    <2>1. [of |-> of, from |-> 0, len |-> len] \in StreamPieces BY <1>2 DEF StreamPieces
    <2> QED BY <1>2, <2>1 DEF Piece
  <1> QED BY <1>1, <1>2

\* What begins an object is a piece of its own.
LEMMA JoinFirst ==
    ASSUME NEW c \in Seq(StreamPieces), NEW of, NEW len
    PROVE  Join(c, [of |-> of, from |-> 0, len |-> len])
             = c \o <<[of |-> of, from |-> 0, len |-> len]>>
  <1> DEFINE s == [of |-> of, from |-> 0, len |-> len]
  <1>1. s.from = 0 OBVIOUS
  <1> HIDE DEF s
  <1>2. ASSUME c # <<>> PROVE Last(c).from + Last(c).len # s.from
    <2>1. Len(c) \in 1..Len(c) BY <1>2
    <2>2. Last(c) \in StreamPieces BY <2>1 DEF Last
    <2>3. Last(c).from \in Nat /\ Last(c).len \in Nat \ {0} BY <2>2 DEF StreamPieces
    <2> QED BY <1>1, <2>3
  <1>3. Join(c, s) = Append(c, s) BY <1>2 DEF Join
  <1>4. Append(c, s) = c \o <<s>> OBVIOUS
  <1> QED BY <1>3, <1>4 DEF s

\* What follows in an object makes its piece longer.
LEMMA JoinNext ==
    ASSUME NEW c \in Seq(StreamPieces), NEW of \in Contents, NEW done \in Nat \ {0}, NEW len \in Nat
    PROVE  Join(c \o Piece(of, done), [of |-> of, from |-> done, len |-> len])
             = c \o Piece(of, done + len)
  <1> DEFINE s == [of |-> of, from |-> done, len |-> len]
             t == [of |-> of, from |-> 0, len |-> done]
             v == [of |-> of, from |-> 0, len |-> done + len]
             d == c \o <<t>>
  <1>1. s.of = of /\ s.from = done /\ s.len = len OBVIOUS
  <1>2. t.of = of /\ t.from = 0 /\ t.len = done /\ t \in StreamPieces BY DEF StreamPieces
  <1>3. v = [t EXCEPT !.len = @ + len] OBVIOUS
  <1>4. Piece(of, done) = <<t>> BY DEF Piece
  <1>5. Piece(of, done + len) = <<v>> BY DEF Piece
  <1>6. v \in StreamPieces BY DEF StreamPieces
  <1> HIDE DEF s, t, v
  <1>7. /\ d \in Seq(StreamPieces) /\ Len(d) = Len(c) + 1 /\ d[Len(c) + 1] = t /\ Len(c) \in Nat
        /\ \A k \in 1..Len(c) : d[k] = c[k]
    BY <1>2
  <1> HIDE DEF d
  <1>8. Last(d) = t /\ d # <<>> BY <1>7 DEF Last
  <1>9. Last(d).from + Last(d).len = s.from BY <1>1, <1>2, <1>8
  <1>10. Join(d, s) = [d EXCEPT ![Len(d)].len = @ + s.len]
    BY <1>1, <1>2, <1>8, <1>9 DEF Join
  <1> DEFINE e == [d EXCEPT ![Len(d)] = v]
  <1>11. Join(d, s) = e BY <1>1, <1>3, <1>7, <1>10
  <1>12. e = c \o <<v>>
    <2>1. e \in Seq(StreamPieces) /\ c \o <<v>> \in Seq(StreamPieces) BY <1>6, <1>7
    <2>2. Len(e) = Len(c) + 1 /\ Len(c \o <<v>>) = Len(c) + 1 BY <1>6, <1>7
    <2>3. ASSUME NEW k \in 1..(Len(c) + 1) PROVE e[k] = (c \o <<v>>)[k]
      <3>1. CASE k = Len(c) + 1 BY <1>6, <1>7, <3>1
      <3>2. CASE k \in 1..Len(c) BY <1>6, <1>7, <3>2
      <3> QED BY <1>7, <3>1, <3>2
    <2> HIDE DEF e
    <2> QED BY <2>1, <2>2, <2>3, SeqEqual
  <1> QED BY <1>4, <1>5, <1>11, <1>12 DEF d, s
-----------------------------------------------------------------------------
\* What has been read of the file, and what the payload of a packet is.
Got(f, pid, isVideo) == Reading(f.segs, pid, isVideo, Len(f.segs))
Copying(r, b, e) == r.payload = [begin |-> b, end |-> e]
PayloadAt(s, isVideo) == IF isVideo THEN VideoPayload(s) ELSE AudioPayload(s)

\* A write is read behind what was there.
LEMMA GotWrite ==
    ASSUME NEW f \in File, NEW of \in Headers \cup Contents, NEW from \in Int, NEW len \in Nat,
           NEW pid, NEW isVideo
    PROVE  LET g == CacheWrite(f, of, from, len)
               s == [at |-> f.size, of |-> of, from |-> from, len |-> len]
           IN /\ g \in File /\ g.size = f.size + len
              /\ len = 0 => Got(g, pid, isVideo) = Got(f, pid, isVideo)
              /\ len # 0 => Got(g, pid, isVideo) = Read(Got(f, pid, isVideo), s, pid, isVideo)
  <1> DEFINE g == CacheWrite(f, of, from, len)
             m == Len(f.segs)
             s == [at |-> f.size, of |-> of, from |-> from, len |-> len]
  <1>1. /\ g \in File /\ g.size = f.size + len
        /\ len = 0 => g = f
        /\ len # 0 => Len(g.segs) = m + 1 /\ g.segs[m + 1] = s
        /\ \A k \in 1..m : g.segs[k] = f.segs[k]
        /\ m \in Nat
    <2>1. m \in Nat BY DEF File
    <2>2. /\ g \in File /\ g.size = f.size + len
          /\ len = 0 => g = f
          /\ len # 0 => /\ Len(g.segs) = m + 1
                        /\ g.segs[m + 1] = [at |-> f.size, of |-> of, from |-> from, len |-> len]
          /\ \A k \in 1..m : g.segs[k] = f.segs[k]
      BY CacheWriteFacts
    <2> HIDE DEF g, m
    <2> QED BY <2>1, <2>2
  <1> HIDE DEF g, s
  <1>2. ASSUME len # 0 PROVE Got(g, pid, isVideo) = Read(Got(f, pid, isVideo), s, pid, isVideo)
    <2>3. Got(f, pid, isVideo) = Reading(f.segs, pid, isVideo, m) BY DEF Got
    <2>4. Got(g, pid, isVideo) = Reading(g.segs, pid, isVideo, Len(g.segs)) BY DEF Got
    <2> HIDE DEF m
    <2>1. Reading(g.segs, pid, isVideo, m) = Reading(f.segs, pid, isVideo, m)
      BY <1>1, ReadingSame
    <2>2. Reading(g.segs, pid, isVideo, m + 1)
            = Read(Reading(g.segs, pid, isVideo, m), g.segs[m + 1], pid, isVideo)
      <3>1. m \in Nat BY <1>1
      <3> QED BY <3>1, ReadingSteps
    <2> QED BY <1>1, <1>2, <2>1, <2>2, <2>3, <2>4
  <1> QED BY <1>1, <1>2 DEF g, s

\* What follows a header in the packet is copied as far as it lies in the payload.
LEMMA ReadContent ==
    ASSUME NEW r, NEW s, NEW pid, NEW isVideo, ~IsHeader(s),
           NEW b \in Int, NEW e \in Int, Copying(r, b, e),
           s.at \in Int, s.from \in Int, s.len \in Nat
    PROVE  /\ Copying(Read(r, s, pid, isVideo), b, e)
           /\ s.at + s.len <= b \/ s.at >= e => Read(r, s, pid, isVideo).pieces = r.pieces
           /\ b <= s.at /\ s.at + s.len <= e /\ s.len # 0 =>
                 Read(r, s, pid, isVideo).pieces
                   = Join(r.pieces, [of |-> s.of, from |-> s.from, len |-> s.len])
  <1> DEFINE q == r.payload
  <1>1. q = [begin |-> b, end |-> e] /\ q.begin = b /\ q.end = e BY DEF Copying
  <1> HIDE DEF q
  <1>2. Read(r, s, pid, isVideo) =
          [payload |-> q,
           pieces |-> IF s.at < q.end /\ s.at + s.len > q.begin
                      THEN Join(r.pieces, Clip(s, q)) ELSE r.pieces]
    BY DEF Read, q
  <1>3. ASSUME b <= s.at, s.at + s.len <= e, s.len # 0
        PROVE  /\ s.at < q.end /\ s.at + s.len > q.begin
               /\ Clip(s, q) = [of |-> s.of, from |-> s.from, len |-> s.len]
    <2>1. s.at < q.end /\ s.at + s.len > q.begin BY <1>1, <1>3
    <2>2. ~(s.at < q.begin) /\ ~(s.at + s.len > q.end) BY <1>1, <1>3
    <2>3. Clip(s, q) = [of |-> s.of, from |-> s.from + (s.at - s.at),
                        len |-> (s.at + s.len) - s.at]
      BY <2>2 DEF Clip
    <2>4. s.from + (s.at - s.at) = s.from /\ (s.at + s.len) - s.at = s.len OBVIOUS
    <2> QED BY <2>1, <2>3, <2>4
  <1>4. ASSUME s.at + s.len <= b \/ s.at >= e
        PROVE  ~(s.at < q.end /\ s.at + s.len > q.begin)
    BY <1>1, <1>4
  <1>5. Copying(Read(r, s, pid, isVideo), b, e) BY <1>1, <1>2 DEF Copying
  <1> QED BY <1>2, <1>3, <1>4, <1>5

\* The kinds of what is written.
LEMMA KindsApart ==
    /\ \A of \in Contents : of.is \notin HeaderKinds
    /\ \A of \in Headers : of.is \in HeaderKinds
  BY DEF Contents, Headers, Tables, Starts, Middles, Lasts, HeaderKinds

\* A write that ends before the payload begins leaves what was read.
LEMMA SkippedContent ==
    ASSUME NEW f \in File, NEW of \in Contents, NEW from \in Int, NEW len \in Nat,
           NEW pid, NEW isVideo, NEW b \in Int, NEW e \in Int,
           Copying(Got(f, pid, isVideo), b, e), f.size + len <= b
    PROVE  /\ Copying(Got(CacheWrite(f, of, from, len), pid, isVideo), b, e)
           /\ Got(CacheWrite(f, of, from, len), pid, isVideo).pieces = Got(f, pid, isVideo).pieces
  <1> DEFINE g == CacheWrite(f, of, from, len)
  <1>1. PICK s : s = [at |-> f.size, of |-> of, from |-> from, len |-> len] OBVIOUS
  <1>2. /\ len = 0 => Got(g, pid, isVideo) = Got(f, pid, isVideo)
        /\ len # 0 => Got(g, pid, isVideo) = Read(Got(f, pid, isVideo), s, pid, isVideo)
    BY <1>1, GotWrite
  <1> HIDE DEF g
  <1>3. s.at = f.size /\ s.from = from /\ s.len = len /\ s.of = of /\ f.size \in Nat
    BY <1>1 DEF File
  <1>4. ~IsHeader(s) BY <1>3, KindsApart DEF IsHeader
  <1>6. PICK r : r = Got(f, pid, isVideo) OBVIOUS
  <1>7. Copying(r, b, e) BY <1>6
  <1>8. s.at \in Int /\ s.from \in Int /\ s.len \in Nat /\ s.at + s.len <= b BY <1>3
  <1>9. Copying(Read(r, s, pid, isVideo), b, e) /\ Read(r, s, pid, isVideo).pieces = r.pieces
    BY <1>4, <1>7, <1>8, ReadContent
  <1>5. /\ Copying(Read(Got(f, pid, isVideo), s, pid, isVideo), b, e)
        /\ Read(Got(f, pid, isVideo), s, pid, isVideo).pieces = Got(f, pid, isVideo).pieces
    BY <1>6, <1>9
  <1> QED BY <1>2, <1>5 DEF g


\* The reader copies this payload, and has read that.
At(f, pid, isVideo, b, e, stream) ==
    Copying(Got(f, pid, isVideo), b, e) /\ Got(f, pid, isVideo).pieces = stream

\* A write within the payload makes the last piece longer, or begins it.
LEMMA CopiedContent ==
    ASSUME NEW f \in File, NEW of \in Contents, NEW done \in Nat, NEW len \in Nat,
           NEW pid, NEW isVideo, NEW b \in Int, NEW e \in Int, NEW c \in Seq(StreamPieces),
           At(f, pid, isVideo, b, e, c \o Piece(of, done)),
           b <= f.size, f.size + len <= e
    PROVE  At(CacheWrite(f, of, done, len), pid, isVideo, b, e, c \o Piece(of, done + len))
  <1> DEFINE g == CacheWrite(f, of, done, len)
             r == Got(f, pid, isVideo)
  <1>1. PICK s : s = [at |-> f.size, of |-> of, from |-> done, len |-> len] OBVIOUS
  <1>2. /\ len = 0 => Got(g, pid, isVideo) = r
        /\ len # 0 => Got(g, pid, isVideo) = Read(r, s, pid, isVideo)
    <2>1. ASSUME NEW a \in Headers \cup Contents, NEW from \in Int
          PROVE  LET h == CacheWrite(f, a, from, len)
                     x == [at |-> f.size, of |-> a, from |-> from, len |-> len]
                 IN /\ len = 0 => Got(h, pid, isVideo) = Got(f, pid, isVideo)
                    /\ len # 0 => Got(h, pid, isVideo)
                                    = Read(Got(f, pid, isVideo), x, pid, isVideo)
      BY GotWrite
    <2>2. of \in Headers \cup Contents /\ done \in Int OBVIOUS
    <2> HIDE DEF g, r
    <2>3. LET h == CacheWrite(f, of, done, len)
          IN /\ len = 0 => Got(h, pid, isVideo) = Got(f, pid, isVideo)
             /\ len # 0 => Got(h, pid, isVideo) = Read(Got(f, pid, isVideo), s, pid, isVideo)
      BY <1>1, <2>1, <2>2
    <2> QED BY <2>3 DEF g, r
  <1>3. s.at = f.size /\ s.from = done /\ s.len = len /\ s.of = of /\ f.size \in Nat
    BY <1>1 DEF File
  <1>4. ~IsHeader(s) BY <1>3, KindsApart DEF IsHeader
  <1>5. Copying(r, b, e) /\ r.pieces = c \o Piece(of, done) BY DEF At
  <1> HIDE DEF g, r
  <1>6. ASSUME len = 0
        PROVE  Copying(Got(g, pid, isVideo), b, e)
               /\ Got(g, pid, isVideo).pieces = c \o Piece(of, done + len)
    <2>1. done + len = done BY <1>6
    <2> QED BY <1>2, <1>5, <1>6, <2>1 DEF g
  <1>7. ASSUME len # 0
        PROVE  Copying(Got(g, pid, isVideo), b, e)
               /\ Got(g, pid, isVideo).pieces = c \o Piece(of, done + len)
    <2>1. /\ Copying(Read(r, s, pid, isVideo), b, e)
          /\ Read(r, s, pid, isVideo).pieces
               = Join(r.pieces, [of |-> of, from |-> done, len |-> len])
      <3>1. /\ s.at \in Int /\ s.from \in Int /\ s.len \in Nat /\ s.len # 0
            /\ b <= s.at /\ s.at + s.len <= e
        BY <1>3, <1>7
      <3>2. Copying(r, b, e) BY <1>5
      <3>3. /\ Copying(Read(r, s, pid, isVideo), b, e)
            /\ Read(r, s, pid, isVideo).pieces
                 = Join(r.pieces, [of |-> s.of, from |-> s.from, len |-> s.len])
        BY <1>4, <3>1, <3>2, ReadContent
      <3> QED BY <1>3, <3>3
    <2>2. CASE done = 0
      <3>1. Piece(of, done) = <<>> /\ done + len = len BY <2>2 DEF Piece
      <3>2. c \o <<>> = c OBVIOUS
      <3>3. Piece(of, len) = <<[of |-> of, from |-> 0, len |-> len]>> BY <1>7 DEF Piece
      <3>4. Join(c, [of |-> of, from |-> 0, len |-> len]) = c \o Piece(of, len)
        BY <3>3, JoinFirst
      <3> QED BY <1>2, <1>5, <1>7, <2>1, <2>2, <3>1, <3>2, <3>4 DEF g
    <2>3. CASE done # 0
      <3>1. Join(c \o Piece(of, done), [of |-> of, from |-> done, len |-> len])
              = c \o Piece(of, done + len)
        BY <2>3, JoinNext
      <3> QED BY <1>2, <1>5, <1>7, <2>1, <3>1 DEF g
    <2> QED BY <2>2, <2>3
  <1> QED BY <1>6, <1>7 DEF At, g

\* The payload of a packet that begins with this header.
Opening(f, head, len, isVideo, b, e) ==
    PayloadAt([at |-> f.size, of |-> head, from |-> 0, len |-> len], isVideo)
        = [begin |-> b, end |-> e]

\* A header of the PID that is read opens its payload.
LEMMA HeaderRead ==
    ASSUME NEW f \in File, NEW head \in Headers, NEW len \in Nat \ {0}, NEW isVideo,
           NEW b \in Int, NEW e \in Int, f.size % 188 = 0,
           Opening(f, head, len, isVideo, b, e), f.size + len <= b
    PROVE  At(CacheWrite(f, head, 0, len), head.pid, isVideo, b, e,
              Got(f, head.pid, isVideo).pieces)
  <1> DEFINE g == CacheWrite(f, head, 0, len)
             r == Got(f, head.pid, isVideo)
  <1>1. PICK s : s = [at |-> f.size, of |-> head, from |-> 0, len |-> len] OBVIOUS
  <1>2. Got(g, head.pid, isVideo) = Read(r, s, head.pid, isVideo)
    <2>1. ASSUME NEW a \in Headers \cup Contents, NEW from \in Int, NEW pid
          PROVE  LET h == CacheWrite(f, a, from, len)
                     x == [at |-> f.size, of |-> a, from |-> from, len |-> len]
                 IN Got(h, pid, isVideo) = Read(Got(f, pid, isVideo), x, pid, isVideo)
      BY GotWrite
    <2>2. head \in Headers \cup Contents /\ 0 \in Int OBVIOUS
    <2> QED BY <1>1, <2>1, <2>2
  <1>3. s.at = f.size /\ s.from = 0 /\ s.len = len /\ s.of = head /\ f.size \in Nat
    BY <1>1 DEF File
  <1>4. IsHeader(s) /\ s.at % TS_PACKAGE_SZ = 0 BY <1>3, KindsApart DEF IsHeader, TS_PACKAGE_SZ
  <1>5. PayloadAt(s, isVideo) = [begin |-> b, end |-> e] BY <1>1 DEF Opening
  <1> HIDE DEF g, r
  <1>6. Read(r, s, head.pid, isVideo) =
          [payload |-> PayloadAt(s, isVideo),
           pieces |-> IF s.at < PayloadAt(s, isVideo).end
                         /\ s.at + s.len > PayloadAt(s, isVideo).begin
                      THEN Join(r.pieces, Clip(s, PayloadAt(s, isVideo))) ELSE r.pieces]
    BY <1>3, <1>4 DEF Read, PayloadAt
  <1>7. PayloadAt(s, isVideo).begin = b BY <1>5
  <1>8. ~(s.at + s.len > PayloadAt(s, isVideo).begin) BY <1>3, <1>7
  <1>9. Read(r, s, head.pid, isVideo)
          = [payload |-> [begin |-> b, end |-> e], pieces |-> r.pieces]
    BY <1>5, <1>6, <1>8
  <1> QED BY <1>2, <1>9 DEF At, Copying, g, r

\* A packet of another PID leaves what was read.
LEMMA ForeignPacket ==
    ASSUME NEW f \in File, NEW head \in Headers, NEW g, Packet(f, head, g),
           f.size % 188 = 0, NEW pid, NEW isVideo, head.pid # pid
    PROVE  Got(g, pid, isVideo).pieces = Got(f, pid, isVideo).pieces
  <1> DEFINE m == Len(f.segs)
             l == Len(g.segs)
  <1>0. \A n \in Nat : Reading(g.segs, pid, isVideo, n + 1)
            = Read(Reading(g.segs, pid, isVideo, n), g.segs[n + 1], pid, isVideo)
    BY ReadingSteps, ZenonT(30)
  <1> DEFINE R(k) == Reading(g.segs, pid, isVideo, k)
  <1>1. /\ m \in Nat /\ l \in Nat /\ m + 1 <= l /\ g \in File /\ f.size \in Nat
        /\ \A k \in 1..m : g.segs[k] = f.segs[k]
        /\ g.segs[m + 1].of = head /\ g.segs[m + 1].at = f.size /\ g.segs[m + 1].from = 0
        /\ \A k \in (m + 2)..l : ~IsHeader(g.segs[k])
    BY DEF Packet, File
  <1>2. ASSUME NEW k \in Nat PROVE R(k + 1) = Read(R(k), g.segs[k + 1], pid, isVideo)
    BY <1>0
  <1>3. R(m) = Reading(f.segs, pid, isVideo, m)
    <2> HIDE DEF m
    <2>1. Reading(g.segs, pid, isVideo, m) = Reading(f.segs, pid, isVideo, m)
      BY <1>1, ReadingSame
    <2> QED BY <2>1
  <1>4. Got(f, pid, isVideo) = Reading(f.segs, pid, isVideo, m)
        /\ Got(g, pid, isVideo) = R(l)
    BY DEF Got
  <1>5. ASSUME NEW k \in 1..l PROVE g.segs[k].at \in Nat /\ g.segs[k].len \in Nat
    <2>1. g.segs \in Seq(Segment) BY <1>1 DEF File
    <2>2. g.segs[k] \in Segment BY <2>1
    <2> QED BY <2>2 DEF Segment
  <1> HIDE DEF m, l, R
  <1>6. ASSUME NEW r, NEW s, s.at \in Nat,
               \/ ~IsHeader(s) /\ r.payload = NoPayload
               \/ IsHeader(s) /\ s.at % 188 = 0 /\ s.of.pid # pid
        PROVE  /\ Read(r, s, pid, isVideo).pieces = r.pieces
               /\ Read(r, s, pid, isVideo).payload = NoPayload
    <2>1. Read(r, s, pid, isVideo) =
            [payload |-> NoPayload,
             pieces |-> IF s.at < NoPayload.end /\ s.at + s.len > NoPayload.begin
                        THEN Join(r.pieces, Clip(s, NoPayload)) ELSE r.pieces]
      BY <1>6 DEF Read, TS_PACKAGE_SZ
    <2>2. ~(s.at < NoPayload.end) BY <1>6 DEF NoPayload
    <2> QED BY <2>1, <2>2
  <1> DEFINE S == {k \in (m + 1)..l : /\ R(k).pieces = R(m).pieces
                                      /\ R(k).payload = NoPayload}
  <1>7. m + 1 \in S
    <2>1. IsHeader(g.segs[m + 1]) BY <1>1, KindsApart DEF IsHeader
    <2>2. g.segs[m + 1].at \in Nat /\ g.segs[m + 1].at % 188 = 0 /\ g.segs[m + 1].of.pid # pid
      BY <1>1
    <2>3. R(m + 1) = Read(R(m), g.segs[m + 1], pid, isVideo) BY <1>1, <1>2
    <2>4. R(m + 1).pieces = R(m).pieces /\ R(m + 1).payload = NoPayload
      BY <1>6, <2>1, <2>2, <2>3
    <2>5. m + 1 \in (m + 1)..l BY <1>1
    <2> QED BY <2>4, <2>5
  <1>8. ASSUME NEW k \in (m + 1)..(l - 1), k \in S PROVE k + 1 \in S
    <2>1. k \in Nat /\ k + 1 \in (m + 2)..l /\ k + 1 \in (m + 1)..l /\ k + 1 \in 1..l BY <1>1
    <2>2. R(k + 1) = Read(R(k), g.segs[k + 1], pid, isVideo) BY <1>2, <2>1
    <2>3. ~IsHeader(g.segs[k + 1]) /\ g.segs[k + 1].at \in Nat BY <1>1, <1>5, <2>1
    <2>4. R(k + 1).pieces = R(k).pieces /\ R(k + 1).payload = NoPayload
      BY <1>6, <1>8, <2>2, <2>3
    <2> QED BY <1>8, <2>1, <2>4
  <1> HIDE DEF S
  <1>9. (m + 1)..l \subseteq S
    <2>1. m + 1 \in Int /\ l \in Int BY <1>1
    <2>2. \A k \in (m + 1)..(l - 1) : k \in S => k + 1 \in S BY <1>8
    <2> QED BY <1>7, <2>1, <2>2, IntervalInduction
  <1>10. l \in (m + 1)..l BY <1>1
  <1>11. l \in S BY <1>9, <1>10
  <1> QED BY <1>3, <1>4, <1>11 DEF S

\* The tables leave what was read of a stream, and end where a packet does.
LEMMA TablesRead ==
    ASSUME TypeInv, NEW p \in Packets, out.size % 188 = 0,
           NEW pid \in {481, 482}, NEW isVideo
    PROVE  /\ BaseFile(p) \in File /\ BaseFile(p).size % 188 = 0
           /\ Got(BaseFile(p), pid, isVideo).pieces = Got(out, pid, isVideo).pieces
  <1>1. out \in File /\ out.size \in Nat BY DEF TypeInv, File
  <1>2. CASE p.stream_idx # 0 BY <1>1, <1>2 DEF BaseFile
  <1>3. CASE p.stream_idx = 0
    <2>1. /\ Pat \in Headers /\ Pmt \in Headers
          /\ WithPat \in File /\ WithTables(out) \in File
          /\ Packet(out, Pat, WithPat) /\ Packet(WithPat, Pmt, WithTables(out))
          /\ WithPat.size = out.size + 188 /\ WithTables(out).size = out.size + 376
      BY TablesArePackets DEF Headers
    <2>2. Pat.pid # pid /\ Pmt.pid # pid BY DEF Pat, Pmt, PmtPid
    <2>3. WithPat.size % 188 = 0 /\ WithTables(out).size % 188 = 0 BY <1>1, <2>1
    <2>4. Got(WithPat, pid, isVideo).pieces = Got(out, pid, isVideo).pieces
      BY <1>1, <2>1, <2>2, ForeignPacket
    <2>5. Got(WithTables(out), pid, isVideo).pieces = Got(WithPat, pid, isVideo).pieces
      BY <2>1, <2>2, <2>3, ForeignPacket
    <2> QED BY <1>3, <2>1, <2>3, <2>4, <2>5 DEF BaseFile
  <1> QED BY <1>2, <1>3

\* The bytes of a frame.
FrameNo(n) == [is |-> "frame", n |-> n]

\* What of a frame is written, and that there is room in a payload.
Done(u) == FrameSize(u.p) - u.left
Room(f, len, b, e) == b <= f.size /\ f.size + len <= e

\* A fragment that has room in the packet makes the frame longer by its bytes.
LEMMA FragmentRead ==
    ASSUME NEW f \in File, NEW u \in UnitType, NEW ts \in 0..u.left, InPlace(u),
           WriteAvTsPacket(f, u, ts), NEW pid, NEW isVideo, NEW b \in Int,
           NEW e \in Int, NEW c \in Seq(StreamPieces),
           At(f, pid, isVideo, b, e, c \o Piece(FrameNo(u.n), Done(u))), Room(f, ts, b, e)
    PROVE  /\ Got(out', pid, isVideo).pieces = c \o Piece(FrameNo(u.n), Done(u) + ts)
           /\ Leaves(u, ts)
  <1> DEFINE done == Done(u)
  <1>1. /\ done \in Nat /\ FrameByte(u.p, u.ptr) = done
        /\ \/ out' = WithFrame(f, u, u.ptr, ts)
           \/ \E k \in Nat :
                 /\ ts - k \in Nat /\ FrameByte(u.p, u.p.data1) = done + k
                 /\ out' = WithFrame(WithFrame(f, u, u.ptr, k), u, u.p.data1, ts - k)
        /\ Leaves(u, ts)
    BY FragmentBytes DEF Done
  <1> HIDE DEF done
  <1>2. u.n \in Nat /\ u.left \in Nat BY UnitFacts
  <1>0. PICK of : of = FrameNo(u.n) OBVIOUS
  <1>3. of \in Contents BY <1>0, <1>2 DEF Contents, FrameNo
  <1>4. f.size \in Nat /\ ts \in Nat /\ b <= f.size /\ f.size + ts <= e
    BY <1>2 DEF File, Room
  <1>5. \A h, a, len : WithFrame(h, u, a, len) = CacheWrite(h, of, FrameByte(u.p, a), len)
    BY <1>0 DEF WithFrame, FrameNo
  <1>8. At(f, pid, isVideo, b, e, c \o Piece(of, done)) BY <1>0 DEF done
  <1>9. ASSUME NEW h \in File, NEW x \in Nat, NEW len \in Nat,
               At(h, pid, isVideo, b, e, c \o Piece(of, x)), b <= h.size, h.size + len <= e
        PROVE  At(CacheWrite(h, of, x, len), pid, isVideo, b, e, c \o Piece(of, x + len))
    BY <1>3, <1>9, CopiedContent
  <1>6. ASSUME out' = WithFrame(f, u, u.ptr, ts)
        PROVE  Got(out', pid, isVideo).pieces = c \o Piece(of, done + ts)
    <2>1. out' = CacheWrite(f, of, done, ts) BY <1>1, <1>5, <1>6
    <2>2. At(CacheWrite(f, of, done, ts), pid, isVideo, b, e, c \o Piece(of, done + ts))
      BY <1>1, <1>4, <1>8, <1>9
    <2> QED BY <2>1, <2>2 DEF At
  <1>7. ASSUME NEW k \in Nat, ts - k \in Nat, FrameByte(u.p, u.p.data1) = done + k,
               out' = WithFrame(WithFrame(f, u, u.ptr, k), u, u.p.data1, ts - k)
        PROVE  Got(out', pid, isVideo).pieces = c \o Piece(of, done + ts)
    <2> DEFINE f1 == CacheWrite(f, of, done, k)
    <2>1. f1 = WithFrame(f, u, u.ptr, k) BY <1>1, <1>5
    <2>2. f1 \in File /\ f1.size = f.size + k
      <3>1. done \in Int BY <1>1
      <3> QED BY <1>1, <1>3, <3>1, WriteExtends
    <2>3. f.size + k <= e BY <1>4, <1>7
    <2>4. At(f1, pid, isVideo, b, e, c \o Piece(of, done + k))
      BY <1>1, <1>4, <1>8, <1>9, <2>3
    <2> HIDE DEF f1
    <2>5. out' = CacheWrite(f1, of, done + k, ts - k) BY <1>5, <1>7, <2>1
    <2>6. /\ done + k \in Nat /\ (done + k) + (ts - k) = done + ts
          /\ b <= f1.size /\ f1.size + (ts - k) <= e
      BY <1>1, <1>4, <1>7, <2>2
    <2>7. At(CacheWrite(f1, of, done + k, ts - k), pid, isVideo, b, e,
             c \o Piece(of, (done + k) + (ts - k)))
      BY <1>7, <1>9, <2>2, <2>4, <2>6
    <2> QED BY <2>5, <2>6, <2>7 DEF At
  <1> QED BY <1>0, <1>1, <1>6, <1>7 DEF done

\* Audio frames are short enough for their PES packet to have a length.
AudioCounted ==
    \A p \in Packets : p.stream_idx = 1 => p.size0 + p.size1 + ADTS_SZ + 8 < MaxPes

\* Sizes of the first packet of a frame that fits.
LEMMA StartFits ==
    ASSUME FramesFit, drv.csdLen \in [Tracks -> CsdLens \cup {0}], NEW p \in Packets
    PROVE  /\ PaddingSize(p) = 0 /\ StartSize(p) = 26 /\ PrefixSize(p) \in Nat
           /\ 162 - PrefixSize(p) \in 0..FrameSize(p)
           /\ StreamSize(p) = FrameSize(p) + PrefixSize(p) /\ StreamSize(p) >= 162
           /\ FrameSize(p) \in Nat \ {0}
  <1> DEFINE len == drv.csdLen[0]
  <1>1. len \in CsdLens \cup {0} BY DEF Tracks
  <1>2. FirstFragment(p, len) \in 0..(p.size0 + p.size1) BY <1>1 DEF FramesFit
  <1>3. FirstFragment(p, len) = 162 - PrefixSize(p) BY DEF FirstFragment, PrefixSize
  <1> HIDE DEF len
  <1>4. PrefixSize(p) \in Nat /\ drv.csdLen[0] \in Nat BY SizeTypes
  <1>5. /\ p.size0 \in Nat \ {0} /\ p.size1 \in Nat /\ p.stream_idx \in {0, 1}
        /\ p.flags \in BOOLEAN
    BY PacketFacts
  <1>6. StreamSize(p) = FrameSize(p) + PrefixSize(p)
    BY <1>4, <1>5 DEF StreamSize, PrefixSize, FrameSize, ADTS_SZ, NAL_AUD_SZ
  <1>7. FrameSize(p) = p.size0 + p.size1 /\ FrameSize(p) \in Nat \ {0} BY <1>5 DEF FrameSize
  <1>8. 162 - PrefixSize(p) \in 0..FrameSize(p) BY <1>2, <1>3, <1>7
  <1>9. StreamSize(p) >= 162 BY <1>4, <1>6, <1>7, <1>8
  <1>10. PaddingSize(p) = 0 BY <1>4, <1>6, <1>7, <1>9 DEF PaddingSize, TS_PACKAGE_SZ
  <1>11. StartSize(p) = 26 BY <1>10 DEF StartSize
  <1> QED BY <1>4, <1>6, <1>7, <1>8, <1>9, <1>10, <1>11

\* The payload of a frame's first packet, with 26 bytes of headers, and of a
\* video frame with a delimiter.
LEMMA StartOpens ==
    ASSUME FramesFit, AudioCounted, drv.csdLen \in [Tracks -> CsdLens \cup {0}],
           NEW p \in Packets, NEW f \in File
    PROVE  Opening(f, StartHeader(p), StartSize(p), p.stream_idx = 0,
                   f.size + IF p.stream_idx = 0 THEN 32 ELSE 26, f.size + 188)
  <1>1. /\ PaddingSize(p) = 0 /\ StreamSize(p) >= 162 /\ PrefixSize(p) \in Nat
        /\ StreamSize(p) = FrameSize(p) + PrefixSize(p) /\ FrameSize(p) \in Nat
    BY StartFits
  <1> DEFINE s == [at |-> f.size, of |-> StartHeader(p), from |-> 0, len |-> StartSize(p)]
  <1>2. s.at = f.size /\ s.of.is = "start" /\ s.of.af = PaddingSize(p) + 7
        /\ s.of.pes_len = PesLength(p)
    BY DEF StartHeader
  <1>3. f.size \in Nat BY DEF File
  <1> HIDE DEF s
  <1>4. CASE p.stream_idx = 0
    <2>1. VideoPayload(s) = [begin |-> f.size + 32, end |-> f.size + 188]
      BY <1>2 DEF VideoPayload, TS_PACKAGE_SZ
    <2>2. PayloadAt(s, p.stream_idx = 0) = VideoPayload(s) BY <1>4 DEF PayloadAt
    <2> QED BY <1>4, <2>1, <2>2 DEF Opening, s
  <1>5. CASE p.stream_idx # 0
    <2>1. p.stream_idx = 1 BY <1>5, PacketFacts
    <2>2. PesLength(p) = StreamSize(p) + 8
      <3>1. PrefixSize(p) = 7 BY <2>1 DEF PrefixSize, ADTS_SZ
      <3>2. p.size0 + p.size1 + 7 + 8 < MaxPes BY <2>1 DEF AudioCounted, ADTS_SZ
      <3>3. MaxPes \in Nat /\ p.size0 \in Nat /\ p.size1 \in Nat
        BY ConstantFacts, PacketFacts
      <3>4. ~(StreamSize(p) + 8 >= MaxPes)
        BY <1>1, <3>1, <3>2, <3>3 DEF FrameSize
      <3> QED BY <3>4 DEF PesLength
    <2>3. ~(s.of.pes_len < 170) BY <1>1, <1>2, <2>2
    <2>4. AudioPayload(s) = [begin |-> f.size + (26 + 0), end |-> f.size + 188]
      BY <1>2, <2>3 DEF AudioPayload, TS_PACKAGE_SZ
    <2>5. PayloadAt(s, p.stream_idx = 0) = AudioPayload(s) BY <1>5 DEF PayloadAt
    <2> QED BY <1>5, <2>4, <2>5 DEF Opening, s
  <1> QED BY <1>4, <1>5

\* A frame's first packet up to the frame: the reader has what comes before it.
LEMMA StartRead ==
    ASSUME FramesFit, AudioCounted, drv.csdLen \in [Tracks -> CsdLens \cup {0}],
           NEW p \in Packets, NEW f \in File, f.size % 188 = 0, NEW pid,
           StartHeader(p) \in Headers, StartHeader(p).pid = pid,
           NEW c \in Seq(StreamPieces), Got(f, pid, p.stream_idx = 0).pieces = c
    PROVE  LET started == WithPrefix(CacheWrite(f, StartHeader(p), 0, StartSize(p)), p)
               begin == f.size + IF p.stream_idx = 0 THEN 32 ELSE 26
           IN /\ started \in File /\ begin <= started.size
              /\ started.size = f.size + 26 + PrefixSize(p)
              /\ At(started, pid, p.stream_idx = 0, begin, f.size + 188, c \o Prefix(p))
              /\ Prefix(p) \in Seq(StreamPieces)
  <1> DEFINE isVideo == p.stream_idx = 0
             begin == f.size + IF p.stream_idx = 0 THEN 32 ELSE 26
             end == f.size + 188
             f1 == CacheWrite(f, StartHeader(p), 0, StartSize(p))
             f2 == WithPrefix(f1, p)
  <1>1. /\ StartSize(p) = 26 /\ PrefixSize(p) \in Nat /\ PrefixSize(p) <= 162
        /\ StreamSize(p) = FrameSize(p) + PrefixSize(p) /\ FrameSize(p) \in Nat
        /\ drv.csdLen[0] \in Nat
    <2>1. 162 - PrefixSize(p) >= 0 /\ PrefixSize(p) \in Nat BY StartFits
    <2> QED BY <2>1, StartFits, SizeTypes
  <1>2. f.size \in Nat /\ begin \in Int /\ end \in Int /\ begin >= f.size + 26
    BY DEF File
  <1>3. Opening(f, StartHeader(p), StartSize(p), isVideo, begin, end) BY StartOpens
  <1>4. f1 \in File /\ f1.size = f.size + 26
    <2>1. 26 \in Nat \ {0} OBVIOUS
    <2> QED BY <1>1, <2>1, HeaderBegins
  <1>5. At(f1, pid, isVideo, begin, end, c)
    <2>1. StartSize(p) \in Nat \ {0} /\ f.size + StartSize(p) <= begin BY <1>1, <1>2
    <2> HIDE DEF begin, end, isVideo
    <2>2. At(f1, StartHeader(p).pid, isVideo, begin, end,
             Got(f, StartHeader(p).pid, isVideo).pieces)
      BY <1>2, <1>3, <2>1, HeaderRead
    <2> QED BY <2>2 DEF isVideo
  <1>6. f2 \in File /\ f2.size = f1.size + PrefixSize(p) BY <1>4, PrefixExtends
  <1>7. c \o <<>> = c OBVIOUS
  <1> HIDE DEF f1
  <1>8. CASE p.stream_idx = 1
    <2> DEFINE of == [is |-> "adts", frame_length |-> StreamSize(p)]
    <2>1. of \in Contents BY <1>1 DEF Contents
    <2>2. f2 = CacheWrite(f1, of, 0, 7) /\ PrefixSize(p) = 7
      BY <1>8 DEF WithPrefix, PrefixSize, ADTS_SZ
    <2>3. Prefix(p) = Piece(of, 7)
      <3>1. StreamSize(p) = p.size0 + p.size1 + ADTS_SZ
        BY <1>8 DEF StreamSize
      <3> QED BY <1>8, <3>1 DEF Prefix, ADTS_SZ
    <2>4. begin = f.size + 26 BY <1>8
    <2> HIDE DEF of, begin, end, isVideo, f2
    <2>5. Piece(of, 0) = <<>> BY DEF Piece
    <2>6. At(f1, pid, isVideo, begin, end, c \o Piece(of, 0)) BY <1>5, <1>7, <2>5
    <2>7. begin <= f1.size /\ f1.size + 7 <= end BY <1>2, <1>4, <2>4 DEF end
    <2>8. At(CacheWrite(f1, of, 0, 7), pid, isVideo, begin, end, c \o Piece(of, 0 + 7))
      <3>1. 0 \in Nat /\ 7 \in Nat OBVIOUS
      <3> QED BY <1>2, <1>4, <2>1, <2>6, <2>7, <3>1, CopiedContent
    <2>9. At(f2, pid, isVideo, begin, end, c \o Prefix(p)) BY <2>2, <2>3, <2>8
    <2>10. Prefix(p) \in Seq(StreamPieces) BY <2>1, <2>3, PieceType
    <2>11. begin <= f2.size BY <1>2, <1>4, <1>6, <2>2, <2>7
    <2> QED BY <1>1, <1>2, <1>4, <1>6, <2>9, <2>10, <2>11 DEF begin, end, isVideo, f1, f2
  <1>9. CASE p.stream_idx = 0
    <2> DEFINE aud == [is |-> "aud"]
               csd == [is |-> "csd"]
               len == IF p.flags THEN drv.csdLen[0] ELSE 0
               g == CacheWrite(f1, aud, 0, 6)
    <2>1. aud \in Contents /\ csd \in Contents /\ len \in Nat BY <1>1 DEF Contents
    <2>2. f2 = CacheWrite(g, csd, 0, len) /\ PrefixSize(p) = 6 + len
      <3>1. f2 = IF p.flags THEN CacheWrite(g, csd, 0, drv.csdLen[0]) ELSE g
        BY <1>9 DEF WithPrefix, NAL_AUD_SZ
      <3>2. CacheWrite(g, csd, 0, 0) = g BY DEF CacheWrite
      <3>3. PrefixSize(p) = 6 + len BY <1>9 DEF PrefixSize, NAL_AUD_SZ
      <3> HIDE DEF f2, g, csd
      <3> QED BY <3>1, <3>2, <3>3
    <2>3. Prefix(p) = Piece(csd, len) BY <1>9 DEF Prefix
    <2>4. begin = f.size + 32 BY <1>9
    <2> HIDE DEF aud, csd, len, begin, end, isVideo, f2
    <2>5. g \in File /\ g.size = f1.size + 6
      <3>1. 0 \in Int /\ 6 \in Nat OBVIOUS
      <3> QED BY <1>4, <2>1, <3>1, WriteExtends
    <2>6. At(g, pid, isVideo, begin, end, c)
      <3>1. f1.size + 6 <= begin BY <1>2, <1>4, <2>4
      <3>2. 0 \in Int /\ 6 \in Nat OBVIOUS
      <3>3. Copying(Got(f1, pid, isVideo), begin, end) BY <1>5 DEF At
      <3>4. /\ Copying(Got(g, pid, isVideo), begin, end)
            /\ Got(g, pid, isVideo).pieces = Got(f1, pid, isVideo).pieces
        BY <1>2, <1>4, <2>1, <3>1, <3>2, <3>3, SkippedContent
      <3> QED BY <1>5, <3>4 DEF At
    <2> HIDE DEF g
    <2>7. Piece(csd, 0) = <<>> BY DEF Piece
    <2>8. At(g, pid, isVideo, begin, end, c \o Piece(csd, 0)) BY <1>7, <2>6, <2>7
    <2>9. begin <= g.size /\ g.size + len <= end
      BY <1>1, <1>2, <1>4, <2>1, <2>2, <2>4, <2>5 DEF end
    <2>10. At(CacheWrite(g, csd, 0, len), pid, isVideo, begin, end, c \o Piece(csd, 0 + len))
      <3>1. 0 \in Nat OBVIOUS
      <3> QED BY <1>2, <2>1, <2>5, <2>8, <2>9, <3>1, CopiedContent
    <2>11. 0 + len = len BY <2>1
    <2>12. At(f2, pid, isVideo, begin, end, c \o Prefix(p)) BY <2>2, <2>3, <2>10, <2>11
    <2>13. Prefix(p) \in Seq(StreamPieces) BY <2>1, <2>3, PieceType
    <2>14. begin <= f2.size BY <1>2, <1>4, <1>6, <2>1, <2>2, <2>4
    <2> QED BY <1>1, <1>2, <1>4, <1>6, <2>12, <2>13, <2>14 DEF begin, end, isVideo, f1, f2
  <1> QED BY <1>8, <1>9, PacketFacts

\* What is left to write of frame n.
StillLeft(u, n) == IF u = NoUnit \/ u.n # n THEN 0 ELSE u.left

\* That is what write_av_ts_packet leaves.
LEMMA LeavesLess ==
    ASSUME NEW u \in UnitType, NEW ts \in 0..u.left, Leaves(u, ts)
    PROVE  StillLeft(unit', u.n) = u.left - ts
  <1>1. u.left \in Nat \ {0} BY UnitFacts
  <1>2. CASE u.left = ts
    <2>1. unit' = NoUnit /\ u.left - ts = 0 BY <1>1, <1>2 DEF Leaves
    <2> QED BY <2>1 DEF StillLeft
  <1>3. CASE u.left # ts
    <2>1. unit' # NoUnit /\ unit'.left = u.left - ts /\ unit'.n = u.n BY <1>3 DEF Leaves
    <2> QED BY <2>1 DEF StillLeft
  <1> QED BY <1>2, <1>3

\* The reader of this PID has got that much of its stream.
Has(f, pid, isVideo, stream) == Got(f, pid, isVideo).pieces = stream

\* A stream, and behind it the part of a frame that is written as far as u tells.
Longer(stream, u, p, n) == stream \o Piece(FrameNo(n), FrameSize(p) - StillLeft(u, n))

\* Of a new frame: its number, what comes before it, and its track.
Numbered(p, n, prefix, pid, isVideo) ==
    /\ n = Len(taken) + 1 /\ prefix = Prefix(p)
    /\ pid = mTrackPid[p.stream_idx] /\ isVideo = (p.stream_idx = 0)

\* The reader of a track has its new frame as far as the first packet holds it.
LEMMA FirstPacketRead ==
    ASSUME TypeInv, FramesFit, AudioCounted, NEW p \in Packets, WriteAccessUnit(p),
           out.size % 188 = 0, NEW pid \in {481, 482}, NEW n, NEW prefix,
           NEW isVideo \in BOOLEAN, Numbered(p, n, prefix, pid, isVideo),
           NEW c \in Seq(StreamPieces), Has(out, pid, isVideo, c)
    PROVE  /\ prefix \in Seq(StreamPieces)
           /\ Got(out', pid, isVideo).pieces
                = Longer(c \o prefix, unit', p, n)
           /\ StillLeft(unit', n) \in 0..FrameSize(p)
  <1> DEFINE u == [n |-> n, p |-> p, pid |-> mTrackPid[p.stream_idx],
                   left |-> p.size0 + p.size1, ptr |-> 0]
             f0 == BaseFile(p)
             f == WithPrefix(CacheWrite(f0, StartHeader(p), 0, StartSize(p)), p)
             ts == TS_PACKAGE_SZ - StartSize(p) - PrefixSize(p)
             begin == f0.size + IF p.stream_idx = 0 THEN 32 ELSE 26
             end == f0.size + 188
             d == c \o prefix
  <1>1. /\ p.size0 \in Nat \ {0} /\ p.size1 \in Nat /\ p.stream_idx \in {0, 1}
        /\ drv.csdLen \in [Tracks -> CsdLens \cup {0}] /\ n \in Nat \ {0}
    BY PacketFacts DEF TypeInv, TypeOK, Numbered
  <1>2. WriteAvTsPacket(f, u, ts) BY DEF WriteAccessUnit, BaseFile, Numbered
  <1>3. u \in UnitType
    <2>1. mTrackPid[p.stream_idx] \in Nat BY DEF Numbered
    <2> QED BY <1>1, <2>1 DEF UnitType
  <1>4. InPlace(u) BY <1>1 DEF InFirst, InPlace
  <1>5. u.left = FrameSize(p) /\ u.n = n /\ u.p = p BY DEF FrameSize
  <1>6. f0 \in File /\ f0.size % 188 = 0 /\ f0.size \in Nat
        /\ Got(f0, pid, isVideo).pieces = c
    <2>1. Got(out, pid, isVideo).pieces = c BY DEF Has
    <2> QED BY <2>1, TablesRead DEF File
  <1>7. /\ StartSize(p) = 26 /\ PrefixSize(p) \in Nat
        /\ 162 - PrefixSize(p) \in 0..FrameSize(p) /\ FrameSize(p) \in Nat \ {0}
    BY <1>1, StartFits
  <1>8. ts = 162 - PrefixSize(p) BY <1>7 DEF TS_PACKAGE_SZ
  <1>9. StartHeader(p) \in Headers /\ StartHeader(p).pid = pid
    <2>1. StartHeader(p) \in Starts BY StartsPacket
    <2> QED BY <2>1 DEF Headers, StartHeader, Numbered
  <1> HIDE DEF f0, u, ts
  <1>10. /\ f \in File /\ begin <= f.size
         /\ f.size = f0.size + 26 + PrefixSize(p)
         /\ At(f, pid, isVideo, begin, end, d)
         /\ prefix \in Seq(StreamPieces)
    <2>1. isVideo = (p.stream_idx = 0) /\ prefix = Prefix(p) BY DEF Numbered
    <2>2. Got(f0, pid, p.stream_idx = 0).pieces = c BY <1>6, <2>1
    <2>3. /\ f \in File /\ begin <= f.size
          /\ f.size = f0.size + 26 + PrefixSize(p)
          /\ At(f, pid, p.stream_idx = 0, begin, end, c \o Prefix(p))
          /\ Prefix(p) \in Seq(StreamPieces)
      BY <1>1, <1>6, <1>9, <2>2, StartRead
    <2> QED BY <2>1, <2>3
  <1>11. d \in Seq(StreamPieces) /\ d \o <<>> = d BY <1>10
  <1>12. ts \in 0..u.left /\ f.size + ts <= end BY <1>5, <1>6, <1>7, <1>8, <1>10
  <1>13. begin \in Int /\ end \in Int BY <1>6
  <1>14. FrameSize(u.p) - u.left = 0 BY <1>5, <1>7
  <1> HIDE DEF f, begin, end, d
  <1>15. At(f, pid, isVideo, begin, end, d \o Piece(FrameNo(u.n), 0))
    <2>1. Piece(FrameNo(u.n), 0) = <<>> BY DEF Piece
    <2>2. d \o Piece(FrameNo(u.n), 0) = d BY <1>11, <2>1
    <2> QED BY <1>10, <2>2
  <1>16. /\ Got(out', pid, isVideo).pieces = d \o Piece(FrameNo(u.n), Done(u) + ts)
         /\ Leaves(u, ts)
    <2>1. At(f, pid, isVideo, begin, end, d \o Piece(FrameNo(u.n), Done(u)))
      BY <1>14, <1>15 DEF Done
    <2>2. Room(f, ts, begin, end) BY <1>10, <1>12 DEF Room
    <2>3. f \in File /\ d \in Seq(StreamPieces) /\ ts \in 0..u.left BY <1>10, <1>11, <1>12
    <2> QED BY <1>2, <1>3, <1>4, <1>13, <2>1, <2>2, <2>3, FragmentRead
  <1>17. StillLeft(unit', n) = u.left - ts BY <1>3, <1>5, <1>12, <1>16, LeavesLess
  <1>18. Done(u) + ts = FrameSize(p) - StillLeft(unit', n)
    BY <1>5, <1>7, <1>8, <1>14, <1>17 DEF Done
  <1>19. StillLeft(unit', n) \in 0..FrameSize(p) BY <1>5, <1>7, <1>12, <1>17
  <1> QED BY <1>5, <1>10, <1>16, <1>18, <1>19 DEF d, Longer

\* And in the loop packet by packet.
LEMMA NextPacketRead ==
    ASSUME TypeInv, LoopInv, WriteFragment, out.size % 188 = 0, NEW isVideo,
           NEW c \in Seq(StreamPieces), NEW n, n \in {unit.n},
           Has(out, unit.pid, isVideo, c \o Piece(FrameNo(n), FrameSize(unit.p) - unit.left))
    PROVE  /\ Got(out', unit.pid, isVideo).pieces
                = c \o Piece(FrameNo(n), FrameSize(unit.p) - StillLeft(unit', n))
           /\ StillLeft(unit', n) \in 0..unit.left
  <1>1. unit \in UnitType /\ out \in File /\ out.size \in Nat /\ InPlace(unit)
    BY DEF TypeInv, WriteFragment, LoopInv, File
  <1>2. unit.left \in Nat \ {0} /\ unit.p \in Packets BY <1>1, UnitFacts
  <1>0. FrameSize(unit.p) \in Nat BY <1>2, PacketFacts DEF FrameSize
  <1> DEFINE stuffing == IF IsLast(unit.left) THEN StuffingSize(unit.left) ELSE 0
             ts == TS_PACKAGE_SZ - 4 - stuffing
             g == CacheWrite(out, FragmentHead, 0, 4 + stuffing)
             begin == out.size + (4 + stuffing)
             end == out.size + 188
             d == c \o Piece(FrameNo(n), FrameSize(unit.p) - unit.left)
  <1>3. WriteAvTsPacket(g, unit, ts) BY DEF WriteFragment, FragmentHead
  <1>4. stuffing \in Nat /\ ts \in 0..unit.left /\ ts = 184 - stuffing
    BY <1>2 DEF IsLast, StuffingSize, TS_PACKAGE_SZ
  <1>5. FragmentHead \in Headers /\ FragmentHead.pid = unit.pid
    BY FragmentsPacket DEF Headers
  <1>6. Opening(out, FragmentHead, 4 + stuffing, isVideo, begin, end)
    <2> DEFINE s == [at |-> out.size, of |-> FragmentHead, from |-> 0, len |-> 4 + stuffing]
    <2>1. s.at = out.size /\ s.of = FragmentHead OBVIOUS
    <2>2. CASE IsLast(unit.left)
      <3>1. s.of.is = "last" /\ s.of.af = stuffing - 1 BY <2>1, <2>2 DEF FragmentHead
      <3> HIDE DEF stuffing, s
      <3>2. VideoPayload(s) = [begin |-> out.size + (4 + ((stuffing - 1) + 1)), end |-> end]
        BY <2>1, <3>1 DEF VideoPayload, TS_PACKAGE_SZ
      <3>3. AudioPayload(s) = [begin |-> out.size + (4 + ((stuffing - 1) + 1)), end |-> end]
        BY <2>1, <3>1 DEF AudioPayload, TS_PACKAGE_SZ
      <3>4. (stuffing - 1) + 1 = stuffing BY <1>4
      <3> QED BY <3>2, <3>3, <3>4 DEF Opening, PayloadAt, s
    <2>3. CASE ~IsLast(unit.left)
      <3>1. s.of.is = "middle" /\ stuffing = 0 BY <2>1, <2>3 DEF FragmentHead
      <3> HIDE DEF stuffing, s
      <3>2. VideoPayload(s) = [begin |-> out.size + 4, end |-> end]
        BY <2>1, <3>1 DEF VideoPayload, TS_PACKAGE_SZ
      <3>3. AudioPayload(s) = [begin |-> out.size + 4, end |-> end]
        BY <2>1, <3>1 DEF AudioPayload, TS_PACKAGE_SZ
      <3> QED BY <3>1, <3>2, <3>3 DEF Opening, PayloadAt, s
    <2> QED BY <2>2, <2>3
  <1> HIDE DEF stuffing, ts
  <1>7. 4 + stuffing \in Nat \ {0} /\ begin \in Int /\ end \in Int BY <1>1, <1>4
  <1>8. g \in File /\ g.size = begin BY <1>1, <1>5, <1>7, HeaderBegins
  <1>9. out.size + (4 + stuffing) <= begin BY <1>1, <1>4
  <1> HIDE DEF begin, end, d
  <1>10. At(g, unit.pid, isVideo, begin, end, d)
    <2>1. At(g, FragmentHead.pid, isVideo, begin, end,
             Got(out, FragmentHead.pid, isVideo).pieces)
      BY <1>1, <1>5, <1>6, <1>7, <1>9, HeaderRead
    <2>2. Got(out, unit.pid, isVideo).pieces = d BY DEF d, Has
    <2> QED BY <1>5, <2>1, <2>2
  <1>11. begin <= g.size /\ g.size + ts <= end BY <1>1, <1>4, <1>7, <1>8 DEF begin, end
  <1> HIDE DEF g
  <1>12. Room(g, ts, begin, end) BY <1>11 DEF Room
  <1>13. At(g, unit.pid, isVideo, begin, end, c \o Piece(FrameNo(unit.n), Done(unit)))
    BY <1>10 DEF d, Done
  <1>14. /\ Got(out', unit.pid, isVideo).pieces = c \o Piece(FrameNo(unit.n), Done(unit) + ts)
         /\ Leaves(unit, ts)
    BY <1>1, <1>3, <1>4, <1>7, <1>8, <1>11, <1>12, <1>13, FragmentRead
  <1>15. StillLeft(unit', n) = unit.left - ts
    BY <1>1, <1>4, <1>14, LeavesLess
  <1>16. Done(unit) + ts = FrameSize(unit.p) - StillLeft(unit', n)
    BY <1>0, <1>2, <1>4, <1>15 DEF Done
  <1>17. StillLeft(unit', n) \in 0..unit.left BY <1>2, <1>4, <1>15
  <1> QED BY <1>14, <1>16, <1>17

\* Of frame n, when that much of it is left to write, and the parts of a track.
Shown(p, n, left) == Prefix(p) \o Piece(FrameNo(n), FrameSize(p) - left)
PartsOf(i) == [n \in DOMAIN taken |-> IF taken[n].stream_idx = i THEN Written(n) ELSE <<>>]

\* What the parts are, before a step and behind it.
LEMMA PartNow ==
    ASSUME TypeInv, NEW i, NEW n \in 1..Len(taken)
    PROVE  /\ StillLeft(unit, n) \in Nat /\ taken[n] \in Packets
           /\ PartsOf(i)[n] = IF taken[n].stream_idx = i
                              THEN Shown(taken[n], n, StillLeft(unit, n)) ELSE <<>>
  <1>1. taken \in Seq(Packets) /\ n \in DOMAIN taken /\ taken[n] \in Packets
    BY DEF TypeInv, TypeOK
  <1>2. StillLeft(unit, n) \in Nat BY UnitFacts DEF TypeInv, StillLeft
  <1>3. taken[n].size0 \in Nat /\ taken[n].size1 \in Nat BY <1>1, PacketFacts
  <1>4. taken[n].size0 + taken[n].size1 - StillLeft(unit, n)
          = FrameSize(taken[n]) - StillLeft(unit, n)
    BY <1>2, <1>3 DEF FrameSize
  <1>5. Written(n) = Prefix(taken[n])
            \o Piece(FrameNo(n), taken[n].size0 + taken[n].size1 - StillLeft(unit, n))
    BY DEF Written, FrameNo, StillLeft
  <1> QED BY <1>1, <1>2, <1>4, <1>5 DEF PartsOf, Shown

\* The second half of the above.
LEMMA PartNext ==
    ASSUME taken' \in Seq(Packets), drv' = drv, NEW i, NEW n \in 1..Len(taken'),
           StillLeft(unit', n) \in Nat
    PROVE  PartsOf(i)'[n] = IF taken'[n].stream_idx = i
                            THEN Shown(taken'[n], n, StillLeft(unit', n)) ELSE <<>>
  <1>1. n \in DOMAIN taken' /\ taken'[n] \in Packets OBVIOUS
  <1>3. taken'[n].size0 \in Nat /\ taken'[n].size1 \in Nat BY <1>1, PacketFacts
  <1>4. taken'[n].size0 + taken'[n].size1 - StillLeft(unit', n)
          = FrameSize(taken'[n]) - StillLeft(unit', n)
    BY <1>3 DEF FrameSize
  <1>5. Written(n)' = Prefix(taken'[n])
            \o Piece(FrameNo(n), taken'[n].size0 + taken'[n].size1 - StillLeft(unit', n))
    BY DEF Written, FrameNo, StillLeft, Prefix
  <1> QED BY <1>1, <1>4, <1>5 DEF PartsOf, Shown

\* The types of the parts.
LEMMA ShownType ==
    ASSUME drv.csdLen \in [Tracks -> CsdLens \cup {0}], NEW p \in Packets, NEW n \in Nat,
           NEW left \in Nat, left <= FrameSize(p)
    PROVE  /\ Prefix(p) \in Seq(StreamPieces)
           /\ Piece(FrameNo(n), FrameSize(p) - left) \in Seq(StreamPieces)
           /\ Shown(p, n, left) \in Seq(StreamPieces)
  <1>1. drv.csdLen[0] \in Nat BY SizeTypes
  <1>2. p.size0 \in Nat /\ p.size1 \in Nat /\ FrameSize(p) \in Nat
    BY PacketFacts DEF FrameSize
  <1>3. Prefix(p) \in Seq(StreamPieces)
    <2> DEFINE adts == [is |-> "adts", frame_length |-> p.size0 + p.size1 + ADTS_SZ]
               csd == [is |-> "csd"]
               len == IF p.flags THEN drv.csdLen[0] ELSE 0
    <2>1. adts \in Contents /\ csd \in Contents BY <1>2 DEF Contents, ADTS_SZ
    <2>2. len \in Nat /\ ADTS_SZ \in Nat BY <1>1 DEF ADTS_SZ
    <2>3. Prefix(p) = IF p.stream_idx = 1 THEN Piece(adts, ADTS_SZ) ELSE Piece(csd, len)
      BY DEF Prefix
    <2> HIDE DEF adts, csd, len
    <2>4. Piece(adts, ADTS_SZ) \in Seq(StreamPieces) BY <2>1, <2>2, PieceType
    <2>5. Piece(csd, len) \in Seq(StreamPieces) BY <2>1, <2>2, PieceType
    <2> QED BY <2>3, <2>4, <2>5
  <1>4. Piece(FrameNo(n), FrameSize(p) - left) \in Seq(StreamPieces)
    <2>1. FrameNo(n) \in Contents BY DEF FrameNo, Contents
    <2>2. FrameSize(p) - left \in Nat BY <1>2
    <2> QED BY <2>1, <2>2, PieceType
  <1> QED BY <1>3, <1>4 DEF Shown

\* A frame is taken as number n, and only of that one anything is left to write.
Opens(p, n, left) ==
    /\ taken' = Append(taken, p) /\ n = Len(taken) + 1 /\ drv' = drv /\ unit = NoUnit
    /\ left = StillLeft(unit', n) /\ left \in Nat /\ \A k : k # n => StillLeft(unit', k) = 0

\* A frame that is taken is recorded as far as its first packet holds it.
LEMMA RecordedFirst ==
    ASSUME TypeInv, NEW p \in Packets, NEW n, NEW left, Opens(p, n, left), NEW i
    PROVE  /\ Recorded(i) \in Seq(StreamPieces)
           /\ p.stream_idx = i =>
                 Recorded(i)' = Recorded(i) \o Shown(p, n, left)
           /\ p.stream_idx # i => Recorded(i)' = Recorded(i)
  <1> DEFINE m == Len(taken)
             parts == PartsOf(i)
             more == PartsOf(i)'
  <1>0. /\ taken' = Append(taken, p) /\ n = Len(taken) + 1 /\ drv' = drv /\ unit = NoUnit
        /\ left = StillLeft(unit', n) /\ left \in Nat /\ \A k : k # n => StillLeft(unit', k) = 0
    BY DEF Opens
  <1>1. /\ taken \in Seq(Packets) /\ taken' \in Seq(Packets) /\ m \in Nat
        /\ Len(taken') = m + 1 /\ taken'[m + 1] = p
        /\ \A k \in 1..m : taken'[k] = taken[k]
        /\ drv.csdLen \in [Tracks -> CsdLens \cup {0}]
    BY <1>0, TakenGrows DEF TypeInv, TypeOK
  <1>2. Recorded(i) = Concat(parts, m) /\ Recorded(i)' = Concat(more, m + 1)
    BY <1>0, <1>1 DEF Recorded, PartsOf
  <1> HIDE DEF m, parts, more
  <1>3. ASSUME NEW k \in 1..m PROVE more[k] = parts[k] /\ parts[k] \in Seq(StreamPieces)
    <2>1. k \in 1..Len(taken') /\ k \in 1..Len(taken) /\ k # n /\ k \in Nat
      BY <1>0, <1>1 DEF m
    <2>2. StillLeft(unit', k) = 0 /\ StillLeft(unit, k) = 0 /\ 0 \in Nat
      BY <1>0, <2>1 DEF StillLeft
    <2>3. more[k] = IF taken'[k].stream_idx = i THEN Shown(taken'[k], k, 0) ELSE <<>>
      BY <1>0, <1>1, <2>1, <2>2, PartNext DEF more
    <2>4. parts[k] = (IF taken[k].stream_idx = i THEN Shown(taken[k], k, 0) ELSE <<>>)
          /\ taken[k] \in Packets
      BY <2>1, <2>2, PartNow DEF parts
    <2>5. 0 <= FrameSize(taken[k]) BY <2>4, PacketFacts DEF FrameSize
    <2>6. Shown(taken[k], k, 0) \in Seq(StreamPieces) BY <1>0, <1>1, <2>1, <2>2, <2>4, <2>5, ShownType
    <2> QED BY <1>1, <2>3, <2>4, <2>6
  <1>4. Concat(parts, m) \in Seq(StreamPieces) BY <1>1, <1>3, ConcatType
  <1>5. Concat(more, m) = Concat(parts, m) BY <1>1, <1>3, ConcatSame
  <1>6. Concat(more, m + 1) = Concat(more, m) \o more[m + 1] BY <1>1, ConcatSteps
  <1>7. more[m + 1] = IF p.stream_idx = i THEN Shown(p, n, left) ELSE <<>>
    <2>1. m + 1 = n /\ n \in 1..Len(taken') BY <1>0, <1>1 DEF m
    <2>2. more[n] = IF taken'[n].stream_idx = i
                    THEN Shown(taken'[n], n, StillLeft(unit', n)) ELSE <<>>
      BY <1>0, <1>1, <2>1, PartNext DEF more
    <2> QED BY <1>0, <1>1, <2>1, <2>2
  <1>8. Concat(parts, m) \o <<>> = Concat(parts, m)
    <2> DEFINE c == Concat(parts, m)
    <2>1. c \in Seq(StreamPieces) BY <1>4
    <2> HIDE DEF c
    <2>2. c \o <<>> = c BY <2>1
    <2> QED BY <2>2 DEF c
  <1> QED BY <1>2, <1>4, <1>5, <1>6, <1>7, <1>8

\* And then packet by packet.
LEMMA RecordedNext ==
    ASSUME TypeInv, unit # NoUnit, taken[Len(taken)] = unit.p, taken' = taken, drv' = drv,
           StillLeft(unit', unit.n) \in Nat,
           \A k : k # unit.n => StillLeft(unit', k) = 0, NEW i
    PROVE  /\ unit.p.stream_idx = i =>
                 \E c \in Seq(StreamPieces) :
                    /\ Recorded(i) = c \o Shown(unit.p, unit.n, unit.left)
                    /\ Recorded(i)' = c \o Shown(unit.p, unit.n, StillLeft(unit', unit.n))
           /\ unit.p.stream_idx # i => Recorded(i)' = Recorded(i)
  <1> DEFINE m == Len(taken) - 1
             parts == PartsOf(i)
             more == PartsOf(i)'
  <1>1. /\ taken \in Seq(Packets) /\ m \in Nat /\ unit.n = m + 1 /\ Len(taken) = m + 1
        /\ drv.csdLen \in [Tracks -> CsdLens \cup {0}]
    <2>1. unit.n = Len(taken) /\ unit.n \in Nat \ {0} BY UnitFacts DEF TypeInv
    <2>2. taken \in Seq(Packets) /\ drv.csdLen \in [Tracks -> CsdLens \cup {0}]
      BY DEF TypeInv, TypeOK
    <2> QED BY <2>1, <2>2
  <1>2. Recorded(i) = Concat(parts, m + 1) /\ Recorded(i)' = Concat(more, m + 1)
    BY <1>1 DEF Recorded, PartsOf
  <1> HIDE DEF m, parts, more
  <1>3. ASSUME NEW k \in 1..m PROVE more[k] = parts[k] /\ parts[k] \in Seq(StreamPieces)
    <2>1. k \in 1..Len(taken') /\ k \in 1..Len(taken) /\ k # unit.n /\ k \in Nat
      BY <1>1
    <2>2. StillLeft(unit', k) = 0 /\ StillLeft(unit, k) = 0 /\ 0 \in Nat
      BY <2>1 DEF StillLeft
    <2>3. more[k] = IF taken'[k].stream_idx = i THEN Shown(taken'[k], k, 0) ELSE <<>>
      BY <1>1, <2>1, <2>2, PartNext DEF more
    <2>4. parts[k] = (IF taken[k].stream_idx = i THEN Shown(taken[k], k, 0) ELSE <<>>)
          /\ taken[k] \in Packets
      BY <2>1, <2>2, PartNow DEF parts
    <2>5. 0 <= FrameSize(taken[k]) BY <2>4, PacketFacts DEF FrameSize
    <2>6. Shown(taken[k], k, 0) \in Seq(StreamPieces) BY <1>1, <2>1, <2>2, <2>4, <2>5, ShownType
    <2> QED BY <2>3, <2>4, <2>6
  <1>4. Concat(parts, m) \in Seq(StreamPieces) BY <1>1, <1>3, ConcatType
  <1>5. Concat(more, m) = Concat(parts, m) BY <1>1, <1>3, ConcatSame
  <1>6. Concat(more, m + 1) = Concat(more, m) \o more[m + 1] BY <1>1, ConcatSteps
  <1>7. Concat(parts, m + 1) = Concat(parts, m) \o parts[m + 1] BY <1>1, ConcatSteps
  <1>8. /\ parts[m + 1] = IF unit.p.stream_idx = i
                          THEN Shown(unit.p, unit.n, unit.left) ELSE <<>>
        /\ more[m + 1] = IF unit.p.stream_idx = i
                         THEN Shown(unit.p, unit.n, StillLeft(unit', unit.n)) ELSE <<>>
    <2>1. m + 1 = unit.n /\ unit.n \in 1..Len(taken') /\ unit.n \in 1..Len(taken)
          /\ taken'[unit.n] = unit.p /\ taken[unit.n] = unit.p
      BY <1>1
    <2>2. StillLeft(unit, unit.n) = unit.left BY DEF StillLeft
    <2>3. more[unit.n] = IF taken'[unit.n].stream_idx = i
                         THEN Shown(taken'[unit.n], unit.n, StillLeft(unit', unit.n)) ELSE <<>>
      BY <1>1, <2>1, PartNext DEF more
    <2>4. parts[unit.n] = IF taken[unit.n].stream_idx = i
                          THEN Shown(taken[unit.n], unit.n, StillLeft(unit, unit.n)) ELSE <<>>
      BY <2>1, PartNow DEF parts
    <2> QED BY <2>1, <2>2, <2>3, <2>4
  <1> QED BY <1>2, <1>4, <1>5, <1>6, <1>7, <1>8

\* What a reader has got of a track is what was recorded of it.
ReadInv ==
    \A i \in Tracks : mTrackPid[i] # 0 => Got(out, mTrackPid[i], i = 0).pieces = Recorded(i)

\* Nothing, as long as nothing is.
LEMMA NothingRead ==
    /\ out.segs = <<>> /\ taken = <<>> => ReadInv
    /\ out'.segs = <<>> /\ taken' = <<>> => ReadInv'
  <1>1. \A pid, isVideo : Reading(<<>>, pid, isVideo, 0) = Unread BY ReadingSteps
  <1>2. \A parts : Concat(parts, 0) = <<>> BY ConcatSteps
  <1>3. Len(<<>>) = 0 /\ Unread.pieces = <<>> BY DEF Unread
  <1>4. ASSUME out.segs = <<>>, taken = <<>> PROVE ReadInv
    BY <1>1, <1>2, <1>3, <1>4 DEF ReadInv, Got, Recorded
  <1>5. ASSUME out'.segs = <<>>, taken' = <<>> PROVE ReadInv'
    BY <1>1, <1>2, <1>3, <1>5 DEF ReadInv, Got, Recorded
  <1> QED BY <1>4, <1>5

\* The tracks have a PID each.
LEMMA PidsApart ==
    ASSUME Announced, NEW i \in Tracks, mTrackPid[i] # 0
    PROVE  /\ mTrackPid[i] \in {481, 482}
           /\ \A j \in Tracks : j # i => mTrackPid[j] # mTrackPid[i]
  BY DEF Announced, Tracks

\* A first packet gives a reader what it records.
LEMMA FirstReadBack ==
    ASSUME FramesFit, AudioCounted, TypeInv, Begun, ReadInv, out.size % 188 = 0,
           NEW p \in Packets, WriteAccessUnit(p)
    PROVE  ReadInv'
  <1>1. /\ life = "writing" /\ unit = NoUnit /\ taken' = Append(taken, p)
        /\ drv' = drv /\ mTrackPid' = mTrackPid
    BY DEF WriteAccessUnit
  <1>2. Announced /\ p.stream_idx \in Tracks BY <1>1, PacketFacts DEF Begun, Tracks
  <1>3. /\ StartHeader(p) \in Headers /\ BaseFile(p) \in File
        /\ Packet(BaseFile(p), StartHeader(p), out')
        /\ \/ unit' = NoUnit
           \/ unit' \in UnitType /\ unit'.n = Len(taken) + 1
    <2>1. /\ StartHeader(p) \in Starts /\ BaseFile(p) \in File
          /\ Packet(BaseFile(p), StartHeader(p), out')
          /\ \/ unit' = NoUnit
             \/ unit' \in UnitType /\ unit'.n = Len(taken) + 1
      BY StartsPacket
    <2>2. Starts \subseteq Headers BY DEF Headers
    <2> QED BY <2>1, <2>2
  <1>4. PICK n : n = Len(taken) + 1 OBVIOUS
  <1>5. /\ StillLeft(unit', n) \in Nat /\ \A k : k # n => StillLeft(unit', k) = 0
        /\ n \in Nat
    <2>1. Len(taken) \in Nat BY DEF TypeInv, TypeOK
    <2> QED BY <1>3, <1>4, <2>1, UnitFacts DEF StillLeft
  <1> SUFFICES ASSUME NEW i \in Tracks, mTrackPid[i] # 0
               PROVE  Got(out', mTrackPid[i], i = 0).pieces = Recorded(i)'
    BY <1>1 DEF ReadInv
  <1> DEFINE left == StillLeft(unit', n)
  <1>6. PICK pid \in {481, 482} : pid = mTrackPid[i] BY <1>2, PidsApart
  <1>7. PICK c : c = Recorded(i) OBVIOUS
  <1>8. Got(out, pid, i = 0).pieces = c BY <1>6, <1>7 DEF ReadInv
  <1>9. /\ c \in Seq(StreamPieces)
        /\ p.stream_idx = i => Recorded(i)' = c \o Shown(p, n, left)
        /\ p.stream_idx # i => Recorded(i)' = c
    <2>1. /\ Recorded(i) \in Seq(StreamPieces)
          /\ p.stream_idx = i =>
                Recorded(i)' = Recorded(i) \o Shown(p, n, left)
          /\ p.stream_idx # i => Recorded(i)' = Recorded(i)
      <3>1. Opens(p, n, left) BY <1>1, <1>4, <1>5 DEF Opens
      <3> HIDE DEF left
      <3>2. Recorded(i) \in Seq(StreamPieces) BY <3>1, RecordedFirst
      <3>3. p.stream_idx = i =>
               Recorded(i)' = Recorded(i) \o Shown(p, n, left)
        BY <3>1, RecordedFirst
      <3>4. p.stream_idx # i => Recorded(i)' = Recorded(i) BY <3>1, RecordedFirst
      <3> QED BY <3>2, <3>3, <3>4
    <2> QED BY <1>7, <2>1
  <1>10. CASE p.stream_idx = i
    <2> DEFINE prefix == Prefix(p)
               piece == Piece(FrameNo(n), FrameSize(p) - StillLeft(unit', n))
    <2>1. /\ Got(out', pid, i = 0).pieces = (c \o prefix) \o piece
          /\ StillLeft(unit', n) \in 0..FrameSize(p)
      <3>0. PICK isVideo \in BOOLEAN : isVideo = (i = 0) OBVIOUS
      <3>4. PICK pre : pre = prefix OBVIOUS
      <3>1. /\ Numbered(p, n, pre, pid, isVideo) /\ Has(out, pid, isVideo, c)
            /\ c \in Seq(StreamPieces)
        BY <3>0, <3>4, <1>4, <1>6, <1>8, <1>9, <1>10 DEF Has, Numbered
      <3> HIDE DEF prefix
      <3>2. Got(out', pid, isVideo).pieces
              = Longer(c \o pre, unit', p, n)
        BY <3>1, FirstPacketRead
      <3>3. StillLeft(unit', n) \in 0..FrameSize(p) BY <3>1, FirstPacketRead
      <3> QED BY <3>0, <3>4, <1>10, <3>2, <3>3 DEF Longer
    <2>2. prefix \in Seq(StreamPieces) /\ piece \in Seq(StreamPieces)
      <3>1. FrameSize(p) \in Nat BY PacketFacts DEF FrameSize
      <3>2. StillLeft(unit', n) <= FrameSize(p) BY <2>1, <3>1
      <3>3. drv.csdLen \in [Tracks -> CsdLens \cup {0}] BY DEF TypeInv, TypeOK
      <3> QED BY <1>5, <3>2, <3>3, ShownType
    <2>3. Recorded(i)' = c \o (prefix \o piece) BY <1>9, <1>10 DEF Shown
    <2> HIDE DEF prefix, piece
    <2>4. (c \o prefix) \o piece = c \o (prefix \o piece) BY <1>9, <2>2
    <2> QED BY <1>6, <2>1, <2>3, <2>4
  <1>11. CASE p.stream_idx # i
    <2>1. StartHeader(p).pid # pid BY <1>2, <1>6, <1>11, PidsApart DEF StartHeader
    <2>2. BaseFile(p).size % 188 = 0 /\ Got(BaseFile(p), pid, i = 0).pieces = c
      BY <1>8, TablesRead
    <2>3. Got(out', pid, i = 0).pieces = Got(BaseFile(p), pid, i = 0).pieces
      BY <1>3, <2>1, <2>2, ForeignPacket
    <2> QED BY <1>6, <1>9, <1>11, <2>2, <2>3
  <1> QED BY <1>10, <1>11

\* So does every later one.
LEMMA NextReadBack ==
    ASSUME TypeInv, Begun, LoopInv, ReadInv, out.size % 188 = 0, WriteFragment
    PROVE  ReadInv'
  <1>1. /\ unit # NoUnit /\ taken' = taken /\ drv' = drv /\ mTrackPid' = mTrackPid
        /\ unit \in UnitType /\ taken[Len(taken)] = unit.p /\ out \in File
        /\ unit.pid = mTrackPid[unit.p.stream_idx] /\ life = "writing" /\ InPlace(unit)
    BY DEF WriteFragment, TypeInv, Begun, LoopInv
  <1>2. Announced /\ unit.p.stream_idx \in Tracks /\ unit.p \in Packets
    BY <1>1, LoopTaken DEF Begun, Tracks
  <1>3. /\ FragmentHead \in Headers /\ FragmentHead.pid = unit.pid
        /\ Packet(out, FragmentHead, out')
        /\ \/ unit' = NoUnit
           \/ unit' \in UnitType /\ unit'.n = unit.n
    <2>1. /\ FragmentHead \in Middles \cup Lasts /\ FragmentHead.pid = unit.pid
          /\ Packet(out, FragmentHead, out')
          /\ \/ unit' = NoUnit
             \/ unit' \in UnitType /\ unit'.n = unit.n
      BY FragmentsPacket
    <2>2. Middles \cup Lasts \subseteq Headers BY DEF Headers
    <2> QED BY <2>1, <2>2
  <1>4. PICK n : n = unit.n OBVIOUS
  <1>5. /\ StillLeft(unit', n) \in Nat /\ \A k : k # n => StillLeft(unit', k) = 0
        /\ n \in Nat /\ unit.left \in Nat
    BY <1>1, <1>3, <1>4, UnitFacts DEF StillLeft
  <1>6. unit.left <= FrameSize(unit.p) /\ FrameSize(unit.p) \in Nat
    <2>1. /\ unit.p.size0 \in Nat /\ unit.p.size1 \in Nat /\ unit.p.data1 \in Int
          /\ unit.ptr \in Int
      BY <1>1, UnitFacts
    <2> QED BY <1>1, <1>5, <2>1, SMTT(30) DEF InPlace, InFirst, FrameSize
  <1>7. drv.csdLen \in [Tracks -> CsdLens \cup {0}] BY DEF TypeInv, TypeOK
  <1> SUFFICES ASSUME NEW i \in Tracks, mTrackPid[i] # 0
               PROVE  Got(out', mTrackPid[i], i = 0).pieces = Recorded(i)'
    BY <1>1 DEF ReadInv
  <1>8. Got(out, mTrackPid[i], i = 0).pieces = Recorded(i) BY DEF ReadInv
  <1>9. /\ unit.p.stream_idx = i =>
              \E c \in Seq(StreamPieces) :
                 /\ Recorded(i) = c \o Shown(unit.p, n, unit.left)
                 /\ Recorded(i)' = c \o Shown(unit.p, n, StillLeft(unit', n))
        /\ unit.p.stream_idx # i => Recorded(i)' = Recorded(i)
    BY <1>1, <1>4, <1>5, RecordedNext
  <1>10. CASE unit.p.stream_idx = i
    <2>1. PICK c \in Seq(StreamPieces) :
             /\ Recorded(i) = c \o Shown(unit.p, n, unit.left)
             /\ Recorded(i)' = c \o Shown(unit.p, n, StillLeft(unit', n))
      BY <1>9, <1>10
    <2> DEFINE prefix == Prefix(unit.p)
               before == Piece(FrameNo(n), FrameSize(unit.p) - unit.left)
               behind == Piece(FrameNo(n), FrameSize(unit.p) - StillLeft(unit', n))
               d == c \o prefix
    <2>2. prefix \in Seq(StreamPieces) /\ before \in Seq(StreamPieces)
      BY <1>2, <1>5, <1>6, <1>7, ShownType
    <2>3. Got(out, unit.pid, i = 0).pieces = c \o (prefix \o before)
      BY <1>1, <1>8, <1>10, <2>1 DEF Shown
    <2>4. Recorded(i)' = c \o (prefix \o behind) BY <2>1 DEF Shown
    <2>5. c \o (prefix \o before) = d \o before /\ d \in Seq(StreamPieces)
      <3> HIDE DEF prefix, before
      <3> QED BY <2>2
    <2>6. /\ Got(out', unit.pid, i = 0).pieces = d \o behind
          /\ StillLeft(unit', n) \in 0..unit.left
      <3>1. PICK e \in Seq(StreamPieces) : e = d BY <2>5
      <3>2. Has(out, unit.pid, i = 0, e \o Piece(FrameNo(n), FrameSize(unit.p) - unit.left))
        BY <2>3, <2>5, <3>1 DEF Has
      <3> HIDE DEF d
      <3>3. n \in {unit.n} BY <1>4
      <3>4. /\ Got(out', unit.pid, i = 0).pieces
                 = e \o Piece(FrameNo(n), FrameSize(unit.p) - StillLeft(unit', n))
            /\ StillLeft(unit', n) \in 0..unit.left
        BY <3>2, <3>3, NextPacketRead
      <3> QED BY <3>1, <3>4
    <2>7. behind \in Seq(StreamPieces)
      <3>1. StillLeft(unit', n) <= FrameSize(unit.p) BY <1>5, <1>6, <2>6
      <3> QED BY <1>2, <1>5, <1>7, <3>1, ShownType
    <2>8. d \o behind = c \o (prefix \o behind)
      <3> HIDE DEF prefix, behind
      <3> QED BY <2>2, <2>7
    <2> QED BY <1>1, <1>10, <2>4, <2>6, <2>8
  <1>11. CASE unit.p.stream_idx # i
    <2>1. FragmentHead.pid # mTrackPid[i] BY <1>1, <1>2, <1>3, <1>11, PidsApart
    <2>2. Got(out', mTrackPid[i], i = 0).pieces = Got(out, mTrackPid[i], i = 0).pieces
      BY <1>1, <1>3, <2>1, ForeignPacket
    <2> QED BY <1>8, <1>9, <1>11, <2>2
  <1> QED BY <1>10, <1>11

\* Every operation keeps what is read what was recorded.
LEMMA NextRead ==
    FramesFit /\ AudioCounted /\ TypeInv /\ Begun /\ LoopInv /\ WholeInv /\ ReadInv
      /\ [Next]_vars => ReadInv'
  <1> SUFFICES ASSUME FramesFit, AudioCounted, TypeInv, Begun, LoopInv, WholeInv, ReadInv,
                      [Next]_vars
               PROVE  ReadInv'
    OBVIOUS
  <1>1. out.size % 188 = 0 BY DEF LoopInv, WholeInv, Whole
  <1>2. CASE \E p \in Packets : WriteAccessUnit(p) BY <1>1, <1>2, FirstReadBack
  <1>3. CASE WriteFragment BY <1>1, <1>3, NextReadBack
  <1>4. CASE life \in {"none", "opened"} /\ out' = out /\ taken' = taken
    <2>1. out.segs = <<>> /\ taken = <<>> BY <1>4 DEF Begun
    <2> QED BY <1>4, <2>1, NothingRead
  <1>5. CASE UNCHANGED <<drv, muxVars>>
    <2>1. UNCHANGED <<drv, mTrackPid, out, unit, taken>> BY <1>5 DEF muxVars
    <2> QED BY <2>1 DEF ReadInv, Got, Recorded, Written, Prefix
  <1>6. CASE UNCHANGED vars
    <2>1. UNCHANGED <<drv, mTrackPid, out, unit, taken>> BY <1>6 DEF vars
    <2> QED BY <2>1 DEF ReadInv, Got, Recorded, Written, Prefix
  <1>7. CASE SetStream \/ SetCacheMode \/ SetCacheSize
             \/ (\E h264, audio \in BOOLEAN : SetTrackInfo(h264, audio))
             \/ (\E i \in Tracks, l \in CsdLens : WriteCSD(i, l)) \/ WriteHeader
    BY <1>4, <1>7
    DEF SetStream, SetCacheMode, SetCacheSize, SetTrackInfo, WriteCSD, Setup, WriteHeader,
        muxVars
  <1>8. CASE Open \/ (\E p \in Packets : WriteCrashes(p)) \/ WriteTrailer \/ Close
    BY <1>5, <1>8 DEF Open, WriteCrashes, WriteTrailer, Close
  <1> QED BY <1>2, <1>3, <1>6, <1>7, <1>8 DEF Next

\* Of frames that fit, and audio frames whose length can be told, a reader gets
\* back what was recorded, at every moment and whatever frames are handed over
\* in whatever order: the elementary stream of a PID is the frames of its track,
\* each whole, behind its codec data or ADTS header.
THEOREM StreamsAlwaysReadBack == FramesFit /\ AudioCounted /\ Spec => []StreamsReadBack
  <1> SUFFICES ASSUME FramesFit, AudioCounted PROVE Spec => []StreamsReadBack OBVIOUS
  <1>1. Init => LoopInv /\ WholeInv /\ ReadInv
    <2> SUFFICES ASSUME Init PROVE LoopInv /\ WholeInv /\ ReadInv OBVIOUS
    <2>1. LoopInv BY DEF Init, LoopInv, FragmentsFit
    <2>2. out.segs = <<>> /\ taken = <<>> /\ out.size = 0 BY DEF Init
    <2>3. WholeInv
      <3>1. Len(out.segs) = 0 /\ 1..0 = {} /\ 0 % 188 = 0 /\ 0 \div 188 = 0 BY <2>2
      <3> QED BY <2>2, <3>1 DEF WholeInv, Whole
    <2>4. ReadInv BY <2>2, NothingRead
    <2> QED BY <2>1, <2>3, <2>4
  <1>2. TypeInv /\ LoopInv /\ [Next]_vars => LoopInv' BY NextLoop
  <1>3. TypeInv /\ WholeInv /\ [Next]_vars => WholeInv' BY NextWhole
  <1>4. TypeInv /\ Begun /\ LoopInv /\ WholeInv /\ ReadInv /\ [Next]_vars => ReadInv'
    BY NextRead
  <1>5. ReadInv => StreamsReadBack BY DEF ReadInv, StreamsReadBack, Got, Elementary
  <1> QED BY <1>1, <1>2, <1>3, <1>4, <1>5, BegunAlways, TypeInvAlways, PTL DEF Spec
==============================================================================
