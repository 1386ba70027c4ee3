------------------------------ MODULE Mp4Boxes ------------------------------
(***************************************************************************)
(* The boxes inside moov, as mp4_muxer/Mp4Muxer.c writes them: the size of *)
(* each is computed by a function of its own (movGet...TagSize) before its *)
(* writer (mov_write_..._tag) puts header, fields and inner boxes, and a   *)
(* reader who is told a wrong size loses everything behind the box.        *)
(*                                                                         *)
(* What is written is a sequence of items with the bytes each takes: heads *)
(* of boxes and descriptors, with the size they tell, fields, and, of no   *)
(* bytes, the end of what was written for a head.                          *)
(***************************************************************************)
EXTENDS AvcConfig, Sums, FiniteSets

CONSTANTS
    VideoCsds,     \* the codec data of video tracks
    TitleLen       \* strlen(title_info), which tells the date

ASSUME BoxesAssumption == VideoCsds \subseteq Seq(0..255) /\ TitleLen \in Nat

BytesOf(items) == Sum([k \in DOMAIN items |-> items[k].bytes], 1, Len(items))

Field(n) == <<[is |-> "field", bytes |-> n]>>
Copied(d) == <<[is |-> "data", bytes |-> Len(d), data |-> d]>>
Within(head, body) == <<head>> \o body \o <<[is |-> "end", bytes |-> 0, head |-> head]>>
Box(type, size, body) == Within([is |-> "box", bytes |-> 8, type |-> type, size |-> size], body)

-----------------------------------------------------------------------------
\* A track t has a kind, a tag, codec data (or none, <<>>) and the numbers n
\* of its table entries.

StcoSize(t) == (t.n.stco + 4) * 4
StcoTag(t) == Box("stco", StcoSize(t), Field(8) \o Field(4 * t.n.stco))

StszSize(t) == (t.n.stsz + 5) * 4
StszTag(t) == Box("stsz", StszSize(t), Field(12) \o Field(4 * t.n.stsz))

StscSize(t) == (t.n.stsc * 3 + 4) * 4
StscTag(t) == Box("stsc", StscSize(t), Field(8) \o Field(12 * t.n.stsc))

StssSize(t) == (t.n.stss + 4) * 4
StssTag(t) == Box("stss", StssSize(t), Field(8) \o Field(4 * t.n.stss))

\* The first entry of a video track is skipped, one is written at the end.
SttsSize(t) == 16 + 8 * IF t.video THEN t.n.stts ELSE 1
SttsTag(t) ==
    Box("stts", SttsSize(t),
        Field(8) \o IF t.video THEN Field(8 * (t.n.stts - 1)) \o Field(8) ELSE Field(8))

\* descrLength: len, its tag, and as many bytes as len has groups of 7 bits.
DescrLength(len) == len + 1 + (1 + Cardinality({i \in 1..4 : len >= 2^(7 * i)}))

\* putDescr_cache, and what follows.
Descr(tag, len, body) ==
    Within([is |-> "descr", bytes |-> 1 + (DescrLength(len) - len - 2) + 1,
            tag |-> tag, size |-> DescrLength(len)], body)

SpecificInfo(t) == IF t.csd = <<>> THEN 0 ELSE DescrLength(Len(t.csd))
EsdsSize(t) ==
    12 + DescrLength(3 + DescrLength(13 + SpecificInfo(t)) + DescrLength(1))
EsdsTag(t) ==
    Box("esds", EsdsSize(t),
        Field(4)
        \o Descr(3, 3 + DescrLength(13 + SpecificInfo(t)) + DescrLength(1),
             Field(3)
             \o Descr(4, 13 + SpecificInfo(t),
                  Field(13) \o IF t.csd = <<>> THEN <<>>
                               ELSE Descr(5, Len(t.csd), Field(Len(t.csd))))
             \o Descr(6, 1, Field(1))))

\* FFIsomGetAvccSize and ff_isom_write_avcc parse the codec data alike.
Units == [d \in VideoCsds |-> NalUnits(d)]
AvccSize(d) ==
    CASE Len(d) <= 6 -> 0
      [] Len(d) > 6 /\ HasStartCode(d) ->
            6 + 2 + Len(LastOfType(Units[d], SPS)) + 1 + 2 + Len(LastOfType(Units[d], PPS))
      [] Len(d) > 6 /\ ~HasStartCode(d) -> Len(d)
AvccTag(t) ==
    LET d == t.csd
    IN Box("avcC", 8 + AvccSize(d),
           CASE Len(d) <= 6 -> <<>>
             [] Len(d) > 6 /\ HasStartCode(d) ->
                   Field(6) \o Field(2) \o Copied(LastOfType(Units[d], SPS))
                   \o Field(1) \o Field(2) \o Copied(LastOfType(Units[d], PPS))
             [] Len(d) > 6 /\ ~HasStartCode(d) -> Copied(d))

AudioSize(t) == 16 + 8 + 12 + EsdsSize(t)
AudioTag(t) == Box(t.tag, AudioSize(t), Field(4 + 4) \o Field(8) \o Field(12) \o EsdsTag(t))

VideoSize(t) == 16 + 4 + 12 + 18 + 32 + 4 + IF t.tag = "avc1" THEN 8 + AvccSize(t.csd) ELSE 0
VideoTag(t) ==
    Box(t.tag, VideoSize(t),
        Field(4 + 4) \o Field(4 + 12) \o Field(4 + 8 + 4 + 2) \o Field(32) \o Field(4)
        \o IF t.tag = "avc1" THEN AvccTag(t) ELSE <<>>)

StsdSize(t) == 16 + IF t.video THEN VideoSize(t) ELSE AudioSize(t)
StsdTag(t) == Box("stsd", StsdSize(t), Field(8) \o IF t.video THEN VideoTag(t) ELSE AudioTag(t))

-----------------------------------------------------------------------------
StblSize(t) ==
    8 + StsdSize(t) + SttsSize(t) + (IF t.video THEN StssSize(t) ELSE 0)
      + StscSize(t) + StszSize(t) + StcoSize(t)
StblTag(t) ==
    Box("stbl", StblSize(t),
        StsdTag(t) \o SttsTag(t) \o (IF t.video THEN StssTag(t) ELSE <<>>)
        \o StscTag(t) \o StszTag(t) \o StcoTag(t))

DrefTag == Box("dref", 28, Field(8) \o Box("url ", 12, Field(4)))
DinfTag == Box("dinf", 8 + 28, DrefTag)
SmhdTag == Box("smhd", 16, Field(4) \o Field(4))
VmhdTag == Box("vmhd", 20, Field(12))

MinfSize(t) == 8 + (IF t.video THEN 20 ELSE 16) + (8 + 28) + StblSize(t)
MinfTag(t) ==
    Box("minf", MinfSize(t), (IF t.video THEN VmhdTag ELSE SmhdTag) \o DinfTag \o StblTag(t))

\* Mutant of HdlrSize: the zero behind the title is not counted.
HdlrSizeWithoutNul == 32 + TitleLen

HdlrSize == 32 + 1 + TitleLen
HdlrTag == Box("hdlr", HdlrSize, Field(4 + 4 + 4 + 12) \o Field(TitleLen) \o Field(1))

MdhdTag == Box("mdhd", 32, Field(4) \o Field(16) \o Field(4))

MdiaSize(t) == 8 + 32 + HdlrSize + MinfSize(t)
MdiaTag(t) == Box("mdia", MdiaSize(t), MdhdTag \o HdlrTag \o MinfTag(t))

\* Flags, times, id and duration; layer, volume; matrix; width and height.
TkhdTag == Box("tkhd", 92, Field(4 + 20) \o Field(12 + 4) \o Field(36) \o Field(8))

TrakSize(t) == 8 + 92 + MdiaSize(t)
TrakTag(t) == Box("trak", TrakSize(t), TkhdTag \o MdiaTag(t))

MvhdTag == Box("mvhd", 108, Field(4 + 16) \o Field(16) \o Field(36) \o Field(28))

\* movGetMoovTagSize and mov_write_moov_tag; traks holds the tracks that have
\* samples.  geo_available is never set, so there is no udta.
MoovTagSize(traks) ==
    LET size(i) == IF i \in DOMAIN traks THEN TrakSize(traks[i]) ELSE 0
    IN 8 + 108 + size(0) + size(1)
MoovTag(traks) ==
    LET tag(i) == IF i \in DOMAIN traks THEN TrakTag(traks[i]) ELSE <<>>
    IN Box("moov", MoovTagSize(traks), MvhdTag \o tag(0) \o tag(1))

-----------------------------------------------------------------------------
\* The bytes written from the head at k up to its end.  No box lies in a box
\* of its own type, nor a descriptor in one of its tag.
Written(items, k) ==
    LET end == SelectInSubSeq(items, k, Len(items),
                  LAMBDA item : item.is = "end" /\ item.head = items[k])
    IN BytesOf(SubSeq(items, k, end))
Misfits(items) ==
    {k \in DOMAIN items : items[k].is \in {"box", "descr"} /\ items[k].size # Written(items, k)}

\* The pieces of codec data among the items are these, in this order.
Carries(items, pieces) ==
    LET copies == {k \in DOMAIN items : items[k].is = "data"}
    IN \E place \in [DOMAIN pieces -> copies] :
          /\ \A j, k \in DOMAIN pieces : j < k => place[j] < place[k]
          /\ \A c \in copies : \E k \in DOMAIN pieces : place[k] = c
          /\ \A k \in DOMAIN pieces : items[place[k]].data = pieces[k]
=============================================================================
