------------------------- MODULE CacheWriter_proofs -------------------------
(***************************************************************************)
(* The write cache, for any cache size, any buffer of the C library and    *)
(* any writes: its types, when the callback is called, and that it         *)
(* implements a file without a cache until a write fails.                  *)
(***************************************************************************)
EXTENDS CacheWriter, SequenceTheorems, TLAPS

Cells == Bytes \cup {HOLE}

\* Streams with the fields of NewStream.
StreamTypes ==
    [file : Seq(Cells), held : Seq(Bytes), pos : Nat,
     mWriteErrCnt : 0..(ErrLimit + 2), mWriteErrNO : Errnos \cup {"none"},
     notified : 0..(ErrLimit + 2), row : 0..(ErrLimit + 2),
     lost : BOOLEAN, torn : BOOLEAN]

\* What stdio holds ends where the position is, and fits its buffer.
GoodStream(s) ==
    /\ s \in StreamTypes
    /\ Len(s.held) <= StdioSize /\ Len(s.held) <= s.pos

-----------------------------------------------------------------------------
\* Overlay, with its two cases told apart.
LEMMA OverlayNothing == \A f, p : M!Overlay(f, p, <<>>) = f
BY DEF M!Overlay

\* The length of f, and its i-th cell, after d is written at p.
NewLen(f, p, d) == IF p + Len(d) > Len(f) THEN p + Len(d) ELSE Len(f)
NewCell(f, p, d, i) ==
    IF i > p /\ i <= p + Len(d) THEN d[i - p] ELSE IF i <= Len(f) THEN f[i] ELSE HOLE

\* What is in a file after a write at a position.
LEMMA OverlayValue ==
    ASSUME NEW f \in Seq(Cells), NEW p \in Nat, NEW d \in Seq(Cells), d # <<>>
    PROVE  /\ NewLen(f, p, d) \in Nat
           /\ M!Overlay(f, p, d) = [i \in 1..NewLen(f, p, d) |-> NewCell(f, p, d, i)]
           /\ \A i \in 1..NewLen(f, p, d) : M!Overlay(f, p, d)[i] = NewCell(f, p, d, i)
<1>1. M!Overlay(f, p, d) = [i \in 1..NewLen(f, p, d) |-> NewCell(f, p, d, i)]
  BY DEF M!Overlay, NewLen, NewCell
<1> QED
  BY <1>1 DEF NewLen

\* What a write makes of the contents are contents.
LEMMA OverlayType ==
    ASSUME NEW f \in Seq(Cells), NEW p \in Nat, NEW d \in Seq(Cells)
    PROVE  /\ M!Overlay(f, p, d) \in Seq(Cells)
           /\ d # <<>> => Len(M!Overlay(f, p, d)) =
                             IF p + Len(d) > Len(f) THEN p + Len(d) ELSE Len(f)
<1>1. CASE d = <<>>
  BY <1>1, OverlayNothing
<1>2. CASE d # <<>>
  <2> DEFINE n == NewLen(f, p, d)
             g == [i \in 1..n |-> NewCell(f, p, d, i)]
  <2>1. n \in Nat /\ M!Overlay(f, p, d) = g
    BY <1>2, OverlayValue
  <2>2. ASSUME NEW i \in 1..n PROVE NewCell(f, p, d, i) \in Cells
    <3>1. CASE i > p /\ i <= p + Len(d)
      <4>1. i - p \in 1..Len(d)
        BY <3>1
      <4> QED
        BY <3>1, <4>1, ElementOfSeq DEF NewCell
    <3>2. CASE ~(i > p /\ i <= p + Len(d)) /\ i <= Len(f)
      BY <3>2, ElementOfSeq DEF NewCell
    <3>3. CASE ~(i > p /\ i <= p + Len(d)) /\ ~(i <= Len(f))
      BY <3>3 DEF Cells, NewCell
    <3> QED
      BY <3>1, <3>2, <3>3
  <2>3. g \in [1..n -> Cells]
    BY <2>2
  <2> HIDE DEF n
  <2>4. g \in Seq(Cells) /\ Len(g) = n
    BY <2>1, <2>3
  <2> QED
    BY <2>1, <2>4 DEF n, NewLen
<1> QED
  BY <1>1, <1>2

\* Two writes, one behind the other, are one.
LEMMA OverlayBehind ==
    ASSUME NEW f \in Seq(Cells), NEW p \in Nat, NEW a \in Seq(Cells), NEW b \in Seq(Cells)
    PROVE  M!Overlay(M!Overlay(f, p, a), p + Len(a), b) = M!Overlay(f, p, a \o b)
<1>1. CASE a = <<>>
  BY <1>1, OverlayNothing, ConcatEmptySeq
<1>2. CASE b = <<>>
  BY <1>2, OverlayNothing, ConcatEmptySeq
<1>3. CASE a # <<>> /\ b # <<>>
  <2> DEFINE g == M!Overlay(f, p, a)
             q == p + Len(a)
             n == NewLen(f, p, a \o b)
  <2>1. /\ Len(a) \in Nat /\ Len(b) \in Nat /\ Len(f) \in Nat /\ Len(a) > 0 /\ Len(b) > 0
        /\ a \o b \in Seq(Cells) /\ Len(a \o b) = Len(a) + Len(b) /\ a \o b # <<>>
    BY <1>3, EmptySeq, LenProperties, ConcatProperties
  <2>2. \A j \in 1..(Len(a) + Len(b)) :
           (a \o b)[j] = IF j <= Len(a) THEN a[j] ELSE b[j - Len(a)]
    BY ConcatProperties
  <2>3. g \in Seq(Cells) /\ Len(g) = NewLen(f, p, a)
    BY <1>3, OverlayType DEF NewLen
  <2>4. \A i \in 1..NewLen(f, p, a) : g[i] = NewCell(f, p, a, i)
    BY <1>3, OverlayValue
  <2>5. q \in Nat /\ NewLen(g, q, b) = n
    BY <2>1, <2>3 DEF NewLen
  <2> HIDE DEF g
  <2>6. M!Overlay(g, q, b) = [i \in 1..NewLen(g, q, b) |-> NewCell(g, q, b, i)]
    BY <1>3, <2>3, <2>5, OverlayValue
  <2>7. M!Overlay(f, p, a \o b) = [i \in 1..n |-> NewCell(f, p, a \o b, i)]
    BY <2>1, OverlayValue
  <2>8. ASSUME NEW i \in 1..n PROVE NewCell(g, q, b, i) = NewCell(f, p, a \o b, i)
    <3>1. CASE i > q /\ i <= q + Len(b)
      <4>1. i - p \in 1..(Len(a) + Len(b)) /\ ~(i - p <= Len(a)) /\ (i - p) - Len(a) = i - q
        BY <2>1, <3>1
      <4>2. i > p /\ i <= p + Len(a \o b)
        BY <2>1, <3>1
      <4> QED
        BY <2>2, <3>1, <4>1, <4>2 DEF NewCell
    <3>2. CASE i > p /\ i <= q
      <4>1. i - p \in 1..(Len(a) + Len(b)) /\ i - p <= Len(a) /\ ~(i > q) /\ i <= p + Len(a \o b)
        BY <2>1, <3>2
      <4>2. i \in 1..NewLen(f, p, a) /\ i <= Len(g)
        BY <2>1, <2>3, <3>2 DEF NewLen
      <4> QED
        BY <2>2, <2>4, <3>2, <4>1, <4>2 DEF NewCell
    <3>3. CASE i <= p
      <4>1. ~(i > q) /\ ~(i > p)
        BY <2>1, <3>3
      <4>2. i \in 1..NewLen(f, p, a) /\ i <= Len(g)
        BY <2>1, <2>3, <3>3 DEF NewLen
      <4> QED
        BY <2>4, <4>1, <4>2 DEF NewCell
    <3>4. CASE i > q + Len(b)
      <4>1. ~(i <= q + Len(b)) /\ ~(i <= q) /\ ~(i <= p + Len(a \o b)) /\ i <= Len(f)
        BY <2>1, <3>4 DEF NewLen
      <4>2. i \in 1..NewLen(f, p, a) /\ i <= Len(g)
        BY <2>1, <2>3, <4>1 DEF NewLen
      <4> QED
        BY <2>4, <4>1, <4>2 DEF NewCell
    <3> QED
      BY <2>1, <3>1, <3>2, <3>3, <3>4
  <2> HIDE DEF n
  <2>9. M!Overlay(g, q, b) = M!Overlay(f, p, a \o b)
    BY <2>5, <2>6, <2>7, <2>8
  <2> QED
    BY <2>9 DEF g
<1> QED
  BY <1>1, <1>2, <1>3
-----------------------------------------------------------------------------
\* A sequence is what is before any place in it and what is behind.
LEMMA SplitAt ==
    ASSUME NEW S, NEW all \in Seq(S), NEW out \in 0..Len(all)
    PROVE  /\ SubSeq(all, 1, out) \in Seq(S) /\ Len(SubSeq(all, 1, out)) = out
           /\ SubSeq(all, out + 1, Len(all)) \in Seq(S)
           /\ Len(SubSeq(all, out + 1, Len(all))) = Len(all) - out
           /\ SubSeq(all, 1, out) \o SubSeq(all, out + 1, Len(all)) = all
<1>1. Len(all) \in Nat /\ \A i \in 1..Len(all) : all[i] \in S
  BY LenProperties, ElementOfSeq
<1>2. SubSeq(all, 1, out) \in Seq(S) /\ Len(SubSeq(all, 1, out)) = out
  BY <1>1, SubSeqProperties
<1>3. /\ SubSeq(all, out + 1, Len(all)) \in Seq(S)
      /\ Len(SubSeq(all, out + 1, Len(all))) = Len(all) - out
  BY <1>1, SubSeqProperties
<1>4. 1 \in 1..(Len(all) + 1) /\ out \in (1 - 1)..Len(all) /\ Len(all) \in out..Len(all)
  BY <1>1
<1>5. SubSeq(all, 1, out) \o SubSeq(all, out + 1, Len(all)) = SubSeq(all, 1, Len(all))
  BY <1>4, ConcatAdjacentSubSeq
<1>6. SubSeq(all, 1, Len(all)) = all
  BY SubSeqFull
<1> QED
  BY <1>2, <1>3, <1>5, <1>6

\* Data is what a file may hold.
LEMMA BytesAreCells == Seq(Bytes) \subseteq Seq(Cells)
BY SeqMonotonic DEF Cells

\* The contents of the file once stdio, and then the cache, have written what
\* they hold.
Contents(s, c) == M!Overlay(s.file, Origin(s), s.held \o c)

\* Whatever part of what it has stdio writes, the contents to be are the same,
\* and so are the fields it has nothing to do with.
LEMMA TakenKeepsContents ==
    ASSUME NEW s, GoodStream(s), NEW d \in Seq(Bytes), NEW h \in 0..StdioSize,
           h <= Len(s.held) + Len(d), NEW t, t = Taken(s, d, h)
    PROVE  /\ GoodStream(t) /\ t.pos = s.pos + Len(d) /\ Len(t.held) = h
           /\ (t.lost <=> s.lost) /\ (t.torn <=> s.torn) /\ t.mWriteErrCnt = s.mWriteErrCnt
           /\ t.mWriteErrNO = s.mWriteErrNO /\ t.notified = s.notified /\ t.row = s.row
           /\ \A c \in Seq(Bytes) : Contents(t, c) = Contents(s, d \o c)
<1> DEFINE all == s.held \o d
           out == Len(all) - h
           before == SubSeq(all, 1, out)
           behind == SubSeq(all, out + 1, Len(all))
           o == s.pos - Len(s.held)
<1>1. /\ s.held \in Seq(Bytes) /\ s.file \in Seq(Cells) /\ s.pos \in Nat /\ StdioSize \in Nat
      /\ Len(s.held) \in Nat /\ Len(d) \in Nat /\ o \in Nat
  BY CacheAssumption, LenProperties DEF GoodStream, StreamTypes
<1>2. all \in Seq(Bytes) /\ Len(all) = Len(s.held) + Len(d)
  BY <1>1, ConcatProperties
<1>3. out \in 0..Len(all) /\ Len(all) - out = h
  BY <1>1, <1>2
<1> HIDE DEF all, out
<1>4. /\ before \in Seq(Bytes) /\ Len(before) = out
      /\ behind \in Seq(Bytes) /\ Len(behind) = h /\ before \o behind = all
  BY <1>2, <1>3, SplitAt
<1> HIDE DEF before, behind
<1>5. t = [s EXCEPT !.file = M!Overlay(s.file, o, before), !.held = behind, !.pos = s.pos + Len(d)]
  BY DEF Taken, Origin, all, out, before, behind
<1>6. M!Overlay(s.file, o, before) \in Seq(Cells)
  BY <1>1, <1>4, BytesAreCells, OverlayType
<1> DEFINE f == M!Overlay(s.file, o, before)
<1> HIDE DEF f
<1>7a. s \in StreamTypes /\ f \in Seq(Cells) /\ s.pos + Len(d) \in Nat
  BY <1>1, <1>6 DEF GoodStream, f
<1>7. /\ t \in StreamTypes /\ t.file = f /\ t.held = behind /\ t.pos = s.pos + Len(d)
      /\ (t.lost <=> s.lost) /\ (t.torn <=> s.torn) /\ t.mWriteErrCnt = s.mWriteErrCnt
      /\ t.mWriteErrNO = s.mWriteErrNO /\ t.notified = s.notified /\ t.row = s.row
  BY <1>4, <1>5, <1>7a DEF StreamTypes, f
<1>8. GoodStream(t)
  BY <1>1, <1>4, <1>7, SMTT(30) DEF GoodStream
<1>9. ASSUME NEW c \in Seq(Bytes) PROVE Contents(t, c) = Contents(s, d \o c)
  <2>1. Origin(t) = o + Len(before)
    <3>1. Origin(t) = t.pos - Len(t.held)
      BY DEF Origin
    <3>1a. Origin(t) = (s.pos + Len(d)) - h
      BY <1>4, <1>7, <3>1
    <3> HIDE DEF o
    <3>2. Len(before) = Len(s.held) + Len(d) - h
      BY <1>2, <1>4 DEF out
    <3> QED
      BY <1>1, <3>1a, <3>2 DEF o
  <2>2. behind \o c \in Seq(Cells) /\ before \in Seq(Cells)
    BY <1>4, BytesAreCells, ConcatProperties
  <2>3. M!Overlay(f, o + Len(before), behind \o c) = M!Overlay(s.file, o, before \o (behind \o c))
    BY <1>1, <2>2, OverlayBehind, ZenonT(60) DEF f
  <2>4. before \o (behind \o c) = s.held \o (d \o c)
    <3>1. before \o (behind \o c) = (before \o behind) \o c
      <4>1. before \in Seq(Bytes) /\ behind \in Seq(Bytes)
        BY <1>4
      <4> QED
        BY ONLY <4>1, c \in Seq(Bytes), ConcatAssociative, SMTT(30)
    <3>2. (s.held \o d) \o c = s.held \o (d \o c)
      <4> DEFINE held == s.held
      <4>1. held \in Seq(Bytes)
        BY <1>1
      <4> HIDE DEF held
      <4>2. (held \o d) \o c = held \o (d \o c)
        BY ONLY <4>1, d \in Seq(Bytes), c \in Seq(Bytes), ConcatAssociative, SMTT(30)
      <4> QED
        BY <4>2 DEF held
    <3> QED
      BY <1>4, <3>1, <3>2 DEF all
  <2> QED
    BY <1>7, <2>1, <2>3, <2>4 DEF Contents, Origin
<1> QED
  BY <1>4, <1>7, <1>8, <1>9

\* After an error half way the position is where the medium stopped.
LEMMA BrokenIsGood ==
    ASSUME NEW s, GoodStream(s), NEW d \in Seq(Bytes), NEW k \in Nat,
           k <= Len(s.held) + Len(d), NEW t, t = Broken(s, d, k)
    PROVE  /\ GoodStream(t) /\ t.held = <<>> /\ t.lost
           /\ (t.torn <=> s.torn) /\ t.mWriteErrCnt = s.mWriteErrCnt
           /\ t.mWriteErrNO = s.mWriteErrNO /\ t.notified = s.notified /\ t.row = s.row
<1> DEFINE all == s.held \o d
           part == SubSeq(all, 1, k)
           o == s.pos - Len(s.held)
           f == M!Overlay(s.file, o, part)
<1>1. /\ s.held \in Seq(Bytes) /\ s.file \in Seq(Cells) /\ s.pos \in Nat /\ StdioSize \in Nat
      /\ Len(s.held) \in Nat /\ Len(d) \in Nat /\ o \in Nat /\ s \in StreamTypes
  BY CacheAssumption, LenProperties DEF GoodStream, StreamTypes
<1>2. all \in Seq(Bytes) /\ k \in 0..Len(all)
  BY <1>1, ConcatProperties
<1> HIDE DEF all
<1>3. part \in Seq(Cells)
  BY <1>2, SplitAt, BytesAreCells
<1> HIDE DEF part, o
<1>4. f \in Seq(Cells) /\ o + k \in Nat
  BY <1>1, <1>3, OverlayType
<1>5. t = [s EXCEPT !.file = f, !.held = <<>>, !.pos = o + k, !.lost = TRUE]
  BY DEF Broken, Origin, all, part, o
<1> HIDE DEF f
<1>6. /\ t \in StreamTypes /\ t.pos = o + k /\ t.held = <<>> /\ t.lost
      /\ (t.torn <=> s.torn) /\ t.mWriteErrCnt = s.mWriteErrCnt
      /\ t.mWriteErrNO = s.mWriteErrNO /\ t.notified = s.notified /\ t.row = s.row
  <2>1. s \in StreamTypes /\ f \in Seq(Cells) /\ <<>> \in Seq(Bytes) /\ TRUE \in BOOLEAN
    BY <1>1, <1>4
  <2>2. o + k \in Nat
    BY <1>4
  <2> DEFINE q == o + k
  <2>3. q \in Nat /\ t = [s EXCEPT !.file = f, !.held = <<>>, !.pos = q, !.lost = TRUE]
    BY <1>5, <2>2
  <2> HIDE DEF q
  <2>4. /\ t \in StreamTypes /\ t.pos = q /\ t.held = <<>> /\ t.lost
        /\ (t.torn <=> s.torn) /\ t.mWriteErrCnt = s.mWriteErrCnt
        /\ t.mWriteErrNO = s.mWriteErrNO /\ t.notified = s.notified /\ t.row = s.row
    BY <2>1, <2>3 DEF StreamTypes
  <2> QED
    BY <2>4 DEF q
<1> QED
  BY <1>1, <1>4, <1>6 DEF GoodStream

-----------------------------------------------------------------------------
\* The count of file_cache_write never exceeds the errors in a row, as
\* refused writes are not counted, and who was notified saw enough of them.
Counted(s) ==
    /\ s.mWriteErrCnt <= s.row
    /\ s.notified # 0 => s.notified > ErrLimit + 1

\* Where no error is EIO, no write is refused and the count is exact.
NoEIO == "EIO" \notin Errnos
CountedAll(s) ==
    /\ s.mWriteErrNO # "EIO" /\ s.mWriteErrCnt = s.row
    /\ s.row > ErrLimit + 1 => s.notified # 0

\* The counter of errors in a row stops at its bound.
LEMMA CountType ==
    ASSUME NEW n \in 0..(ErrLimit + 2)
    PROVE  Count(n + 1) \in 1..(ErrLimit + 2) /\ Count(n + 1) >= n
           /\ Count(n + 1) = IF n = ErrLimit + 2 THEN n ELSE n + 1
BY CacheAssumption DEF Count

\* The three ends of file_cache_write.
LEMMA WriteOkStep ==
    ASSUME NEW s, GoodStream(s), NEW d \in Seq(Bytes), NEW h \in 0..StdioSize,
           h <= Len(s.held) + Len(d), NEW t, t = WriteOk(s, d, h)
    PROVE  /\ GoodStream(t) /\ (t.lost <=> s.lost) /\ (t.torn <=> s.torn) /\ t.pos = s.pos + Len(d)
           /\ \A c \in Seq(Bytes) : Contents(t, c) = Contents(s, d \o c)
           /\ Counted(s) => Counted(t)
           /\ CountedAll(s) => CountedAll(t)
<1> DEFINE u == Taken(s, d, h)
<1>1. /\ GoodStream(u) /\ u.pos = s.pos + Len(d) /\ (u.lost <=> s.lost) /\ (u.torn <=> s.torn)
      /\ u.mWriteErrNO = s.mWriteErrNO /\ u.notified = s.notified
      /\ \A c \in Seq(Bytes) : Contents(u, c) = Contents(s, d \o c)
  BY TakenKeepsContents
<1>2. t = [u EXCEPT !.mWriteErrCnt = 0, !.row = 0]
  BY DEF WriteOk
<1> HIDE DEF u
<1>3. /\ t \in StreamTypes /\ t.file = u.file /\ t.held = u.held /\ t.pos = u.pos
      /\ t.lost = u.lost /\ t.torn = u.torn /\ t.mWriteErrNO = u.mWriteErrNO
      /\ t.notified = u.notified /\ t.mWriteErrCnt = 0 /\ t.row = 0
  <2>1. u \in StreamTypes /\ 0 \in 0..(ErrLimit + 2)
    BY <1>1, CacheAssumption DEF GoodStream
  <2> QED
    BY <1>2, <2>1 DEF StreamTypes
<1>4. GoodStream(t)
  BY <1>1, <1>3 DEF GoodStream
<1>5. \A c : Contents(t, c) = Contents(u, c)
  BY <1>3 DEF Contents, Origin
<1>6. (Counted(s) => Counted(t)) /\ (CountedAll(s) => CountedAll(t))
  BY <1>1, <1>3, CacheAssumption DEF Counted, CountedAll
<1> QED
  BY <1>1, <1>3, <1>4, <1>5, <1>6

\* A write that fails after some of its bytes is lost, and counted.
LEMMA WriteShortStep ==
    ASSUME NEW s, GoodStream(s), NEW d \in Seq(Bytes), NEW k \in Nat,
           k < Len(s.held) + Len(d), NEW e, e \in Errnos, NEW t, t = WriteShort(s, d, k, e)
    PROVE  /\ GoodStream(t) /\ t.lost /\ (t.torn <=> s.torn)
           /\ Counted(s) => Counted(t)
           /\ NoEIO /\ CountedAll(s) => CountedAll(t)
<1> DEFINE u == Broken(s, d, k)
<1>1. Len(s.held) \in Nat /\ Len(d) \in Nat /\ s.mWriteErrCnt \in 0..(ErrLimit + 2)
      /\ s.row \in 0..(ErrLimit + 2) /\ s.notified \in 0..(ErrLimit + 2)
  BY LenProperties DEF GoodStream, StreamTypes
<1>2. k \in Nat /\ k <= Len(s.held) + Len(d)
  BY <1>1
<1>3. /\ GoodStream(u) /\ u.held = <<>> /\ u.lost /\ (u.torn <=> s.torn)
      /\ u.mWriteErrCnt = s.mWriteErrCnt /\ u.notified = s.notified /\ u.row = s.row
  BY <1>2, BrokenIsGood
<1> DEFINE cnt == Count(s.mWriteErrCnt + 1)
           row == Count(s.row + 1)
           told == IF s.notified = 0 /\ s.mWriteErrCnt > ErrLimit THEN row ELSE s.notified
<1>4. t = [u EXCEPT !.mWriteErrNO = e, !.mWriteErrCnt = cnt, !.notified = told, !.row = row]
  BY <1>3 DEF WriteShort
<1>5. /\ cnt \in 1..(ErrLimit + 2) /\ row \in 1..(ErrLimit + 2)
      /\ cnt = IF s.mWriteErrCnt = ErrLimit + 2 THEN s.mWriteErrCnt ELSE s.mWriteErrCnt + 1
      /\ row = IF s.row = ErrLimit + 2 THEN s.row ELSE s.row + 1
  BY <1>1, CountType
<1> HIDE DEF u, cnt, row
<1>5a. told \in 0..(ErrLimit + 2)
  BY <1>1, <1>5, CacheAssumption
<1>6. /\ t \in StreamTypes /\ t.held = u.held /\ t.pos = u.pos
      /\ t.lost = u.lost /\ t.torn = u.torn /\ t.mWriteErrNO = e
      /\ t.mWriteErrCnt = cnt /\ t.row = row /\ t.notified = told
  <2> HIDE DEF told
  <2>1. /\ u \in StreamTypes /\ e \in Errnos \cup {"none"}
        /\ cnt \in 0..(ErrLimit + 2) /\ row \in 0..(ErrLimit + 2) /\ told \in 0..(ErrLimit + 2)
    BY <1>3, <1>5, <1>5a, CacheAssumption DEF GoodStream
  <2> QED
    BY <1>4, <2>1, ZenonT(60) DEF StreamTypes
<1>7. GoodStream(t)
  BY <1>3, <1>6 DEF GoodStream
<1>8. Counted(s) => Counted(t)
  BY <1>1, <1>5, <1>6, CacheAssumption DEF Counted
<1>9. NoEIO /\ CountedAll(s) => CountedAll(t)
  BY <1>1, <1>5, <1>6, CacheAssumption DEF CountedAll, NoEIO
<1> QED
  BY <1>3, <1>6, <1>7, <1>8, <1>9

\* A write after an error that stays is lost.
LEMMA WriteRefusedStep ==
    ASSUME NEW s, GoodStream(s), s.mWriteErrNO = "EIO", NEW t, t = WriteRefused(s)
    PROVE  /\ GoodStream(t) /\ t.lost /\ (t.torn <=> s.torn)
           /\ Counted(s) => Counted(t)
           /\ ~CountedAll(s)
<1>1. s.row \in 0..(ErrLimit + 2) /\ s.mWriteErrCnt \in 0..(ErrLimit + 2) /\ s \in StreamTypes
  BY DEF GoodStream, StreamTypes
<1>2. Count(s.row + 1) \in 0..(ErrLimit + 2) /\ Count(s.row + 1) >= s.row
  BY <1>1, CountType
<1>3. t = [s EXCEPT !.row = Count(s.row + 1), !.lost = TRUE]
  BY DEF WriteRefused
<1>4. /\ t \in StreamTypes /\ t.held = s.held /\ t.pos = s.pos /\ t.lost
      /\ (t.torn <=> s.torn) /\ t.mWriteErrCnt = s.mWriteErrCnt /\ t.notified = s.notified
      /\ t.row = Count(s.row + 1)
  BY <1>1, <1>2, <1>3 DEF StreamTypes
<1> QED
  BY <1>1, <1>2, <1>4, CacheAssumption DEF GoodStream, Counted, CountedAll

\* What file_cache_write does, whichever way it ends: while nothing is lost,
\* the bytes it was given join the contents and nothing else changes.
LEMMA FileCacheWriteStep ==
    ASSUME NEW s, GoodStream(s), NEW d \in Seq(Bytes), NEW t \in FileCacheWrite(s, d)
    PROVE  /\ GoodStream(t) /\ (s.lost => t.lost) /\ (t.torn <=> s.torn)
           /\ ~t.lost => /\ t.pos = s.pos + Len(d)
                         /\ \A c \in Seq(Bytes) : Contents(t, c) = Contents(s, d \o c)
           /\ Counted(s) => Counted(t)
           /\ NoEIO /\ CountedAll(s) => CountedAll(t)
<1>1. CASE d = <<>>
  <2>1. t = s
    BY <1>1 DEF FileCacheWrite
  <2>2. s.pos \in Nat /\ Len(d) = 0
    BY <1>1 DEF GoodStream, StreamTypes
  <2>3. \A c \in Seq(Bytes) : d \o c = c
    BY <1>1, ConcatEmptySeq
  <2> QED
    BY <2>1, <2>2, <2>3
<1>2. CASE d # <<>> /\ s.mWriteErrNO = "EIO"
  <2>1. t = WriteRefused(s)
    BY <1>2 DEF FileCacheWrite
  <2> QED
    BY <1>2, <2>1, WriteRefusedStep
<1>3. CASE d # <<>> /\ s.mWriteErrNO # "EIO"
  <2> DEFINE all == Len(s.held) + Len(d)
  <2>1. t \in {WriteOk(s, d, h) : h \in {i \in 0..StdioSize : i <= all}} \cup
              {WriteShort(s, d, k, e) : k \in 0..(all - 1), e \in Errnos}
    BY <1>3 DEF FileCacheWrite
  <2>2. ASSUME NEW h \in 0..StdioSize, h <= all, t = WriteOk(s, d, h)
        PROVE  /\ GoodStream(t) /\ (t.lost <=> s.lost) /\ (t.torn <=> s.torn) /\ t.pos = s.pos + Len(d)
               /\ \A c \in Seq(Bytes) : Contents(t, c) = Contents(s, d \o c)
               /\ Counted(s) => Counted(t)
               /\ CountedAll(s) => CountedAll(t)
    BY <2>2, WriteOkStep
  <2>3. ASSUME NEW k \in 0..(all - 1), NEW e, e \in Errnos, t = WriteShort(s, d, k, e)
        PROVE  /\ GoodStream(t) /\ t.lost /\ (t.torn <=> s.torn)
               /\ Counted(s) => Counted(t)
               /\ NoEIO /\ CountedAll(s) => CountedAll(t)
    <3>1. k \in Nat /\ k < Len(s.held) + Len(d) /\ e \in Errnos /\ t = WriteShort(s, d, k, e)
      BY <2>3, LenProperties DEF GoodStream, StreamTypes
    <3> QED
      BY <3>1, WriteShortStep
  <2>4. s.lost => t.lost
    BY <2>1, <2>2, <2>3
  <2> QED
    BY <2>1, <2>2, <2>3, <2>4
<1> QED
  BY <1>1, <1>2, <1>3

\* What no step of a stream takes back, or breaks.
Follows(s, t) ==
    /\ GoodStream(t)
    /\ s.lost => t.lost
    /\ s.torn => t.torn
    /\ Counted(s) => Counted(t)
    /\ NoEIO /\ CountedAll(s) => CountedAll(t)

\* Whatever a write of the cache does, its contents follow those before.
LEMMA WriteFollows ==
    ASSUME NEW s, GoodStream(s), NEW d \in Seq(Bytes), NEW t \in FileCacheWrite(s, d)
    PROVE  /\ Follows(s, t)
           /\ ~t.lost => /\ t.pos = s.pos + Len(d)
                         /\ \A c \in Seq(Bytes) : Contents(t, c) = Contents(s, d \o c)
BY FileCacheWriteStep DEF Follows

\* Two steps follow as one does.
LEMMA FollowsTrans ==
    ASSUME NEW s, NEW t, NEW u, Follows(s, t), Follows(t, u)
    PROVE  Follows(s, u)
BY DEF Follows

\* Writing out what stdio holds changes no contents.
LEMMA DrainedStep ==
    ASSUME NEW s, GoodStream(s), NEW t, t \in Drained(s)
    PROVE  /\ Follows(s, t) /\ t.held = <<>>
           /\ ~t.lost => t.pos = s.pos /\ \A c \in Seq(Bytes) : Contents(t, c) = Contents(s, c)
<1>1. /\ s.pos \in Nat /\ Len(s.held) \in Nat /\ StdioSize \in Nat
      /\ \A c \in Seq(Bytes) : <<>> \o c = c
      /\ <<>> \in Seq(Bytes) /\ Len(<<>>) = 0
  BY CacheAssumption, LenProperties, ConcatEmptySeq DEF GoodStream, StreamTypes
<1>2. ASSUME NEW d \in Seq(Bytes), d = <<>>, NEW h \in 0..StdioSize, h = 0, t = Taken(s, d, h)
      PROVE  /\ Follows(s, t) /\ t.held = <<>> /\ t.pos = s.pos
             /\ \A c \in Seq(Bytes) : Contents(t, c) = Contents(s, c)
  <2>1. h <= Len(s.held) + Len(d)
    BY <1>1, <1>2
  <2> DEFINE u == Taken(s, d, h)
  <2>2. /\ GoodStream(u) /\ u.pos = s.pos + Len(d) /\ Len(u.held) = h
        /\ (u.lost <=> s.lost) /\ (u.torn <=> s.torn) /\ u.mWriteErrCnt = s.mWriteErrCnt
        /\ u.mWriteErrNO = s.mWriteErrNO /\ u.notified = s.notified /\ u.row = s.row
        /\ \A c \in Seq(Bytes) : Contents(u, c) = Contents(s, d \o c)
    BY <2>1, TakenKeepsContents
  <2> HIDE DEF u
  <2>3. u.held = <<>>
    BY <1>2, <2>2, EmptySeq DEF GoodStream, StreamTypes
  <2>4. t = u
    BY <1>2 DEF u
  <2>5. u.pos = s.pos /\ \A c \in Seq(Bytes) : Contents(u, c) = Contents(s, c)
    BY <1>1, <1>2, <2>2
  <2>6. Follows(s, u)
    BY <2>2 DEF Follows, Counted, CountedAll
  <2> QED
    BY <2>3, <2>4, <2>5, <2>6
<1>3. ASSUME NEW d \in Seq(Bytes), d = <<>>, NEW k \in 0..(Len(s.held) - 1), t = Broken(s, d, k)
      PROVE  Follows(s, t) /\ t.held = <<>> /\ t.lost
  <2>1. k \in Nat /\ k <= Len(s.held) + Len(d)
    BY <1>1, <1>3
  <2> DEFINE u == Broken(s, d, k)
  <2>2. /\ GoodStream(u) /\ u.held = <<>> /\ u.lost
        /\ (u.torn <=> s.torn) /\ u.mWriteErrCnt = s.mWriteErrCnt
        /\ u.mWriteErrNO = s.mWriteErrNO /\ u.notified = s.notified /\ u.row = s.row
    BY <2>1, BrokenIsGood
  <2>3. t = u
    BY <1>3
  <2> HIDE DEF u
  <2> QED
    BY <2>2, <2>3 DEF Follows, Counted, CountedAll
<1>4. t = Taken(s, <<>>, 0) \/ \E k \in 0..(Len(s.held) - 1) : t = Broken(s, <<>>, k)
  BY DEF Drained
<1>5. CASE t = Taken(s, <<>>, 0)
  <2>1. PICK d \in Seq(Bytes) : d = <<>>
    BY <1>1
  <2>2. PICK h \in 0..StdioSize : h = 0
    BY <1>1
  <2>3. t = Taken(s, d, h)
    BY <1>5, <2>1, <2>2
  <2> QED
    BY <1>2, <2>1, <2>2, <2>3
<1>6. CASE \E k \in 0..(Len(s.held) - 1) : t = Broken(s, <<>>, k)
  BY <1>1, <1>3, <1>6
<1> QED
  BY <1>4, <1>5, <1>6

\* With nothing held the contents are what the medium has.
LEMMA NothingHeld ==
    ASSUME NEW s, GoodStream(s), s.held = <<>>
    PROVE  Contents(s, <<>>) = s.file
<1>1. s.held \o <<>> = <<>>
  BY ConcatEmptySeq
<1> QED
  BY <1>1, OverlayNothing DEF Contents

\* fseeko moves the position and nothing else.
LEMMA SoughtStep ==
    ASSUME NEW s, GoodStream(s), NEW off \in Int,
           NEW whence \in {"SEEK_SET", "SEEK_CUR", "SEEK_END"},
           NEW t, t \in Sought(s, off, whence)
    PROVE  /\ Follows(s, t)
           /\ ~t.lost => /\ Contents(t, <<>>) = Contents(s, <<>>)
                         /\ t.pos = IF M!Target(Contents(s, <<>>), s.pos, off, whence) < 0 THEN s.pos
                                    ELSE M!Target(Contents(s, <<>>), s.pos, off, whence)
<1>1. PICK d \in Drained(s) :
         t = LET x == M!Target(d.file, d.pos, off, whence)
             IN IF x < 0 \/ (d.lost /\ ~s.lost) THEN d ELSE [d EXCEPT !.pos = x]
  BY DEF Sought
<1>2. /\ Follows(s, d) /\ d.held = <<>>
      /\ ~d.lost => d.pos = s.pos /\ \A c \in Seq(Bytes) : Contents(d, c) = Contents(s, c)
  BY DrainedStep
<1> DEFINE x == M!Target(d.file, d.pos, off, whence)
<1>3. GoodStream(d) /\ d \in StreamTypes /\ d.file \in Seq(Cells) /\ d.pos \in Nat /\ Len(d.file) \in Nat
  BY <1>2, LenProperties DEF Follows, GoodStream, StreamTypes
<1>4. x \in Int
  <2>1. CASE whence = "SEEK_SET"
    BY <1>3, <2>1 DEF M!Target
  <2>2. CASE whence = "SEEK_CUR"
    BY <1>3, <2>2 DEF M!Target
  <2>3. CASE whence = "SEEK_END"
    BY <1>3, <2>3 DEF M!Target
  <2> QED
    BY <2>1, <2>2, <2>3
<1>5. ~d.lost => Contents(s, <<>>) = d.file /\ d.pos = s.pos
  <2>1. Contents(d, <<>>) = d.file
    BY <1>2, <1>3, NothingHeld
  <2>2. <<>> \in Seq(Bytes)
    OBVIOUS
  <2> QED
    BY <1>2, <2>1, <2>2
<1>6. t = IF x < 0 \/ (d.lost /\ ~s.lost) THEN d ELSE [d EXCEPT !.pos = x]
  BY <1>1
<1>7. CASE t = d /\ (x < 0 \/ d.lost)
  <2>1. Contents(d, <<>>) = d.file
    BY <1>2, <1>3, NothingHeld
  <2> QED
    BY <1>2, <1>5, <1>7, <2>1
<1>8. CASE t = [d EXCEPT !.pos = x] /\ ~(x < 0)
  <2> HIDE DEF x
  <2>1. x \in Nat
    BY <1>4, <1>8
  <2>2. /\ t \in StreamTypes /\ t.pos = x /\ t.held = d.held /\ t.file = d.file
        /\ t.lost = d.lost /\ t.torn = d.torn /\ t.mWriteErrCnt = d.mWriteErrCnt
        /\ t.mWriteErrNO = d.mWriteErrNO /\ t.notified = d.notified /\ t.row = d.row
    BY <1>3, <1>8, <2>1 DEF StreamTypes
  <2>3. Len(t.held) = 0 /\ StdioSize \in Nat
    BY <1>2, <2>2, CacheAssumption
  <2>4. GoodStream(t)
    BY <2>1, <2>2, <2>3 DEF GoodStream
  <2>5. Contents(t, <<>>) = d.file
    BY <1>2, <2>2, <2>4, NothingHeld
  <2>6. Follows(s, t)
    BY <1>2, <2>2, <2>4 DEF Follows, Counted, CountedAll
  <2>7. ~t.lost => ~d.lost
    BY <2>2
  <2>8. ~t.lost => M!Target(Contents(s, <<>>), s.pos, off, whence) = x
    BY <1>5, <2>7 DEF x
  <2> QED
    BY <1>5, <1>8, <2>2, <2>5, <2>6, <2>7, <2>8
<1> QED
  BY <1>6, <1>7, <1>8

\* ftruncate cuts or fills the contents, unless stdio holds some of them.
LEMMA CutStep ==
    ASSUME NEW s, GoodStream(s), NEW n \in Nat, NEW t, t = Cut(s, n)
    PROVE  /\ Follows(s, t)
           /\ ~t.torn => /\ t.pos = s.pos /\ s.held = <<>>
                         /\ Contents(t, <<>>) = M!Resized(Contents(s, <<>>), n)
<1> DEFINE f == M!Resized(s.file, n)
           torn == s.torn \/ s.held # <<>>
<1>1. s \in StreamTypes /\ s.file \in Seq(Cells) /\ Len(s.file) \in Nat
  BY LenProperties DEF GoodStream, StreamTypes
<1>2. f \in Seq(Cells)
  <2>1. ASSUME NEW i \in 1..n PROVE (IF i <= Len(s.file) THEN s.file[i] ELSE HOLE) \in Cells
    <3>1. CASE i <= Len(s.file)
      BY <1>1, <3>1, ElementOfSeq
    <3>2. CASE ~(i <= Len(s.file))
      BY <3>2 DEF Cells
    <3> QED
      BY <3>1, <3>2
  <2>2. f \in [1..n -> Cells]
    BY <2>1 DEF M!Resized
  <2> QED
    BY <2>2
<1>3. t = [s EXCEPT !.file = f, !.torn = torn]
  BY DEF Cut
<1>4. torn \in BOOLEAN
  OBVIOUS
<1> HIDE DEF f, torn
<1>5. /\ t \in StreamTypes /\ t.file = f /\ t.held = s.held /\ t.pos = s.pos /\ (t.lost <=> s.lost)
      /\ (t.torn <=> torn) /\ t.mWriteErrCnt = s.mWriteErrCnt
      /\ t.mWriteErrNO = s.mWriteErrNO /\ t.notified = s.notified /\ t.row = s.row
  BY <1>1, <1>2, <1>3, <1>4 DEF StreamTypes
<1>6. GoodStream(t)
  BY <1>5 DEF GoodStream
<1>7. Follows(s, t)
  BY <1>5, <1>6 DEF Follows, Counted, CountedAll, torn
<1>8. ASSUME ~t.torn PROVE s.held = <<>> /\ Contents(t, <<>>) = M!Resized(Contents(s, <<>>), n)
  <2>1. s.held = <<>>
    BY <1>5, <1>8 DEF torn
  <2>2. Contents(t, <<>>) = f /\ Contents(s, <<>>) = s.file
    BY <1>5, <1>6, <2>1, NothingHeld
  <2> QED
    BY <2>1, <2>2 DEF f
<1> QED
  BY <1>5, <1>7, <1>8

\* What is written behind the contents lands behind what the cache holds.
LEMMA WriteIsBehind ==
    ASSUME NEW s, GoodStream(s), NEW c \in Seq(Bytes), NEW d \in Seq(Bytes)
    PROVE  M!Overlay(Contents(s, c), s.pos + Len(c), d) = Contents(s, c \o d)
<1> DEFINE held == s.held
           o == s.pos - Len(held)
           f == s.file
<1>1. /\ held \in Seq(Bytes) /\ f \in Seq(Cells) /\ s.pos \in Nat
      /\ Len(held) \in Nat /\ Len(c) \in Nat /\ o \in Nat
  BY LenProperties DEF GoodStream, StreamTypes
<1>2. held \o c \in Seq(Cells) /\ Len(held \o c) = Len(held) + Len(c) /\ d \in Seq(Cells)
  BY <1>1, BytesAreCells, ConcatProperties
<1>3. o + Len(held \o c) = s.pos + Len(c)
  BY <1>1, <1>2
<1> HIDE DEF held, o, f
<1>4. M!Overlay(M!Overlay(f, o, held \o c), o + Len(held \o c), d) = M!Overlay(f, o, (held \o c) \o d)
  BY <1>1, <1>2, OverlayBehind, ZenonT(60)
<1>5. (held \o c) \o d = held \o (c \o d)
  <2>1. held \in Seq(Bytes)
    BY <1>1
  <2> QED
    BY ONLY <2>1, c \in Seq(Bytes), d \in Seq(Bytes), ConcatAssociative
<1>6. /\ Contents(s, c) = M!Overlay(f, o, held \o c)
      /\ Contents(s, c \o d) = M!Overlay(f, o, held \o (c \o d))
  BY DEF Contents, Origin, held, o, f
<1> QED
  BY <1>3, <1>4, <1>5, <1>6
-----------------------------------------------------------------------------
\* Between two calls.  The last conjunct is what creating the cache needs:
\* before that it holds nothing.
IInv ==
    /\ life \in {"none", "open", "closed", "gone"}
    /\ cache \in Seq(Bytes) /\ Len(cache) < CacheSize
    /\ GoodStream(stream)
    /\ Counted(stream)
    /\ last.call \in {"none", "write", "seek", "tell", "truncate"} /\ last.n \in Int
    /\ life = "none" => cache = <<>>

\* What Write does: the stream follows, what is left fits the cache, and while
\* nothing is lost the bytes written are behind the contents.
LEMMA WriteStep ==
    ASSUME IInv, NEW d \in Seq(Bytes), Write(d)
    PROVE  /\ Follows(stream, stream')
           /\ cache' \in Seq(Bytes) /\ Len(cache') < CacheSize
           /\ ~stream'.lost => /\ stream'.pos + Len(cache') = stream.pos + Len(cache) + Len(d)
                               /\ Contents(stream', cache') = Contents(stream, cache \o d)
<1> DEFINE total == cache \o d
           first == IF cache # <<>> /\ Len(total) >= CacheSize THEN CacheSize ELSE 0
           direct == IF cache # <<>> /\ Len(total) < CacheSize THEN 0
                     ELSE ((Len(total) - first) \div CacheSize) * CacheSize
           w1 == SubSeq(total, 1, first)
           w2 == SubSeq(total, first + 1, first + direct)
           rest == SubSeq(total, first + direct + 1, Len(total))
<1>1. PICK s1 \in FileCacheWrite(stream, w1) :
         \E s2 \in FileCacheWrite(s1, w2) : stream' = s2
  BY DEF Write
<1>2. stream' \in FileCacheWrite(s1, w2) /\ cache' = rest
  BY <1>1 DEF Write
<1>3. /\ total \in Seq(Bytes) /\ Len(total) = Len(cache) + Len(d)
      /\ Len(cache) \in Nat /\ Len(d) \in Nat /\ Len(total) \in Nat
      /\ CacheSize \in Nat /\ CacheSize > 0
      /\ cache \in Seq(Bytes) /\ Len(cache) < CacheSize /\ GoodStream(stream)
  BY CacheAssumption, ConcatProperties, LenProperties DEF IInv
<1>4. first \in Nat /\ first <= Len(total)
  BY <1>3
<1> HIDE DEF total
<1>5. /\ direct \in Nat /\ first + direct <= Len(total)
      /\ Len(total) - (first + direct) < CacheSize
  <2> DEFINE n == Len(total) - first
  <2>1. n \in Nat
    BY <1>3, <1>4
  <2>2. /\ (n \div CacheSize) * CacheSize \in Nat /\ (n \div CacheSize) * CacheSize <= n
        /\ n - (n \div CacheSize) * CacheSize < CacheSize
    <3> HIDE DEF n
    <3> QED
      BY <1>3, <2>1
  <2>3. CASE cache # <<>> /\ Len(total) < CacheSize
    BY <1>3, <2>3
  <2>4. CASE ~(cache # <<>> /\ Len(total) < CacheSize)
    <3>1. direct = (n \div CacheSize) * CacheSize
      BY <2>4
    <3> HIDE DEF direct
    <3> QED
      <4> DEFINE m == (n \div CacheSize) * CacheSize
      <4>1. direct = m /\ m \in Nat /\ m <= n /\ n - m < CacheSize
        BY <2>2, <3>1
      <4> HIDE DEF m, first
      <4> QED
        BY <1>3, <1>4, <4>1
  <2> QED
    BY <2>3, <2>4
<1> HIDE DEF first, direct
<1>6. /\ w1 \in Seq(Bytes) /\ Len(w1) = first
      /\ SubSeq(total, first + 1, Len(total)) \in Seq(Bytes)
      /\ w1 \o SubSeq(total, first + 1, Len(total)) = total
  <2>1. PICK out \in 0..Len(total) : out = first
    BY <1>3, <1>4
  <2> QED
    BY <1>3, <2>1, SplitAt
<1>7. /\ w2 \in Seq(Bytes) /\ Len(w2) = direct
      /\ rest \in Seq(Bytes) /\ Len(rest) = Len(total) - (first + direct)
      /\ w2 \o rest = SubSeq(total, first + 1, Len(total))
  <2>1. /\ first + 1 \in 1..(Len(total) + 1) /\ first + direct \in ((first + 1) - 1)..Len(total)
        /\ Len(total) \in (first + direct)..Len(total)
    BY <1>3, <1>4, <1>5
  <2>2. w2 \o rest = SubSeq(total, first + 1, Len(total))
    BY <1>3, <2>1, ConcatAdjacentSubSeq
  <2>3. w2 \in Seq(Bytes) /\ Len(w2) = direct
    BY <1>3, <1>4, <1>5, SubSeqProperties, ElementOfSeq
  <2>4. first + direct \in 0..Len(total)
    BY <1>3, <1>4, <1>5
  <2>5. rest \in Seq(Bytes) /\ Len(rest) = Len(total) - (first + direct)
    BY <1>3, <2>4, SplitAt
  <2> QED
    BY <2>2, <2>3, <2>5
<1> HIDE DEF w1, w2, rest
<1>8. /\ Follows(stream, s1)
      /\ ~s1.lost => /\ s1.pos = stream.pos + Len(w1)
                     /\ \A c \in Seq(Bytes) : Contents(s1, c) = Contents(stream, w1 \o c)
  BY <1>1, <1>3, <1>6, WriteFollows
<1>9. GoodStream(s1)
  BY <1>8 DEF Follows
<1>10. /\ Follows(s1, stream')
       /\ ~stream'.lost => /\ stream'.pos = s1.pos + Len(w2)
                           /\ \A c \in Seq(Bytes) : Contents(stream', c) = Contents(s1, w2 \o c)
  BY <1>2, <1>7, <1>9, WriteFollows
<1>11. Follows(stream, stream')
  BY <1>8, <1>10, FollowsTrans
<1>12. ASSUME ~stream'.lost
       PROVE  /\ stream'.pos + Len(cache') = stream.pos + Len(cache) + Len(d)
              /\ Contents(stream', cache') = Contents(stream, cache \o d)
  <2>1. ~s1.lost
    BY <1>10, <1>12 DEF Follows
  <2>2. Contents(stream', rest) = Contents(s1, w2 \o rest)
    BY <1>7, <1>10, <1>12
  <2>3. w2 \o rest \in Seq(Bytes)
    BY <1>6, <1>7
  <2>4. Contents(s1, w2 \o rest) = Contents(stream, w1 \o (w2 \o rest))
    BY <1>8, <2>1, <2>3
  <2>5. w1 \o (w2 \o rest) = total
    BY <1>6, <1>7
  <2>6. stream'.pos = stream.pos + first + direct /\ stream.pos \in Nat
    BY <1>3, <1>4, <1>5, <1>6, <1>7, <1>8, <1>10, <1>12, <2>1 DEF GoodStream, StreamTypes
  <2>7. stream'.pos + Len(rest) = stream.pos + Len(total)
    BY <1>3, <1>4, <1>5, <1>7, <2>6
  <2>8. stream'.pos + Len(rest) = stream.pos + Len(cache) + Len(d)
    BY <1>3, <2>6, <2>7
  <2> QED
    BY <1>2, <2>2, <2>4, <2>5, <2>8 DEF total
<1> QED
  BY <1>2, <1>5, <1>7, <1>11, <1>12

\* What Flush leaves, which Seek, Tell and Truncate begin with.
LEMMA FlushedStep ==
    ASSUME IInv, NEW t, t \in Flushed
    PROVE  /\ Follows(stream, t)
           /\ ~t.lost => /\ t.pos = stream.pos + Len(cache)
                         /\ Contents(t, <<>>) = Contents(stream, cache)
<1>1. /\ GoodStream(stream) /\ cache \in Seq(Bytes) /\ <<>> \in Seq(Bytes)
      /\ cache \o <<>> = cache
  BY ConcatEmptySeq DEF IInv
<1>2. t \in FileCacheWrite(stream, cache)
  BY DEF Flushed
<1>3. /\ Follows(stream, t)
      /\ ~t.lost => /\ t.pos = stream.pos + Len(cache)
                    /\ \A c \in Seq(Bytes) : Contents(t, c) = Contents(stream, cache \o c)
  BY <1>1, <1>2, WriteFollows
<1> QED
  BY <1>1, <1>3

\* A seek flushes the cache and moves the position.
LEMMA SeekStep ==
    ASSUME IInv, NEW off \in Offsets, NEW w \in {"SEEK_SET", "SEEK_CUR", "SEEK_END"}, Seek(off, w)
    PROVE  /\ Follows(stream, stream') /\ cache' = <<>>
           /\ ~stream'.lost =>
                 /\ Contents(stream', <<>>) = Contents(stream, cache)
                 /\ stream'.pos =
                       IF M!Target(Contents(stream, cache), stream.pos + Len(cache), off, w) < 0
                       THEN stream.pos + Len(cache)
                       ELSE M!Target(Contents(stream, cache), stream.pos + Len(cache), off, w)
<1>1. PICK s \in Flushed : stream' \in Sought(s, off, w)
  BY DEF Seek, FlushInto
<1>2. /\ Follows(stream, s)
      /\ ~s.lost => s.pos = stream.pos + Len(cache) /\ Contents(s, <<>>) = Contents(stream, cache)
  BY <1>1, FlushedStep
<1>3. GoodStream(s) /\ off \in Int
  BY <1>2, CacheAssumption DEF Follows
<1>4. /\ Follows(s, stream')
      /\ ~stream'.lost => /\ Contents(stream', <<>>) = Contents(s, <<>>)
                    /\ stream'.pos = IF M!Target(Contents(s, <<>>), s.pos, off, w) < 0 THEN s.pos
                                     ELSE M!Target(Contents(s, <<>>), s.pos, off, w)
  BY <1>1, <1>3, SoughtStep
<1>5. Follows(stream, stream')
  BY <1>2, <1>4, FollowsTrans
<1>6. cache' = <<>>
  BY DEF Seek, FlushInto
<1>7. ~stream'.lost => ~s.lost
  BY <1>4 DEF Follows
<1> QED
  BY <1>2, <1>4, <1>5, <1>6, <1>7

\* A truncation flushes the cache and changes the length.
LEMMA TruncateStep ==
    ASSUME IInv, NEW n \in Lengths, Truncate(n)
    PROVE  /\ Follows(stream, stream') /\ cache' = <<>>
           /\ ~stream'.lost /\ ~stream'.torn =>
                 /\ Contents(stream', <<>>) = M!Resized(Contents(stream, cache), n)
                 /\ stream'.pos = stream.pos + Len(cache)
<1>1. PICK s \in Flushed : stream' = Cut(s, n)
  BY DEF Truncate, FlushInto
<1>2. /\ Follows(stream, s)
      /\ ~s.lost => s.pos = stream.pos + Len(cache) /\ Contents(s, <<>>) = Contents(stream, cache)
  BY <1>1, FlushedStep
<1>3. GoodStream(s) /\ n \in Nat
  BY <1>2, CacheAssumption DEF Follows
<1>4. /\ Follows(s, stream')
      /\ ~stream'.torn => /\ stream'.pos = s.pos /\ s.held = <<>>
                          /\ Contents(stream', <<>>) = M!Resized(Contents(s, <<>>), n)
  BY <1>1, <1>3, CutStep
<1>5. Follows(stream, stream')
  BY <1>2, <1>4, FollowsTrans
<1>6. cache' = <<>>
  BY DEF Truncate, FlushInto
<1>7. ~stream'.lost => ~s.lost
  BY <1>4 DEF Follows
<1> QED
  BY <1>2, <1>4, <1>5, <1>6, <1>7

\* What the cache holds when it is destroyed is lost.
LEMMA DestroyStep ==
    ASSUME IInv, Destroy
    PROVE  /\ Follows(stream, stream')
           /\ ~stream'.lost => cache = <<>> /\ stream' = stream
<1> DEFINE gone == stream.lost \/ cache # <<>>
<1>1. stream \in StreamTypes /\ GoodStream(stream)
  BY DEF IInv, GoodStream
<1>2. stream' = [stream EXCEPT !.lost = gone] /\ gone \in BOOLEAN
  BY DEF Destroy
<1> HIDE DEF gone
<1>3. /\ stream' \in StreamTypes /\ stream'.file = stream.file /\ stream'.held = stream.held
      /\ stream'.pos = stream.pos /\ (stream'.lost <=> gone)
      /\ (stream'.torn <=> stream.torn) /\ stream'.mWriteErrCnt = stream.mWriteErrCnt
      /\ stream'.mWriteErrNO = stream.mWriteErrNO /\ stream'.notified = stream.notified
      /\ stream'.row = stream.row
  BY <1>1, <1>2 DEF StreamTypes
<1>4. GoodStream(stream')
  BY <1>1, <1>3 DEF GoodStream
<1>5. Follows(stream, stream')
  BY <1>3, <1>4 DEF Follows, Counted, CountedAll, gone
<1>6. ASSUME ~stream'.lost PROVE cache = <<>> /\ stream' = stream
  <2>1. ~gone
    BY <1>3, <1>6
  <2>2. ~stream.lost /\ cache = <<>>
    BY <2>1 DEF gone
  <2>3. stream.lost = FALSE /\ gone = FALSE
    BY <1>1, <1>2, <2>1, <2>2 DEF StreamTypes
  <2>4. stream' = stream
    BY <1>1, <1>2, <2>3 DEF StreamTypes
  <2> QED
    BY <2>2, <2>4
<1> QED
  BY <1>5, <1>6
-----------------------------------------------------------------------------
\* The invariant holds at first.
LEMMA InitInvariant == Init => IInv /\ (NoEIO => CountedAll(stream))
<1> SUFFICES ASSUME Init PROVE IInv /\ CountedAll(stream)
  OBVIOUS
<1>1. /\ stream.file = <<>> /\ stream.held = <<>> /\ stream.pos = 0 /\ stream.mWriteErrCnt = 0
      /\ stream.mWriteErrNO = "none" /\ stream.notified = 0 /\ stream.row = 0
      /\ cache = <<>> /\ life = "none"
  BY DEF Init, NewStream
<1>2. stream \in StreamTypes
  BY CacheAssumption DEF Init, NewStream, StreamTypes, Cells
<1>3. Len(stream.held) = 0 /\ Len(cache) = 0
  BY <1>1
<1>4. GoodStream(stream)
  BY <1>1, <1>2, <1>3, CacheAssumption DEF GoodStream
<1>5. last.call = "none" /\ last.n = 0
  BY DEF Init, M!Done
<1>6. Counted(stream) /\ CountedAll(stream)
  BY <1>1, CacheAssumption DEF Counted, CountedAll
<1> QED
  BY <1>1, <1>3, <1>4, <1>5, <1>6, CacheAssumption DEF IInv

\* The record in "last" of a call.
LEMMA DoneFields ==
    \A call, data, n, whence :
        /\ M!Done(call, data, n, whence).call = call
        /\ M!Done(call, data, n, whence).data = data
        /\ M!Done(call, data, n, whence).n = n
        /\ M!Done(call, data, n, whence).whence = whence
BY DEF M!Done

\* Every step keeps it.
LEMMA NextInvariant ==
    ASSUME IInv, [Next]_vars
    PROVE  IInv' /\ Follows(stream, stream')
<1>1. /\ GoodStream(stream) /\ Counted(stream) /\ cache \in Seq(Bytes) /\ Len(cache) < CacheSize
      /\ <<>> \in Seq(Bytes) /\ Len(<<>>) < CacheSize
  BY CacheAssumption DEF IInv
<1>2. Follows(stream, stream)
  BY <1>1 DEF Follows
<1>3. ASSUME NEW t, Follows(stream, t) PROVE GoodStream(t) /\ Counted(t)
  BY <1>1, <1>3 DEF Follows
<1>4. CASE Create
  BY <1>1, <1>2, <1>4 DEF Create, IInv
<1>5. CASE Destroy
  <2>1. Follows(stream, stream')
    BY <1>5, DestroyStep
  <2> QED
    BY <1>1, <1>3, <1>5, <2>1 DEF Destroy, IInv
<1>6. ASSUME NEW d \in Chunks, Write(d) PROVE IInv' /\ Follows(stream, stream')
  <2>1. d \in Seq(Bytes)
    BY CacheAssumption
  <2>2. Follows(stream, stream') /\ cache' \in Seq(Bytes) /\ Len(cache') < CacheSize
    BY <1>6, <2>1, WriteStep
  <2>3. last'.call = "write" /\ last'.n = 0
    BY <1>6, DoneFields DEF Write
  <2>4. life = "open" /\ life' = life
    BY <1>6 DEF Write
  <2> QED
    BY <1>3, <2>2, <2>3, <2>4 DEF IInv
<1>7. CASE Flush
  <2>1. Follows(stream, stream')
    BY <1>7, FlushedStep DEF Flush, FlushInto
  <2> QED
    BY <1>1, <1>3, <1>7, <2>1 DEF Flush, FlushInto, IInv
<1>8. ASSUME NEW off \in Offsets, NEW w \in {"SEEK_SET", "SEEK_CUR", "SEEK_END"}, Seek(off, w)
      PROVE  IInv' /\ Follows(stream, stream')
  <2>1. Follows(stream, stream')
    BY <1>8, SeekStep
  <2>2. last'.call = "seek" /\ last'.n = off /\ off \in Int
    BY <1>8, DoneFields, CacheAssumption DEF Seek
  <2> QED
    BY <1>1, <1>3, <1>8, <2>1, <2>2 DEF Seek, FlushInto, IInv
<1>9. CASE Tell
  <2>1. Follows(stream, stream')
    BY <1>9, FlushedStep DEF Tell, FlushInto
  <2>2. GoodStream(stream') /\ Counted(stream')
    BY <1>3, <2>1
  <2>3. last'.call = "tell" /\ last'.n = stream'.pos
    BY <1>9, DoneFields DEF Tell
  <2>4. stream'.pos \in Int
    BY <2>2 DEF GoodStream, StreamTypes
  <2> QED
    BY <1>1, <1>9, <2>1, <2>2, <2>3, <2>4 DEF Tell, FlushInto, IInv
<1>10. ASSUME NEW n \in Lengths, Truncate(n) PROVE IInv' /\ Follows(stream, stream')
  <2>1. Follows(stream, stream')
    BY <1>10, TruncateStep
  <2>2. last'.call = "truncate" /\ last'.n = n /\ n \in Int
    BY <1>10, DoneFields, CacheAssumption DEF Truncate
  <2> QED
    BY <1>1, <1>3, <1>10, <2>1, <2>2 DEF Truncate, FlushInto, IInv
<1>11. CASE CloseStream
  <2>1. Follows(stream, stream')
    BY <1>1, <1>11, DrainedStep DEF CloseStream
  <2> QED
    BY <1>1, <1>3, <1>11, <2>1 DEF CloseStream, IInv
<1>12. CASE UNCHANGED vars
  BY <1>2, <1>12 DEF vars, IInv
<1> QED
  BY <1>4, <1>5, <1>6, <1>7, <1>8, <1>9, <1>10, <1>11, <1>12 DEF Next

\* It holds in every state.
LEMMA InvariantHolds == Spec => []IInv
<1>1. Init => IInv
  BY InitInvariant
<1>2. IInv /\ [Next]_vars => IInv'
  BY NextInvariant
<1> QED
  BY <1>1, <1>2, PTL DEF Spec

\* Every state of every run of the cache is well formed: in particular it is
\* never full between two calls, whatever sizes are written.
THEOREM TypeCorrect == Spec => []TypeOK
<1>1. IInv => TypeOK
  <2> SUFFICES ASSUME IInv PROVE TypeOK
    OBVIOUS
  <2>1. Origin(stream) \in Nat
    BY LenProperties DEF IInv, GoodStream, StreamTypes, Origin
  <2> QED
    BY <2>1 DEF IInv, GoodStream, StreamTypes, TypeOK, Cells
<1> QED
  BY <1>1, InvariantHolds, PTL

\* Nobody is told of write errors before ErrLimit + 2 writes in a row failed.
THEOREM NoticeIsLate == Spec => []NoEarlyNotice
<1>1. IInv => NoEarlyNotice
  BY DEF IInv, Counted, NoEarlyNotice
<1> QED
  BY <1>1, InvariantHolds, PTL

\* Where a medium never ends a write with EIO, which file_cache_write answers
\* without counting, as many failures in a row as that are always told.
THEOREM FailuresNotified ==
    ASSUME "EIO" \notin Errnos
    PROVE  Spec => []FailuresAreNotified
<1>1. NoEIO
  BY DEF NoEIO
<1>2. Init => CountedAll(stream)
  BY <1>1, InitInvariant
<1>3. IInv /\ CountedAll(stream) /\ [Next]_vars => CountedAll(stream)'
  <2> SUFFICES ASSUME IInv, CountedAll(stream), [Next]_vars PROVE CountedAll(stream')
    OBVIOUS
  <2>1. Follows(stream, stream')
    BY NextInvariant
  <2> QED
    BY <1>1, <2>1 DEF Follows
<1>4. CountedAll(stream) => FailuresAreNotified
  BY DEF CountedAll, FailuresAreNotified
<1> QED
  BY <1>2, <1>3, <1>4, InvariantHolds, PTL DEF Spec
-----------------------------------------------------------------------------
\* The file without a cache, with its contents and position as the cache's
\* user sees them.
At == stream.pos + Len(cache)
Failed == stream.lost \/ stream.torn

\* The operators the refinement maps to are those of the model.
LEMMA SameOperators ==
    /\ \A f, p, d : Unbuffered!Overlay(f, p, d) = M!Overlay(f, p, d)
    /\ \A f, n : Unbuffered!Resized(f, n) = M!Resized(f, n)
    /\ \A f, p, off, w : Unbuffered!Target(f, p, off, w) = M!Target(f, p, off, w)
    /\ \A c, d, n, w : Unbuffered!Done(c, d, n, w) = M!Done(c, d, n, w)
<1>1. \A f, p, d : Unbuffered!Overlay(f, p, d) = M!Overlay(f, p, d)
  BY DEF Unbuffered!Overlay, M!Overlay
<1>2. \A f, n : Unbuffered!Resized(f, n) = M!Resized(f, n)
  BY DEF Unbuffered!Resized, M!Resized
<1>3. \A f, p, off, w : Unbuffered!Target(f, p, off, w) = M!Target(f, p, off, w)
  BY DEF Unbuffered!Target, M!Target
<1>4. \A c, d, n, w : Unbuffered!Done(c, d, n, w) = M!Done(c, d, n, w)
  BY DEF Unbuffered!Done, M!Done
<1> QED
  BY <1>1, <1>2, <1>3, <1>4

\* The file as the abstract specification sees it.
LEMMA LogicalIsContents ==
    Logical = Contents(stream, cache) /\ Logical' = Contents(stream', cache')
BY DEF Logical, Contents, Origin

\* The initial states map to initial states.
LEMMA InitImplements == Init => Unbuffered!Init
<1> SUFFICES ASSUME Init PROVE Unbuffered!Init
  OBVIOUS
<1>1. /\ stream.file = <<>> /\ stream.held = <<>> /\ stream.pos = 0
      /\ stream.lost = FALSE /\ stream.torn = FALSE /\ cache = <<>> /\ Len(cache) = 0
  BY DEF Init, NewStream
<1>2. GoodStream(stream)
  BY InitInvariant DEF IInv
<1>3. Logical = <<>>
  BY <1>1, <1>2, NothingHeld, LogicalIsContents
<1>4. last = Unbuffered!Done("none", <<>>, 0, "none")
  BY SameOperators DEF Init
<1> QED
  BY <1>1, <1>3, <1>4 DEF Unbuffered!Init

\* While nothing has failed each call is that call of the file; what the user
\* does not call for changes nothing there.
LEMMA StepImplements ==
    ASSUME IInv, [Next]_vars
    PROVE  [Unbuffered!Next /\ (Failed => Failed')]_<<Logical, At, last, Failed>>
<1>1. Failed => Failed'
  BY NextInvariant DEF Follows, Failed
<1>2. CASE Failed'
  BY <1>1, <1>2 DEF Unbuffered!Next, Failed
<1>3. CASE ~Failed'
  <2>1. ~Failed /\ ~stream'.lost /\ ~stream'.torn
    BY <1>1, <1>3 DEF Failed
  <2>2. Failed' = Failed
    BY <1>3, <2>1 DEF Failed
  <2>3. /\ GoodStream(stream) /\ cache \in Seq(Bytes) /\ stream.pos \in Nat /\ Len(cache) \in Nat
        /\ <<>> \in Seq(Bytes) /\ Len(<<>>) = 0
    BY LenProperties DEF IInv, GoodStream, StreamTypes
  <2>4. Logical = Contents(stream, cache) /\ Logical' = Contents(stream', cache')
    BY LogicalIsContents
  <2>5. At = stream.pos + Len(cache) /\ At' = stream'.pos + Len(cache')
    BY DEF At
  <2>6. CASE UNCHANGED vars
    BY <2>2, <2>4, <2>5, <2>6 DEF vars
  <2>7. CASE Create
    <3>1. cache = <<>> /\ cache' = <<>> /\ stream' = stream /\ last' = last
      BY <2>7 DEF Create, IInv
    <3> QED
      BY <2>2, <2>4, <2>5, <3>1
  <2>8. CASE Destroy
    <3>1. cache = <<>> /\ cache' = <<>> /\ stream' = stream /\ last' = last
      BY <2>1, <2>8, DestroyStep DEF Destroy
    <3> QED
      BY <2>2, <2>4, <2>5, <3>1
  <2>9. CASE Flush
    <3>1. stream' \in Flushed /\ cache' = <<>> /\ last' = last
      BY <2>9 DEF Flush, FlushInto
    <3>2. stream'.pos = stream.pos + Len(cache) /\ Contents(stream', <<>>) = Contents(stream, cache)
      BY <2>1, <3>1, FlushedStep
    <3> QED
      BY <2>2, <2>3, <2>4, <2>5, <3>1, <3>2
  <2>10. CASE CloseStream
    <3>1. stream' \in Drained(stream) /\ cache' = cache /\ last' = last
      BY <2>10 DEF CloseStream
    <3>2. stream'.pos = stream.pos /\ Contents(stream', cache) = Contents(stream, cache)
      BY <2>1, <2>3, <3>1, DrainedStep
    <3> QED
      BY <2>2, <2>4, <2>5, <3>1, <3>2
  <2>11. ASSUME NEW d \in Chunks, Write(d) PROVE Unbuffered!Next
    <3>1. d \in Seq(Bytes) /\ Len(d) \in Nat
      BY CacheAssumption, LenProperties
    <3>2. /\ stream'.pos + Len(cache') = stream.pos + Len(cache) + Len(d)
          /\ Contents(stream', cache') = Contents(stream, cache \o d)
      BY <2>1, <2>11, <3>1, WriteStep
    <3>3. M!Overlay(Contents(stream, cache), stream.pos + Len(cache), d) = Contents(stream, cache \o d)
      BY <2>3, <3>1, WriteIsBehind
    <3>4. last' = M!Done("write", d, 0, "none")
      BY <2>11 DEF Write
    <3>5. last'.call = "write" /\ last'.data = d
      BY <3>4, DoneFields
    <3>6. Logical' = Unbuffered!Overlay(Logical, At, d)
      BY <2>4, <2>5, <3>2, <3>3, SameOperators
    <3>7. At' = At + Len(d)
      BY <2>5, <3>2
    <3>8. last' = Unbuffered!Done("write", d, 0, "none")
      BY <3>4, SameOperators
    <3>9. Unbuffered!Write(last'.data)
      BY <3>5, <3>6, <3>7, <3>8 DEF Unbuffered!Write, At
    <3> QED
      BY <2>1, <3>5, <3>9 DEF Unbuffered!Next
  <2>12. ASSUME NEW off \in Offsets, NEW w \in {"SEEK_SET", "SEEK_CUR", "SEEK_END"}, Seek(off, w)
         PROVE  Unbuffered!Next
    <3>1. /\ cache' = <<>>
          /\ Contents(stream', <<>>) = Contents(stream, cache)
          /\ stream'.pos =
                IF M!Target(Contents(stream, cache), stream.pos + Len(cache), off, w) < 0
                THEN stream.pos + Len(cache)
                ELSE M!Target(Contents(stream, cache), stream.pos + Len(cache), off, w)
      BY <2>1, <2>12, SeekStep
    <3>2. last' = M!Done("seek", <<>>, off, w)
      BY <2>12 DEF Seek
    <3>3. last'.call = "seek" /\ last'.n = off /\ last'.whence = w
      BY <3>2, DoneFields
    <3>4. Logical' = Logical
      BY <2>4, <3>1
    <3>5. GoodStream(stream')
      BY NextInvariant DEF Follows
    <3>6. At' = stream'.pos
      BY <2>3, <2>5, <3>1, <3>5, SMTT(30) DEF GoodStream, StreamTypes
    <3>7. At' = IF Unbuffered!Target(Logical, At, off, w) < 0 THEN At
                ELSE Unbuffered!Target(Logical, At, off, w)
      BY <2>4, <2>5, <3>1, <3>6, SameOperators
    <3>8. last' = Unbuffered!Done("seek", <<>>, off, w)
      BY <3>2, SameOperators
    <3>9. Unbuffered!Seek(last'.n, last'.whence)
      BY <3>3, <3>4, <3>7, <3>8 DEF Unbuffered!Seek, At
    <3> QED
      BY <2>1, <3>3, <3>9 DEF Unbuffered!Next
  <2>13. CASE Tell
    <3>1. stream' \in Flushed /\ cache' = <<>> /\ last' = M!Done("tell", <<>>, stream'.pos, "none")
      BY <2>13 DEF Tell, FlushInto
    <3>2. stream'.pos = stream.pos + Len(cache) /\ Contents(stream', <<>>) = Contents(stream, cache)
      BY <2>1, <3>1, FlushedStep
    <3>3. last'.call = "tell"
      BY <3>1, DoneFields
    <3>4. last' = Unbuffered!Done("tell", <<>>, At, "none")
      BY <2>5, <3>1, <3>2, SameOperators
    <3>5. Logical' = Logical /\ At' = At
      BY <2>3, <2>4, <2>5, <3>1, <3>2
    <3>6. Unbuffered!Tell
      BY <3>4, <3>5 DEF Unbuffered!Tell, At
    <3> QED
      BY <2>1, <3>3, <3>6 DEF Unbuffered!Next
  <2>14. ASSUME NEW n \in Lengths, Truncate(n) PROVE Unbuffered!Next
    <3>1. /\ cache' = <<>> /\ stream'.pos = stream.pos + Len(cache)
          /\ Contents(stream', <<>>) = M!Resized(Contents(stream, cache), n)
      BY <2>1, <2>14, TruncateStep
    <3>2. last' = M!Done("truncate", <<>>, n, "none")
      BY <2>14 DEF Truncate
    <3>3. last'.call = "truncate" /\ last'.n = n
      BY <3>2, DoneFields
    <3>4. Logical' = Unbuffered!Resized(Logical, n) /\ At' = At
      BY <2>3, <2>4, <2>5, <3>1, SameOperators
    <3>5. last' = Unbuffered!Done("truncate", <<>>, n, "none")
      BY <3>2, SameOperators
    <3>6. Unbuffered!Truncate(last'.n)
      BY <3>3, <3>4, <3>5 DEF Unbuffered!Truncate, At
    <3> QED
      BY <2>1, <3>3, <3>6 DEF Unbuffered!Next
  <2> QED
    BY <1>1, <2>6, <2>7, <2>8, <2>9, <2>10, <2>11, <2>12, <2>13, <2>14 DEF Next
<1> QED
  BY <1>2, <1>3

\* The cache with the stream below it implements a file that has neither,
\* until a write fails or a truncation overtakes bytes that stdio holds.
THEOREM CacheIsInvisible == Spec => ImplementsFile
<1>1. Init => Unbuffered!Init
  BY InitImplements
<1>2. IInv /\ [Next]_vars =>
         [Unbuffered!Next /\ (Failed => Failed')]_<<Logical, At, last, Failed>>
  BY StepImplements
<1> QED
  BY <1>1, <1>2, InvariantHolds, PTL
     DEF Spec, ImplementsFile, Unbuffered!Spec, Unbuffered!fileVars, At, Failed
=============================================================================
