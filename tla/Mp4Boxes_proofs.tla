---------------------------- MODULE Mp4Boxes_proofs ----------------------------
(***************************************************************************)
(* Proofs about the boxes of Mp4Boxes: for any tables, codec data and      *)
(* title every box has the size its writer is told.                        *)
(***************************************************************************)
EXTENDS Mp4Boxes, Sums_proofs, SequenceTheorems, FiniteSetTheorems

Byte == 0..255

\* A set of numbers with a bound has a greatest element.
LEMMA Greatest ==
    ASSUME NEW n \in Nat, NEW S, S \subseteq 1..n, S # {}
    PROVE  \E x \in S : \A y \in S : y <= x
  <1> DEFINE T == {n - x : x \in S}
  <1>0. \A x \in S : x \in 1..n /\ n - x \in Nat OBVIOUS
  <1>1. T \subseteq Nat /\ T # {} BY <1>0
  <1>2. PICK m \in T : \A k \in T : m <= k
    <2> HIDE DEF T
    <2> QED BY <1>1, Least
  <1>3. PICK x \in S : m = n - x BY <1>2
  <1>4. \A y \in S : n - y \in T OBVIOUS
  <1>5. \A y \in S : n - x <= n - y BY <1>2, <1>3, <1>4
  <1>6. \A y \in S : y <= x BY <1>5
  <1> QED BY <1>6

-----------------------------------------------------------------------------
\* The parser of codec data makes progress from offsets it can work from, to
\* offsets it can work from, and never leaves the data.

\* Behind the start code at or after p.
LEMMA BehindFacts ==
    ASSUME NEW data \in Seq(Byte), NEW p \in Offsets(data), p # Len(data)
    PROVE  Behind(data, p) \in (p + 1)..Len(data)
  <1> DEFINE N == Len(data)
             J == {j \in p..(N - 1) : data[j + 1] # 0}
  <1>0. N \in Nat OBVIOUS
  <1>1. N \in Nat /\ p \in 0..(N - 1) /\ J # {}
    <2>1. p \in {i \in 0..(N - 1) : \E j \in i..(N - 1) : data[j + 1] # 0} BY DEF Offsets
    <2>2. \E j \in p..(N - 1) : data[j + 1] # 0 BY <2>1
    <2>3. J # {} BY <2>2
    <2> QED BY <1>0, <2>1, <2>3
  <1>2. J \subseteq Nat BY <1>1
  <1>3. PICK j \in J : \A k \in J : j <= k
    <2> HIDE DEF J
    <2> QED BY <1>1, <1>2, Least
  <1>4. \A k \in p..(j - 1) : data[k + 1] = 0 BY <1>1, <1>3
  <1>5. j \in p..(N - 1) /\ data[j + 1] # 0 /\ \A k \in p..(j - 1) : data[k + 1] = 0
    BY <1>3, <1>4
  <1> DEFINE P(i) == data[i + 1] # 0 /\ \A k \in p..(i - 1) : data[k + 1] = 0
             c == CHOOSE i \in p..(N - 1) : P(i)
  <1>6. Behind(data, p) = 1 + c BY DEF Behind
  <1>7. c \in p..(N - 1)
    <2>1. \E i \in p..(N - 1) : P(i) BY <1>5
    <2> HIDE DEF P
    <2> QED BY <2>1
  <1> HIDE DEF c
  <1> QED BY <1>1, <1>6, <1>7

\* Where a start code is found there is one.
LEMMA FoundFacts ==
    ASSUME NEW data \in Seq(Byte), NEW p \in 0..Len(data)
    PROVE  FindStartCode(data, p) \in (p..Len(data)) \cap Offsets(data)
  <1> DEFINE N == Len(data)
             codes == Codes(data, p, N - 4)
             q == CHOOSE x \in codes : \A y \in codes : x <= y
             aligned == p + 4 - (p % 4)
             words == IF aligned < N - 3 THEN aligned ELSE N - 3
             word == q - ((q - words) % 4)
  <1>1. N \in Nat /\ p \in Nat /\ p <= N OBVIOUS
  <1>2. FindStartCode(data, p) = IF codes = {} THEN N
                                 ELSE IF q >= words /\ word < N - 6 THEN q - 1 ELSE q
    BY DEF FindStartCode
  <1>3. N \in Offsets(data) BY DEF Offsets
  <1>4. CASE codes = {} BY <1>1, <1>2, <1>3, <1>4
  <1>5. CASE codes # {}
    <2>1. codes \subseteq Nat BY <1>1 DEF Codes
    <2>2. \E x \in codes : \A y \in codes : x <= y
      <3> HIDE DEF codes
      <3> QED BY <1>5, <2>1, Least
    <2>3. q \in codes
      <3> HIDE DEF codes
      <3> QED BY <2>2
    <2>4. q \in p..(N - 4) /\ Code(data, q) BY <2>3 DEF Codes
    <2> HIDE DEF q
    <2>5. q \in Nat /\ p <= q /\ q <= N - 4 /\ q + 2 <= N - 1 BY <1>1, <2>4
    <2>6. data[q + 3] = 1
      <3>1. SubSeq(data, q + 1, q + 3) = <<0, 0, 1>> BY <2>4 DEF Code
      <3>2. /\ q + 1 \in 1..(N + 1) /\ q + 3 \in (q + 1 - 1)..N /\ 3 \in 1..((q + 3) - (q + 1) + 1)
            /\ (q + 1) + 3 - 1 = q + 3
        BY <1>1, <2>5
      <3>3. SubSeq(data, q + 1, q + 3)[3] = data[(q + 1) + 3 - 1] BY <3>2, SubSeqProperties
      <3>4. data[q + 3] = <<0, 0, 1>>[3] BY <3>1, <3>2, <3>3
      <3>5. <<0, 0, 1>>[3] = 1 OBVIOUS
      <3> QED BY <3>4, <3>5
    <2>7. ASSUME NEW r \in Nat, r <= q PROVE r \in Offsets(data)
      <3>1. r \in 0..(N - 1) /\ q + 2 \in r..(N - 1) /\ (q + 2) + 1 = q + 3 BY <1>1, <2>5, <2>7
      <3>2. data[(q + 2) + 1] # 0 BY <2>6, <3>1
      <3> QED BY <3>1, <3>2 DEF Offsets
    <2>8. CASE q >= words /\ word < N - 6
      <3>1. p % 4 \in 0..3 BY <1>1
      <3>2. aligned \in Nat /\ aligned >= p + 1 BY <1>1, <3>1
      <3>3. aligned < N - 3 BY <1>1, <2>5, <2>8
      <3>4. q - 1 \in Nat /\ q - 1 >= p /\ q - 1 <= N /\ q - 1 <= q
        <4> HIDE DEF aligned
        <4> QED BY <1>1, <2>5, <2>8, <3>2, <3>3
      <3>5. FindStartCode(data, p) = q - 1 BY <1>2, <1>5, <2>8
      <3> QED BY <1>1, <2>7, <3>4, <3>5
    <2>9. CASE ~(q >= words /\ word < N - 6)
      <3>1. FindStartCode(data, p) = q BY <1>2, <1>5, <2>9
      <3> QED BY <1>1, <2>5, <2>7, <3>1
    <2> QED BY <2>8, <2>9
  <1> QED BY <1>4, <1>5

\* Where the unit that begins at p stops, and the unit.
Stop(data, p) == FindStartCode(data, Behind(data, p))
UnitAt(data, p) == SubSeq(data, Behind(data, p) + 1, Stop(data, p))

\* The parser goes on, and a unit is a piece of the data.
LEMMA StopFacts ==
    ASSUME NEW data \in Seq(Byte), NEW p \in Offsets(data), p # Len(data)
    PROVE  /\ Stop(data, p) \in Offsets(data) /\ Stop(data, p) \in (p + 1)..Len(data)
           /\ UnitAt(data, p) \in Seq(Byte)
  <1> DEFINE N == Len(data)
             Off == Offsets(data)
  <1>1. N \in Nat /\ Off \subseteq 0..N BY DEF Offsets
  <1>2. PICK b : b = Behind(data, p) OBVIOUS
  <1>3. b \in (p + 1)..N BY <1>2, BehindFacts
  <1>4. p \in Nat /\ b \in 0..N BY <1>1, <1>3
  <1>5. PICK e : e = FindStartCode(data, b) OBVIOUS
  <1>6. e \in (b..N) \cap Off BY <1>4, <1>5, FoundFacts
  <1>7. e \in (p + 1)..N BY <1>1, <1>3, <1>4, <1>6
  <1>8. b + 1 \in 1..(N + 1) /\ e \in (b + 1 - 1)..N BY <1>1, <1>3, <1>4, <1>6
  <1>9. SubSeq(data, b + 1, e) \in Seq(Byte) BY <1>8, SubSeqProperties
  <1> QED BY <1>2, <1>5, <1>6, <1>7, <1>9 DEF Stop, UnitAt

\* The recursion the parser is defined by has a solution, whose values are
\* rows of pieces of the data.
LEMMA UnitsRecursion ==
    ASSUME NEW data \in Seq(Byte)
    PROVE  \E from :
              /\ from = [p \in Offsets(data) |->
                            IF p = Len(data) THEN <<>>
                            ELSE <<UnitAt(data, p)>> \o from[Stop(data, p)]]
              /\ \A p \in Offsets(data) : from[p] \in Seq(Seq(Byte))
              /\ NalUnits(data) = from[FindStartCode(data, 0)]
  <1> DEFINE N == Len(data)
             Off == Offsets(data)
             stop(p) == Stop(data, p)
             unit(p) == UnitAt(data, p)
             Body(g, p) == IF p = N THEN <<>> ELSE <<unit(p)>> \o g[stop(p)]
             Is(g, c) == g = [p \in Off \cap ((N - c)..N) |-> Body(g, p)]
             C == {c \in 0..N : \E g : Is(g, c)}
  <1>1. N \in Nat /\ Off \subseteq 0..N /\ N \in Off BY DEF Offsets
  <1>0. (N - N)..N = 0..N /\ Off \cap (0..N) = Off
    <2>1. N - N = 0 BY <1>1
    <2>2. Off \cap (0..N) = Off BY <1>1, Zenon
    <2> QED BY <2>1, <2>2
  <1>2. ASSUME NEW p \in Off, p # N
        PROVE  stop(p) \in Off /\ stop(p) \in (p + 1)..N /\ unit(p) \in Seq(Byte)
    BY <1>2, StopFacts
  <1>3. NalUnits(data) = LET from[p \in Off] == Body(from, p) IN from[FindStartCode(data, 0)]
    BY DEF NalUnits, Stop, UnitAt
  <1> HIDE DEF N, Off, stop, unit
  <1>4. 0 \in C
    <2> DEFINE g == [p \in Off \cap ((N - 0)..N) |-> <<>>]
    <2>1. \A p \in Off \cap ((N - 0)..N) : p = N BY <1>1
    <2>2. Is(g, 0) BY <2>1
    <2>3. 0 \in 0..N BY <1>1
    <2> HIDE DEF Is
    <2> QED BY <2>2, <2>3
  <1>5. ASSUME NEW c \in 0..(N - 1), c \in C PROVE c + 1 \in C
    <2>1. PICK g : Is(g, c) BY <1>5
    <2> DEFINE D == Off \cap ((N - c)..N)
               D2 == Off \cap ((N - (c + 1))..N)
               h == [p \in D2 |-> IF p \in D THEN g[p] ELSE Body(g, p)]
    <2>2. D \subseteq D2 /\ \A p \in D2 : p \notin D => p = N - (c + 1) BY <1>1
    <2>3. ASSUME NEW p \in D2, p # N PROVE stop(p) \in D
      <3>1. stop(p) \in Off /\ stop(p) \in (p + 1)..N BY <1>2, <2>3
      <3>2. stop(p) \in (N - c)..N BY <1>1, <2>3, <3>1
      <3> QED BY <3>1, <3>2
    <2>4. ASSUME NEW p \in D2 PROVE h[p] = Body(h, p)
      <3>1. p # N => h[stop(p)] = g[stop(p)] BY <2>2, <2>3
      <3>2. Body(h, p) = Body(g, p) BY <3>1
      <3>3. p \in D => g[p] = Body(g, p)
        <4> HIDE DEF Body
        <4> QED BY <2>1
      <3> QED BY <3>2, <3>3
    <2>5. Is(h, c + 1)
      <3> HIDE DEF Body
      <3>1. h = [p \in D2 |-> h[p]] OBVIOUS
      <3> HIDE DEF h
      <3> QED BY <2>4, <3>1
    <2>6. c + 1 \in 0..N BY <1>1
    <2> QED BY <2>5, <2>6
  <1>6. N \in C
    <2>1. 0 \in Int /\ N \in Int /\ N \in 0..N BY <1>1
    <2> HIDE DEF C
    <2> QED BY <1>4, <1>5, <2>1, IntervalInduction
  <1>7. \E g : g = [p \in Off |-> Body(g, p)]
    <2>1. Off \cap ((N - N)..N) = Off BY <1>0
    <2> HIDE DEF Body
    <2> QED BY <1>6, <2>1
  <1> DEFINE from == CHOOSE g : g = [p \in Off |-> Body(g, p)]
  <1>8. from = [p \in Off |-> Body(from, p)]
    <2> HIDE DEF Body
    <2> QED BY <1>7
  <1>9. NalUnits(data) = from[FindStartCode(data, 0)] BY <1>3
  <1> HIDE DEF from
  <1> DEFINE T == {c \in 0..N : \A p \in Off \cap ((N - c)..N) : from[p] \in Seq(Seq(Byte))}
  <1>10. 0 \in T
    <2>1. \A p \in Off \cap ((N - 0)..N) : p = N BY <1>1
    <2>2. from[N] = <<>> BY <1>1, <1>8
    <2>3. 0 \in 0..N BY <1>1
    <2>4. \A p \in Off \cap ((N - 0)..N) : from[p] \in Seq(Seq(Byte))
      <3>1. <<>> \in Seq(Seq(Byte)) OBVIOUS
      <3> QED BY <2>1, <2>2, <3>1
    <2> QED BY <2>3, <2>4
  <1>11. ASSUME NEW c \in 0..(N - 1), c \in T PROVE c + 1 \in T
    <2>1. ASSUME NEW p \in Off \cap ((N - (c + 1))..N), p \notin (N - c)..N
          PROVE  from[p] \in Seq(Seq(Byte))
      <3>1. p # N /\ p = N - (c + 1) BY <1>1, <2>1
      <3>2. stop(p) \in Off /\ stop(p) \in (p + 1)..N /\ unit(p) \in Seq(Byte) BY <1>2, <3>1
      <3>3. stop(p) \in Off \cap ((N - c)..N) BY <1>1, <3>1, <3>2
      <3>4. from[stop(p)] \in Seq(Seq(Byte)) BY <1>11, <3>3
      <3>5. from[p] = <<unit(p)>> \o from[stop(p)] BY <1>8, <3>1
      <3>6. <<unit(p)>> \in Seq(Seq(Byte)) BY <3>2
      <3> QED BY <3>4, <3>5, <3>6, ConcatProperties
    <2>2. \A p \in Off \cap ((N - c)..N) : from[p] \in Seq(Seq(Byte)) BY <1>11
    <2>3. c + 1 \in 0..N BY <1>1
    <2>4. \A p \in Off \cap ((N - (c + 1))..N) : from[p] \in Seq(Seq(Byte)) BY <2>1, <2>2
    <2> QED BY <2>3, <2>4
  <1>12. N \in T
    <2>1. 0 \in Int /\ N \in Int /\ N \in 0..N BY <1>1
    <2> HIDE DEF T
    <2> QED BY <1>10, <1>11, <2>1, IntervalInduction
  <1>13. Off \cap ((N - N)..N) = Off BY <1>0
  <1>14. \A p \in Off : from[p] \in Seq(Seq(Byte)) BY <1>12, <1>13
  <1>15. from = [p \in Offsets(data) |->
                    IF p = Len(data) THEN <<>> ELSE <<UnitAt(data, p)>> \o from[Stop(data, p)]]
    BY <1>8 DEF N, Off, stop, unit
  <1> QED BY <1>9, <1>14, <1>15 DEF Off

\* The NAL units the parser finds are pieces of the data.
LEMMA UnitsFacts ==
    ASSUME NEW data \in Seq(Byte)
    PROVE  NalUnits(data) \in Seq(Seq(Byte))
  <1>1. FindStartCode(data, 0) \in Offsets(data)
    <2>1. 0 \in 0..Len(data) OBVIOUS
    <2> QED BY <2>1, FoundFacts
  <1> QED BY <1>1, UnitsRecursion

\* A parameter set is a piece of the data, or nothing.
LEMMA ParameterSet ==
    ASSUME NEW units \in Seq(Seq(Byte)), NEW type
    PROVE  LastOfType(units, type) \in Seq(Byte)
  <1> DEFINE found == {k \in DOMAIN units : units[k][1] % 32 = type}
             last == CHOOSE k \in found : \A l \in found : l <= k
  <1>1. found \subseteq 1..Len(units) /\ Len(units) \in Nat OBVIOUS
  <1>2. LastOfType(units, type) = IF found = {} THEN <<>> ELSE units[last] BY DEF LastOfType
  <1>3. ASSUME found # {} PROVE last \in 1..Len(units)
    <2> HIDE DEF found
    <2>1. \E k \in found : \A l \in found : l <= k BY <1>1, <1>3, Greatest
    <2>2. last \in found BY <2>1
    <2> QED BY <1>1, <2>2
  <1> HIDE DEF found, last
  <1>4. found # {} => units[last] \in Seq(Byte) BY <1>3
  <1> QED BY <1>2, <1>4
-----------------------------------------------------------------------------
\* The types of the boxes.
Type ==
    {"moov", "mvhd", "trak", "tkhd", "mdia", "mdhd", "hdlr", "minf",
     "vmhd", "smhd", "dinf", "dref", "url ", "stbl", "stsd", "avc1",
     "mjpa", "mp4a", "avcC", "esds", "stts", "stss", "stsc", "stsz",
     "stco"}

\* What is written: heads of boxes and of descriptors, fields, copied data,
\* and the ends of what a head began.
Opening == [is : {"box"}, bytes : Nat, type : Type, size : Nat]
        \cup [is : {"descr"}, bytes : Nat, tag : Nat, size : Nat]
Item == Opening \cup [is : {"field"}, bytes : Nat]
        \cup [is : {"data"}, bytes : Nat, data : Seq(Byte)]
        \cup [is : {"end"}, bytes : Nat, head : Opening]

\* The bytes of each item.
Taken(s) == [k \in DOMAIN s |-> s[k].bytes]

EndOf(item, head) == item.is = "end" /\ item.head = head

\* What the head at k began ends at e, after as many bytes as the head tells.
Closes(s, k, e) ==
    /\ EndOf(s[e], s[k]) /\ \A j \in k..(e - 1) : ~EndOf(s[j], s[k])
    /\ Sum(Taken(s), k, e) = s[k].size

\* s takes n bytes, and every box and descriptor in it has its size; none is
\* bigger than s.
Nested(s, n) ==
    /\ s \in Seq(Item) /\ n \in Nat /\ BytesOf(s) = n
    /\ \A j \in 1..Len(s) : s[j].is = "end" => s[j].head.size <= n
    /\ \A k \in 1..Len(s) : s[k].is \in {"box", "descr"} => \E e \in k..Len(s) : Closes(s, k, e)

\* Every box the writer knows has one of the types.
LEMMA TypeFacts ==
    /\ "moov" \in Type /\ "mvhd" \in Type /\ "trak" \in Type /\ "tkhd" \in Type
    /\ "mdia" \in Type /\ "mdhd" \in Type /\ "hdlr" \in Type /\ "minf" \in Type
    /\ "vmhd" \in Type /\ "smhd" \in Type /\ "dinf" \in Type /\ "dref" \in Type
    /\ "url " \in Type /\ "stbl" \in Type /\ "stsd" \in Type /\ "avc1" \in Type
    /\ "mjpa" \in Type /\ "mp4a" \in Type /\ "avcC" \in Type /\ "esds" \in Type
    /\ "stts" \in Type /\ "stss" \in Type /\ "stsc" \in Type /\ "stsz" \in Type
    /\ "stco" \in Type
  BY DEF Type

\* What the parts of an item are.
LEMMA ItemFacts ==
    ASSUME NEW x \in Item
    PROVE  /\ x.bytes \in Nat
           /\ x.is = "end" => x.head \in Opening
           /\ x.is \in {"box", "descr"} => x \in Opening
  BY DEF Item, Opening

\* What the parts of a head are.
LEMMA OpeningFacts ==
    ASSUME NEW h \in Opening
    PROVE  h \in Item /\ h.bytes \in Nat /\ h.size \in Nat /\ h.is \in {"box", "descr"}
  BY DEF Item, Opening

\* The bytes of a sequence of items are the sum of the bytes of each.
LEMMA TakenFacts ==
    ASSUME NEW s, s \in Seq(Item)
    PROVE  /\ BytesOf(s) = Sum(Taken(s), 1, Len(s)) /\ Len(s) \in Nat
           /\ \A k \in 1..Len(s) : Taken(s)[k] = s[k].bytes /\ s[k] \in Item /\ s[k].bytes \in Nat
           /\ Sum(Taken(s), 1, Len(s)) \in Nat
  <1>1. Len(s) \in Nat /\ DOMAIN s = 1..Len(s) /\ \A k \in 1..Len(s) : s[k] \in Item OBVIOUS
  <1>2. \A k \in 1..Len(s) : Taken(s)[k] = s[k].bytes /\ s[k].bytes \in Nat
    <2>1. \A k \in 1..Len(s) : Taken(s)[k] = s[k].bytes BY <1>1 DEF Taken
    <2>2. \A k \in 1..Len(s) : s[k].bytes \in Nat BY <1>1, ItemFacts
    <2> QED BY <2>1, <2>2
  <1>3. Sum(Taken(s), 1, Len(s)) \in Nat
    <2> DEFINE t == Taken(s)
               n == Len(s)
    <2>1. 1 \in Int /\ n \in Int /\ 1 - 1 <= n /\ \A k \in 1..n : t[k] \in Nat /\ n \in (1 - 1)..n
      BY <1>1, <1>2
    <2> HIDE DEF t, n
    <2>2. n \in (1 - 1)..n /\ \A k \in 1..n : t[k] \in Nat
      <3>1. n \in Nat BY <1>1 DEF n
      <3>2. \A k \in 1..n : t[k] \in Nat BY <1>2 DEF t, n
      <3> QED BY <3>1, <3>2
    <2>3. \A k \in (1 - 1)..n : Sum(t, 1, k) \in Nat BY <2>1, <2>2, SumNat
    <2> QED BY <2>2, <2>3 DEF t, n
  <1> QED BY <1>1, <1>2, <1>3 DEF BytesOf, Taken

\* Nothing takes no bytes, and a field takes its own.
LEMMA NestedNothing == Nested(<<>>, 0)
  <1>1. BytesOf(<<>>) = 0
    <2>1. 1 \in Int /\ 1 - 1 = 0 OBVIOUS
    <2>2. Sum([k \in DOMAIN <<>> |-> <<>>[k].bytes], 1, 0) = 0 BY <2>1, SumEmpty
    <2> QED BY <2>2 DEF BytesOf
  <1> QED BY <1>1 DEF Nested

\* An item that opens and ends nothing.
LEMMA NestedItem ==
    ASSUME NEW x \in Item, x.is \in {"field", "data"}
    PROVE  Nested(<<x>>, x.bytes)
  <1> DEFINE s == <<x>>
             t == [k \in DOMAIN s |-> s[k].bytes]
             one == 1
  <1>0. x.bytes \in Nat BY ItemFacts
  <1>1. s \in Seq(Item) /\ Len(s) = 1 /\ s[1] = x /\ x.bytes \in Nat
    <2>1. s \in Seq(Item) /\ Len(s) = 1 /\ s[1] = x OBVIOUS
    <2> QED BY <1>0, <2>1
  <1>2. t[1] = x.bytes OBVIOUS
  <1>3. Sum(t, one, one) = x.bytes
    <2> HIDE DEF t
    <2>1. one \in Int /\ one <= one OBVIOUS
    <2> HIDE DEF one
    <2>2. Sum(t, one, one) = Sum(t, one, one - 1) + t[one] BY <2>1, SumNext
    <2>3. Sum(t, one, one - 1) = 0 BY <2>1, SumEmpty
    <2> QED BY <1>1, <1>2, <2>2, <2>3 DEF one
  <1>4. BytesOf(s) = x.bytes BY <1>1, <1>3 DEF BytesOf
  <1> HIDE DEF s
  <1>5. \A k \in 1..Len(s) : s[k] = x BY <1>1
  <1>6. Nested(s, x.bytes) BY <1>1, <1>4, <1>5 DEF Nested
  <1> QED BY <1>6 DEF s

\* A field.
LEMMA NestedField == ASSUME NEW n \in Nat PROVE Nested(Field(n), n)
  <1> DEFINE x == [is |-> "field", bytes |-> n]
  <1>1. x \in Item /\ x.is = "field" /\ x.bytes = n BY DEF Item
  <1> HIDE DEF x
  <1>2. Nested(<<x>>, n) BY <1>1, NestedItem
  <1> QED BY <1>2 DEF Field, x

\* Copied data.
LEMMA NestedCopied == ASSUME NEW d \in Seq(Byte) PROVE Nested(Copied(d), Len(d))
  <1> DEFINE x == [is |-> "data", bytes |-> Len(d), data |-> d]
  <1>1. Len(d) \in Nat OBVIOUS
  <1>2. x \in Item /\ x.is = "data" /\ x.bytes = Len(d) BY <1>1 DEF Item
  <1> HIDE DEF x
  <1>3. Nested(<<x>>, Len(d)) BY <1>2, NestedItem
  <1> QED BY <1>3 DEF Copied, x

\* Entries k to e of s are in t, moved by l.
Moved(s, t, l, k, e) == \A j \in k..e : t[l + j] = s[j]

\* A part of s, moved to behind l items of t, takes the same bytes there.
LEMMA PartTakes ==
    ASSUME NEW s, NEW t, NEW l \in Nat, NEW k \in Nat, NEW e \in Nat, 1 <= k, k <= e + 1,
           Moved(s, t, l, k, e),
           NEW k2 \in Nat, k2 <= l + k, l + k <= k2, NEW e2 \in Nat, e2 <= l + e, l + e <= e2
    PROVE  Sum(t, k2, e2) = Sum(s, k, e)
  <1> DEFINE n == e - k + 1
             a == k - 1
             b == l + k - 1
             v == [i \in 1..n |-> s[a + i]]
  <1>1. n \in Nat /\ a \in Int /\ b \in Int /\ a + 1 = k /\ a + n = e /\ b + 1 = k2 /\ b + n = e2
    OBVIOUS
  <1>2. \A i \in 1..n : s[a + i] = v[i] OBVIOUS
  <1>3. ASSUME NEW i \in 1..n PROVE t[b + i] = v[i]
    <2>1. a + i \in k..e /\ l + (a + i) = b + i OBVIOUS
    <2> QED BY <1>2, <2>1 DEF Moved
  <1> HIDE DEF n, a, b, v
  <1>4. Sum(s, a + 1, a + n) = Sum(v, 1, n)
    <2>1. a \in Int /\ n \in Nat BY <1>1
    <2> QED BY ONLY <1>2, <2>1, SumShifts
  <1>5. Sum(t, b + 1, b + n) = Sum(v, 1, n)
    <2>1. b \in Int /\ n \in Nat BY <1>1
    <2>2. \A i \in 1..n : t[b + i] = v[i] BY <1>3
    <2> QED BY ONLY <2>1, <2>2, SumShifts
  <1> QED BY <1>1, <1>4, <1>5

\* One behind the other: the bytes add up and the sizes stay right.
LEMMA NestedJoin ==
    ASSUME NEW s, NEW t, NEW m, NEW n, Nested(s, m), Nested(t, n)
    PROVE  Nested(s \o t, m + n)
  <1> DEFINE u == s \o t
             l == Len(s)
             o == Len(t)
             S == Taken(s)
             T == Taken(t)
             U == Taken(u)
  <1>1. /\ s \in Seq(Item) /\ t \in Seq(Item) /\ m \in Nat /\ n \in Nat
        /\ BytesOf(s) = m /\ BytesOf(t) = n
    BY DEF Nested
  <1>2. /\ u \in Seq(Item) /\ Len(u) = l + o
        /\ \A i \in 1..(l + o) : u[i] = IF i <= l THEN s[i] ELSE t[i - l]
    BY <1>1, ConcatProperties
  <1> HIDE DEF u
  <1>3. /\ l \in Nat /\ Sum(S, 1, l) = m
        /\ \A k \in 1..l : S[k] = s[k].bytes /\ s[k] \in Item /\ s[k].bytes \in Nat
    BY <1>1, TakenFacts
  <1>4. /\ o \in Nat /\ Sum(T, 1, o) = n
        /\ \A k \in 1..o : T[k] = t[k].bytes /\ t[k] \in Item /\ t[k].bytes \in Nat
    BY <1>1, TakenFacts
  <1>5. /\ BytesOf(u) = Sum(U, 1, Len(u))
        /\ \A k \in 1..Len(u) : U[k] = u[k].bytes /\ u[k] \in Item /\ u[k].bytes \in Nat
    BY <1>2, TakenFacts
  <1> HIDE DEF l, o, S, T, U
  <1>6. \A k \in 1..l : u[k] = s[k] /\ U[k] = S[k]
    <2>1. \A k \in 1..l : k \in 1..(l + o) /\ k <= l BY <1>3, <1>4
    <2> QED BY <1>2, <1>3, <1>5, <2>1
  <1>7. \A k \in 1..o : u[l + k] = t[k] /\ U[l + k] = T[k]
    <2>1. \A k \in 1..o : l + k \in 1..(l + o) /\ ~(l + k <= l) /\ (l + k) - l = k BY <1>3, <1>4
    <2> QED BY <1>2, <1>4, <1>5, <2>1
  <1>8. BytesOf(u) = m + n
    <2>1. 1 \in Int /\ l + o \in Int /\ l \in (1 - 1)..(l + o) /\ l \in Int /\ 1 - 1 <= l
      BY <1>3, <1>4
    <2>2. \A k \in 1..(l + o) : U[k] \in Nat BY <1>2, <1>5
    <2>3. Sum(U, 1, l + o) = Sum(U, 1, l) + Sum(U, l + 1, l + o) BY <2>1, <2>2, SumSplits
    <2>4. Sum(U, 1, l) = Sum(S, 1, l) BY <1>6, <2>1, SumSame
    <2>5. Sum(U, l + 1, l + o) = Sum(T, 1, o) BY <1>4, <1>7, <2>1, SumShifts
    <2> QED BY <1>2, <1>3, <1>4, <1>5, <2>3, <2>4, <2>5
  <1>9. ASSUME NEW i \in 1..Len(u)
        PROVE  i \in 1..l \/ \E k \in 1..o : i = l + k
    <2>1. CASE i <= l BY <1>2, <1>3, <1>4, <2>1
    <2>2. CASE ~(i <= l)
      <3>1. i - l \in 1..o /\ i = l + (i - l) BY <1>2, <1>3, <1>4, <2>2
      <3> QED BY <3>1
    <2> QED BY <2>1, <2>2
  <1>10. ASSUME NEW j \in 1..Len(u), u[j].is = "end" PROVE u[j].head.size <= m + n
    <2>1. CASE j \in 1..l
      <3>1. u[j] = s[j] BY <1>6, <2>1
      <3>2. s[j].head.size \in Nat /\ s[j].head.size <= m
        BY <1>3, <1>10, <2>1, <3>1, ItemFacts, OpeningFacts DEF Nested, l
      <3> QED BY <1>1, <3>1, <3>2
    <2>2. ASSUME NEW k \in 1..o, j = l + k PROVE u[j].head.size <= m + n
      <3>1. u[j] = t[k] BY <1>7, <2>2
      <3>2. t[k].head.size \in Nat /\ t[k].head.size <= n
        BY <1>4, <1>10, <2>2, <3>1, ItemFacts, OpeningFacts DEF Nested, o
      <3> QED BY <1>1, <3>1, <3>2
    <2> QED BY <1>9, <2>1, <2>2
  <1>11. ASSUME NEW i \in 1..Len(u), u[i].is \in {"box", "descr"}
         PROVE  \E e \in i..Len(u) : Closes(u, i, e)
    <2>1. CASE i \in 1..l
      <3>1. u[i] = s[i] BY <1>6, <2>1
      <3>2. PICK e \in i..l : Closes(s, i, e) BY <1>11, <2>1, <3>1 DEF Nested, l
      <3>3. i \in Nat /\ e \in Nat /\ e \in 1..l /\ i - 1 <= e /\ \A j \in i..e : j \in 1..l
        BY <1>3, <2>1
      <3>4. Sum(U, i, e) = Sum(S, i, e)
        <4>1. \A j \in i..e : U[j] = S[j] BY <1>6, <3>3
        <4>2. i \in Int /\ e \in Int BY <3>3
        <4> QED BY <3>3, <4>1, <4>2, SumSame
      <3>5. u[e] = s[e] /\ \A j \in i..(e - 1) : u[j] = s[j]
        <4>1. \A j \in i..(e - 1) : j \in i..e BY <3>3
        <4> QED BY <1>6, <3>3, <4>1
      <3>6. Closes(u, i, e) BY <3>1, <3>2, <3>4, <3>5 DEF Closes, S, U
      <3>7. e \in i..Len(u) BY <1>2, <1>3, <1>4, <3>3
      <3> QED BY <3>6, <3>7
    <2>2. ASSUME NEW k \in 1..o, i = l + k PROVE \E e \in i..Len(u) : Closes(u, i, e)
      <3>1. u[i] = t[k] BY <1>7, <2>2
      <3>2. PICK e \in k..o : Closes(t, k, e) BY <1>11, <2>2, <3>1 DEF Nested, o
      <3>3. k \in Nat /\ e \in Nat /\ e \in 1..o /\ 1 <= k /\ k <= e + 1 /\ \A j \in k..e : j \in 1..o
        BY <1>4
      <3>4. Sum(U, l + k, l + e) = Sum(T, k, e)
        <4>1. Moved(T, U, l, k, e) BY <1>7, <3>3 DEF Moved
        <4>2. PICK k2 \in Nat, e2 \in Nat : k2 = l + k /\ e2 = l + e BY <1>3, <3>3
        <4>3. k2 <= l + k /\ l + k <= k2 /\ e2 <= l + e /\ l + e <= e2 /\ l \in Nat
          BY <1>3, <3>3, <4>2
        <4>4. Sum(U, k2, e2) = Sum(T, k, e) BY <3>3, <4>1, <4>3, PartTakes
        <4> QED BY <4>2, <4>4
      <3>5. u[l + e] = t[e] /\ \A j \in (l + k)..((l + e) - 1) : ~EndOf(u[j], u[i])
        <4>1. ASSUME NEW j \in (l + k)..((l + e) - 1) PROVE ~EndOf(u[j], u[i])
          <5>1. j - l \in k..(e - 1) /\ j - l \in 1..o /\ l + (j - l) = j BY <1>3, <1>4, <3>3
          <5>2. u[j] = t[j - l] BY <1>7, <5>1
          <5> QED BY <3>1, <3>2, <5>1, <5>2 DEF Closes
        <4> QED BY <1>7, <3>3, <4>1
      <3>6. EndOf(t[e], t[k]) /\ Sum(T, k, e) = t[k].size BY <3>2 DEF Closes, T
      <3>7. Closes(u, l + k, l + e) BY <2>2, <3>1, <3>4, <3>5, <3>6 DEF Closes, U
      <3>8. l + e \in i..Len(u) BY <1>2, <1>3, <1>4, <2>2, <3>3
      <3> QED BY <2>2, <3>7, <3>8
    <2> QED BY <1>9, <2>1, <2>2
  <1>12. m + n \in Nat BY <1>1
  <1>13. Nested(u, m + n) BY <1>2, <1>8, <1>10, <1>11, <1>12 DEF Nested
  <1> QED BY <1>13 DEF u

\* A head and its end around a body: the size the head tells must be its own
\* bytes and those of the body.
LEMMA NestedWithin ==
    ASSUME NEW head \in Opening, NEW body, NEW n, Nested(body, n),
           head.bytes > 0, head.size = head.bytes + n
    PROVE  Nested(Within(head, body), head.size)
  <1> DEFINE last == [is |-> "end", bytes |-> 0, head |-> head]
             front == <<head>> \o body
             u == front \o <<last>>
             l == Len(body)
             B == Taken(body)
             U == Taken(u)
             h == head.bytes
  <1>1. head \in Item /\ h \in Nat /\ head.size \in Nat /\ head.is \in {"box", "descr"}
    BY OpeningFacts
  <1>2. last \in Item /\ last.is = "end" /\ last.head = head /\ last.bytes = 0 BY DEF Item
  <1>3. body \in Seq(Item) /\ n \in Nat /\ BytesOf(body) = n BY DEF Nested
  <1> HIDE DEF last
  <1>4. <<head>> \in Seq(Item) /\ Len(<<head>>) = 1 /\ <<head>>[1] = head BY <1>1
  <1>5. <<last>> \in Seq(Item) /\ Len(<<last>>) = 1 /\ <<last>>[1] = last BY <1>2
  <1>6. /\ front \in Seq(Item) /\ Len(front) = 1 + l
        /\ \A i \in 1..(1 + l) : front[i] = IF i <= 1 THEN <<head>>[i] ELSE body[i - 1]
    BY <1>3, <1>4, ConcatProperties
  <1>7. l \in Nat BY <1>3
  <1> HIDE DEF front
  <1>8. /\ u \in Seq(Item) /\ Len(u) = l + 2
        /\ \A i \in 1..(l + 2) : u[i] = IF i <= 1 + l THEN front[i] ELSE <<last>>[i - (1 + l)]
    <2>1. /\ u \in Seq(Item) /\ Len(u) = Len(front) + Len(<<last>>)
          /\ \A i \in 1..(Len(front) + Len(<<last>>)) :
                u[i] = IF i <= Len(front) THEN front[i] ELSE <<last>>[i - Len(front)]
      BY <1>5, <1>6, ConcatProperties
    <2>2. Len(front) + Len(<<last>>) = l + 2 BY <1>5, <1>6, <1>7
    <2> QED BY <1>6, <2>1, <2>2
  <1> HIDE DEF u
  <1>9. u[1] = head /\ u[l + 2] = last /\ \A k \in 1..l : u[1 + k] = body[k]
    <2>1. 1 \in 1..(1 + l) /\ 1 \in 1..(l + 2) /\ 1 <= 1 + l BY <1>7
    <2>2. u[1] = head BY <1>4, <1>6, <1>8, <2>1
    <2>3. l + 2 \in 1..(l + 2) /\ ~(l + 2 <= 1 + l) /\ (l + 2) - (1 + l) = 1 BY <1>7
    <2>4. u[l + 2] = last BY <1>5, <1>8, <2>3
    <2>5. \A k \in 1..l : /\ 1 + k \in 1..(1 + l) /\ 1 + k \in 1..(l + 2) /\ 1 + k <= 1 + l
                          /\ ~(1 + k <= 1) /\ (1 + k) - 1 = k
      BY <1>7
    <2>6. \A k \in 1..l : u[1 + k] = body[k] BY <1>6, <1>8, <2>5
    <2> QED BY <2>2, <2>4, <2>6
  <1>10. /\ l \in Nat /\ Sum(B, 1, l) = n
         /\ \A k \in 1..l : B[k] = body[k].bytes /\ body[k] \in Item /\ body[k].bytes \in Nat
    BY <1>3, TakenFacts
  <1>11. /\ BytesOf(u) = Sum(U, 1, l + 2)
         /\ \A k \in 1..(l + 2) : U[k] = u[k].bytes /\ u[k] \in Item /\ u[k].bytes \in Nat
    BY <1>8, TakenFacts
  <1> HIDE DEF l, B, U
  <1>12. U[1] = h /\ U[l + 2] = 0 /\ \A k \in 1..l : U[1 + k] = B[k]
    <2>1. 1 \in 1..(l + 2) /\ l + 2 \in 1..(l + 2) /\ \A k \in 1..l : 1 + k \in 1..(l + 2) BY <1>10
    <2> QED BY <1>2, <1>9, <1>10, <1>11, <2>1
  <1>13. Sum(U, 1, l + 2) = h + n
    <2>1. PICK one \in Nat, end \in Nat, mid \in Nat : one = 1 /\ end = l + 2 /\ mid = l + 1
      <3>1. 1 \in Nat /\ l + 2 \in Nat /\ l + 1 \in Nat BY <1>10
      <3> QED BY ONLY <3>1
    <2>2. end \in Int /\ one <= end /\ one <= mid /\ end - 1 = mid /\ one - 1 = 0 /\ one - 1 <= mid
      BY <1>10, <2>1
    <2>3. Sum(U, one, end) = Sum(U, one, end - 1) + U[end] BY <2>2, SumNext
    <2>4. \A k \in one..mid : U[k] \in Nat
      <3>1. \A k \in one..mid : k \in 1..(l + 2) BY <1>10, <2>1
      <3> QED BY <1>11, <3>1
    <2>5. Sum(U, one, mid) = Sum(U, one, one) + Sum(U, one + 1, mid)
      <3>1. one \in (one - 1)..mid BY <2>2
      <3> QED BY <2>2, <2>4, <3>1, SumSplits
    <2>6. Sum(U, one, one) = h
      <3>1. Sum(U, one, one) = Sum(U, one, one - 1) + U[one] BY <2>2, SumNext
      <3>2. Sum(U, one, one - 1) = 0 BY SumEmpty
      <3>3. U[one] = h BY <1>12, <2>1
      <3> QED BY <1>1, <3>1, <3>2, <3>3
    <2>7. Sum(U, one + 1, mid) = n
      <3>1. \A k \in 1..l : U[one + k] = B[k] BY <1>12, <2>1
      <3>2. mid = one + l BY <1>10, <2>1
      <3>3. Sum(U, one + 1, one + l) = Sum(B, 1, l) BY <1>10, <3>1, SumShifts
      <3> QED BY <1>10, <3>2, <3>3
    <2>8. U[end] = 0 BY <1>12, <2>1
    <2>9. Sum(U, one, end - 1) = h + n BY <2>2, <2>5, <2>6, <2>7
    <2>10. h + n + 0 = h + n BY <1>1, <1>3
    <2> QED BY <2>1, <2>3, <2>8, <2>9, <2>10
  <1>14. BytesOf(u) = head.size BY <1>11, <1>13
  <1>15. ASSUME NEW i \in 1..Len(u)
         PROVE  i = 1 \/ i = l + 2 \/ \E k \in 1..l : i = 1 + k
    <2>1. CASE i # 1 /\ i # l + 2
      <3>1. i - 1 \in 1..l /\ i = 1 + (i - 1) BY <1>8, <1>10, <2>1
      <3> QED BY <3>1
    <2> QED BY <2>1
  <1>16. n < head.size BY <1>1, <1>3
  <1>17. ASSUME NEW k \in 1..l, body[k].is = "end"
         PROVE  body[k].head.size \in Nat /\ body[k].head.size <= n /\ body[k].head # head
    <2>1. body[k].head.size \in Nat BY <1>10, <1>17, ItemFacts, OpeningFacts
    <2>2. body[k].head.size <= n BY <1>17 DEF Nested, l
    <2> QED BY <1>1, <1>3, <1>16, <2>1, <2>2
  <1>18. ASSUME NEW j \in 1..Len(u), u[j].is = "end" PROVE u[j].head.size <= head.size
    <2>1. CASE j = 1 BY <1>1, <1>9, <1>18, <2>1
    <2>2. CASE j = l + 2 BY <1>1, <1>2, <1>9, <2>2
    <2>3. ASSUME NEW k \in 1..l, j = 1 + k PROVE u[j].head.size <= head.size
      <3>1. u[j] = body[k] BY <1>9, <2>3
      <3> QED BY <1>1, <1>3, <1>16, <1>17, <1>18, <3>1
    <2> QED BY <1>15, <2>1, <2>2, <2>3
  <1>19. Closes(u, 1, l + 2)
    <2>1. EndOf(u[l + 2], u[1]) BY <1>2, <1>9 DEF EndOf
    <2>2. ASSUME NEW j \in 1..((l + 2) - 1) PROVE ~EndOf(u[j], u[1])
      <3>1. j \in 1..Len(u) /\ j # l + 2 BY <1>8, <1>10
      <3>2. CASE j = 1 BY <1>1, <1>9, <3>2 DEF EndOf
      <3>3. ASSUME NEW k \in 1..l, j = 1 + k PROVE ~EndOf(u[j], u[1])
        <4>1. u[j] = body[k] BY <1>9, <3>3
        <4> QED BY <1>9, <1>17, <4>1 DEF EndOf
      <3> QED BY <1>15, <3>1, <3>2, <3>3
    <2>3. Sum(U, 1, l + 2) = u[1].size BY <1>9, <1>13
    <2> QED BY <2>1, <2>2, <2>3 DEF Closes, U
  <1>20. ASSUME NEW i \in 1..Len(u), u[i].is \in {"box", "descr"}
         PROVE  \E e \in i..Len(u) : Closes(u, i, e)
    <2>1. CASE i = 1
      <3>1. l + 2 \in i..Len(u) BY <1>8, <1>10, <2>1
      <3> QED BY <1>19, <2>1, <3>1
    <2>2. CASE i = l + 2 BY <1>2, <1>9, <1>20, <2>2
    <2>3. ASSUME NEW k \in 1..l, i = 1 + k PROVE \E e \in i..Len(u) : Closes(u, i, e)
      <3>1. u[i] = body[k] BY <1>9, <2>3
      <3>2. PICK e \in k..l : Closes(body, k, e) BY <1>20, <2>3, <3>1 DEF Nested, l
      <3>3. k \in Nat /\ e \in Nat /\ e \in 1..l /\ 1 <= k /\ k <= e + 1 /\ \A j \in k..e : j \in 1..l
        BY <1>10
      <3>4. Sum(U, 1 + k, 1 + e) = Sum(B, k, e)
        <4>0. PICK one \in Nat : one = 1 OBVIOUS
        <4>1. Moved(B, U, one, k, e) BY <1>12, <3>3, <4>0 DEF Moved
        <4>2. PICK k2 \in Nat, e2 \in Nat : k2 = 1 + k /\ e2 = 1 + e BY <3>3
        <4>3. k2 <= one + k /\ one + k <= k2 /\ e2 <= one + e /\ one + e <= e2
          BY <3>3, <4>0, <4>2
        <4>4. Sum(U, k2, e2) = Sum(B, k, e) BY <3>3, <4>1, <4>3, PartTakes
        <4> QED BY <4>2, <4>4
      <3>5. u[1 + e] = body[e] /\ \A j \in (1 + k)..((1 + e) - 1) : ~EndOf(u[j], u[i])
        <4>1. ASSUME NEW j \in (1 + k)..((1 + e) - 1) PROVE ~EndOf(u[j], u[i])
          <5>1. j - 1 \in k..(e - 1) /\ j - 1 \in 1..l /\ 1 + (j - 1) = j BY <1>10, <3>3
          <5>2. u[j] = body[j - 1] BY <1>9, <5>1
          <5> QED BY <3>1, <3>2, <5>1, <5>2 DEF Closes
        <4> QED BY <1>9, <3>3, <4>1
      <3>6. EndOf(body[e], body[k]) /\ Sum(B, k, e) = body[k].size BY <3>2 DEF Closes, B
      <3>7. Closes(u, 1 + k, 1 + e) BY <2>3, <3>1, <3>4, <3>5, <3>6 DEF Closes, U
      <3>8. 1 + e \in i..Len(u) BY <1>8, <1>10, <2>3, <3>3
      <3> QED BY <2>3, <3>7, <3>8
    <2> QED BY <1>15, <2>1, <2>2, <2>3
  <1>21. Nested(u, head.size) BY <1>1, <1>8, <1>14, <1>18, <1>20 DEF Nested
  <1>22. Within(head, body) = u
    <2>1. Within(head, body) = <<head>> \o body \o <<last>> BY DEF Within, last
    <2> QED BY <2>1 DEF u, front
  <1> QED BY <1>21, <1>22

\* A box whose size is told right, and a descriptor.
LEMMA NestedBox ==
    ASSUME NEW type \in Type, NEW size, NEW body, NEW n, Nested(body, n), size = 8 + n
    PROVE  Nested(Box(type, size, body), size) /\ size \in Nat
  <1> DEFINE head == [is |-> "box", bytes |-> 8, type |-> type, size |-> size]
  <1>1. n \in Nat BY DEF Nested
  <1>2. size \in Nat BY <1>1
  <1>3. head \in Opening /\ head.bytes > 0 /\ head.size = head.bytes + n /\ head.size = size
    BY <1>2 DEF Opening
  <1>4. Box(type, size, body) = Within(head, body) BY DEF Box
  <1> HIDE DEF head
  <1>5. Nested(Within(head, body), head.size) BY <1>3, NestedWithin
  <1> QED BY <1>2, <1>3, <1>4, <1>5

\* A descriptor has room for its tag and one byte of its length.
LEMMA DescrFacts ==
    ASSUME NEW len \in Nat
    PROVE  DescrLength(len) \in Nat /\ DescrLength(len) >= len + 2
  <1> DEFINE S == {i \in 1..4 : len >= 2^(7 * i)}
  <1>1. IsFiniteSet(1..4) /\ S \subseteq 1..4
    <2>1. 1 \in Int /\ 4 \in Int OBVIOUS
    <2>2. IsFiniteSet(1..4) BY <2>1, FS_Interval
    <2> QED BY <2>2
  <1> HIDE DEF S
  <1>2. Cardinality(S) \in Nat BY <1>1, FS_Subset, FS_CardinalityType
  <1>3. DescrLength(len) = len + 1 + (1 + Cardinality(S)) BY DEF DescrLength, S
  <1> QED BY <1>2, <1>3

\* A descriptor tells the size of its head and body: descrLength counts the
\* bytes putDescr_cache writes.
LEMMA NestedDescr ==
    ASSUME NEW tag \in Nat, NEW len \in Nat, NEW body, Nested(body, len)
    PROVE  Nested(Descr(tag, len, body), DescrLength(len))
  <1>1. PICK d : d = DescrLength(len) OBVIOUS
  <1>2. d \in Nat /\ d >= len + 2 BY <1>1, DescrFacts
  <1> DEFINE head == [is |-> "descr", bytes |-> 1 + (d - len - 2) + 1, tag |-> tag, size |-> d]
  <1>3. 1 + (d - len - 2) + 1 \in Nat /\ 1 + (d - len - 2) + 1 > 0
        /\ d = 1 + (d - len - 2) + 1 + len
    BY <1>2
  <1>4. head \in Opening /\ head.bytes > 0 /\ head.size = head.bytes + len /\ head.size = d
    BY <1>2, <1>3 DEF Opening
  <1>5. Descr(tag, len, body) = Within(head, body) BY <1>1 DEF Descr
  <1> HIDE DEF head
  <1>6. Nested(Within(head, body), head.size) BY <1>4, NestedWithin
  <1> QED BY <1>1, <1>4, <1>5, <1>6

-----------------------------------------------------------------------------
\* A track with samples: its codec data, its tag and the lengths of its tables.
Track ==
    {t \in [video : BOOLEAN, tag : Type, csd : Seq(Byte),
            n : [stco : Nat, stsz : Nat, stsc : Nat, stts : Nat, stss : Nat]] :
        t.video => t.csd \in VideoCsds \cup {<<>>} /\ t.n.stts > 0}

\* Three parts in a row.
LEMMA NestedThree ==
    ASSUME NEW a, NEW b, NEW c, NEW l, NEW m, NEW n, Nested(a, l), Nested(b, m), Nested(c, n)
    PROVE  Nested(a \o b \o c, l + m + n)
  BY NestedJoin

\* Four parts in a row.
LEMMA NestedFour ==
    ASSUME NEW a, NEW b, NEW c, NEW d, NEW l, NEW m, NEW n, NEW o,
           Nested(a, l), Nested(b, m), Nested(c, n), Nested(d, o)
    PROVE  Nested(a \o b \o c \o d, l + m + n + o)
  <1>1. Nested(a \o b \o c, l + m + n) BY NestedThree
  <1> QED BY <1>1, NestedJoin

\* A box with one part.
LEMMA NestedBox1 ==
    ASSUME NEW type \in Type, NEW size \in Nat, NEW a, NEW l, Nested(a, l),
           size <= 8 + l, 8 + l <= size
    PROVE  Nested(Box(type, size, a), size)
  <1>1. l \in Nat BY DEF Nested
  <1>2. size = 8 + l BY <1>1
  <1> QED BY <1>2, NestedBox

\* With two.
LEMMA NestedBox2 ==
    ASSUME NEW type \in Type, NEW size \in Nat, NEW a, NEW b, NEW l, NEW m,
           Nested(a, l), Nested(b, m), size <= 8 + l + m, 8 + l + m <= size
    PROVE  Nested(Box(type, size, a \o b), size)
  <1>1. Nested(a \o b, l + m) BY NestedJoin
  <1>2. l \in Nat /\ m \in Nat BY DEF Nested
  <1>3. size = 8 + (l + m) BY <1>2
  <1> QED BY <1>1, <1>3, NestedBox

\* With three.
LEMMA NestedBox3 ==
    ASSUME NEW type \in Type, NEW size \in Nat, NEW a, NEW b, NEW c, NEW l, NEW m, NEW n,
           Nested(a, l), Nested(b, m), Nested(c, n),
           size <= 8 + l + m + n, 8 + l + m + n <= size
    PROVE  Nested(Box(type, size, a \o b \o c), size)
  <1>1. Nested(a \o b \o c, l + m + n) BY NestedThree
  <1>2. l \in Nat /\ m \in Nat /\ n \in Nat BY DEF Nested
  <1>3. size = 8 + (l + m + n) BY <1>2
  <1> QED BY <1>1, <1>3, NestedBox

\* With four.
LEMMA NestedBox4 ==
    ASSUME NEW type \in Type, NEW size \in Nat, NEW a, NEW b, NEW c, NEW d,
           NEW l, NEW m, NEW n, NEW o,
           Nested(a, l), Nested(b, m), Nested(c, n), Nested(d, o),
           size <= 8 + l + m + n + o, 8 + l + m + n + o <= size
    PROVE  Nested(Box(type, size, a \o b \o c \o d), size)
  <1>1. Nested(a \o b \o c \o d, l + m + n + o) BY NestedFour
  <1>2. l \in Nat /\ m \in Nat /\ n \in Nat /\ o \in Nat BY DEF Nested
  <1>3. size = 8 + (l + m + n + o) BY <1>2
  <1> QED BY <1>1, <1>3, NestedBox

\* The chunk offsets.
LEMMA NestedStco == ASSUME NEW t \in Track PROVE Nested(StcoTag(t), StcoSize(t))
  <1>1. t.n.stco \in Nat BY DEF Track
  <1>2. Nested(Field(8), 8) /\ Nested(Field(4 * t.n.stco), 4 * t.n.stco) BY <1>1, NestedField
  <1>3. StcoSize(t) = 8 + 8 + 4 * t.n.stco /\ StcoSize(t) \in Nat BY <1>1 DEF StcoSize
  <1>4. "stco" \in Type BY TypeFacts
  <1>5. Nested(Box("stco", StcoSize(t), Field(8) \o Field(4 * t.n.stco)), StcoSize(t))
    BY <1>2, <1>3, <1>4, NestedBox2
  <1> QED BY <1>5 DEF StcoTag

\* The sample sizes.
LEMMA NestedStsz == ASSUME NEW t \in Track PROVE Nested(StszTag(t), StszSize(t))
  <1>1. t.n.stsz \in Nat BY DEF Track
  <1>2. Nested(Field(12), 12) /\ Nested(Field(4 * t.n.stsz), 4 * t.n.stsz) BY <1>1, NestedField
  <1>3. StszSize(t) = 8 + 12 + 4 * t.n.stsz /\ StszSize(t) \in Nat BY <1>1 DEF StszSize
  <1>4. "stsz" \in Type BY TypeFacts
  <1>5. Nested(Box("stsz", StszSize(t), Field(12) \o Field(4 * t.n.stsz)), StszSize(t))
    BY <1>2, <1>3, <1>4, NestedBox2
  <1> QED BY <1>5 DEF StszTag

\* The chunk lengths.
LEMMA NestedStsc == ASSUME NEW t \in Track PROVE Nested(StscTag(t), StscSize(t))
  <1>1. t.n.stsc \in Nat BY DEF Track
  <1>2. Nested(Field(8), 8) /\ Nested(Field(12 * t.n.stsc), 12 * t.n.stsc) BY <1>1, NestedField
  <1>3. StscSize(t) = 8 + 8 + 12 * t.n.stsc /\ StscSize(t) \in Nat BY <1>1 DEF StscSize
  <1>4. "stsc" \in Type BY TypeFacts
  <1>5. Nested(Box("stsc", StscSize(t), Field(8) \o Field(12 * t.n.stsc)), StscSize(t))
    BY <1>2, <1>3, <1>4, NestedBox2
  <1> QED BY <1>5 DEF StscTag

\* The key frames.
LEMMA NestedStss == ASSUME NEW t \in Track PROVE Nested(StssTag(t), StssSize(t))
  <1>1. t.n.stss \in Nat BY DEF Track
  <1>2. Nested(Field(8), 8) /\ Nested(Field(4 * t.n.stss), 4 * t.n.stss) BY <1>1, NestedField
  <1>3. StssSize(t) = 8 + 8 + 4 * t.n.stss /\ StssSize(t) \in Nat BY <1>1 DEF StssSize
  <1>4. "stss" \in Type BY TypeFacts
  <1>5. Nested(Box("stss", StssSize(t), Field(8) \o Field(4 * t.n.stss)), StssSize(t))
    BY <1>2, <1>3, <1>4, NestedBox2
  <1> QED BY <1>5 DEF StssTag

\* The durations: those of a video track without the first, and a last one.
LEMMA NestedStts == ASSUME NEW t \in Track PROVE Nested(SttsTag(t), SttsSize(t))
  <1>1. t.video \in BOOLEAN /\ t.n.stts \in Nat /\ (t.video => t.n.stts > 0) BY DEF Track
  <1>2. Nested(Field(8), 8) /\ "stts" \in Type BY NestedField, TypeFacts
  <1>3. CASE t.video
    <2>1. PICK m \in Nat : m = t.n.stts - 1 BY <1>1, <1>3
    <2>2. Nested(Field(8 * m), 8 * m) BY NestedField
    <2>3. Nested(Field(8 * m) \o Field(8), 8 * m + 8) BY <1>2, <2>2, NestedJoin
    <2>4. SttsSize(t) = 8 + 8 + (8 * m + 8) /\ SttsSize(t) \in Nat BY <1>1, <1>3, <2>1 DEF SttsSize
    <2>5. SttsTag(t) = Box("stts", SttsSize(t), Field(8) \o (Field(8 * m) \o Field(8)))
      BY <1>3, <2>1 DEF SttsTag
    <2>6. Nested(Box("stts", SttsSize(t), Field(8) \o (Field(8 * m) \o Field(8))), SttsSize(t))
      BY <1>2, <2>3, <2>4, NestedBox2
    <2> QED BY <2>5, <2>6
  <1>4. CASE ~t.video
    <2>1. SttsSize(t) = 8 + 8 + 8 /\ SttsSize(t) \in Nat BY <1>4 DEF SttsSize
    <2>2. SttsTag(t) = Box("stts", SttsSize(t), Field(8) \o Field(8)) BY <1>4 DEF SttsTag
    <2>3. Nested(Box("stts", SttsSize(t), Field(8) \o Field(8)), SttsSize(t))
      BY <1>2, <2>1, NestedBox2
    <2> QED BY <2>2, <2>3
  <1> QED BY <1>1, <1>3, <1>4

\* The descriptors of an audio track, with or without codec data.
LEMMA NestedEsds == ASSUME NEW t \in Track PROVE Nested(EsdsTag(t), EsdsSize(t))
  <1>1. t.csd \in Seq(Byte) BY DEF Track
  <1>2. PICK c \in Nat : c = Len(t.csd) BY <1>1
  <1> DEFINE info == IF t.csd = <<>> THEN <<>> ELSE Descr(5, Len(t.csd), Field(Len(t.csd)))
  <1>3. SpecificInfo(t) \in Nat /\ Nested(info, SpecificInfo(t))
    <2>1. CASE t.csd = <<>> BY <2>1, NestedNothing DEF SpecificInfo
    <2>2. CASE t.csd # <<>>
      <3>1. Nested(Field(c), c) BY NestedField
      <3>2. Nested(Descr(5, c, Field(c)), DescrLength(c)) BY <3>1, NestedDescr
      <3>3. DescrLength(c) \in Nat BY DescrFacts
      <3> QED BY <1>2, <2>2, <3>2, <3>3 DEF SpecificInfo
    <2> QED BY <2>1, <2>2
  <1>4. PICK s \in Nat : s = SpecificInfo(t) BY <1>3
  <1>5. PICK b : b = info OBVIOUS
  <1> HIDE DEF info
  <1>6. PICK l4 \in Nat : l4 = 13 + s OBVIOUS
  <1>7. Nested(Field(13) \o b, l4)
    <2>1. Nested(Field(13), 13) /\ Nested(b, s) BY <1>3, <1>4, <1>5, NestedField
    <2>2. Nested(Field(13) \o b, 13 + s) BY <2>1, NestedJoin
    <2> QED BY <1>6, <2>2
  <1>8. PICK d4 \in Nat, d6 \in Nat : d4 = DescrLength(l4) /\ d6 = DescrLength(1) BY DescrFacts
  <1>9. Nested(Descr(4, l4, Field(13) \o b), d4) BY <1>7, <1>8, NestedDescr
  <1>10. Nested(Descr(6, 1, Field(1)), d6)
    <2>1. Nested(Field(1), 1) BY NestedField
    <2> QED BY <1>8, <2>1, NestedDescr
  <1>11. PICK l3 \in Nat : l3 = 3 + d4 + d6 OBVIOUS
  <1>12. Nested(Field(3) \o Descr(4, l4, Field(13) \o b) \o Descr(6, 1, Field(1)), l3)
    <2>1. Nested(Field(3), 3) BY NestedField
    <2>2. Nested(Field(3) \o Descr(4, l4, Field(13) \o b) \o Descr(6, 1, Field(1)), 3 + d4 + d6)
      BY <1>9, <1>10, <2>1, NestedThree
    <2> QED BY <1>11, <2>2
  <1>13. PICK d3 \in Nat : d3 = DescrLength(l3) BY DescrFacts
  <1>14. Nested(Descr(3, l3, Field(3) \o Descr(4, l4, Field(13) \o b) \o Descr(6, 1, Field(1))), d3)
    BY <1>12, <1>13, NestedDescr
  <1>15. Nested(Field(4), 4) BY NestedField
  <1>16. EsdsSize(t) = 12 + d3 BY <1>4, <1>6, <1>8, <1>11, <1>13 DEF EsdsSize
  <1>17. EsdsSize(t) = 8 + 4 + d3 /\ EsdsSize(t) \in Nat BY <1>16
  <1>18. EsdsTag(t) = Box("esds", EsdsSize(t), Field(4) \o
            Descr(3, l3, Field(3) \o Descr(4, l4, Field(13) \o b) \o Descr(6, 1, Field(1))))
    BY <1>4, <1>5, <1>6, <1>8, <1>11 DEF EsdsTag, info
  <1>19. PICK x : x = Descr(3, l3, Field(3) \o Descr(4, l4, Field(13) \o b) \o Descr(6, 1, Field(1)))
    OBVIOUS
  <1>20. Nested(Box("esds", EsdsSize(t), Field(4) \o x), EsdsSize(t))
    <2>1. "esds" \in Type BY TypeFacts
    <2> QED BY <1>14, <1>15, <1>17, <1>19, <2>1, NestedBox2
  <1> QED BY <1>18, <1>19, <1>20

\* The description of an audio track.
LEMMA NestedAudio == ASSUME NEW t \in Track PROVE Nested(AudioTag(t), AudioSize(t))
  <1>1. Nested(Field(4 + 4), 8) /\ Nested(Field(8), 8) /\ Nested(Field(12), 12)
    <2>1. 4 + 4 = 8 OBVIOUS
    <2> QED BY <2>1, NestedField
  <1>2. Nested(EsdsTag(t), EsdsSize(t)) /\ EsdsSize(t) \in Nat BY NestedEsds DEF Nested
  <1>3. AudioSize(t) = 8 + 8 + 8 + 12 + EsdsSize(t) /\ AudioSize(t) \in Nat
    BY <1>2 DEF AudioSize
  <1>4. t.tag \in Type BY DEF Track
  <1>5. Nested(Box(t.tag, AudioSize(t), Field(4 + 4) \o Field(8) \o Field(12) \o EsdsTag(t)),
               AudioSize(t))
    <2>1. PICK x : x = Field(4 + 4) \o Field(8) \o Field(12) OBVIOUS
    <2>2. Nested(x, 28)
      <3>1. Nested(x, 8 + 8 + 12) BY <1>1, <2>1, NestedThree
      <3>2. 8 + 8 + 12 = 28 OBVIOUS
      <3> QED BY <3>1, <3>2
    <2>3. AudioSize(t) = 8 + 28 + EsdsSize(t) BY <1>2, <1>3
    <2>4. Nested(Box(t.tag, AudioSize(t), x \o EsdsTag(t)), AudioSize(t))
      BY <1>2, <1>3, <1>4, <2>2, <2>3, NestedBox2
    <2> QED BY <2>1, <2>4
  <1> QED BY <1>5 DEF AudioTag

\* The configuration of an H264 track: with a start code the parameter sets
\* found, else the codec data itself, and nothing when that is too short.
LEMMA NestedAvcc ==
    ASSUME NEW t \in Track, t.video
    PROVE  Nested(AvccTag(t), 8 + AvccSize(t.csd)) /\ AvccSize(t.csd) \in Nat
  <1>1. PICK d : d = t.csd OBVIOUS
  <1>2. d \in VideoCsds \cup {<<>>} BY <1>1 DEF Track
  <1>3. d \in Seq(Byte) /\ Len(d) \in Nat
    <2>1. CASE d \in VideoCsds BY <2>1, BoxesAssumption DEF Byte
    <2>2. CASE d = <<>>
      <3>1. <<>> \in Seq(Byte) /\ Len(<<>>) = 0 OBVIOUS
      <3> QED BY <2>2, <3>1
    <2> QED BY <1>2, <2>1, <2>2
  <1>0. "avcC" \in Type BY TypeFacts
  <1>4. CASE Len(d) <= 6
    <2>1. AvccSize(d) = 0 BY <1>3, <1>4 DEF AvccSize
    <2>2. AvccTag(t) = Box("avcC", 8 + AvccSize(d), <<>>) BY <1>1, <1>3, <1>4 DEF AvccTag
    <2>3. 8 + AvccSize(d) \in Nat BY <2>1
    <2>4. Nested(Box("avcC", 8 + AvccSize(d), <<>>), 8 + AvccSize(d))
      BY <1>0, <2>1, <2>3, NestedNothing, NestedBox1
    <2> QED BY <1>1, <2>1, <2>2, <2>4
  <1>5. CASE Len(d) > 6 /\ ~HasStartCode(d)
    <2>1. AvccSize(d) = Len(d) BY <1>3, <1>5 DEF AvccSize
    <2>2. AvccTag(t) = Box("avcC", 8 + AvccSize(d), Copied(d)) BY <1>1, <1>3, <1>5 DEF AvccTag
    <2>3. 8 + AvccSize(d) \in Nat /\ Nested(Copied(d), Len(d)) BY <1>3, <2>1, NestedCopied
    <2>4. Nested(Box("avcC", 8 + AvccSize(d), Copied(d)), 8 + AvccSize(d))
      BY <1>0, <1>3, <2>1, <2>3, NestedBox1
    <2> QED BY <1>1, <1>3, <2>1, <2>2, <2>4
  <1>6. CASE Len(d) > 6 /\ HasStartCode(d)
    <2>1. d \in VideoCsds BY <1>2, <1>3, <1>6
    <2>2. PICK sps \in Seq(Byte), pps \in Seq(Byte) :
            sps = LastOfType(Units[d], SPS) /\ pps = LastOfType(Units[d], PPS)
      <3>1. Units[d] = NalUnits(d) BY <2>1 DEF Units
      <3>2. Units[d] \in Seq(Seq(Byte)) BY <1>3, <3>1, UnitsFacts
      <3> QED BY <3>2, ParameterSet
    <2>3. PICK l \in Nat, m \in Nat : l = Len(sps) /\ m = Len(pps) OBVIOUS
    <2>4. AvccSize(d) = 6 + 2 + l + 1 + 2 + m BY <1>3, <1>6, <2>2, <2>3 DEF AvccSize
    <2>5. AvccTag(t) = Box("avcC", 8 + AvccSize(d),
             Field(6) \o Field(2) \o Copied(sps) \o Field(1) \o Field(2) \o Copied(pps))
      BY <1>1, <1>3, <1>6, <2>2 DEF AvccTag
    <2>6. /\ Nested(Field(6), 6) /\ Nested(Field(2), 2) /\ Nested(Field(1), 1)
          /\ Nested(Copied(sps), l) /\ Nested(Copied(pps), m)
      BY <2>3, NestedField, NestedCopied
    <2>7. PICK x : x = Field(6) \o Field(2) \o Copied(sps) OBVIOUS
    <2>8. PICK k \in Nat : k = 6 + 2 + l OBVIOUS
    <2>9. Nested(x, k) BY <2>6, <2>7, <2>8, NestedThree
    <2>10. 8 + AvccSize(d) \in Nat /\ 8 + AvccSize(d) = 8 + k + 1 + 2 + m BY <2>4, <2>8
    <2>11. Nested(Box("avcC", 8 + AvccSize(d), x \o Field(1) \o Field(2) \o Copied(pps)),
                  8 + AvccSize(d))
      <3>1. PICK y : y = x \o Field(1) \o Field(2) OBVIOUS
      <3>2. PICK j \in Nat : j = k + 1 + 2 OBVIOUS
      <3>3. Nested(y, j) BY <2>6, <2>9, <3>1, <3>2, NestedThree
      <3>4. 8 + AvccSize(d) = 8 + j + m BY <2>10, <3>2
      <3>5. Nested(Box("avcC", 8 + AvccSize(d), y \o Copied(pps)), 8 + AvccSize(d))
        BY <1>0, <2>6, <2>10, <3>3, <3>4, NestedBox2
      <3> QED BY <3>1, <3>5
    <2>12. AvccSize(d) \in Nat BY <2>4
    <2> QED BY <1>1, <2>5, <2>7, <2>11, <2>12
  <1> QED BY <1>3, <1>4, <1>5, <1>6

\* The description of a video track, with a configuration if it is H264.
LEMMA NestedVideo == ASSUME NEW t \in Track, t.video PROVE Nested(VideoTag(t), VideoSize(t))
  <1> DEFINE config == IF t.tag = "avc1" THEN AvccTag(t) ELSE <<>>
             length == IF t.tag = "avc1" THEN 8 + AvccSize(t.csd) ELSE 0
  <1>0. length \in Nat /\ Nested(config, length)
    <2>1. AvccSize(t.csd) \in Nat /\ Nested(AvccTag(t), 8 + AvccSize(t.csd)) BY NestedAvcc
    <2> QED BY <2>1, NestedNothing
  <1>1. PICK l \in Nat : l = length BY <1>0
  <1>10. PICK c : c = config OBVIOUS
  <1>11. Nested(c, l) BY <1>0, <1>1, <1>10
  <1>2. VideoSize(t) = 16 + 4 + 12 + 18 + 32 + 4 + l BY <1>1 DEF VideoSize
  <1>3. VideoTag(t) = Box(t.tag, VideoSize(t),
           Field(4 + 4) \o Field(4 + 12) \o Field(4 + 8 + 4 + 2) \o Field(32) \o Field(4) \o c)
    BY <1>10 DEF VideoTag
  <1> HIDE DEF config, length
  <1>4. /\ Nested(Field(4 + 4), 8) /\ Nested(Field(4 + 12), 16) /\ Nested(Field(4 + 8 + 4 + 2), 18)
        /\ Nested(Field(32), 32) /\ Nested(Field(4), 4)
    <2>1. 4 + 4 = 8 /\ 4 + 12 = 16 /\ 4 + 8 + 4 + 2 = 18 OBVIOUS
    <2> QED BY <2>1, NestedField
  <1>5. PICK x : x = Field(4 + 4) \o Field(4 + 12) \o Field(4 + 8 + 4 + 2) OBVIOUS
  <1>6. Nested(x, 42)
    <2>1. Nested(x, 8 + 16 + 18) BY <1>4, <1>5, NestedThree
    <2>2. 8 + 16 + 18 = 42 OBVIOUS
    <2> QED BY <2>1, <2>2
  <1>7. VideoSize(t) = 8 + 42 + 32 + 4 + l /\ VideoSize(t) \in Nat BY <1>2
  <1>8. t.tag \in Type BY DEF Track
  <1>9. Nested(Box(t.tag, VideoSize(t), x \o Field(32) \o Field(4) \o c), VideoSize(t))
    <2>1. PICK y : y = x \o Field(32) \o Field(4) OBVIOUS
    <2>2. Nested(y, 78)
      <3>1. Nested(y, 42 + 32 + 4) BY <1>4, <1>6, <2>1, NestedThree
      <3>2. 42 + 32 + 4 = 78 OBVIOUS
      <3> QED BY <3>1, <3>2
    <2>3. VideoSize(t) = 8 + 78 + l BY <1>7
    <2>4. Nested(Box(t.tag, VideoSize(t), y \o c), VideoSize(t))
      BY <1>11, <1>7, <1>8, <2>2, <2>3, NestedBox2
    <2> QED BY <2>1, <2>4
  <1> QED BY <1>3, <1>5, <1>9

\* The description of either.
LEMMA NestedStsd == ASSUME NEW t \in Track PROVE Nested(StsdTag(t), StsdSize(t))
  <1>1. Nested(Field(8), 8) /\ "stsd" \in Type BY NestedField, TypeFacts
  <1>2. CASE t.video
    <2>1. Nested(VideoTag(t), VideoSize(t)) /\ VideoSize(t) \in Nat BY <1>2, NestedVideo DEF Nested
    <2>2. StsdSize(t) = 8 + 8 + VideoSize(t) /\ StsdSize(t) \in Nat BY <1>2, <2>1 DEF StsdSize
    <2>3. Nested(Box("stsd", StsdSize(t), Field(8) \o VideoTag(t)), StsdSize(t))
      BY <1>1, <2>1, <2>2, NestedBox2
    <2> QED BY <1>2, <2>3 DEF StsdTag
  <1>3. CASE ~t.video
    <2>1. Nested(AudioTag(t), AudioSize(t)) /\ AudioSize(t) \in Nat BY NestedAudio DEF Nested
    <2>2. StsdSize(t) = 8 + 8 + AudioSize(t) /\ StsdSize(t) \in Nat BY <1>3, <2>1 DEF StsdSize
    <2>3. Nested(Box("stsd", StsdSize(t), Field(8) \o AudioTag(t)), StsdSize(t))
      BY <1>1, <2>1, <2>2, NestedBox2
    <2> QED BY <1>3, <2>3 DEF StsdTag
  <1> QED BY <1>2, <1>3

-----------------------------------------------------------------------------
\* The tables of a track together: only video has one of its key frames.
LEMMA NestedStbl == ASSUME NEW t \in Track PROVE Nested(StblTag(t), StblSize(t))
  <1> DEFINE keys == IF t.video THEN StssTag(t) ELSE <<>>
             length == IF t.video THEN StssSize(t) ELSE 0
  <1>1. Nested(keys, length) BY NestedStss, NestedNothing
  <1>2. PICK k, l : k = keys /\ l = length OBVIOUS
  <1>3. Nested(k, l) BY <1>1, <1>2
  <1>4. /\ StblSize(t) = 8 + StsdSize(t) + SttsSize(t) + l + StscSize(t) + StszSize(t) + StcoSize(t)
        /\ StblTag(t) = Box("stbl", StblSize(t), StsdTag(t) \o SttsTag(t) \o k
                                      \o StscTag(t) \o StszTag(t) \o StcoTag(t))
    BY <1>2 DEF StblSize, StblTag
  <1> HIDE DEF keys, length
  <1>5. PICK a, b, c, d, e :
           a = StsdTag(t) /\ b = SttsTag(t) /\ c = StscTag(t) /\ d = StszTag(t) /\ e = StcoTag(t)
    OBVIOUS
  <1>6. PICK la, lb, lc, ld, le :
           /\ la = StsdSize(t) /\ lb = SttsSize(t) /\ lc = StscSize(t)
           /\ ld = StszSize(t) /\ le = StcoSize(t)
    OBVIOUS
  <1>7. Nested(a, la) /\ Nested(b, lb) /\ Nested(c, lc) /\ Nested(d, ld) /\ Nested(e, le)
    BY <1>5, <1>6, NestedStsd, NestedStts, NestedStsc, NestedStsz, NestedStco
  <1>8. l \in Nat /\ la \in Nat /\ lb \in Nat /\ lc \in Nat /\ ld \in Nat /\ le \in Nat
    BY <1>3, <1>7 DEF Nested
  <1>9. PICK x : x = a \o b \o k \o c OBVIOUS
  <1>10. PICK lx \in Nat : lx = la + lb + l + lc BY <1>8
  <1>11. Nested(x, lx) BY <1>3, <1>7, <1>9, <1>10, NestedFour
  <1>12. StblSize(t) \in Nat /\ StblSize(t) = 8 + lx + ld + le BY <1>4, <1>6, <1>8, <1>10
  <1>13. "stbl" \in Type BY TypeFacts
  <1>14. Nested(Box("stbl", StblSize(t), x \o d \o e), StblSize(t))
    BY <1>7, <1>11, <1>12, <1>13, NestedBox3
  <1> QED BY <1>4, <1>5, <1>9, <1>14

\* The boxes that are the same in every file of a kind.
LEMMA NestedDinf == Nested(DinfTag, 8 + 28)
  <1>1. Nested(Field(4), 4) /\ Nested(Field(8), 8) BY NestedField
  <1>2. "url " \in Type /\ "dref" \in Type /\ "dinf" \in Type BY TypeFacts
  <1>3. Nested(Box("url ", 12, Field(4)), 12)
    <2>1. 12 \in Nat /\ 12 <= 8 + 4 /\ 8 + 4 <= 12 OBVIOUS
    <2> QED BY <1>1, <1>2, <2>1, NestedBox1
  <1>4. Nested(Box("dref", 28, Field(8) \o Box("url ", 12, Field(4))), 28)
    <2>1. 28 \in Nat /\ 28 <= 8 + 8 + 12 /\ 8 + 8 + 12 <= 28 OBVIOUS
    <2> QED BY <1>1, <1>2, <1>3, <2>1, NestedBox2
  <1>5. Nested(DrefTag, 28) BY <1>4 DEF DrefTag
  <1>6. 36 \in Nat /\ 36 <= 8 + 28 /\ 8 + 28 <= 36 /\ 8 + 28 = 36 OBVIOUS
  <1>7. Nested(Box("dinf", 36, DrefTag), 36) BY <1>2, <1>5, <1>6, NestedBox1
  <1> QED BY <1>6, <1>7 DEF DinfTag

\* The header of audio.
LEMMA NestedSmhd == Nested(SmhdTag, 16)
  <1>1. Nested(Field(4), 4) /\ "smhd" \in Type BY NestedField, TypeFacts
  <1>2. 16 \in Nat /\ 16 <= 8 + 4 + 4 /\ 8 + 4 + 4 <= 16 OBVIOUS
  <1>3. Nested(Box("smhd", 16, Field(4) \o Field(4)), 16) BY <1>1, <1>2, NestedBox2
  <1> QED BY <1>3 DEF SmhdTag

\* The header of video.
LEMMA NestedVmhd == Nested(VmhdTag, 20)
  <1>1. Nested(Field(12), 12) /\ "vmhd" \in Type BY NestedField, TypeFacts
  <1>2. 20 \in Nat /\ 20 <= 8 + 12 /\ 8 + 12 <= 20 OBVIOUS
  <1>3. Nested(Box("vmhd", 20, Field(12)), 20) BY <1>1, <1>2, NestedBox1
  <1> QED BY <1>3 DEF VmhdTag

\* The handler's name is the title and a zero.
LEMMA NestedHdlr == Nested(HdlrTag, HdlrSize) /\ HdlrSize \in Nat
  <1>1. PICK n \in Nat : n = TitleLen BY BoxesAssumption
  <1>2. PICK x : x = Field(4 + 4 + 4 + 12) OBVIOUS
  <1>3. Nested(x, 24) /\ Nested(Field(n), n) /\ Nested(Field(1), 1)
    <2>1. 4 + 4 + 4 + 12 = 24 OBVIOUS
    <2> QED BY <1>2, <2>1, NestedField
  <1>4. HdlrSize = 8 + 24 + n + 1 /\ HdlrSize \in Nat BY <1>1 DEF HdlrSize
  <1>5. "hdlr" \in Type BY TypeFacts
  <1>6. Nested(Box("hdlr", HdlrSize, x \o Field(n) \o Field(1)), HdlrSize)
    <2>1. PICK y : y = x \o Field(n) OBVIOUS
    <2>2. PICK k \in Nat : k = 24 + n OBVIOUS
    <2>3. Nested(y, k) BY <1>3, <2>1, <2>2, NestedJoin
    <2>4. HdlrSize = 8 + k + 1 BY <1>4, <2>2
    <2>5. Nested(Box("hdlr", HdlrSize, y \o Field(1)), HdlrSize)
      BY <1>3, <1>4, <1>5, <2>3, <2>4, NestedBox2
    <2> QED BY <2>1, <2>5
  <1> QED BY <1>1, <1>2, <1>4, <1>6 DEF HdlrTag

\* The header of the media.
LEMMA NestedMdhd == Nested(MdhdTag, 32)
  <1>1. Nested(Field(4), 4) /\ Nested(Field(16), 16) /\ "mdhd" \in Type BY NestedField, TypeFacts
  <1>2. 32 \in Nat /\ 32 <= 8 + 4 + 16 + 4 /\ 8 + 4 + 16 + 4 <= 32 OBVIOUS
  <1>3. Nested(Box("mdhd", 32, Field(4) \o Field(16) \o Field(4)), 32)
    BY <1>1, <1>2, NestedBox3
  <1> QED BY <1>3 DEF MdhdTag

\* The header of the track.
LEMMA NestedTkhd == Nested(TkhdTag, 92)
  <1>1. PICK x, y : x = Field(4 + 20) /\ y = Field(12 + 4) OBVIOUS
  <1>2. Nested(x, 24) /\ Nested(y, 16) /\ Nested(Field(36), 36) /\ Nested(Field(8), 8)
    <2>1. 4 + 20 = 24 /\ 12 + 4 = 16 OBVIOUS
    <2> QED BY <1>1, <2>1, NestedField
  <1>3. PICK z : z = x \o y OBVIOUS
  <1>4. Nested(z, 40)
    <2>1. Nested(z, 24 + 16) BY <1>2, <1>3, NestedJoin
    <2>2. 24 + 16 = 40 OBVIOUS
    <2> QED BY <2>1, <2>2
  <1>5. 92 \in Nat /\ 92 <= 8 + 40 + 36 + 8 /\ 8 + 40 + 36 + 8 <= 92 OBVIOUS
  <1>6. "tkhd" \in Type BY TypeFacts
  <1>7. Nested(Box("tkhd", 92, z \o Field(36) \o Field(8)), 92) BY <1>2, <1>4, <1>5, <1>6, NestedBox3, ZenonT(30)
  <1> QED BY <1>1, <1>3, <1>7 DEF TkhdTag

\* The header of the movie.
LEMMA NestedMvhd == Nested(MvhdTag, 108)
  <1>1. PICK x : x = Field(4 + 16) OBVIOUS
  <1>2. Nested(x, 20) /\ Nested(Field(16), 16) /\ Nested(Field(36), 36) /\ Nested(Field(28), 28)
    <2>1. 4 + 16 = 20 OBVIOUS
    <2> QED BY <1>1, <2>1, NestedField
  <1>3. PICK z : z = x \o Field(16) OBVIOUS
  <1>4. Nested(z, 36)
    <2>1. Nested(z, 20 + 16) BY <1>2, <1>3, NestedJoin
    <2>2. 20 + 16 = 36 OBVIOUS
    <2> QED BY <2>1, <2>2
  <1>5. 108 \in Nat /\ 108 <= 8 + 36 + 36 + 28 /\ 8 + 36 + 36 + 28 <= 108 OBVIOUS
  <1>6. "mvhd" \in Type BY TypeFacts
  <1>7. Nested(Box("mvhd", 108, z \o Field(36) \o Field(28)), 108)
    BY <1>2, <1>4, <1>5, <1>6, NestedBox3, ZenonT(30)
  <1> QED BY <1>1, <1>3, <1>7 DEF MvhdTag

-----------------------------------------------------------------------------
\* The boxes around them, up to the track.
LEMMA NestedMinf == ASSUME NEW t \in Track PROVE Nested(MinfTag(t), MinfSize(t))
  <1> DEFINE header == IF t.video THEN VmhdTag ELSE SmhdTag
             length == IF t.video THEN 20 ELSE 16
  <1>1. length \in Nat /\ Nested(header, length) BY NestedVmhd, NestedSmhd
  <1>2. PICK l \in Nat : l = length BY <1>1
  <1>3. PICK h : h = header OBVIOUS
  <1>4. Nested(h, l) BY <1>1, <1>2, <1>3
  <1>5. /\ MinfSize(t) = 8 + l + (8 + 28) + StblSize(t)
        /\ MinfTag(t) = Box("minf", MinfSize(t), h \o DinfTag \o StblTag(t))
    BY <1>2, <1>3 DEF MinfSize, MinfTag
  <1> HIDE DEF header, length
  <1>6. PICK b, lb : b = StblTag(t) /\ lb = StblSize(t) OBVIOUS
  <1>7. Nested(b, lb) /\ lb \in Nat BY <1>6, NestedStbl DEF Nested
  <1>8. PICK n \in Nat : n = 8 + 28 OBVIOUS
  <1>9. Nested(DinfTag, n) BY <1>8, NestedDinf
  <1>10. MinfSize(t) = 8 + l + n + lb /\ MinfSize(t) \in Nat BY <1>5, <1>6, <1>7, <1>8
  <1>11. "minf" \in Type BY TypeFacts
  <1>12. Nested(Box("minf", MinfSize(t), h \o DinfTag \o b), MinfSize(t))
    BY <1>4, <1>7, <1>9, <1>10, <1>11, NestedBox3
  <1> QED BY <1>5, <1>6, <1>12

\* The media of a track, with its headers.
LEMMA NestedMdia == ASSUME NEW t \in Track PROVE Nested(MdiaTag(t), MdiaSize(t))
  <1>1. PICK b, lb : b = MinfTag(t) /\ lb = MinfSize(t) OBVIOUS
  <1>2. Nested(b, lb) /\ lb \in Nat BY <1>1, NestedMinf DEF Nested
  <1>3. Nested(MdhdTag, 32) /\ Nested(HdlrTag, HdlrSize) /\ HdlrSize \in Nat
    BY NestedMdhd, NestedHdlr
  <1>4. MdiaSize(t) = 8 + 32 + HdlrSize + lb /\ MdiaSize(t) \in Nat
    BY <1>1, <1>2, <1>3 DEF MdiaSize
  <1>5. "mdia" \in Type BY TypeFacts
  <1>6. Nested(Box("mdia", MdiaSize(t), MdhdTag \o HdlrTag \o b), MdiaSize(t))
    <2>1. PICK y : y = MdhdTag \o HdlrTag OBVIOUS
    <2>2. PICK k \in Nat : k = 32 + HdlrSize BY <1>3
    <2>3. Nested(y, k) BY <1>3, <2>1, <2>2, NestedJoin
    <2>4. MdiaSize(t) = 8 + k + lb BY <1>2, <1>3, <1>4, <2>2
    <2>5. Nested(Box("mdia", MdiaSize(t), y \o b), MdiaSize(t))
      BY <1>2, <1>4, <1>5, <2>3, <2>4, NestedBox2
    <2> QED BY <2>1, <2>5
  <1> QED BY <1>1, <1>6 DEF MdiaTag

\* The track.
LEMMA NestedTrak ==
    ASSUME NEW t \in Track PROVE Nested(TrakTag(t), TrakSize(t)) /\ TrakSize(t) \in Nat
  <1>1. PICK b, lb : b = MdiaTag(t) /\ lb = MdiaSize(t) OBVIOUS
  <1>2. Nested(b, lb) /\ lb \in Nat BY <1>1, NestedMdia DEF Nested
  <1>3. Nested(TkhdTag, 92) BY NestedTkhd
  <1>4. TrakSize(t) = 8 + 92 + lb /\ TrakSize(t) \in Nat BY <1>1, <1>2 DEF TrakSize
  <1>5. "trak" \in Type BY TypeFacts
  <1>6. Nested(Box("trak", TrakSize(t), TkhdTag \o b), TrakSize(t))
    BY <1>2, <1>3, <1>4, <1>5, NestedBox2
  <1> QED BY <1>1, <1>4, <1>6 DEF TrakTag

\* moov: the tracks that have samples, audio or video or both.
LEMMA NestedMoov ==
    ASSUME NEW traks, \A i \in DOMAIN traks : traks[i] \in Track
    PROVE  Nested(MoovTag(traks), MoovTagSize(traks)) /\ MoovTagSize(traks) >= 116
  <1> DEFINE tag(i) == IF i \in DOMAIN traks THEN TrakTag(traks[i]) ELSE <<>>
             size(i) == IF i \in DOMAIN traks THEN TrakSize(traks[i]) ELSE 0
  <1>1. ASSUME NEW i PROVE Nested(tag(i), size(i)) /\ size(i) \in Nat
    <2>1. CASE i \in DOMAIN traks BY <2>1, NestedTrak
    <2>2. CASE i \notin DOMAIN traks BY <2>2, NestedNothing
    <2> QED BY <2>1, <2>2
  <1>2. PICK v, a, lv, la : v = tag(0) /\ a = tag(1) /\ lv = size(0) /\ la = size(1) OBVIOUS
  <1>3. Nested(v, lv) /\ Nested(a, la) /\ lv \in Nat /\ la \in Nat BY <1>1, <1>2
  <1>4. /\ MoovTagSize(traks) = 8 + 108 + lv + la
        /\ MoovTag(traks) = Box("moov", MoovTagSize(traks), MvhdTag \o v \o a)
    BY <1>2 DEF MoovTagSize, MoovTag
  <1> HIDE DEF tag, size
  <1>5. MoovTagSize(traks) \in Nat /\ MoovTagSize(traks) >= 116 BY <1>3, <1>4
  <1>6. "moov" \in Type /\ Nested(MvhdTag, 108) BY TypeFacts, NestedMvhd
  <1>7. Nested(Box("moov", MoovTagSize(traks), MvhdTag \o v \o a), MoovTagSize(traks))
    BY <1>3, <1>4, <1>5, <1>6, NestedBox3
  <1> QED BY <1>4, <1>5, <1>7


-----------------------------------------------------------------------------
\* What is nested fits: the end the reader looks for is the one that closes
\* the head, and the bytes up to it are those the head tells.
LEMMA NestedFits ==
    ASSUME NEW s, NEW n, Nested(s, n)
    PROVE  Misfits(s) = {}
  <1>1. s \in Seq(Item) /\ Len(s) \in Nat /\ DOMAIN s = 1..Len(s) BY DEF Nested
  <1>2. ASSUME NEW k \in 1..Len(s), s[k].is \in {"box", "descr"}
        PROVE  s[k].size = Written(s, k)
    <2>1. PICK e \in k..Len(s) : Closes(s, k, e) BY <1>2 DEF Nested
    <2>2. k \in Nat /\ e \in Nat /\ 1 <= k /\ k <= e /\ e <= Len(s) BY <1>1
    <2> DEFINE I == {i \in k..Len(s) : s[i].is = "end" /\ s[i].head = s[k]}
    <2>3. e \in I /\ \A i \in I : e <= i
      <3>1. e \in I BY <2>1 DEF Closes, EndOf
      <3>2. \A i \in k..(e - 1) : i \notin I BY <2>1 DEF Closes, EndOf
      <3>3. \A i \in I : i \in Nat /\ k <= i BY <2>2
      <3>4. \A i \in I : ~(i <= e - 1) BY <2>2, <3>2, <3>3
      <3> HIDE DEF I
      <3> QED BY <2>2, <3>1, <3>3, <3>4
    <2>4. Min(I) = e
      <3>1. I \subseteq Nat BY <2>2
      <3> HIDE DEF I
      <3>2. PICK c : c = CHOOSE x \in I : \A y \in I : x <= y OBVIOUS
      <3>3. c \in I /\ \A y \in I : c <= y BY <2>3, <3>2
      <3>4. c <= e /\ e <= c /\ c \in Nat BY <2>3, <3>1, <3>3
      <3>5. Min(I) = c BY <3>2 DEF Min
      <3> QED BY <2>2, <3>4, <3>5
    <2>5. SelectInSubSeq(s, k, Len(s), LAMBDA item : item.is = "end" /\ item.head = s[k]) = e
      <3>1. SelectInSubSeq(s, k, Len(s), LAMBDA item : item.is = "end" /\ item.head = s[k])
              = IF I # {} THEN Min(I) ELSE 0
        BY DEF SelectInSubSeq
      <3> HIDE DEF I
      <3> QED BY <2>3, <2>4, <3>1
    <2> HIDE DEF I
    <2>6. Written(s, k) = BytesOf(SubSeq(s, k, e)) BY <2>5 DEF Written
    <2> DEFINE u == SubSeq(s, k, e)
               v == [j \in DOMAIN u |-> u[j].bytes]
    <2>7. PICK l \in Nat, m \in Nat : l = k - 1 /\ m = e - k + 1 BY <2>2
    <2>8. DOMAIN u = 1..m /\ Len(u) = m /\ \A j \in 1..m : u[j] = s[l + j]
      <3>1. /\ u \in Seq(Item)
            /\ Len(u) = (IF k <= e THEN e - k + 1 ELSE 0)
            /\ \A i \in 1..(e - k + 1) : u[i] = s[k + i - 1]
        BY <1>1, <2>2, SubSeqProperties
      <3> HIDE DEF u
      <3>2. Len(u) = m /\ DOMAIN u = 1..m BY <2>2, <2>7, <3>1
      <3>3. \A j \in 1..m : j \in 1..(e - k + 1) /\ k + j - 1 = l + j BY <2>2, <2>7
      <3> QED BY <3>1, <3>2, <3>3
    <2>9. \A j \in 1..m : Taken(s)[l + j] = v[j]
      <3>1. \A j \in 1..m : l + j \in 1..Len(s) BY <1>1, <2>2, <2>7
      <3> HIDE DEF u
      <3> QED BY <1>1, <2>8, <3>1 DEF Taken
    <2>10. BytesOf(u) = Sum(v, 1, m) BY <2>8 DEF BytesOf
    <2> HIDE DEF u, v
    <2>11. Sum(Taken(s), l + 1, l + m) = Sum(v, 1, m)
      <3>1. PICK t, w : t = Taken(s) /\ w = v OBVIOUS
      <3>2. l \in Int /\ \A j \in 1..m : t[l + j] = w[j] BY <2>9, <3>1
      <3>3. Sum(t, l + 1, l + m) = Sum(w, 1, m) BY <3>2, SumShifts
      <3> QED BY <3>1, <3>3
    <2>12. l + 1 = k /\ l + m = e BY <2>2, <2>7
    <2>13. Sum(Taken(s), k, e) = s[k].size BY <2>1 DEF Closes
    <2> QED BY <2>6, <2>10, <2>11, <2>12, <2>13 DEF u
  <1> QED BY <1>1, <1>2 DEF Misfits

\* The moov box: it takes the bytes it tells, room for its own header at least,
\* and everything in it fits.
LEMMA MoovFits ==
    ASSUME NEW traks, \A i \in DOMAIN traks : traks[i] \in Track
    PROVE  /\ Misfits(MoovTag(traks)) = {}
           /\ MoovTag(traks)[1].size \in Nat /\ MoovTag(traks)[1].size >= 116
           /\ BytesOf(MoovTag(traks)) = MoovTag(traks)[1].size
  <1> DEFINE m == MoovTag(traks)
             n == MoovTagSize(traks)
  <1>1. Nested(m, n) /\ n >= 116 BY NestedMoov
  <1>2. m[1].size = n
    <2>1. PICK body : m = Box("moov", n, body) BY DEF MoovTag
    <2> HIDE DEF m, n
    <2>2. PICK head, tail : head = [is |-> "box", bytes |-> 8, type |-> "moov", size |-> n]
                            /\ m = <<head>> \o body \o tail
      BY <2>1 DEF Box, Within
    <2>3. m[1] = head BY <1>1, <2>2 DEF Nested
    <2> QED BY <2>2, <2>3
  <1> HIDE DEF m, n
  <1>3. n \in Nat /\ BytesOf(m) = n BY <1>1 DEF Nested
  <1>4. Misfits(m) = {} BY <1>1, NestedFits
  <1> QED BY <1>1, <1>2, <1>3, <1>4 DEF m

-----------------------------------------------------------------------------
\* A list of items carries these pieces.
ItemList(s) == \E S : s \in Seq(S)
Holds(s, pieces) == ItemList(s) /\ ItemList(pieces) /\ Carries(s, pieces)
Plain(s) == Holds(s, <<>>)

\* What a row is.
LEMMA RowFacts ==
    ASSUME NEW s, ItemList(s)
    PROVE  Len(s) \in Nat /\ DOMAIN s = 1..Len(s)
  BY DEF ItemList

\* Two rows one behind the other.
LEMMA RowJoin ==
    ASSUME NEW s, NEW t, ItemList(s), ItemList(t)
    PROVE  /\ ItemList(s \o t) /\ Len(s \o t) = Len(s) + Len(t)
           /\ \A k \in 1..Len(s) : (s \o t)[k] = s[k]
           /\ \A k \in 1..Len(t) : (s \o t)[Len(s) + k] = t[k]
  <1>1. PICK S : s \in Seq(S) BY DEF ItemList
  <1>2. PICK T : t \in Seq(T) BY DEF ItemList
  <1> DEFINE U == S \cup T
  <1>3. s \in Seq(U) /\ t \in Seq(U) BY <1>1, <1>2
  <1> HIDE DEF U
  <1>4. ItemList(s \o t) BY <1>3 DEF ItemList
  <1> QED BY <1>3, <1>4

\* One item.
LEMMA RowOne == ASSUME NEW x PROVE ItemList(<<x>>) /\ Len(<<x>>) = 1 /\ <<x>>[1] = x
  <1>1. <<x>> \in Seq({x}) OBVIOUS
  <1> QED BY <1>1 DEF ItemList

\* Nothing.
LEMMA RowNone == ItemList(<<>>) /\ Len(<<>>) = 0
  <1>1. <<>> \in Seq({}) OBVIOUS
  <1> QED BY <1>1 DEF ItemList

\* A row without codec data carries nothing.
LEMMA HoldsNothing ==
    ASSUME NEW s, ItemList(s), \A k \in 1..Len(s) : s[k].is # "data"
    PROVE  Plain(s)
  <1> DEFINE copies == {k \in DOMAIN s : s[k].is = "data"}
  <1>1. copies = {} BY RowFacts
  <1>2. <<>> \in [DOMAIN <<>> -> copies] /\ DOMAIN <<>> = {} OBVIOUS
  <1>3. Carries(s, <<>>)
    <2> HIDE DEF copies
    <2>1. \E place \in [DOMAIN <<>> -> copies] :
          /\ \A j, k \in DOMAIN <<>> : j < k => place[j] < place[k]
          /\ \A c \in copies : \E k \in DOMAIN <<>> : place[k] = c
          /\ \A k \in DOMAIN <<>> : s[place[k]].data = <<>>[k]
      BY <1>1, <1>2
    <2> QED BY <2>1 DEF Carries, copies
  <1> QED BY <1>3, RowNone DEF Plain, Holds

\* A piece alone.
LEMMA HoldsCopied == ASSUME NEW d PROVE Holds(Copied(d), <<d>>)
  <1> DEFINE s == Copied(d)
             copies == {k \in DOMAIN s : s[k].is = "data"}
             f == [k \in {1} |-> 1]
  <1>1. ItemList(s) /\ Len(s) = 1 /\ s[1].is = "data" /\ s[1].data = d
    <2>1. PICK x : x = [is |-> "data", bytes |-> Len(d), data |-> d] OBVIOUS
    <2>2. s = <<x>> /\ x.is = "data" /\ x.data = d BY <2>1 DEF Copied
    <2> QED BY <2>2, RowOne
  <1> HIDE DEF s
  <1>2. DOMAIN s = {1} BY <1>1, RowFacts
  <1>3. copies = {1} BY <1>1, <1>2
  <1>4. DOMAIN <<d>> = {1} /\ <<d>>[1] = d OBVIOUS
  <1>5. f \in [DOMAIN <<d>> -> copies] BY <1>3, <1>4
  <1>6. /\ \A j, k \in DOMAIN <<d>> : j < k => f[j] < f[k]
        /\ \A c \in copies : \E k \in DOMAIN <<d>> : f[k] = c
        /\ \A k \in DOMAIN <<d>> : s[f[k]].data = <<d>>[k]
    BY <1>1, <1>3, <1>4
  <1> HIDE DEF f
  <1>7. Carries(s, <<d>>) BY <1>5, <1>6 DEF Carries
  <1> QED BY <1>1, <1>7, RowOne DEF s, Holds

\* One row behind the other carries the pieces of both.
LEMMA HoldsJoin ==
    ASSUME NEW s, NEW t, NEW ds, NEW es, Holds(s, ds), Holds(t, es)
    PROVE  Holds(s \o t, ds \o es)
  <1>1. PICK l \in Nat, m \in Nat, a \in Nat, b \in Nat :
           l = Len(s) /\ m = Len(t) /\ a = Len(ds) /\ b = Len(es)
    BY RowFacts DEF Holds
  <1>2. PICK u, fs : u = s \o t /\ fs = ds \o es OBVIOUS
  <1>3. DOMAIN s = 1..l /\ DOMAIN t = 1..m /\ DOMAIN ds = 1..a /\ DOMAIN es = 1..b
    BY <1>1, RowFacts DEF Holds
  <1>4. /\ ItemList(u) /\ DOMAIN u = 1..(l + m)
        /\ \A k \in 1..l : u[k] = s[k]
        /\ \A k \in 1..m : u[l + k] = t[k]
    BY <1>1, <1>2, RowJoin, RowFacts DEF Holds
  <1>5. /\ ItemList(fs) /\ DOMAIN fs = 1..(a + b)
        /\ \A k \in 1..a : fs[k] = ds[k]
        /\ \A k \in 1..b : fs[a + k] = es[k]
    BY <1>1, <1>2, RowJoin, RowFacts DEF Holds
  <1> DEFINE S == {k \in 1..l : s[k].is = "data"}
             T == {k \in 1..m : t[k].is = "data"}
             U == {k \in 1..(l + m) : u[k].is = "data"}
  <1>6. PICK f \in [1..a -> S] :
           /\ \A j, k \in 1..a : j < k => f[j] < f[k]
           /\ \A c \in S : \E k \in 1..a : f[k] = c
           /\ \A k \in 1..a : s[f[k]].data = ds[k]
    <2>1. Carries(s, ds) BY DEF Holds
    <2>2. \E place \in [DOMAIN ds -> S] :
             /\ \A j, k \in DOMAIN ds : j < k => place[j] < place[k]
             /\ \A c \in S : \E k \in DOMAIN ds : place[k] = c
             /\ \A k \in DOMAIN ds : s[place[k]].data = ds[k]
      BY <1>3, <2>1, Zenon DEF Carries
    <2> HIDE DEF S
    <2> QED BY <1>3, <2>2
  <1>7. PICK g \in [1..b -> T] :
           /\ \A j, k \in 1..b : j < k => g[j] < g[k]
           /\ \A c \in T : \E k \in 1..b : g[k] = c
           /\ \A k \in 1..b : t[g[k]].data = es[k]
    <2>1. Carries(t, es) BY DEF Holds
    <2>2. \E place \in [DOMAIN es -> T] :
             /\ \A j, k \in DOMAIN es : j < k => place[j] < place[k]
             /\ \A c \in T : \E k \in DOMAIN es : place[k] = c
             /\ \A k \in DOMAIN es : t[place[k]].data = es[k]
      BY <1>3, <2>1, Zenon DEF Carries
    <2> HIDE DEF T
    <2> QED BY <1>3, <2>2
  <1> DEFINE h == [k \in 1..(a + b) |-> IF k <= a THEN f[k] ELSE l + g[k - a]]
  <1>8. \A k \in 1..a : f[k] \in 1..l /\ s[f[k]].is = "data" BY <1>6
  <1>9. \A k \in 1..b : g[k] \in 1..m /\ t[g[k]].is = "data" BY <1>7
  <1>10. \A k \in 1..(a + b) : ~(k <= a) => k - a \in 1..b OBVIOUS
  <1>11. ASSUME NEW k \in 1..(a + b)
         PROVE  h[k] \in U /\ u[h[k]].data = fs[k]
    <2>1. CASE k <= a
      <3>1. k \in 1..a /\ h[k] = f[k] BY <2>1
      <3>2. f[k] \in 1..(l + m) /\ u[f[k]] = s[f[k]] BY <1>4, <1>8, <3>1
      <3> QED BY <1>5, <1>6, <1>8, <3>1, <3>2
    <2>2. CASE ~(k <= a)
      <3>1. PICK i \in 1..b : i = k - a BY <1>10, <2>2
      <3>2. h[k] = l + g[i] /\ k = a + i BY <2>2, <3>1
      <3>4. g[i] \in 1..m BY <1>9
      <3>3. l + g[i] \in 1..(l + m) /\ u[l + g[i]] = t[g[i]] BY <1>4, <3>4
      <3> QED BY <1>5, <1>7, <1>9, <3>1, <3>2, <3>3
    <2> QED BY <2>1, <2>2
  <1>12. ASSUME NEW j \in 1..(a + b), NEW k \in 1..(a + b), j < k PROVE h[j] < h[k]
    <2>1. CASE k <= a
      <3>1. j \in 1..a /\ k \in 1..a /\ h[j] = f[j] /\ h[k] = f[k] BY <1>12, <2>1
      <3> QED BY <1>6, <1>12, <3>1
    <2>2. CASE ~(k <= a) /\ j <= a
      <3>1. j \in 1..a /\ k - a \in 1..b /\ h[j] = f[j] /\ h[k] = l + g[k - a]
        BY <1>10, <2>2
      <3>2. f[j] \in 1..l /\ g[k - a] \in 1..m BY <1>8, <1>9, <3>1
      <3> QED BY <3>1, <3>2
    <2>3. CASE ~(k <= a) /\ ~(j <= a)
      <3>1. PICK i \in 1..b, o \in 1..b : i = j - a /\ o = k - a BY <1>10, <2>3
      <3>2. h[j] = l + g[i] /\ h[k] = l + g[o] /\ i < o BY <1>12, <2>3, <3>1
      <3>3. g[i] < g[o] /\ g[i] \in 1..m /\ g[o] \in 1..m BY <1>7, <1>9, <3>2
      <3> QED BY <3>2, <3>3
    <2> QED BY <2>1, <2>2, <2>3
  <1>13. ASSUME NEW c \in U PROVE \E k \in 1..(a + b) : h[k] = c
    <2>1. CASE c <= l
      <3>1. c \in S BY <1>4, <2>1
      <3>2. PICK k \in 1..a : f[k] = c BY <1>6, <3>1
      <3>3. k \in 1..(a + b) /\ h[k] = c BY <3>2
      <3> QED BY <3>3
    <2>2. CASE ~(c <= l)
      <3>1. c - l \in 1..m /\ l + (c - l) = c BY <2>2
      <3>2. c - l \in T
        <4>1. u[c] = t[c - l] BY <1>4, <3>1
        <4> QED BY <3>1, <4>1
      <3>3. PICK k \in 1..b : g[k] = c - l BY <1>7, <3>2
      <3>4. a + k \in 1..(a + b) /\ ~(a + k <= a) /\ (a + k) - a = k OBVIOUS
      <3>5. h[a + k] = c BY <3>1, <3>3, <3>4
      <3> QED BY <3>4, <3>5
    <2> QED BY <2>1, <2>2
  <1>14. h \in [1..(a + b) -> U]
    <2>1. h = [k \in 1..(a + b) |-> h[k]] OBVIOUS
    <2> HIDE DEF h, U
    <2> QED BY <1>11, <2>1
  <1>15. Carries(u, fs)
    <2> HIDE DEF h
    <2>1. \E place \in [1..(a + b) -> U] :
             /\ \A j, k \in 1..(a + b) : j < k => place[j] < place[k]
             /\ \A c \in U : \E k \in 1..(a + b) : place[k] = c
             /\ \A k \in 1..(a + b) : u[place[k]].data = fs[k]
      <3> HIDE DEF U
      <3> QED BY <1>11, <1>12, <1>13, <1>14
    <2>2. U = {k \in DOMAIN u : u[k].is = "data"} BY <1>4
    <2> HIDE DEF U
    <2>3. \E place \in [DOMAIN fs -> U] :
             /\ \A j, k \in DOMAIN fs : j < k => place[j] < place[k]
             /\ \A c \in U : \E k \in DOMAIN fs : place[k] = c
             /\ \A k \in DOMAIN fs : u[place[k]].data = fs[k]
      <3>1. DOMAIN fs = 1..(a + b) BY <1>5
      <3> QED BY <2>1, <3>1, Zenon
    <2> QED BY <2>2, <2>3, Zenon DEF Carries
  <1> QED BY <1>2, <1>4, <1>5, <1>15 DEF Holds

\* A row without pieces in front, or behind.
LEMMA HoldsAfter ==
    ASSUME NEW s, NEW t, NEW ds, Plain(s), Holds(t, ds) PROVE Holds(s \o t, ds)
  <1>1. Holds(s \o t, <<>> \o ds) BY HoldsJoin DEF Plain
  <1>2. <<>> \o ds = ds BY DEF Holds, ItemList
  <1> QED BY <1>1, <1>2

\* The other way round.
LEMMA HoldsBefore ==
    ASSUME NEW s, NEW t, NEW ds, Holds(s, ds), Plain(t) PROVE Holds(s \o t, ds)
  <1>1. Holds(s \o t, ds \o <<>>) BY HoldsJoin DEF Plain
  <1>2. ds \o <<>> = ds BY DEF Holds, ItemList
  <1> QED BY <1>1, <1>2

\* Two rows without pieces.
LEMMA PlainJoin ==
    ASSUME NEW s, NEW t, Plain(s), Plain(t) PROVE Plain(s \o t)
  BY HoldsAfter DEF Plain

\* Nothing carries nothing.
LEMMA PlainNone == Plain(<<>>)
  BY RowNone, HoldsNothing

\* A field is not codec data of a video track.
LEMMA PlainField == ASSUME NEW n PROVE Plain(Field(n))
  <1>1. PICK x : x = [is |-> "field", bytes |-> n] OBVIOUS
  <1>2. Field(n) = <<x>> /\ x.is = "field" BY <1>1 DEF Field
  <1> QED BY <1>2, RowOne, HoldsNothing

\* A head and its end carry no codec data themselves.
LEMMA HoldsWithin ==
    ASSUME NEW head, head.is # "data", NEW body, NEW ds, Holds(body, ds)
    PROVE  Holds(Within(head, body), ds)
  <1>1. PICK last : last = [is |-> "end", bytes |-> 0, head |-> head] OBVIOUS
  <1>2. last.is = "end" BY <1>1
  <1>3. Plain(<<head>>) /\ Plain(<<last>>) BY <1>2, RowOne, HoldsNothing
  <1>4. Within(head, body) = <<head>> \o body \o <<last>> BY <1>1 DEF Within
  <1> QED BY <1>3, <1>4, HoldsAfter, HoldsBefore

\* A box carries what its body does.
LEMMA HoldsBox ==
    ASSUME NEW type, NEW size, NEW body, NEW ds, Holds(body, ds)
    PROVE  Holds(Box(type, size, body), ds)
  <1>1. PICK head : head = [is |-> "box", bytes |-> 8, type |-> type, size |-> size] OBVIOUS
  <1>2. head.is = "box" BY <1>1
  <1>3. Box(type, size, body) = Within(head, body) BY <1>1 DEF Box
  <1> QED BY <1>2, <1>3, HoldsWithin

\* A descriptor carries none.
LEMMA PlainDescr ==
    ASSUME NEW tag, NEW len, NEW body, Plain(body)
    PROVE  Plain(Descr(tag, len, body))
  <1>1. PICK head : head = [is |-> "descr", bytes |-> 1 + (DescrLength(len) - len - 2) + 1,
                            tag |-> tag, size |-> DescrLength(len)]
    OBVIOUS
  <1>2. head.is = "descr" BY <1>1
  <1>3. Descr(tag, len, body) = Within(head, body) BY <1>1 DEF Descr
  <1> QED BY <1>2, <1>3, HoldsWithin DEF Plain

\* Nor does a box without pieces in its body.
LEMMA PlainBox ==
    ASSUME NEW type, NEW size, NEW body, Plain(body) PROVE Plain(Box(type, size, body))
  BY HoldsBox DEF Plain

\* The tables carry none.
LEMMA PlainTables ==
    ASSUME NEW t
    PROVE  /\ Plain(StcoTag(t)) /\ Plain(StszTag(t)) /\ Plain(StscTag(t)) /\ Plain(StssTag(t))
           /\ Plain(SttsTag(t))
  <1>1. Plain(StcoTag(t)) BY PlainField, PlainJoin, PlainBox DEF StcoTag
  <1>2. Plain(StszTag(t)) BY PlainField, PlainJoin, PlainBox DEF StszTag
  <1>3. Plain(StscTag(t)) BY PlainField, PlainJoin, PlainBox DEF StscTag
  <1>4. Plain(StssTag(t)) BY PlainField, PlainJoin, PlainBox DEF StssTag
  <1>5. Plain(SttsTag(t))
    <2>1. PICK x : x = IF t.video THEN Field(8 * (t.n.stts - 1)) \o Field(8) ELSE Field(8)
      OBVIOUS
    <2>2. Plain(x) BY <2>1, PlainField, PlainJoin
    <2>3. SttsTag(t) = Box("stts", SttsSize(t), Field(8) \o x) BY <2>1 DEF SttsTag
    <2> QED BY <2>2, <2>3, PlainField, PlainJoin, PlainBox
  <1> QED BY <1>1, <1>2, <1>3, <1>4, <1>5

\* Nor do the headers.
LEMMA PlainHeaders ==
    /\ Plain(DinfTag) /\ Plain(SmhdTag) /\ Plain(VmhdTag) /\ Plain(HdlrTag)
    /\ Plain(MdhdTag) /\ Plain(TkhdTag) /\ Plain(MvhdTag)
  <1>1. Plain(DinfTag)
    <2>1. Plain(DrefTag) BY PlainField, PlainJoin, PlainBox DEF DrefTag
    <2> QED BY <2>1, PlainBox DEF DinfTag
  <1>2. Plain(SmhdTag) BY PlainField, PlainJoin, PlainBox DEF SmhdTag
  <1>3. Plain(VmhdTag) BY PlainField, PlainJoin, PlainBox DEF VmhdTag
  <1>4. Plain(HdlrTag) BY PlainField, PlainJoin, PlainBox DEF HdlrTag
  <1>5. Plain(MdhdTag) BY PlainField, PlainJoin, PlainBox DEF MdhdTag
  <1>6. Plain(TkhdTag) BY PlainField, PlainJoin, PlainBox DEF TkhdTag
  <1>7. Plain(MvhdTag) BY PlainField, PlainJoin, PlainBox DEF MvhdTag
  <1> QED BY <1>1, <1>2, <1>3, <1>4, <1>5, <1>6, <1>7

\* The codec data of an audio track is a field.
LEMMA PlainEsds == ASSUME NEW t PROVE Plain(EsdsTag(t))
  <1>1. PICK x : x = IF t.csd = <<>> THEN <<>> ELSE Descr(5, Len(t.csd), Field(Len(t.csd)))
    OBVIOUS
  <1>2. Plain(x) BY <1>1, PlainNone, PlainField, PlainDescr
  <1>3. PICK m : m = 13 + SpecificInfo(t) OBVIOUS
  <1>4. PICK n : n = 3 + DescrLength(13 + SpecificInfo(t)) + DescrLength(1) OBVIOUS
  <1>5. PICK y : y = Descr(4, m, Field(13) \o x) OBVIOUS
  <1>6. Plain(y) BY <1>2, <1>5, PlainField, PlainJoin, PlainDescr
  <1>7. PICK z : z = Descr(6, 1, Field(1)) OBVIOUS
  <1>8. Plain(z) BY <1>7, PlainField, PlainDescr
  <1>9. EsdsTag(t) = Box("esds", EsdsSize(t), Field(4) \o Descr(3, n, Field(3) \o y \o z))
    BY <1>1, <1>3, <1>4, <1>5, <1>7 DEF EsdsTag
  <1>10. Plain(Descr(3, n, Field(3) \o y \o z)) BY <1>6, <1>8, PlainField, PlainJoin, PlainDescr
  <1> QED BY <1>9, <1>10, PlainField, PlainJoin, PlainBox

\* The description of an audio track carries none.
LEMMA PlainAudio == ASSUME NEW t PROVE Plain(AudioTag(t))
  <1>1. Plain(Field(4 + 4) \o Field(8) \o Field(12)) BY PlainField, PlainJoin
  <1> QED BY <1>1, PlainEsds, PlainJoin, PlainBox DEF AudioTag

\* What the configuration of an H264 track carries.
ParameterSets(d) ==
    IF HasStartCode(d) THEN <<LastOfType(NalUnits(d), SPS), LastOfType(NalUnits(d), PPS)>>
    ELSE <<d>>

\* The avcC box carries them.
LEMMA HoldsAvcc ==
    ASSUME NEW t, t.csd \in VideoCsds, Len(t.csd) > 6
    PROVE  Holds(AvccTag(t), ParameterSets(t.csd))
  <1>1. PICK d : d = t.csd OBVIOUS
  <1>2. Len(d) \in Nat /\ Len(d) > 6 /\ d \in VideoCsds BY <1>1, BoxesAssumption
  <1>3. CASE ~HasStartCode(d)
    <2>1. AvccTag(t) = Box("avcC", 8 + AvccSize(d), Copied(d)) BY <1>1, <1>2, <1>3 DEF AvccTag
    <2>2. ParameterSets(d) = <<d>> BY <1>3 DEF ParameterSets
    <2> QED BY <1>1, <2>1, <2>2, HoldsCopied, HoldsBox
  <1>4. CASE HasStartCode(d)
    <2>1. PICK sps, pps : sps = LastOfType(Units[d], SPS) /\ pps = LastOfType(Units[d], PPS)
      OBVIOUS
    <2>2. ParameterSets(d) = <<sps, pps>> BY <1>2, <1>4, <2>1 DEF ParameterSets, Units
    <2>3. AvccTag(t) = Box("avcC", 8 + AvccSize(d),
             Field(6) \o Field(2) \o Copied(sps) \o Field(1) \o Field(2) \o Copied(pps))
      BY <1>1, <1>2, <1>4, <2>1 DEF AvccTag
    <2>4. PICK x, y : x = Field(6) \o Field(2) /\ y = x \o Copied(sps) \o Field(1) \o Field(2)
      OBVIOUS
    <2>5. Plain(x) BY <2>4, PlainField, PlainJoin
    <2>6. Holds(x \o Copied(sps), <<sps>>) BY <2>5, HoldsCopied, HoldsAfter
    <2>7. Holds(y, <<sps>>) BY <2>4, <2>6, PlainField, HoldsBefore
    <2>8. Holds(y \o Copied(pps), <<sps>> \o <<pps>>) BY <2>7, HoldsCopied, HoldsJoin
    <2>9. <<sps>> \o <<pps>> = <<sps, pps>>
      <3>1. PICK u, S : u = <<sps>> \o <<pps>> /\ S = {sps, pps} OBVIOUS
      <3>2. u \in Seq(S) /\ Len(u) = 2 /\ u[1] = sps /\ u[2] = pps BY <3>1
      <3>3. PICK w : w = <<sps, pps>> OBVIOUS
      <3>4. w \in Seq(S) /\ Len(w) = 2 /\ w[1] = sps /\ w[2] = pps BY <3>1, <3>3
      <3>5. \A k \in 1..2 : u[k] = w[k] BY <3>2, <3>4
      <3>6. u = w BY <3>2, <3>4, <3>5
      <3> QED BY <3>1, <3>3, <3>6
    <2>10. Holds(y \o Copied(pps), <<sps, pps>>) BY <2>8, <2>9
    <2>11. AvccTag(t) = Box("avcC", 8 + AvccSize(d), y \o Copied(pps)) BY <2>3, <2>4
    <2> QED BY <1>1, <2>2, <2>10, <2>11, HoldsBox
  <1> QED BY <1>3, <1>4

\* So does the description of the track.
LEMMA HoldsVideo ==
    ASSUME NEW t, t.tag = "avc1", t.csd \in VideoCsds, Len(t.csd) > 6
    PROVE  Holds(VideoTag(t), ParameterSets(t.csd))
  <1>1. PICK x : x = Field(4 + 4) \o Field(4 + 12) \o Field(4 + 8 + 4 + 2) \o Field(32) \o Field(4)
    OBVIOUS
  <1>2. Plain(x) BY <1>1, PlainField, PlainJoin
  <1>3. VideoTag(t) = Box(t.tag, VideoSize(t), x \o AvccTag(t)) BY <1>1 DEF VideoTag
  <1> QED BY <1>2, <1>3, HoldsAvcc, HoldsAfter, HoldsBox

\* What a track carries is what its description does.
LEMMA HoldsTrak ==
    ASSUME NEW t, NEW ds, Holds(IF t.video THEN VideoTag(t) ELSE AudioTag(t), ds)
    PROVE  Holds(TrakTag(t), ds)
  <1>1. PICK v : v = IF t.video THEN VideoTag(t) ELSE AudioTag(t) OBVIOUS
  <1>2. Holds(StsdTag(t), ds) BY <1>1, PlainField, HoldsAfter, HoldsBox DEF StsdTag
  <1>3. PICK k : k = IF t.video THEN StssTag(t) ELSE <<>> OBVIOUS
  <1>4. Plain(k) BY <1>3, PlainTables, PlainNone
  <1>5. Holds(StblTag(t), ds)
    <2>1. StblTag(t) = Box("stbl", StblSize(t), StsdTag(t) \o SttsTag(t) \o k
                                     \o StscTag(t) \o StszTag(t) \o StcoTag(t))
      BY <1>3 DEF StblTag
    <2>2. Holds(StsdTag(t) \o SttsTag(t) \o k, ds) BY <1>2, <1>4, PlainTables, HoldsBefore
    <2>3. Holds(StsdTag(t) \o SttsTag(t) \o k \o StscTag(t) \o StszTag(t) \o StcoTag(t), ds)
      BY <2>2, PlainTables, HoldsBefore
    <2> QED BY <2>1, <2>3, HoldsBox
  <1>6. PICK h : h = IF t.video THEN VmhdTag ELSE SmhdTag OBVIOUS
  <1>7. Plain(h) BY <1>6, PlainHeaders
  <1>8. Holds(MinfTag(t), ds)
    <2>1. MinfTag(t) = Box("minf", MinfSize(t), h \o DinfTag \o StblTag(t)) BY <1>6 DEF MinfTag
    <2> QED BY <1>5, <1>7, <2>1, PlainHeaders, PlainJoin, HoldsAfter, HoldsBox
  <1>9. Holds(MdiaTag(t), ds)
    BY <1>8, PlainHeaders, PlainJoin, HoldsAfter, HoldsBox DEF MdiaTag
  <1> QED BY <1>9, PlainHeaders, HoldsAfter, HoldsBox DEF TrakTag

\* moov carries the parameter sets of the H264 track in it, and nothing of an
\* audio track.
LEMMA HoldsMoov ==
    ASSUME NEW traks, 0 \in DOMAIN traks, traks[0].video, traks[0].tag = "avc1",
           traks[0].csd \in VideoCsds, Len(traks[0].csd) > 6,
           1 \in DOMAIN traks => ~traks[1].video
    PROVE  Carries(MoovTag(traks), ParameterSets(traks[0].csd))
  <1>1. PICK v, ds : v = TrakTag(traks[0]) /\ ds = ParameterSets(traks[0].csd) OBVIOUS
  <1>2. Holds(v, ds) BY <1>1, HoldsVideo, HoldsTrak
  <1>3. PICK a : a = IF 1 \in DOMAIN traks THEN TrakTag(traks[1]) ELSE <<>> OBVIOUS
  <1>4. Plain(a)
    <2>1. CASE 1 \in DOMAIN traks BY <1>3, <2>1, PlainAudio, HoldsTrak DEF Plain
    <2>2. CASE 1 \notin DOMAIN traks BY <1>3, <2>2, PlainNone
    <2> QED BY <2>1, <2>2
  <1>5. MoovTag(traks) = Box("moov", MoovTagSize(traks), MvhdTag \o v \o a)
    BY <1>1, <1>3 DEF MoovTag
  <1>6. Holds(MvhdTag \o v \o a, ds) BY <1>2, <1>4, PlainHeaders, HoldsAfter, HoldsBefore
  <1>7. Holds(MoovTag(traks), ds) BY <1>5, <1>6, HoldsBox
  <1> QED BY <1>1, <1>7 DEF Holds

-----------------------------------------------------------------------------
\* What is asked of codec data with start codes: codes of four bytes, units of
\* four bytes or more, and no zeros behind a unit.
Stream(d) ==
    /\ d \in Seq(Byte) /\ HasStartCode(d) /\ Len(d) > 6 /\ Unstuffed(d)
    /\ \A q \in DOMAIN AnnexB(d) : Len(AnnexB(d)[q]) >= 4
    /\ \A q \in Codes(d, 1, Len(d) - 3) : d[q] = 0

\* The codes behind q, and where the unit of q ends.
Later(d, q) == {x \in Codes(d, 0, Len(d) - 3) : q < x}
EndAt(d, q) == IF Later(d, q) = {} THEN Len(d) ELSE Min(Later(d, q)) - 1

\* The bytes of a start code.
LEMMA CodeBytes ==
    ASSUME NEW d \in Seq(Byte), NEW q \in 0..(Len(d) - 3)
    PROVE  Code(d, q) <=> d[q + 1] = 0 /\ d[q + 2] = 0 /\ d[q + 3] = 1
  <1>1. PICK u : u = SubSeq(d, q + 1, q + 3) OBVIOUS
  <1>2. u \in Seq(Byte) /\ Len(u) = 3 /\ u[1] = d[q + 1] /\ u[2] = d[q + 2] /\ u[3] = d[q + 3]
    <2>1. q + 1 \in 1..(Len(d) + 1) /\ q + 3 \in (q + 1 - 1)..Len(d) OBVIOUS
    <2>2. /\ u \in Seq(Byte)
          /\ Len(u) = IF q + 1 <= q + 3 THEN (q + 3) - (q + 1) + 1 ELSE 0
          /\ \A i \in 1..((q + 3) - (q + 1) + 1) : u[i] = d[(q + 1) + i - 1]
      BY <1>1, <2>1, SubSeqProperties
    <2>3. (q + 3) - (q + 1) + 1 = 3 /\ q + 1 <= q + 3 OBVIOUS
    <2>4. (q + 1) + 1 - 1 = q + 1 /\ (q + 1) + 2 - 1 = q + 2 /\ (q + 1) + 3 - 1 = q + 3 OBVIOUS
    <2> QED BY <2>2, <2>3, <2>4
  <1>3. PICK w : w = <<0, 0, 1>> OBVIOUS
  <1>4. w \in Seq(Byte) /\ Len(w) = 3 /\ w[1] = 0 /\ w[2] = 0 /\ w[3] = 1 BY <1>3 DEF Byte
  <1>5. u = w <=> u[1] = w[1] /\ u[2] = w[2] /\ u[3] = w[3]
    <2>1. ASSUME u[1] = w[1], u[2] = w[2], u[3] = w[3] PROVE u = w
      <3>1. \A k \in 1..3 : u[k] = w[k] BY <2>1
      <3> QED BY <1>2, <1>4, <3>1
    <2> QED BY <2>1
  <1> QED BY <1>1, <1>2, <1>3, <1>4, <1>5 DEF Code

\* A piece of a piece.
LEMMA PieceOfPiece ==
    ASSUME NEW d \in Seq(Byte), NEW a \in 1..Len(d), NEW e \in a..Len(d), NEW m \in 1..(e - a + 1)
    PROVE  SubSeq(SubSeq(d, a, e), 1, m) = SubSeq(d, a, a + m - 1)
  <1>1. PICK u, v, w : u = SubSeq(d, a, e) /\ v = SubSeq(u, 1, m) /\ w = SubSeq(d, a, a + m - 1)
    OBVIOUS
  <1>2. u \in Seq(Byte) /\ Len(u) = e - a + 1 /\ \A i \in 1..(e - a + 1) : u[i] = d[a + i - 1]
    BY <1>1, SubSeqProperties
  <1>3. v \in Seq(Byte) /\ Len(v) = m /\ \A i \in 1..m : v[i] = u[i]
    <2>1. 1 \in 1..(Len(u) + 1) /\ m \in (1 - 1)..Len(u) /\ 1 <= m /\ m - 1 + 1 = m BY <1>2
    <2>2. \A i \in 1..m : 1 + i - 1 = i OBVIOUS
    <2> QED BY <1>1, <1>2, <2>1, <2>2, SubSeqProperties
  <1>4. w \in Seq(Byte) /\ Len(w) = m /\ \A i \in 1..m : w[i] = d[a + i - 1]
    <2>1. a \in 1..(Len(d) + 1) /\ a + m - 1 \in (a - 1)..Len(d) /\ a <= a + m - 1
          /\ (a + m - 1) - a + 1 = m
      OBVIOUS
    <2> QED BY <1>1, <2>1, SubSeqProperties
  <1>5. \A i \in 1..m : v[i] = w[i] BY <1>2, <1>3, <1>4
  <1>6. v = w BY <1>3, <1>4, <1>5
  <1> QED BY <1>1, <1>6

\* Only the zeros at the end go.
LEMMA ZerosGone ==
    ASSUME NEW u \in Seq(Byte), NEW m \in 1..Len(u), u[m] # 0,
           \A k \in (m + 1)..Len(u) : u[k] = 0
    PROVE  WithoutZeros(u) = SubSeq(u, 1, m)
  <1> DEFINE kept == {k \in DOMAIN u : u[k] # 0}
             c == CHOOSE k \in kept : \A l \in kept : l <= k
  <1>1. m \in kept /\ \A k \in kept : k \in Nat /\ k <= m OBVIOUS
  <1>2. WithoutZeros(u) = IF kept = {} THEN <<>> ELSE SubSeq(u, 1, c) BY DEF WithoutZeros
  <1>3. c = m
    <2> HIDE DEF kept
    <2>1. c \in kept /\ \A l \in kept : l <= c BY <1>1
    <2> HIDE DEF c
    <2> QED BY <1>1, <2>1
  <1> HIDE DEF c, kept
  <1> QED BY <1>1, <1>2, <1>3

\* What is left has a last byte that is not 0.
LEMMA ZerosLeave ==
    ASSUME NEW u \in Seq(Byte), Len(WithoutZeros(u)) >= 4
    PROVE  Len(u) >= 4 /\ \E m \in 4..Len(u) : u[m] # 0 /\ \A k \in (m + 1)..Len(u) : u[k] = 0
  <1> DEFINE kept == {k \in DOMAIN u : u[k] # 0}
             c == CHOOSE k \in kept : \A l \in kept : l <= k
  <1>0. Len(u) \in Nat /\ DOMAIN u = 1..Len(u) OBVIOUS
  <1>1. WithoutZeros(u) = IF kept = {} THEN <<>> ELSE SubSeq(u, 1, c) BY DEF WithoutZeros
  <1>2. kept # {}
    <2>1. Len(<<>>) = 0 /\ ~(0 >= 4) OBVIOUS
    <2> HIDE DEF kept, c
    <2> QED BY <1>1, <2>1
  <1>3. c \in kept /\ \A l \in kept : l <= c
    <2>1. kept \subseteq 1..Len(u) BY <1>0
    <2> HIDE DEF kept
    <2>2. \E k \in kept : \A l \in kept : l <= k BY <1>0, <1>2, <2>1, Greatest
    <2> QED BY <2>2
  <1> HIDE DEF c
  <1>4. c \in 1..Len(u) /\ u[c] # 0 /\ \A k \in (c + 1)..Len(u) : u[k] = 0
    <2>1. c \in 1..Len(u) /\ u[c] # 0 BY <1>3
    <2>2. ASSUME NEW k \in (c + 1)..Len(u) PROVE u[k] = 0
      <3>1. k \in 1..Len(u) /\ ~(k <= c) BY <1>0, <2>1
      <3>2. k \notin kept BY <1>3, <3>1
      <3> QED BY <1>0, <3>1, <3>2
    <2> QED BY <2>1, <2>2
  <1>5. Len(SubSeq(u, 1, c)) = c
    <2>1. 1 \in 1..(Len(u) + 1) /\ c \in (1 - 1)..Len(u) /\ 1 <= c /\ c - 1 + 1 = c BY <1>4
    <2> QED BY <2>1, SubSeqProperties
  <1> HIDE DEF kept
  <1>6. c >= 4 BY <1>1, <1>2, <1>5
  <1> QED BY <1>0, <1>4, <1>6

\* The least later code.
LEMMA LaterFacts ==
    ASSUME NEW d, Stream(d), NEW q \in Codes(d, 0, Len(d) - 3), Later(d, q) # {}
    PROVE  /\ Min(Later(d, q)) \in Codes(d, 0, Len(d) - 3) /\ q < Min(Later(d, q))
           /\ \A x \in Later(d, q) : Min(Later(d, q)) <= x
  <1> DEFINE L == Later(d, q)
  <1>1. L \subseteq Nat /\ L # {} BY DEF Later, Codes
  <1> HIDE DEF L
  <1>2. \E x \in L : \A y \in L : x <= y BY <1>1, Least
  <1>3. Min(L) \in L /\ \A y \in L : Min(L) <= y BY <1>2 DEF Min
  <1> QED BY <1>3 DEF L, Later

\* Codes do not overlap.
LEMMA CodesApart ==
    ASSUME NEW d, Stream(d), NEW q \in Codes(d, 0, Len(d) - 3), NEW x \in Later(d, q)
    PROVE  q \in Nat /\ x \in Nat /\ x >= q + 3 /\ x <= Len(d) - 3 /\ Code(d, x)
  <1>0. d \in Seq(Byte) /\ Len(d) \in Nat BY DEF Stream
  <1>1. /\ q \in 0..(Len(d) - 3) /\ x \in 0..(Len(d) - 3) /\ Code(d, q) /\ Code(d, x) /\ q < x
    BY DEF Later, Codes
  <1>2. d[q + 3] = 1 /\ d[x + 1] = 0 /\ d[x + 2] = 0 BY <1>0, <1>1, CodeBytes
  <1>3. x # q + 1
    <2>1. x = q + 1 => x + 2 = q + 3 BY <1>1
    <2> QED BY <1>2, <2>1
  <1>4. x # q + 2
    <2>1. x = q + 2 => x + 1 = q + 3 BY <1>1
    <2> QED BY <1>2, <2>1
  <1> QED BY <1>0, <1>1, <1>3, <1>4

\* The first code is the one the data begins with.
LEMMA FirstCode ==
    ASSUME NEW d, Stream(d)
    PROVE  1 \in Codes(d, 0, Len(d) - 3) /\ \A q \in Codes(d, 0, Len(d) - 3) : q \in Nat /\ 1 <= q
  <1>0. d \in Seq(Byte) /\ Len(d) \in Nat /\ Len(d) > 6 BY DEF Stream
  <1>1. d[1] = 0 /\ d[2] = 0 /\ d[3] = 0 /\ d[4] = 1
    <2>1. PICK u, w : u = SubSeq(d, 1, 4) /\ w = <<0, 0, 0, 1>> OBVIOUS
    <2>2. u = w BY <2>1 DEF Stream, HasStartCode
    <2>3. w[1] = 0 /\ w[2] = 0 /\ w[3] = 0 /\ w[4] = 1 BY <2>1
    <2>4. u[1] = d[1] /\ u[2] = d[2] /\ u[3] = d[3] /\ u[4] = d[4]
      <3>1. 1 \in 1..(Len(d) + 1) /\ 4 \in (1 - 1)..Len(d) BY <1>0
      <3>2. \A i \in 1..(4 - 1 + 1) : u[i] = d[1 + i - 1] BY <1>0, <2>1, <3>1, SubSeqProperties
      <3> QED BY <3>2
    <2> QED BY <2>2, <2>3, <2>4
  <1>2. 1 \in 0..(Len(d) - 3) /\ 0 \in 0..(Len(d) - 3) BY <1>0
  <1>3. Code(d, 1) /\ ~Code(d, 0)
    <2>1. 1 + 1 = 2 /\ 1 + 2 = 3 /\ 1 + 3 = 4 /\ 0 + 3 = 3 OBVIOUS
    <2>2. Code(d, 1) BY <1>0, <1>1, <1>2, <2>1, CodeBytes
    <2>3. ~Code(d, 0) BY <1>0, <1>1, <1>2, <2>1, CodeBytes
    <2> QED BY <2>2, <2>3
  <1>4. ASSUME NEW q \in Codes(d, 0, Len(d) - 3) PROVE q \in Nat /\ 1 <= q
    <2>1. q \in 0..(Len(d) - 3) /\ Code(d, q) BY DEF Codes
    <2>2. q # 0 BY <1>3, <2>1
    <2> QED BY <2>1, <2>2
  <1> QED BY <1>2, <1>3, <1>4 DEF Codes

\* The unit of a code, by definition: up to the next code, which takes the zero
\* before it, or up to the end.
LEMMA UnitOfCode ==
    ASSUME NEW d, Stream(d), NEW q \in Codes(d, 0, Len(d) - 3)
    PROVE  /\ q \in DOMAIN AnnexB(d) /\ AnnexB(d)[q] = SubSeq(d, q + 4, EndAt(d, q))
           /\ EndAt(d, q) \in (q + 7)..Len(d)
  <1> DEFINE N == Len(d)
             s == IF Later(d, q) = {} THEN N ELSE Min(Later(d, q))
             u == SubSeq(d, q + 4, s)
  <1>0. d \in Seq(Byte) /\ N \in Nat /\ N > 6 BY DEF Stream
  <1>1. q \in 0..(N - 3) /\ 1 <= q /\ q \in Nat BY FirstCode DEF Codes
  <1>2. q \in DOMAIN AnnexB(d) /\ AnnexB(d)[q] = WithoutZeros(u) BY DEF AnnexB, Later
  <1>3. Len(WithoutZeros(u)) >= 4 BY <1>2 DEF Stream
  <1>4. s \in Nat /\ s <= N /\ q + 3 <= s
    <2>1. CASE Later(d, q) = {} BY <1>0, <1>1, <2>1
    <2>2. CASE Later(d, q) # {}
      <3>1. PICK x : x = Min(Later(d, q)) OBVIOUS
      <3>2. x \in Later(d, q) BY <2>2, <3>1, LaterFacts DEF Later
      <3> QED BY <1>0, <2>2, <3>1, <3>2, CodesApart
    <2> QED BY <2>1, <2>2
  <1> HIDE DEF N, s
  <1>5. u \in Seq(Byte) /\ Len(u) = s - q - 3 /\ \A i \in 1..(s - q - 3) : u[i] = d[q + 3 + i]
    <2>1. q + 4 \in 1..(N + 1) /\ s \in (q + 4 - 1)..N BY <1>0, <1>1, <1>4
    <2>2. /\ u \in Seq(Byte) /\ Len(u) = IF q + 4 <= s THEN s - (q + 4) + 1 ELSE 0
          /\ \A i \in 1..(s - (q + 4) + 1) : u[i] = d[(q + 4) + i - 1]
      BY <1>0, <2>1, SubSeqProperties DEF N
    <2>3. s - (q + 4) + 1 = s - q - 3 /\ \A i \in 1..(s - q - 3) : (q + 4) + i - 1 = q + 3 + i
      BY <1>1, <1>4
    <2>4. ~(q + 4 <= s) => s - q - 3 = 0 BY <1>1, <1>4
    <2> HIDE DEF u
    <2> QED BY <2>2, <2>3, <2>4
  <1>6. PICK v : v = u OBVIOUS
  <1> HIDE DEF u
  <1>7. Len(v) >= 4 BY <1>3, <1>5, <1>6, ZerosLeave
  <1>8. s >= q + 7 BY <1>1, <1>4, <1>5, <1>6, <1>7
  <1>9. CASE Later(d, q) = {}
    <2>1. s = N /\ EndAt(d, q) = N BY <1>9 DEF s, EndAt, N
    <2>2. d[N] # 0 BY DEF Stream, Unstuffed, N
    <2>3. s - q - 3 \in 1..Len(v) /\ q + 3 + (s - q - 3) = s /\ Len(v) = s - q - 3
      BY <1>1, <1>4, <1>5, <1>6, <1>8
    <2>4. v[Len(v)] # 0 BY <1>5, <1>6, <2>1, <2>2, <2>3
    <2>5. \A k \in (Len(v) + 1)..Len(v) : v[k] = 0 BY <2>3
    <2>6. WithoutZeros(v) = SubSeq(v, 1, Len(v)) BY <1>5, <1>6, <2>3, <2>4, <2>5, ZerosGone
    <2>7. q + 4 \in 1..N /\ s \in (q + 4)..N /\ s - q - 3 \in 1..(s - (q + 4) + 1)
          /\ q + 4 + (s - q - 3) - 1 = s
      BY <1>0, <1>1, <1>4, <1>8
    <2>8. WithoutZeros(v) = SubSeq(d, q + 4, s)
      BY <1>0, <1>6, <2>3, <2>6, <2>7, PieceOfPiece DEF u, N
    <2>9. N \in (q + 7)..N BY <1>0, <1>1, <1>8, <2>1
    <2> QED BY <1>2, <1>6, <2>1, <2>8, <2>9 DEF N
  <1>10. CASE Later(d, q) # {}
    <2>1. s = Min(Later(d, q)) /\ EndAt(d, q) = s - 1 BY <1>10 DEF s, EndAt
    <2>2. s \in Codes(d, 0, N - 3) BY <1>10, <2>1, LaterFacts DEF N
    <2>3. s \in Codes(d, 1, N - 3) /\ s \in Codes(d, 2, N - 3) BY <1>1, <1>4, <1>8, <2>2 DEF Codes
    <2>4. d[s] = 0 /\ d[s - 1] # 0 BY <2>3 DEF Stream, Unstuffed, N
    <2>5. PICK m \in Nat : m = s - q - 4 BY <1>1, <1>4, <1>8
    <2>6. m \in 1..Len(v) /\ q + 3 + m = s - 1 /\ Len(v) = m + 1 /\ q + 3 + (m + 1) = s
      BY <1>1, <1>4, <1>5, <1>6, <1>8, <2>5
    <2>7. v[m] # 0 /\ v[m + 1] = 0
      <3>1. m \in 1..(s - q - 3) /\ m + 1 \in 1..(s - q - 3) BY <1>1, <1>4, <2>5, <2>6
      <3> QED BY <1>5, <1>6, <2>4, <2>6, <3>1
    <2>8. \A k \in (m + 1)..Len(v) : v[k] = 0
      <3>1. \A k \in (m + 1)..Len(v) : k = m + 1 BY <2>6
      <3> QED BY <2>7, <3>1
    <2>9. WithoutZeros(v) = SubSeq(v, 1, m) BY <1>5, <1>6, <2>6, <2>7, <2>8, ZerosGone
    <2>10. q + 4 \in 1..N /\ s \in (q + 4)..N /\ m \in 1..(s - (q + 4) + 1)
          /\ q + 4 + m - 1 = s - 1
      BY <1>0, <1>1, <1>4, <1>8, <2>5, <2>6
    <2>11. WithoutZeros(v) = SubSeq(d, q + 4, s - 1)
      BY <1>0, <1>6, <2>9, <2>10, PieceOfPiece DEF u, N
    <2>12. s - 1 >= q + 7
      <3>1. PICK k \in 4..Len(v) : v[k] # 0 /\ \A i \in (k + 1)..Len(v) : v[i] = 0
        BY <1>3, <1>5, <1>6, ZerosLeave
      <3>2. k # m + 1 BY <2>7, <3>1
      <3> QED BY <1>1, <1>4, <2>5, <2>6, <3>2
    <2>13. s - 1 \in (q + 7)..N BY <1>0, <1>1, <1>4, <2>12
    <2> QED BY <1>2, <1>6, <2>1, <2>11, <2>13 DEF N
  <1> QED BY <1>9, <1>10

\* From behind a code the writer's search finds the end of its unit.
LEMMA NextFound ==
    ASSUME NEW d, Stream(d), NEW q \in Codes(d, 0, Len(d) - 3)
    PROVE  FindStartCode(d, q + 3) = EndAt(d, q)
  <1> DEFINE N == Len(d)
             b == q + 3
             codes == Codes(d, b, N - 4)
             x == CHOOSE y \in codes : \A z \in codes : y <= z
             aligned == b + 4 - (b % 4)
             words == IF aligned < N - 3 THEN aligned ELSE N - 3
             word == x - ((x - words) % 4)
  <1>0. d \in Seq(Byte) /\ N \in Nat /\ N > 6 BY DEF Stream
  <1>1. q \in 0..(N - 3) /\ 1 <= q /\ q \in Nat BY FirstCode DEF Codes
  <1>2. FindStartCode(d, b) = IF codes = {} THEN N
                              ELSE IF x >= words /\ word < N - 6 THEN x - 1 ELSE x
    BY DEF FindStartCode
  <1>3. codes = Later(d, q)
    <2>1. ASSUME NEW y \in codes PROVE y \in Later(d, q)
      <3>1. y \in b..(N - 4) /\ Code(d, y) BY DEF Codes
      <3>2. y \in 0..(N - 3) /\ q < y BY <1>0, <1>1, <3>1
      <3> QED BY <3>1, <3>2 DEF Later, Codes
    <2>2. ASSUME NEW y \in Later(d, q) PROVE y \in codes
      <3>1. y \in Nat /\ y >= q + 3 /\ y <= N - 3 /\ Code(d, y) BY CodesApart
      <3>2. y \in Codes(d, 0, N - 3) BY DEF Later
      <3>3. y + 7 <= N
        <4>1. EndAt(d, y) \in (y + 7)..N BY <3>2, UnitOfCode
        <4> QED BY <1>0, <3>1, <4>1
      <3>4. y \in b..(N - 4) BY <1>0, <1>1, <3>1, <3>3
      <3> QED BY <3>1, <3>4 DEF Codes
    <2> HIDE DEF codes
    <2> QED BY <2>1, <2>2
  <1>4. CASE Later(d, q) = {} BY <1>2, <1>3, <1>4 DEF EndAt
  <1>5. CASE Later(d, q) # {}
    <2>1. x = Min(Later(d, q)) BY <1>3 DEF Min
    <2>2. PICK y : y = x OBVIOUS
    <2>3. y \in Codes(d, 0, N - 3) /\ y \in Later(d, q) BY <1>5, <2>1, <2>2, LaterFacts DEF Later
    <2>4. y \in Nat BY <2>3, CodesApart
    <2>5. y + 7 <= N
      <3>1. EndAt(d, y) \in (y + 7)..N BY <2>3, UnitOfCode
      <3> QED BY <1>0, <2>4, <3>1
    <2>6. EndAt(d, q) = y - 1 BY <1>5, <2>1, <2>2 DEF EndAt
    <2>7. y - 1 >= q + 7
      <3>1. EndAt(d, q) \in (q + 7)..N BY UnitOfCode
      <3> QED BY <1>0, <1>1, <2>4, <2>6, <3>1
    <2> HIDE DEF x, codes
    <2>8. aligned \in Nat /\ aligned <= b + 4
      <3>1. b \in Nat /\ b % 4 \in 0..3 BY <1>1
      <3> HIDE DEF b
      <3> QED BY <3>1
    <2> HIDE DEF aligned
    <2>9. words \in Int /\ words <= y /\ words <= b + 4 BY <1>0, <1>1, <2>4, <2>7, <2>8
    <2>10. word < N - 6
      <3>1. PICK w \in Int : w = words BY <2>9
      <3>2. (y - w) \in Nat BY <2>4, <2>9, <3>1
      <3>3. (y - w) % 4 \in 0..3 BY <3>2
      <3>4. y - ((y - w) % 4) <= y BY <2>4, <3>3
      <3>5. word = y - ((y - w) % 4) BY <2>2, <3>1
      <3>6. y - ((y - w) % 4) \in Int BY <2>4, <3>3
      <3> HIDE DEF word
      <3> QED BY <1>0, <2>4, <2>5, <3>4, <3>5, <3>6
    <2> HIDE DEF word, words
    <2>11. FindStartCode(d, b) = x - 1 BY <1>2, <1>3, <1>5, <2>2, <2>9, <2>10
    <2> QED BY <2>2, <2>6, <2>11
  <1> QED BY <1>4, <1>5

\* From the front of the data it finds the first code.
LEMMA FirstFound == ASSUME NEW d, Stream(d) PROVE FindStartCode(d, 0) = 1
  <1> DEFINE N == Len(d)
             codes == Codes(d, 0, N - 4)
             x == CHOOSE y \in codes : \A z \in codes : y <= z
             aligned == 0 + 4 - (0 % 4)
             words == IF aligned < N - 3 THEN aligned ELSE N - 3
             word == x - ((x - words) % 4)
  <1>0. d \in Seq(Byte) /\ N \in Nat /\ N > 6 BY DEF Stream
  <1>1. FindStartCode(d, 0) = IF codes = {} THEN N
                              ELSE IF x >= words /\ word < N - 6 THEN x - 1 ELSE x
    BY DEF FindStartCode
  <1>2. 1 \in codes /\ \A y \in codes : y \in Nat /\ 1 <= y
    <2>1. Code(d, 1) BY FirstCode DEF Codes
    <2>2. 1 \in codes BY <1>0, <2>1 DEF Codes
    <2>3. codes \subseteq Codes(d, 0, N - 3)
      <3>1. \A y \in 0..(N - 4) : y \in 0..(N - 3) BY <1>0
      <3> QED BY <3>1 DEF Codes
    <2> HIDE DEF codes
    <2> QED BY <2>2, <2>3, FirstCode
  <1>3. x = 1
    <2> HIDE DEF codes
    <2>1. x \in codes /\ \A y \in codes : x <= y BY <1>2
    <2> HIDE DEF x
    <2> QED BY <1>2, <2>1
  <1>4. aligned = 4 OBVIOUS
  <1>5. words >= 4 /\ words \in Int BY <1>0, <1>4
  <1> HIDE DEF x, codes, words, word
  <1>6. ~(x >= words) BY <1>3, <1>5
  <1> QED BY <1>1, <1>2, <1>3, <1>6

\* Where the parser takes up the unit of a code: at the code or, but for the
\* first, at the zero before it.
Start(q) == IF q = 1 THEN 1 ELSE q - 1

\* Behind the zeros at that offset and the 1 the unit begins.
LEMMA BehindCode ==
    ASSUME NEW d, Stream(d), NEW q \in Codes(d, 0, Len(d) - 3)
    PROVE  /\ Start(q) \in Offsets(d) /\ Start(q) # Len(d) /\ Start(q) \in {q - 1, q}
           /\ Behind(d, Start(q)) = q + 3
  <1> DEFINE N == Len(d)
             P(p, j) == d[j + 1] # 0 /\ \A k \in p..(j - 1) : d[k + 1] = 0
  <1>0. d \in Seq(Byte) /\ N \in Nat /\ N > 6 BY DEF Stream
  <1>1. q \in 0..(N - 3) /\ 1 <= q /\ q \in Nat /\ Code(d, q) BY FirstCode DEF Codes
  <1>2. d[q + 1] = 0 /\ d[q + 2] = 0 /\ d[q + 3] = 1 BY <1>0, <1>1, CodeBytes
  <1>3. q # 1 => d[q] = 0
    <2>1. q # 1 => q \in Codes(d, 2, N - 3) BY <1>1 DEF Codes
    <2> QED BY <2>1 DEF Stream, Unstuffed
  <1>4. PICK p : p = Start(q) OBVIOUS
  <1>5. p \in Nat /\ p \in {q - 1, q} /\ p <= q /\ p < N /\ q - 1 <= p /\ (p # q => q # 1)
    BY <1>0, <1>1, <1>4 DEF Start
  <1>6. ASSUME NEW k \in p..(q + 1) PROVE d[k + 1] = 0
    <2>1. CASE k = q - 1
      <3>1. k + 1 = q /\ q # 1 BY <1>1, <1>5, <2>1
      <3> QED BY <1>3, <3>1
    <2>2. CASE k = q \/ k = q + 1
      <3>1. k + 1 = q + 1 \/ k + 1 = q + 2 BY <1>1, <2>2
      <3> QED BY <1>2, <3>1
    <2>3. k = q - 1 \/ k = q \/ k = q + 1 BY <1>1, <1>5
    <2> QED BY <2>1, <2>2, <2>3
  <1>7. P(p, q + 2)
    <2>1. (q + 2) + 1 = q + 3 /\ (q + 2) - 1 = q + 1 BY <1>1
    <2> QED BY <1>2, <1>6, <2>1
  <1>8. q + 2 \in p..(N - 1) BY <1>0, <1>1, <1>5
  <1>9. ASSUME NEW j \in p..(N - 1), P(p, j) PROVE j = q + 2
    <2>1. ~(j <= q + 1)
      <3>1. j <= q + 1 => j \in p..(q + 1) BY <1>1, <1>5
      <3> QED BY <1>6, <1>9, <3>1
    <2>2. ~(q + 2 <= j - 1)
      <3>1. q + 2 <= j - 1 => q + 2 \in p..(j - 1) BY <1>1, <1>5
      <3>2. (q + 2) + 1 = q + 3 BY <1>1
      <3> QED BY <1>2, <1>9, <3>1, <3>2
    <2> QED BY <1>1, <1>5, <2>1, <2>2
  <1> DEFINE c == CHOOSE j \in p..(N - 1) : P(p, j)
  <1>10. c = q + 2
    <2> HIDE DEF P
    <2>1. c \in p..(N - 1) /\ P(p, c) BY <1>7, <1>8
    <2> HIDE DEF c
    <2> QED BY <1>9, <2>1
  <1>11. Behind(d, p) = 1 + c BY DEF Behind
  <1> HIDE DEF c
  <1>12. Behind(d, p) = q + 3 BY <1>1, <1>10, <1>11
  <1>13. p \in Offsets(d)
    <2>1. p \in 0..(N - 1) BY <1>0, <1>5
    <2> QED BY <1>7, <1>8, <2>1 DEF Offsets
  <1> QED BY <1>0, <1>4, <1>5, <1>12, <1>13

\* So it finds the unit of the code, and goes on where that of the next one is
\* taken up, or stops.
LEMMA UnitFound ==
    ASSUME NEW d, Stream(d), NEW q \in Codes(d, 0, Len(d) - 3)
    PROVE  /\ UnitAt(d, Start(q)) = AnnexB(d)[q]
           /\ Later(d, q) = {} => Stop(d, Start(q)) = Len(d)
           /\ Later(d, q) # {} => Stop(d, Start(q)) = Start(Min(Later(d, q)))
  <1>1. q \in Nat /\ 1 <= q BY FirstCode
  <1>2. Stop(d, Start(q)) = EndAt(d, q) BY BehindCode, NextFound DEF Stop
  <1>3. UnitAt(d, Start(q)) = SubSeq(d, q + 4, EndAt(d, q))
    <2>1. (q + 3) + 1 = q + 4 BY <1>1
    <2> QED BY <1>2, <2>1, BehindCode DEF UnitAt
  <1>4. ASSUME Later(d, q) # {} PROVE Start(Min(Later(d, q))) = Min(Later(d, q)) - 1
    <2>1. q < Min(Later(d, q)) BY <1>4, LaterFacts
    <2>2. Min(Later(d, q)) # 1 BY <1>1, <2>1
    <2> QED BY <2>2 DEF Start
  <1> QED BY <1>2, <1>3, <1>4, UnitOfCode DEF EndAt

\* Two tables of units, by number or by offset, agree on a type: both have one
\* and the last is the same, or neither has.
Has(units, type) == \E k \in DOMAIN units : units[k][1] % 32 = type
Agree(s, f, type) ==
    (Has(s, type) <=> Has(f, type)) /\ LastOfType(s, type) = LastOfType(f, type)

\* The last unit of a type is the one no other is behind.
LEMMA LastIs ==
    ASSUME NEW f, NEW type, NEW m \in DOMAIN f, f[m][1] % 32 = type, DOMAIN f \subseteq Nat,
           \A k \in DOMAIN f : f[k][1] % 32 = type => k <= m
    PROVE  LastOfType(f, type) = f[m]
  <1> DEFINE found == {k \in DOMAIN f : f[k][1] % 32 = type}
             c == CHOOSE k \in found : \A l \in found : l <= k
  <1>1. LastOfType(f, type) = IF found = {} THEN <<>> ELSE f[c] BY DEF LastOfType
  <1>2. m \in found /\ \A k \in found : k \in Nat /\ k <= m OBVIOUS
  <1> HIDE DEF found
  <1>3. c \in found /\ \A l \in found : l <= c BY <1>2
  <1> HIDE DEF c
  <1>4. c = m BY <1>2, <1>3
  <1> QED BY <1>1, <1>2, <1>4

\* Without one of a type there is nothing.
LEMMA LastNone == ASSUME NEW f, NEW type, ~Has(f, type) PROVE LastOfType(f, type) = <<>>
  <1> DEFINE found == {k \in DOMAIN f : f[k][1] % 32 = type}
  <1>1. found = {} BY DEF Has
  <1> QED BY <1>1 DEF LastOfType

\* With one there is a last.
LEMMA LastOne ==
    ASSUME NEW f, NEW type, NEW n \in Nat, DOMAIN f \subseteq 1..n, Has(f, type)
    PROVE  \E m \in DOMAIN f :
              /\ f[m][1] % 32 = type /\ \A k \in DOMAIN f : f[k][1] % 32 = type => k <= m
              /\ LastOfType(f, type) = f[m]
  <1> DEFINE found == {k \in DOMAIN f : f[k][1] % 32 = type}
  <1>1. found # {} /\ found \subseteq 1..n BY DEF Has
  <1> HIDE DEF found
  <1>2. PICK m \in found : \A k \in found : k <= m BY <1>1, Greatest
  <1> USE DEF found
  <1>3. m \in DOMAIN f /\ f[m][1] % 32 = type /\ \A k \in DOMAIN f : f[k][1] % 32 = type => k <= m
    BY <1>2
  <1>4. DOMAIN f \subseteq Nat OBVIOUS
  <1>5. LastOfType(f, type) = f[m] BY <1>3, <1>4, LastIs
  <1> QED BY <1>3, <1>5

\* They agree still with the same unit in front of both.
LEMMA AgreeStep ==
    ASSUME NEW s \in Seq(Seq(Byte)), NEW u \in Seq(Byte), NEW f, NEW g, NEW type,
           NEW n \in Nat, NEW q \in Nat, DOMAIN f \subseteq 1..n, \A k \in DOMAIN f : q < k,
           Agree(s, f, type), DOMAIN g = {q} \cup DOMAIN f, g[q] = u,
           \A k \in DOMAIN f : g[k] = f[k]
    PROVE  Agree(<<u>> \o s, g, type)
  <1> DEFINE w == <<u>> \o s
             l == Len(s)
  <1>1. l \in Nat /\ DOMAIN s = 1..l OBVIOUS
  <1>2. DOMAIN w = 1..(l + 1) /\ w[1] = u /\ \A k \in 1..l : w[1 + k] = s[k]
    <2>1. <<u>> \in Seq(Seq(Byte)) /\ Len(<<u>>) = 1 /\ <<u>>[1] = u OBVIOUS
    <2> QED BY <2>1
  <1> HIDE DEF w, l
  <1>3. ASSUME NEW k \in DOMAIN w PROVE k = 1 \/ \E i \in 1..l : k = 1 + i
    <2>1. k # 1 => k - 1 \in 1..l /\ k = 1 + (k - 1) BY <1>1, <1>2
    <2> QED BY <2>1
  <1>4. DOMAIN g \subseteq Nat /\ DOMAIN w \subseteq Nat BY <1>1, <1>2
  <1>5. CASE Has(s, type)
    <2>1. PICK m \in DOMAIN s :
             /\ s[m][1] % 32 = type /\ \A k \in DOMAIN s : s[k][1] % 32 = type => k <= m
             /\ LastOfType(s, type) = s[m]
      BY <1>1, <1>5, LastOne
    <2>2. Has(f, type) BY <1>5 DEF Agree
    <2>3. PICK i \in DOMAIN f :
             /\ f[i][1] % 32 = type /\ \A k \in DOMAIN f : f[k][1] % 32 = type => k <= i
             /\ LastOfType(f, type) = f[i]
      BY <2>2, LastOne
    <2>4. LastOfType(w, type) = s[m]
      <3>1. 1 + m \in DOMAIN w /\ w[1 + m] = s[m] BY <1>1, <1>2
      <3>2. ASSUME NEW k \in DOMAIN w, w[k][1] % 32 = type PROVE k <= 1 + m
        <4>1. CASE k = 1 BY <1>1, <4>1
        <4>2. ASSUME NEW j \in 1..l, k = 1 + j PROVE k <= 1 + m
          <5>1. w[k] = s[j] BY <1>2, <4>2
          <5>2. j <= m BY <1>1, <2>1, <3>2, <5>1
          <5> QED BY <1>1, <4>2, <5>2
        <4> QED BY <1>3, <4>1, <4>2
      <3> QED BY <1>4, <2>1, <3>1, <3>2, LastIs
    <2>5. LastOfType(g, type) = f[i]
      <3>1. i \in DOMAIN g /\ g[i] = f[i] /\ g[i][1] % 32 = type BY <2>3
      <3>2. ASSUME NEW k \in DOMAIN g, g[k][1] % 32 = type PROVE k <= i
        <4>1. CASE k = q BY <4>1
        <4>2. CASE k \in DOMAIN f BY <2>3, <3>2, <4>2
        <4> QED BY <4>1, <4>2
      <3> QED BY <1>4, <3>1, <3>2, LastIs
    <2>6. Has(w, type)
      <3>1. 1 + m \in DOMAIN w /\ w[1 + m] = s[m] BY <1>1, <1>2
      <3> QED BY <2>1, <3>1 DEF Has
    <2>7. Has(g, type)
      <3>1. i \in DOMAIN g /\ g[i] = f[i] OBVIOUS
      <3> QED BY <2>3, <3>1 DEF Has
    <2> QED BY <2>1, <2>3, <2>4, <2>5, <2>6, <2>7 DEF Agree, w
  <1>6. CASE ~Has(s, type)
    <2>1. \A k \in DOMAIN f : f[k][1] % 32 # type BY <1>6 DEF Agree, Has
    <2>2. \A k \in DOMAIN s : s[k][1] % 32 # type BY <1>6 DEF Has
    <2>3. ASSUME NEW k \in DOMAIN w, w[k][1] % 32 = type PROVE k = 1
      <3>1. ASSUME NEW j \in 1..l, k = 1 + j PROVE FALSE
        <4>1. w[k] = s[j] BY <1>2, <3>1
        <4> QED BY <1>1, <2>2, <2>3, <4>1
      <3> QED BY <1>3, <3>1
    <2>4. ASSUME NEW k \in DOMAIN g, g[k][1] % 32 = type PROVE k = q BY <2>1, <2>4
    <2>5. 1 \in DOMAIN w /\ q \in DOMAIN g BY <1>1, <1>2
    <2>6. CASE u[1] % 32 = type
      <3>1. \A k \in DOMAIN w : w[k][1] % 32 = type => k <= 1 BY <2>3
      <3>2. LastOfType(w, type) = u
        <4>1. PICK m \in DOMAIN w : m = 1 BY <2>5
        <4>2. w[m] = u /\ w[m][1] % 32 = type BY <1>2, <2>6, <4>1
        <4>3. \A k \in DOMAIN w : w[k][1] % 32 = type => k <= m BY <3>1, <4>1
        <4>4. LastOfType(w, type) = w[m] BY <1>4, <4>2, <4>3, LastIs
        <4> QED BY <4>2, <4>4
      <3>3. \A k \in DOMAIN g : g[k][1] % 32 = type => k <= q BY <2>4
      <3>4. LastOfType(g, type) = u BY <1>4, <2>5, <2>6, <3>3, LastIs
      <3>5. Has(w, type) /\ Has(g, type) BY <1>2, <2>5, <2>6 DEF Has
      <3> QED BY <3>2, <3>4, <3>5 DEF Agree, w
    <2>7. CASE u[1] % 32 # type
      <3>1. ~Has(w, type) BY <1>2, <2>3, <2>7 DEF Has
      <3>2. ~Has(g, type) BY <2>4, <2>7 DEF Has
      <3> QED BY <3>1, <3>2, LastNone DEF Agree, w
    <2> QED BY <2>6, <2>7
  <1> QED BY <1>5, <1>6

\* The writer takes the parameter sets that are the last of their type by
\* definition.
LEMMA ParameterSetFound ==
    ASSUME NEW d, Stream(d), NEW type
    PROVE  LastOfType(NalUnits(d), type) = LastOfType(AnnexB(d), type)
  <1> DEFINE N == Len(d)
             K == Codes(d, 0, N - 3)
             After(q) == [x \in {c \in K : q <= c} |-> AnnexB(d)[x]]
  <1>0. d \in Seq(Byte) /\ N \in Nat /\ N > 6 BY DEF Stream
  <1>1. PICK from :
           /\ from = [p \in Offsets(d) |->
                         IF p = N THEN <<>> ELSE <<UnitAt(d, p)>> \o from[Stop(d, p)]]
           /\ \A p \in Offsets(d) : from[p] \in Seq(Seq(Byte))
           /\ NalUnits(d) = from[FindStartCode(d, 0)]
    BY <1>0, UnitsRecursion
  <1>2. K \subseteq 1..N /\ 1 \in K
    <2>1. \A q \in K : q \in 0..(N - 3) BY DEF Codes
    <2> HIDE DEF K
    <2> QED BY <1>0, <2>1, FirstCode DEF K
  <1>3. ASSUME NEW q \in K
        PROVE  /\ Start(q) \in Offsets(d) /\ UnitAt(d, Start(q)) \in Seq(Byte)
               /\ from[Start(q)] = <<UnitAt(d, Start(q))>> \o from[Stop(d, Start(q))]
    BY <1>0, <1>1, BehindCode, StopFacts
  <1>4. N \in Offsets(d) /\ from[N] = <<>>
    <2>1. N \in Offsets(d) BY DEF Offsets
    <2> QED BY <1>1, <2>1
  <1> DEFINE T == {c \in 0..N : \A q \in K \cap ((N - c)..N) : Agree(from[Start(q)], After(q), type)}
  <1>5. 0 \in T
    <2>1. \A q \in K : q \notin (N - 0)..N
      <3>1. \A q \in K : q \in 0..(N - 3) BY DEF Codes
      <3> QED BY <1>0, <3>1
    <2>2. 0 \in 0..N BY <1>0
    <2> HIDE DEF K, After
    <2> QED BY <2>1, <2>2
  <1>6. ASSUME NEW q \in K, \A x \in K : q < x => Agree(from[Start(x)], After(x), type)
        PROVE  Agree(from[Start(q)], After(q), type)
    <2>1. PICK u : u = UnitAt(d, Start(q)) OBVIOUS
    <2>2. u \in Seq(Byte) /\ u = AnnexB(d)[q] BY <1>3, <2>1, UnitFound
    <2>3. PICK s : s = from[Stop(d, Start(q))] OBVIOUS
    <2>4. PICK f : f = [x \in Later(d, q) |-> AnnexB(d)[x]] OBVIOUS
    <2>5. PICK g : g = After(q) OBVIOUS
    <2>6. DOMAIN f = Later(d, q) /\ Later(d, q) = {x \in K : q < x} BY <2>4 DEF Later
    <2>7. DOMAIN g = {q} \cup DOMAIN f
      <3>1. DOMAIN g = {x \in K : q <= x} BY <2>5
      <3>2. \A x \in K : q <= x <=> (x = q \/ q < x)
        <4> HIDE DEF K
        <4> QED BY <1>2
      <3> QED BY <2>6, <3>1, <3>2
    <2>8. g[q] = u /\ \A k \in DOMAIN f : g[k] = f[k]
      <3>1. \A k \in DOMAIN g : g[k] = AnnexB(d)[k] BY <2>5
      <3>2. \A k \in DOMAIN f : f[k] = AnnexB(d)[k] BY <2>4
      <3> QED BY <2>2, <2>7, <3>1, <3>2
    <2>9. s \in Seq(Seq(Byte)) /\ Agree(s, f, type)
      <3>1. CASE Later(d, q) = {}
        <4>1. s = <<>> BY <1>4, <2>3, <3>1, UnitFound
        <4>2. ~Has(s, type) /\ ~Has(f, type) BY <2>6, <3>1, <4>1 DEF Has
        <4>3. s \in Seq(Seq(Byte)) BY <4>1
        <4> QED BY <4>2, <4>3, LastNone DEF Agree
      <3>2. CASE Later(d, q) # {}
        <4>1. PICK x : x = Min(Later(d, q)) OBVIOUS
        <4>2. x \in K /\ q < x /\ \A y \in Later(d, q) : x <= y BY <3>2, <4>1, LaterFacts
        <4>3. s = from[Start(x)] BY <2>3, <3>2, <4>1, UnitFound
        <4>4. After(x) = f
          <5>1. {c \in K : x <= c} = Later(d, q)
            <6>1. \A c \in K : x <= c => q < c
              <7> HIDE DEF K
              <7> QED BY <1>2, <4>2
            <6>2. \A c \in Later(d, q) : c \in K /\ x <= c BY <2>6, <4>2
            <6> HIDE DEF K
            <6> QED BY <2>6, <6>1, <6>2
          <5> QED BY <2>4, <5>1
        <4>5. Agree(s, f, type)
          <5> HIDE DEF After, K
          <5> QED BY <1>6, <4>2, <4>3, <4>4
        <4> QED BY <1>1, <1>3, <4>2, <4>3, <4>5
      <3> QED BY <3>1, <3>2
    <2>10. DOMAIN f \subseteq 1..N /\ (\A k \in DOMAIN f : q < k) /\ q \in Nat
      <3> HIDE DEF K
      <3> QED BY <1>2, <2>6
    <2>11. Agree(<<u>> \o s, g, type) BY <1>0, <2>2, <2>7, <2>8, <2>9, <2>10, AgreeStep
    <2>12. from[Start(q)] = <<u>> \o s BY <1>3, <2>1, <2>3
    <2> QED BY <2>5, <2>11, <2>12
  <1>7. ASSUME NEW c \in 0..(N - 1), c \in T PROVE c + 1 \in T
    <2> HIDE DEF K, After
    <2>1. ASSUME NEW q \in K \cap ((N - (c + 1))..N) PROVE Agree(from[Start(q)], After(q), type)
      <3>1. ASSUME NEW x \in K, q < x PROVE Agree(from[Start(x)], After(x), type)
        <4>1. x \in (N - c)..N BY <1>0, <1>2, <2>1, <3>1
        <4> QED BY <1>7, <4>1
      <3> QED BY <1>6, <3>1
    <2>2. c + 1 \in 0..N BY <1>0
    <2> QED BY <2>1, <2>2
  <1>8. N \in T
    <2>1. 0 \in Int /\ N \in Int /\ N \in 0..N BY <1>0
    <2> HIDE DEF T
    <2> QED BY <1>5, <1>7, <2>1, IntervalInduction
  <1>9. Agree(from[Start(1)], After(1), type)
    <2>1. 1 \in K \cap ((N - N)..N) BY <1>0, <1>2
    <2> HIDE DEF K, After
    <2> QED BY <1>8, <2>1
  <1>10. After(1) = AnnexB(d)
    <2>1. {c \in K : 1 <= c} = K
      <3>1. \A c \in K : 1 <= c BY FirstCode
      <3> HIDE DEF K
      <3> QED BY <3>1
    <2>2. AnnexB(d) = [x \in K |-> AnnexB(d)[x]] BY DEF AnnexB
    <2> QED BY <2>1, <2>2
  <1>11. NalUnits(d) = from[Start(1)] BY <1>1, FirstFound DEF Start
  <1> QED BY <1>9, <1>10, <1>11 DEF Agree
=============================================================================
