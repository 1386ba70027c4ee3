-------------------------- MODULE StreamFd_proofs --------------------------
(***************************************************************************)
(* For any number of streams, any bases and any contents: streams that     *)
(* share one kernel offset stay behind their bases and implement handles   *)
(* that share nothing but the bytes.                                       *)
(***************************************************************************)
EXTENDS StreamFd, SequenceTheorems, TLAPS

\* Types and bases are kept together: a read leaves cur_offset where it was or
\* beyond.
IInv == TypeOK /\ BehindBase

\* What a write of d at p makes of the file is a file.
LEMMA OverlayIsFile ==
    ASSUME NEW S, HOLE \in S, NEW f \in Seq(S), NEW p \in Nat, NEW d \in Seq(S)
    PROVE  Handles!F!Overlay(f, p, d) \in Seq(S)
<1>1. CASE d = <<>>
  BY <1>1 DEF Handles!F!Overlay
<1>2. CASE d # <<>>
  <2> DEFINE n == IF p + Len(d) > Len(f) THEN p + Len(d) ELSE Len(f)
             g == [i \in 1..n |-> IF i > p /\ i <= p + Len(d) THEN d[i - p]
                                  ELSE IF i <= Len(f) THEN f[i] ELSE HOLE]
  <2>1. n \in Nat
    OBVIOUS
  <2>2. ASSUME NEW i \in 1..n PROVE g[i] \in S
    <3>1. CASE i > p /\ i <= p + Len(d)
      <4>1. i - p \in 1..Len(d)
        BY <3>1
      <4> QED
        BY <3>1, <4>1, ElementOfSeq
    <3>2. CASE ~(i > p /\ i <= p + Len(d)) /\ i <= Len(f)
      BY <3>2, ElementOfSeq
    <3>3. CASE ~(i > p /\ i <= p + Len(d)) /\ ~(i <= Len(f))
      BY <3>3
    <3> QED
      BY <3>1, <3>2, <3>3
  <2> HIDE DEF n
  <2>3. \A i \in 1..n : g[i] \in S
    BY <2>2
  <2>4. g \in [1..n -> S]
    BY <2>3
  <2>5. g \in Seq(S)
    BY <2>1, <2>4
  <2> QED
    BY <1>2, <2>5 DEF Handles!F!Overlay, n
<1> QED
  BY <1>1, <1>2

\* Part of a buffer, from its start.
LEMMA PartOfChunk ==
    ASSUME NEW S, NEW d \in Seq(S), NEW k \in 0..Len(d)
    PROVE  SubSeq(d, 1, k) \in Seq(S) /\ Len(SubSeq(d, 1, k)) = k
           /\ (k = 0 => SubSeq(d, 1, k) = <<>>)
BY SubSeqProperties

\* What a read takes from offset p of a file, at most n bytes.
LEMMA ReadTakes ==
    ASSUME NEW S, NEW f \in Seq(S), NEW p \in Nat, NEW n \in Nat, NEW end,
           end = IF p + n > Len(f) THEN Len(f) ELSE p + n
    PROVE  LET data == SubSeq(f, p + 1, end)
           IN /\ Len(data) \in Nat /\ Len(data) <= n
              /\ Len(data) < n => p + Len(data) >= Len(f)
              /\ \A j \in DOMAIN data : p + j <= Len(f) /\ data[j] = f[p + j]
BY SubSeqProperties

\* The size of the file is a number.
LEMMA FileSizeType == TypeOK => Len(file) \in Nat
BY LenProperties DEF TypeOK

-----------------------------------------------------------------------------
\* The invariant holds at first.
LEMMA InitInv == Init => IInv
<1> SUFFICES ASSUME Init PROVE IInv
  OBVIOUS
<1>1. file \in Seq(Bytes)
  BY StreamAssumption DEF Init
<1>2. file \in Seq(Bytes \cup {HOLE})
  BY <1>1
<1> QED
  BY <1>2 DEF Init, IInv, TypeOK, BehindBase, NoStream

\* A call that changes only the position of one stream, to a place not before
\* its base, keeps the invariant.
LEMMA MoveKeepsInv ==
    ASSUME IInv, NEW s \in Streams, NEW q \in Nat, q >= stream[s].offset,
           stream' = [stream EXCEPT ![s].cur_offset = q], koffset' \in Nat,
           file' \in Seq(Bytes \cup {HOLE}), works' = works
    PROVE  IInv'
<1> DEFINE type == [fd : {"none", "open", "failed"}, offset : Nat, cur_offset : Nat]
<1>1. stream \in [Streams -> type]
  BY DEF IInv, TypeOK
<1>2. [stream[s] EXCEPT !.cur_offset = q] \in type
  BY <1>1
<1>3. stream' = [stream EXCEPT ![s] = [stream[s] EXCEPT !.cur_offset = q]]
  BY <1>1
<1>4. stream' \in [Streams -> type]
  BY <1>1, <1>2, <1>3
<1>5. ASSUME NEW r \in Streams PROVE stream'[r].cur_offset >= stream'[r].offset
  <2>1. CASE r = s
    BY <2>1, <1>1, <1>3
  <2>2. CASE r # s
    BY <2>2, <1>1, <1>3 DEF IInv, BehindBase
  <2> QED
    BY <2>1, <2>2
<1> QED
  BY <1>4, <1>5 DEF IInv, TypeOK, BehindBase

\* Where a seek leads is either refused or a place in the file.
LEMMA SeekKeepsInv ==
    ASSUME IInv, NEW s \in Streams, NEW off \in Offsets,
           NEW w \in {"SEEK_SET", "SEEK_CUR", "SEEK_END"}, Seek(s, off, w)
    PROVE  IInv'
<1> DEFINE from == IF w = "SEEK_CUR" THEN stream[s].cur_offset ELSE koffset
           target == Lseek(from, IF w = "SEEK_SET" THEN off + stream[s].offset ELSE off, w)
<1>1. from \in Nat /\ target \in Int /\ (target # -1 => target \in Nat)
  BY StreamAssumption, FileSizeType DEF IInv, TypeOK, Lseek
<1>2. \/ UNCHANGED <<stream, koffset>>
      \/ koffset' = from /\ UNCHANGED stream
      \/ target # -1 /\ koffset' = target /\ SeekTo(s, target)
  BY DEF Seek
<1>3. UNCHANGED <<file, works>>
  BY DEF Seek
<1> HIDE DEF from, target
<1>4. CASE UNCHANGED stream /\ koffset' \in {koffset, from}
  BY <1>1, <1>3, <1>4 DEF IInv, TypeOK, BehindBase
<1>5. CASE target # -1 /\ koffset' = target /\ SeekTo(s, target)
  <2> DEFINE q == IF target < stream[s].offset THEN stream[s].offset ELSE target
  <2>1. q \in Nat /\ q >= stream[s].offset
    BY <1>1, <1>5 DEF IInv, TypeOK
  <2>2. stream' = [stream EXCEPT ![s].cur_offset = q]
    BY <1>5 DEF SeekTo
  <2>3. file' \in Seq(Bytes \cup {HOLE})
    BY <1>3 DEF IInv, TypeOK
  <2> HIDE DEF q
  <2> QED
    BY <1>1, <1>3, <1>5, <2>1, <2>2, <2>3, MoveKeepsInv
<1> QED
  BY <1>2, <1>4, <1>5

\* A read moves the position forward, or leaves it.
LEMMA ReadKeepsInv ==
    ASSUME IInv, NEW s \in Streams, NEW size \in Sizes, NEW nmemb \in Counts, Read(s, size, nmemb)
    PROVE  IInv'
<1> DEFINE p == stream[s].cur_offset
           n == size * nmemb
           end == IF p + n > Len(file) THEN Len(file) ELSE p + n
           data == SubSeq(file, p + 1, end)
<1>1. p \in Nat /\ n \in Nat
  BY StreamAssumption DEF IInv, TypeOK
<1>2. Len(data) \in Nat
  BY <1>1, ReadTakes DEF IInv, TypeOK
<1>3. \/ UNCHANGED <<stream, koffset>>
      \/ koffset' = p + Len(data) /\ stream' = [stream EXCEPT ![s].cur_offset = p + Len(data)]
      \/ koffset' = p /\ stream' = [stream EXCEPT ![s].cur_offset = p]
  BY DEF Read, ReadFrom, ReadFails
<1>4. UNCHANGED <<file, works>>
  BY DEF Read
<1>5. file' \in Seq(Bytes \cup {HOLE}) /\ p >= stream[s].offset /\ stream[s].offset \in Nat
  BY <1>4 DEF IInv, TypeOK, BehindBase
<1> HIDE DEF p, data
<1>6. CASE UNCHANGED <<stream, koffset>>
  BY <1>4, <1>6 DEF IInv, TypeOK, BehindBase
<1>7. ASSUME NEW q \in Nat, q >= p, koffset' = q, stream' = [stream EXCEPT ![s].cur_offset = q]
      PROVE  IInv'
  <2>1. q >= stream[s].offset
    BY <1>1, <1>5, <1>7
  <2>2. koffset' \in Nat /\ works' = works
    BY <1>4, <1>7
  <2> QED
    BY <1>5, <1>7, <2>1, <2>2, MoveKeepsInv
<1>8. p + Len(data) \in Nat /\ p + Len(data) >= p /\ p >= p
  BY <1>1, <1>2
<1> QED
  BY <1>1, <1>3, <1>6, <1>7, <1>8

\* So does a write, whatever part of it the medium takes.
LEMMA WriteKeepsInv ==
    ASSUME IInv, NEW s \in Streams, NEW size \in Sizes, NEW d \in Chunks, Write(s, size, d)
    PROVE  IInv'
<1> DEFINE p == stream[s].cur_offset
<1>1. p \in Nat /\ d \in Seq(Bytes \cup {HOLE}) /\ Len(d) \in Nat
  BY StreamAssumption, LenProperties DEF IInv, TypeOK
<1>2. CASE UNCHANGED file /\ UNCHANGED stream /\ koffset' \in {koffset, p}
  BY <1>1, <1>2 DEF IInv, TypeOK, BehindBase, Write
<1>3. CASE \E k \in 0..Len(d) :
              /\ file' = Handles!F!Overlay(file, p, SubSeq(d, 1, k))
              /\ koffset' = p + k
              /\ stream' = [stream EXCEPT ![s].cur_offset = p + k]
  <2>1. PICK k \in 0..Len(d) :
              /\ file' = Handles!F!Overlay(file, p, SubSeq(d, 1, k))
              /\ koffset' = p + k
              /\ stream' = [stream EXCEPT ![s].cur_offset = p + k]
    BY <1>3
  <2>2. SubSeq(d, 1, k) \in Seq(Bytes \cup {HOLE})
    BY <1>1, PartOfChunk
  <2>3. file' \in Seq(Bytes \cup {HOLE})
    BY <1>1, <2>1, <2>2, OverlayIsFile DEF IInv, TypeOK
  <2>4. works' = works /\ p + k \in Nat /\ p + k >= stream[s].offset
    BY <1>1 DEF Write, IInv, TypeOK, BehindBase
  <2> QED
    BY <2>1, <2>3, <2>4, MoveKeepsInv
<1> QED
  BY <1>1, <1>2, <1>3 DEF Write

\* The invariant is kept by every call.
LEMMA NextInv == IInv /\ [Next]_vars => IInv'
<1> SUFFICES ASSUME IInv, [Next]_vars PROVE IInv'
  OBVIOUS
<1>1. ASSUME NEW s \in Streams, NEW base \in Bases, Create(s, base) PROVE IInv'
  BY <1>1, StreamAssumption DEF Create, IInv, TypeOK, BehindBase
<1>2. ASSUME NEW s \in Streams, Destroy(s) PROVE IInv'
  BY <1>2 DEF Destroy, IInv, TypeOK, BehindBase, NoStream
<1>3. ASSUME NEW s \in Streams, Tell(s) PROVE IInv'
  BY <1>3 DEF Tell, IInv, TypeOK, BehindBase
<1>4. ASSUME NEW s \in Streams, GetSize(s) PROVE IInv'
  BY <1>4 DEF GetSize, IInv, TypeOK, BehindBase
<1>5. CASE OwnerSeeks
  BY <1>5, StreamAssumption DEF OwnerSeeks, IInv, TypeOK, BehindBase
<1>6. CASE MediumFails
  BY <1>6 DEF MediumFails, IInv, TypeOK, BehindBase
<1>7. CASE UNCHANGED vars
  BY <1>7 DEF vars, IInv, TypeOK, BehindBase
<1> QED
  BY <1>1, <1>2, <1>3, <1>4, <1>5, <1>6, <1>7, SeekKeepsInv, ReadKeepsInv, WriteKeepsInv DEF Next

\* The types hold; cur_offset is never the -1 of a failed call.
THEOREM TypeCorrect == Spec => []TypeOK
<1>1. IInv => TypeOK
  BY DEF IInv
<1> QED
  BY <1>1, InitInv, NextInv, PTL DEF Spec

\* No stream is ever positioned before its base: the assertion in
\* mm_read_fd_file never fails.
THEOREM NeverBeforeBase == Spec => []BehindBase
<1>1. IInv => BehindBase
  BY DEF IInv
<1> QED
  BY <1>1, InitInv, NextInv, PTL DEF Spec

-----------------------------------------------------------------------------
\* The handle that stands for stream st.
AsHandle(st) ==
    [state |-> CASE st.fd = "none" -> "none"
                 [] st.fd = "open" -> "live"
                 [] st.fd = "failed" -> "broken",
     base |-> st.offset,
     pos |-> st.cur_offset - st.offset]
AllHandles == [s \in Streams |-> AsHandle(stream[s])]

\* Its fields, and its place in the file.
LEMMA HandleFields ==
    ASSUME IInv, NEW s \in Streams
    PROVE  /\ AllHandles[s].base = stream[s].offset
           /\ AllHandles[s].pos = stream[s].cur_offset - stream[s].offset
           /\ (stream[s].fd = "open") => AllHandles[s].state = "live"
           /\ (stream[s].fd = "failed") => AllHandles[s].state = "broken"
           /\ (stream[s].fd = "none") <=> AllHandles[s].state = "none"
           /\ Handles!Place(s) = stream[s].cur_offset
           /\ stream[s].offset \in Nat /\ stream[s].cur_offset \in Nat
           /\ stream[s].cur_offset >= stream[s].offset
BY DEF IInv, TypeOK, BehindBase, AllHandles, AsHandle, Handles!Place

\* A stream that moves to q moves its handle by the same distance.
LEMMA MoveMovesHandle ==
    ASSUME IInv, NEW s \in Streams, NEW q \in Nat,
           stream' = [stream EXCEPT ![s].cur_offset = q]
    PROVE  /\ AllHandles' = [AllHandles EXCEPT ![s].pos = q - stream[s].offset]
           /\ Handles!Moved(s, q - stream[s].cur_offset)
<1>1. stream \in [Streams -> [fd : {"none", "open", "failed"}, offset : Nat, cur_offset : Nat]]
  BY DEF IInv, TypeOK
<1>2. AsHandle([stream[s] EXCEPT !.cur_offset = q])
        = [AsHandle(stream[s]) EXCEPT !.pos = q - stream[s].offset]
  BY <1>1 DEF AsHandle
<1>3. stream' = [stream EXCEPT ![s] = [stream[s] EXCEPT !.cur_offset = q]]
  BY <1>1
<1>4. AllHandles' = [AllHandles EXCEPT ![s] = [AllHandles[s] EXCEPT !.pos = q - stream[s].offset]]
  BY <1>1, <1>2, <1>3 DEF AllHandles
<1>5. AllHandles[s].pos + (q - stream[s].cur_offset) = q - stream[s].offset
  BY <1>1 DEF AllHandles, AsHandle
<1>6. AllHandles' = [AllHandles EXCEPT ![s].pos = q - stream[s].offset]
  BY <1>4
<1>7. AllHandles' = [AllHandles EXCEPT ![s].pos = @ + (q - stream[s].cur_offset)]
  BY <1>4, <1>5
<1> QED
  BY <1>6, <1>7 DEF Handles!Moved, AllHandles, AsHandle

\* A call of s that last' records, refused or with its effect on a live
\* handle, is a step of the handles.
LEMMA CallIsStep ==
    ASSUME NEW s \in Streams, last'.s = s, UNCHANGED works,
           \/ AllHandles[s].state = "live" /\ Handles!Effect(s, last')
           \/ AllHandles[s].state # "none" /\ last'.call = "tell" /\ Handles!Tell(s, last'.result)
           \/ /\ AllHandles[s].state # "none" /\ last'.call # "tell"
              /\ Handles!Refused(s, last')
    PROVE  Handles!Next
BY DEF Handles!Next, Handles!Call, AllHandles, AsHandle

\* A refused call leaves the handles alone.
LEMMA RefusedIsStep ==
    ASSUME IInv, NEW s \in Streams, stream[s].fd # "none", UNCHANGED <<works, file, stream>>,
           last'.s = s, last'.call # "tell", last'.result < 0,
           \/ stream[s].fd = "failed"
           \/ ~works /\ last'.call \in {"read", "write"}
           \/ last'.call = "seek" /\ Handles!Target(s, last'.n, last'.whence) < 0
           \/ /\ last'.call = "write"
              /\ stream[s].cur_offset <= MaxLen /\ ~Writable(stream[s].cur_offset)
    PROVE  Handles!Next
<1>1. AllHandles[s].state # "none"
  BY HandleFields
<1>2. AllHandles' = AllHandles
  BY DEF AllHandles
<1>3. /\ stream[s].fd = "failed" => AllHandles[s].state = "broken"
      /\ Handles!Place(s) = stream[s].cur_offset /\ stream[s].cur_offset \in Nat
  BY HandleFields
<1>4. stream[s].cur_offset <= MaxLen /\ ~Writable(stream[s].cur_offset)
        => Handles!Place(s) \in {p \in 0..MaxLen : ~Writable(p)}
  BY <1>3, StreamAssumption
<1>5. \/ AllHandles[s].state = "broken"
      \/ ~works /\ last'.call \in {"read", "write"}
      \/ last'.call = "seek" /\ Handles!Target(s, last'.n, last'.whence) < 0
      \/ last'.call = "write" /\ Handles!Place(s) \in {p \in 0..MaxLen : ~Writable(p)}
  BY <1>3, <1>4
<1>6. Handles!Refused(s, last')
  BY <1>2, <1>5 DEF Handles!Refused, AllHandles, AsHandle
<1> QED
  BY <1>1, <1>6, CallIsStep

\* A seek is a seek of the handle, refused where it leads before the file.
LEMMA SeekIsStep ==
    ASSUME IInv, NEW s \in Streams, NEW off \in Offsets,
           NEW w \in {"SEEK_SET", "SEEK_CUR", "SEEK_END"}, Seek(s, off, w)
    PROVE  Handles!Next
<1> DEFINE from == IF w = "SEEK_CUR" THEN stream[s].cur_offset ELSE koffset
           target == Lseek(from, IF w = "SEEK_SET" THEN off + stream[s].offset ELSE off, w)
           to == Handles!Target(s, off, w)
<1>1. stream[s].fd # "none" /\ UNCHANGED <<file, works>>
  BY DEF Seek
<1>2. to \in Int /\ target = IF to < 0 THEN -1 ELSE to
  <2>1. Handles!Place(s) = stream[s].cur_offset /\ AllHandles[s].base = stream[s].offset
    BY HandleFields
  <2>2. to = off + CASE w = "SEEK_SET" -> AllHandles[s].base
                    [] w = "SEEK_CUR" -> Handles!Place(s)
                    [] w = "SEEK_END" -> Len(file)
    BY DEF Handles!Target, AllHandles, AsHandle
  <2>3. off \in Int /\ Len(file) \in Nat /\ stream[s].offset \in Nat /\ stream[s].cur_offset \in Nat
    BY StreamAssumption, FileSizeType, HandleFields DEF IInv
  <2> QED
    BY <2>1, <2>2, <2>3 DEF Lseek
<1> HIDE DEF from, target, to
<1>3. \/ stream[s].fd = "failed" /\ UNCHANGED stream /\ Returns(s, "seek", off, 0, w, <<>>, -1)
      \/ target = -1 /\ UNCHANGED stream /\ Returns(s, "seek", off, 0, w, <<>>, -1)
      \/ /\ stream[s].fd # "failed" /\ target # -1 /\ SeekTo(s, target)
         /\ Returns(s, "seek", off, 0, w, <<>>, 0)
  BY DEF Seek, from, target
<1>4. CASE /\ stream[s].fd = "failed" \/ target = -1
           /\ UNCHANGED stream /\ Returns(s, "seek", off, 0, w, <<>>, -1)
  <2>1. last'.s = s /\ last'.call = "seek" /\ last'.n = off /\ last'.whence = w /\ last'.result = -1
    BY <1>4 DEF Returns, Handles!Done
  <2>2. stream[s].fd = "failed" \/ Handles!Target(s, last'.n, last'.whence) < 0
    BY <1>2, <1>4, <2>1 DEF to
  <2> QED
    BY <1>1, <1>4, <2>1, <2>2, RefusedIsStep
<1>5. CASE /\ stream[s].fd # "failed" /\ target # -1 /\ SeekTo(s, target)
           /\ Returns(s, "seek", off, 0, w, <<>>, 0)
  <2> DEFINE q == IF target < stream[s].offset THEN stream[s].offset ELSE target
  <2>1. last'.s = s /\ last'.call = "seek" /\ last'.n = off /\ last'.whence = w /\ last'.result = 0
    BY <1>5 DEF Returns, Handles!Done
  <2>2. target = to /\ stream[s].offset \in Nat /\ target \in Nat
    BY <1>2, <1>5, HandleFields
  <2>3. q \in Nat /\ q - stream[s].offset
                     = IF to - stream[s].offset < 0 THEN 0 ELSE to - stream[s].offset
    BY <2>2
  <2>4. stream' = [stream EXCEPT ![s].cur_offset = q]
    BY <1>5 DEF SeekTo
  <2> HIDE DEF q
  <2>5. AllHandles' = [AllHandles EXCEPT ![s].pos = q - stream[s].offset]
    BY <2>3, <2>4, MoveMovesHandle
  <2>6. AllHandles[s].base = stream[s].offset /\ AllHandles[s].state = "live"
    BY <1>1, <1>5, HandleFields DEF IInv, TypeOK
  <2>7. AllHandles' = [AllHandles EXCEPT ![s].pos =
              IF to - AllHandles[s].base < 0 THEN 0 ELSE to - AllHandles[s].base]
    BY <2>3, <2>5, <2>6
  <2>8. Handles!Seek(s, last'.n, last'.whence, last'.result)
    BY <1>1, <2>1, <2>7 DEF Handles!Seek, AllHandles, AsHandle, to
  <2>9. Handles!Effect(s, last')
    BY <2>1, <2>8 DEF Handles!Effect
  <2> QED
    BY <1>1, <2>1, <2>6, <2>9, CallIsStep
<1> QED
  BY <1>3, <1>4, <1>5
\* A read takes what is there behind the handle's place, or is refused.
LEMMA ReadIsStep ==
    ASSUME IInv, NEW s \in Streams, NEW size \in Sizes, NEW nmemb \in Counts, Read(s, size, nmemb)
    PROVE  Handles!Next
<1> DEFINE p == stream[s].cur_offset
           n == size * nmemb
           end == IF p + n > Len(file) THEN Len(file) ELSE p + n
           data == SubSeq(file, p + 1, end)
<1>1. stream[s].fd # "none" /\ UNCHANGED <<file, works>>
  BY DEF Read
<1>2. p \in Nat /\ n \in Nat
  BY StreamAssumption DEF IInv, TypeOK
<1>3. \/ stream[s].fd = "failed" /\ UNCHANGED stream /\ Returns(s, "read", size, nmemb, "none", <<>>, -1)
      \/ /\ stream[s].fd = "open"
         /\ stream' = [stream EXCEPT ![s].cur_offset = p + Len(data)]
         /\ Returns(s, "read", size, nmemb, "none", data, Len(data) \div size)
      \/ /\ ~works /\ stream' = [stream EXCEPT ![s].cur_offset = p]
         /\ Returns(s, "read", size, nmemb, "none", <<>>, -1)
  BY DEF Read, ReadFrom, ReadFails
<1>4. /\ Len(data) \in Nat /\ Len(data) <= n
      /\ Len(data) < n => p + Len(data) >= Len(file)
      /\ \A j \in DOMAIN data : p + j <= Len(file) /\ data[j] = file[p + j]
  BY <1>2, ReadTakes, SMTT(30) DEF IInv, TypeOK
<1> HIDE DEF data, n
<1>5. CASE /\ stream[s].fd = "open"
           /\ stream' = [stream EXCEPT ![s].cur_offset = p + Len(data)]
           /\ Returns(s, "read", size, nmemb, "none", data, Len(data) \div size)
  <2>1. /\ last'.s = s /\ last'.call = "read" /\ last'.n = size /\ last'.many = nmemb
        /\ last'.data = data /\ last'.result = Len(data) \div size
    BY <1>5 DEF Returns, Handles!Done
  <2>2. Handles!Place(s) = p /\ AllHandles[s].state = "live"
    BY <1>5, HandleFields
  <2> DEFINE q == p + Len(data)
  <2>3. q \in Nat /\ q - p = Len(data) /\ stream' = [stream EXCEPT ![s].cur_offset = q]
    BY <1>2, <1>4, <1>5
  <2> HIDE DEF q
  <2>4. Handles!Moved(s, q - stream[s].cur_offset)
    BY <2>3, MoveMovesHandle
  <2>5. Handles!Moved(s, Len(last'.data))
    BY <2>1, <2>3, <2>4 DEF Handles!Moved
  <2>6. Handles!Read(s, last'.n, last'.many, last'.data, last'.result)
    BY <1>1, <1>4, <2>1, <2>2, <2>5 DEF Handles!Read, n
  <2>7. Handles!Effect(s, last')
    BY <2>1, <2>6 DEF Handles!Effect
  <2> QED
    BY <1>1, <2>1, <2>2, <2>7, CallIsStep
<1>6. CASE /\ stream[s].fd = "failed" \/ ~works
           /\ UNCHANGED stream
           /\ Returns(s, "read", size, nmemb, "none", <<>>, -1)
  <2>1. last'.s = s /\ last'.call = "read" /\ last'.result = -1
    BY <1>6 DEF Returns, Handles!Done
  <2> QED
    BY <1>1, <1>6, <2>1, RefusedIsStep
<1>7. stream' = [stream EXCEPT ![s].cur_offset = p] => UNCHANGED stream
  BY DEF IInv, TypeOK
<1> QED
  BY <1>3, <1>5, <1>6, <1>7

\* A write puts the chunk, or what the medium takes of it, behind the handle's
\* place, or is refused.
LEMMA WriteIsStep ==
    ASSUME IInv, NEW s \in Streams, NEW size \in Sizes, NEW d \in Chunks, Write(s, size, d)
    PROVE  Handles!Next
<1> DEFINE p == stream[s].cur_offset
           part(k) == SubSeq(d, 1, k)
<1>1. stream[s].fd # "none" /\ works' = works
  BY DEF Write
<1>2. p \in Nat /\ d \in Seq(Bytes) /\ Len(d) \in Nat /\ Len(d) > 0 /\ p <= MaxLen
  <2>1. p \in Nat /\ d \in Seq(Bytes) /\ d # <<>> /\ MaxLen \in Nat /\ p + Len(d) <= MaxLen
    BY StreamAssumption DEF IInv, TypeOK, Write
  <2>2. Len(d) \in Nat /\ Len(d) > 0
    BY <2>1, EmptySeq, LenProperties
  <2> QED
    BY <2>1, <2>2
<1>3. CASE /\ UNCHANGED <<file, stream>> /\ Returns(s, "write", size, 0, "none", d, -1)
           /\ stream[s].fd = "failed" \/ ~Writable(p) \/ ~works
  <2>1. last'.s = s /\ last'.call = "write" /\ last'.result = -1
    BY <1>3 DEF Returns, Handles!Done
  <2> QED
    BY <1>1, <1>2, <1>3, <2>1, RefusedIsStep
<1>4. ASSUME NEW k \in 0..Len(d), k # 0, works => k = Len(d), stream[s].fd = "open",
             file' = Handles!F!Overlay(file, p, part(k)),
             stream' = [stream EXCEPT ![s].cur_offset = p + k],
             Returns(s, "write", size, 0, "none", d, k \div size)
      PROVE  Handles!Next
  <2>1. /\ last'.s = s /\ last'.call = "write" /\ last'.n = size
        /\ last'.data = d /\ last'.result = k \div size
    BY <1>4 DEF Returns, Handles!Done
  <2>2. Handles!Place(s) = p /\ AllHandles[s].state = "live"
    BY <1>4, HandleFields
  <2> DEFINE q == p + k
  <2>3. q \in Nat /\ q - p = k /\ stream' = [stream EXCEPT ![s].cur_offset = q]
    BY <1>2, <1>4
  <2> HIDE DEF q
  <2>4. Handles!Moved(s, q - stream[s].cur_offset)
    BY <2>3, MoveMovesHandle
  <2>5. Handles!Moved(s, k)
    BY <2>3, <2>4 DEF Handles!Moved
  <2>6. file' = Handles!F!Overlay(file, Handles!Place(s), SubSeq(last'.data, 1, k))
    BY <1>4, <2>1, <2>2
  <2>7. Handles!Write(s, last'.n, last'.data, last'.result)
    BY <1>4, <2>1, <2>5, <2>6 DEF Handles!Write
  <2>8. Handles!Effect(s, last')
    BY <2>1, <2>7 DEF Handles!Effect
  <2> QED
    BY <1>1, <2>1, <2>2, <2>8, CallIsStep
<1>5. CASE /\ stream[s].fd = "open"
           /\ \E k \in IF works THEN {Len(d)} ELSE 0..(Len(d) - 1) :
                /\ file' = Handles!F!Overlay(file, p, part(k))
                /\ stream' = [stream EXCEPT ![s].cur_offset = p + k]
                /\ Returns(s, "write", size, 0, "none", d, IF k = 0 THEN -1 ELSE k \div size)
  <2>1. PICK k \in IF works THEN {Len(d)} ELSE 0..(Len(d) - 1) :
                /\ file' = Handles!F!Overlay(file, p, part(k))
                /\ stream' = [stream EXCEPT ![s].cur_offset = p + k]
                /\ Returns(s, "write", size, 0, "none", d, IF k = 0 THEN -1 ELSE k \div size)
    BY <1>5
  <2>2. k \in 0..Len(d) /\ (works => k = Len(d)) /\ (k = 0 => ~works)
    BY <1>2, <2>1
  <2>3. CASE k # 0
    BY <1>4, <1>5, <2>1, <2>2, <2>3
  <2>4. CASE k = 0
    <3>1. part(k) = <<>>
      BY <1>2, <2>4, PartOfChunk
    <3>2. file' = file
      BY <2>1, <3>1 DEF Handles!F!Overlay
    <3>3. stream' = stream
      BY <1>2, <2>1, <2>4 DEF IInv, TypeOK
    <3>4. Returns(s, "write", size, 0, "none", d, -1)
      BY <2>1, <2>4
    <3> QED
      BY <1>3, <2>2, <2>4, <3>2, <3>3, <3>4
  <2> QED
    BY <2>3, <2>4
<1> QED
  BY <1>3, <1>5 DEF Write

\* A tell is a step of the handle.
LEMMA TellIsStep ==
    ASSUME IInv, NEW s \in Streams, Tell(s)
    PROVE  Handles!Next
<1>1. last'.s = s /\ last'.call = "tell" /\ last'.result = stream[s].cur_offset - stream[s].offset
  BY DEF Tell, Returns, Handles!Done
<1>2. AllHandles' = AllHandles /\ UNCHANGED <<file, works>> /\ stream[s].fd # "none"
  BY DEF Tell, AllHandles
<1>3. AllHandles[s].state # "none" /\ last'.result = AllHandles[s].pos
  BY <1>1, <1>2, HandleFields
<1>4. Handles!Tell(s, last'.result)
  BY <1>2, <1>3 DEF Handles!Tell, AllHandles, AsHandle
<1> QED
  BY <1>1, <1>2, <1>3, <1>4, CallIsStep

\* Asking for the size is a step of the handle.
LEMMA SizeIsStep ==
    ASSUME IInv, NEW s \in Streams, GetSize(s)
    PROVE  Handles!Next
<1>1. stream[s].fd # "none" /\ UNCHANGED <<file, works, stream>> /\ AllHandles' = AllHandles
  BY DEF GetSize, AllHandles
<1>2. CASE stream[s].fd = "failed"
  <2>1. last'.s = s /\ last'.call = "size" /\ last'.result = -1 - stream[s].offset
    BY <1>2 DEF GetSize, Returns, Handles!Done
  <2>2. last'.result < 0
    BY <2>1, HandleFields
  <2> QED
    BY <1>1, <1>2, <2>1, <2>2, RefusedIsStep
<1>3. CASE stream[s].fd = "open"
  <2>1. last'.s = s /\ last'.call = "size" /\ last'.result = Len(file) - stream[s].offset
    BY <1>3 DEF GetSize, Returns, Handles!Done
  <2>2. AllHandles[s].base = stream[s].offset /\ AllHandles[s].state = "live"
    BY <1>3, HandleFields
  <2>3. Handles!Size(s, last'.result)
    BY <1>1, <2>1, <2>2 DEF Handles!Size, AllHandles, AsHandle
  <2>4. Handles!Effect(s, last')
    BY <2>1, <2>3 DEF Handles!Effect
  <2> QED
    BY <1>1, <2>1, <2>2, <2>4, CallIsStep
<1> QED
  BY <1>1, <1>2, <1>3 DEF IInv, TypeOK
\* Creating and destroying opens and closes a handle.
LEMMA CreateIsStep ==
    ASSUME IInv, NEW s \in Streams, NEW base \in Bases, Create(s, base)
    PROVE  Handles!Next
<1>1. PICK fd \in {"open", "failed"} :
          stream' = [stream EXCEPT ![s] = [fd |-> fd, offset |-> base, cur_offset |-> base]]
  BY DEF Create
<1>2. base \in Nat /\ base - base = 0
  BY StreamAssumption
<1> DEFINE how == IF fd = "open" THEN "live" ELSE "broken"
<1>3. AsHandle([fd |-> fd, offset |-> base, cur_offset |-> base])
        = [state |-> how, base |-> base, pos |-> 0]
  BY <1>2 DEF AsHandle
<1>4. AllHandles' = [AllHandles EXCEPT ![s] = [state |-> how, base |-> base, pos |-> 0]]
  BY <1>1, <1>3 DEF AllHandles, IInv, TypeOK
<1>5. AllHandles[s].state = "none"
  BY HandleFields DEF Create
<1>6. last' = Handles!NoCall /\ UNCHANGED <<file, works>>
  BY DEF Create
<1>7. Handles!OpenOrClose(s)
  BY <1>4, <1>5, <1>6 DEF Handles!OpenOrClose, AllHandles, AsHandle
<1> QED
  BY <1>7 DEF Handles!Next

\* Destroying the stream is a step of the handle.
LEMMA DestroyIsStep ==
    ASSUME IInv, NEW s \in Streams, Destroy(s)
    PROVE  Handles!Next
<1>1. AsHandle(NoStream) = Handles!NoHandle
  BY DEF AsHandle, NoStream, Handles!NoHandle
<1>2. AllHandles' = [AllHandles EXCEPT ![s] = Handles!NoHandle]
  BY <1>1 DEF Destroy, AllHandles, IInv, TypeOK
<1>3. AllHandles[s].state # "none"
  BY HandleFields DEF Destroy
<1>4. last' = Handles!NoCall /\ UNCHANGED <<file, works>>
  BY DEF Destroy
<1>5. Handles!OpenOrClose(s)
  BY <1>2, <1>3, <1>4 DEF Handles!OpenOrClose, AllHandles, AsHandle
<1> QED
  BY <1>5 DEF Handles!Next

\* Streams that share a kernel offset, with each other and with the application,
\* are handles that share nothing but the bytes.
THEOREM ImplementsFileHandles == Spec => ImplementsHandles
<1>1. Init => Handles!Init
  <2> SUFFICES ASSUME Init PROVE Handles!Init
    OBVIOUS
  <2>1. file \in Seq(Bytes) /\ works = TRUE /\ last = Handles!NoCall
    BY StreamAssumption DEF Init
  <2>2. AsHandle(NoStream) = Handles!NoHandle
    BY DEF AsHandle, NoStream, Handles!NoHandle
  <2>3. AllHandles = [s \in Streams |-> Handles!NoHandle]
    BY <2>2 DEF Init, AllHandles
  <2> QED
    BY <2>1, <2>3 DEF Handles!Init, AllHandles, AsHandle
<1>2. IInv /\ [Next]_vars => [Handles!Next]_Handles!handlesVars
  <2> SUFFICES ASSUME IInv, [Next]_vars PROVE [Handles!Next]_Handles!handlesVars
    OBVIOUS
  <2>1. CASE OwnerSeeks \/ UNCHANGED vars
    <3>1. UNCHANGED <<file, works, stream, last>>
      BY <2>1 DEF OwnerSeeks, vars
    <3> QED
      BY <3>1 DEF Handles!handlesVars
  <2>2. CASE MediumFails
    <3>1. Handles!MediumFails
      BY <2>2 DEF MediumFails, Handles!MediumFails
    <3> QED
      BY <3>1 DEF Handles!Next
  <2> QED
    BY <2>1, <2>2, CreateIsStep, DestroyIsStep, SeekIsStep, TellIsStep, ReadIsStep,
       WriteIsStep, SizeIsStep DEF Next
<1> QED
  BY <1>1, <1>2, InitInv, NextInv, PTL DEF Spec, ImplementsHandles, Handles!Spec
=============================================================================
