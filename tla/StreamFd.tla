------------------------------ MODULE StreamFd ------------------------------
(***************************************************************************)
(* Streams over file descriptors (stream/mm_stream_file.c, the fd          *)
(* operations).  stream_handle_create dup's the descriptor it is given, so *)
(* all streams on a file, and the application that opened it, share one    *)
(* offset in the kernel; each stream keeps its own in cur_offset, and each *)
(* call begins by seeking there.  A stream begins at ext_info.offset of    *)
(* the file.  Calls of different streams do not overlap in time.           *)
(***************************************************************************)
EXTENDS Integers, Sequences

CONSTANTS
    Streams,
    Bases,          \* the ext_info.offset values streams are created with
    Bytes, HOLE,    \* the values of a byte, and a byte never written
    Files,          \* what may be in the file at first
    Chunks,         \* the buffers passed to mm_write
    Offsets,        \* the offsets passed to mm_seek, and to the application's lseek
    Sizes, Counts,  \* the sizes and numbers of elements passed to mm_read
    IntMod,         \* 2^32, of int
    MaxLen          \* bound: the longest file

ASSUME StreamAssumption ==
    /\ HOLE \notin Bytes
    /\ Files \subseteq Seq(Bytes) /\ Chunks \subseteq Seq(Bytes) \ {<<>>}
    /\ Bases \subseteq Nat /\ Offsets \subseteq Int /\ Sizes \subseteq Nat \ {0}
    /\ Counts \subseteq Nat
    /\ IntMod \in Nat \ {0} /\ MaxLen \in Nat

VARIABLES
    file,       \* the contents
    works,      \* whether the medium works
    koffset,    \* the kernel's offset, shared
    stream,     \* of each stream: fd, offset, cur_offset
    last        \* history: the last call and its result

vars == <<file, works, koffset, stream, last>>

\* fd is the descriptor's state: none, open, or -1 because dup failed.
NoStream == [fd |-> "none", offset |-> 0, cur_offset |-> 0]

Writable(p) == p % IntMod # IntMod - 1

Handles == INSTANCE FileHandles WITH
    bytes <- file,
    Unwritable <- {p \in 0..MaxLen : ~Writable(p)},
    handle <- [s \in Streams |->
        [state |-> CASE stream[s].fd = "none" -> "none"
                     [] stream[s].fd = "open" -> "live"
                     [] stream[s].fd = "failed" -> "broken",
         base |-> stream[s].offset,
         pos |-> stream[s].cur_offset - stream[s].offset]]

Returns(s, call, n, many, whence, data, result) ==
    last' = Handles!Done(s, call, n, many, whence, data, result)

\* lseek64 on an open descriptor: where it leads, -1 for before the file.
Lseek(k, off, whence) ==
    LET target == off + CASE whence = "SEEK_SET" -> 0
                          [] whence = "SEEK_CUR" -> k
                          [] whence = "SEEK_END" -> Len(file)
    IN IF target < 0 THEN -1 ELSE target

Init ==
    /\ file \in Files /\ works = TRUE /\ koffset = 0
    /\ stream = [s \in Streams |-> NoStream]
    /\ last = Handles!NoCall

\* stream_handle_create for reading from a descriptor; it does not look at
\* what dup returned, and ends with a seek to the base.
Create(s, base) ==
    /\ stream[s].fd = "none"
    /\ \E fd \in {"open", "failed"} :
          /\ stream' = [stream EXCEPT ![s] = [fd |-> fd, offset |-> base, cur_offset |-> base]]
          /\ koffset' = IF fd = "open" THEN base ELSE koffset
    /\ last' = Handles!NoCall /\ UNCHANGED <<file, works>>

Destroy(s) ==
    /\ stream[s].fd # "none"
    /\ stream' = [stream EXCEPT ![s] = NoStream]
    /\ last' = Handles!NoCall /\ UNCHANGED <<file, works, koffset>>

\* Mutant of SeekTo: a target before the base is not corrected.
SeekAnywhere(s, target) ==
    stream' = [stream EXCEPT ![s].cur_offset = target]

\* The end of mm_seek_fd_file: cur_offset never goes below the base.
SeekTo(s, target) ==
    stream' = [stream EXCEPT ![s].cur_offset =
                  IF target < stream[s].offset THEN stream[s].offset ELSE target]

\* mm_seek_fd_file
Seek(s, off, whence) ==
    LET from == IF whence = "SEEK_CUR" THEN stream[s].cur_offset ELSE koffset
        target == Lseek(from, IF whence = "SEEK_SET" THEN off + stream[s].offset ELSE off, whence)
    IN /\ stream[s].fd # "none"
       /\ IF stream[s].fd = "failed"
          THEN UNCHANGED <<stream, koffset>> /\ Returns(s, "seek", off, 0, whence, <<>>, -1)
          ELSE IF target = -1
          THEN koffset' = from /\ UNCHANGED stream
               /\ Returns(s, "seek", off, 0, whence, <<>>, -1)
          ELSE koffset' = target /\ SeekTo(s, target) /\ target <= MaxLen
               /\ Returns(s, "seek", off, 0, whence, <<>>, 0)
       /\ UNCHANGED <<file, works>>

\* mm_tell_fd_file
Tell(s) ==
    /\ stream[s].fd # "none"
    /\ Returns(s, "tell", 0, 0, "none", <<>>, stream[s].cur_offset - stream[s].offset)
    /\ UNCHANGED <<file, works, koffset, stream>>

\* Mutant of ReadFrom: the kernel's offset is taken for the stream's.
ReadFromShared(s) == koffset

\* Where mm_read_fd_file reads: it has sought there.
ReadFrom(s) == stream[s].cur_offset

\* Mutant of ReadFails: the result of the first seek is not looked at.
ReadFailsLate(s) ==
    /\ stream[s].fd = "failed"
    /\ stream' = [stream EXCEPT ![s].cur_offset = -1] /\ UNCHANGED koffset

\* The first seek fails.
ReadFails(s) == stream[s].fd = "failed" /\ UNCHANGED <<stream, koffset>>

\* mm_read_fd_file: nmemb elements of some size, or what there is.  read moves
\* the kernel's offset, from which cur_offset is taken.
Read(s, size, nmemb) ==
    LET p == ReadFrom(s)
        end == IF p + size * nmemb > Len(file) THEN Len(file) ELSE p + size * nmemb
        data == SubSeq(file, p + 1, end)
    IN /\ stream[s].fd # "none"
       /\ \/ ReadFails(s) /\ Returns(s, "read", size, nmemb, "none", <<>>, -1)
          \/ /\ stream[s].fd = "open" /\ works
             /\ koffset' = p + Len(data)
             /\ stream' = [stream EXCEPT ![s].cur_offset = p + Len(data)]
             /\ Returns(s, "read", size, nmemb, "none", data, Len(data) \div size)
          \/ /\ stream[s].fd = "open" /\ ~works
             /\ koffset' = p /\ stream' = [stream EXCEPT ![s].cur_offset = p]
             /\ Returns(s, "read", size, nmemb, "none", <<>>, -1)
       /\ UNCHANGED <<file, works>>

\* mm_write_fd_file.  The result of its first lseek64 goes into an int, so an
\* offset whose low bits are all ones looks like a failure.
Write(s, size, d) ==
    LET p == stream[s].cur_offset
    IN /\ stream[s].fd # "none" /\ p + Len(d) <= MaxLen
       /\ \/ /\ stream[s].fd = "failed"
             /\ UNCHANGED <<file, koffset, stream>>
             /\ Returns(s, "write", size, 0, "none", d, -1)
          \/ /\ stream[s].fd = "open" /\ ~Writable(p)
             /\ koffset' = p /\ UNCHANGED <<file, stream>>
             /\ Returns(s, "write", size, 0, "none", d, -1)
          \/ /\ stream[s].fd = "open" /\ Writable(p)
             /\ \E k \in IF works THEN {Len(d)} ELSE 0..(Len(d) - 1) :
                   /\ file' = Handles!F!Overlay(file, p, SubSeq(d, 1, k))
                   /\ koffset' = p + k
                   /\ stream' = [stream EXCEPT ![s].cur_offset = p + k]
                   /\ Returns(s, "write", size, 0, "none", d, IF k = 0 THEN -1 ELSE k \div size)
       /\ UNCHANGED works

\* mm_get_fd_size_file goes to the end of the file and back.
GetSize(s) ==
    /\ stream[s].fd # "none"
    /\ IF stream[s].fd = "failed"
       THEN UNCHANGED koffset /\ Returns(s, "size", 0, 0, "none", <<>>, -1 - stream[s].offset)
       ELSE /\ koffset' = stream[s].cur_offset
            /\ Returns(s, "size", 0, 0, "none", <<>>, Len(file) - stream[s].offset)
    /\ UNCHANGED <<file, works, stream>>

\* The application moves the offset of the descriptor it opened.
OwnerSeeks ==
    /\ \E off \in Offsets : off >= 0 /\ koffset' = off
    /\ UNCHANGED <<file, works, stream, last>>

\* From now on reads and writes fail, or writes are cut short.
MediumFails ==
    /\ works' = FALSE /\ last' = Handles!NoCall
    /\ UNCHANGED <<file, koffset, stream>>

Next ==
    \/ \E s \in Streams :
          \/ \E base \in Bases : Create(s, base)
          \/ Destroy(s)
          \/ \E off \in Offsets, w \in {"SEEK_SET", "SEEK_CUR", "SEEK_END"} : Seek(s, off, w)
          \/ Tell(s)
          \/ \E size \in Sizes, nmemb \in Counts : Read(s, size, nmemb)
          \/ \E size \in Sizes, d \in Chunks : Len(d) % size = 0 /\ Write(s, size, d)
          \/ GetSize(s)
    \/ OwnerSeeks
    \/ MediumFails

Spec == Init /\ [][Next]_vars

-----------------------------------------------------------------------------
\* The types; cur_offset is never the -1 of a call that failed.
TypeOK ==
    /\ file \in Seq(Bytes \cup {HOLE}) /\ works \in BOOLEAN /\ koffset \in Nat
    /\ stream \in [Streams -> [fd : {"none", "open", "failed"}, offset : Nat, cur_offset : Nat]]

\* A stream stays behind its base, whatever it and the others did: the
\* assertion in mm_read_fd_file never fails.
BehindBase == \A s \in Streams : stream[s].cur_offset >= stream[s].offset

\* Streams on one file do not disturb each other, nor does the application
\* that opened it, although all share one offset: each reads, writes, seeks,
\* tells and sizes as if it had a position of its own.
ImplementsHandles == Handles!Spec
=============================================================================
