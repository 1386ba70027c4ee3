----------------------------- MODULE CacheWriter -----------------------------
(***************************************************************************)
(* The write cache between a muxer and its output stream: cache_simple     *)
(* (cache/mm_cache_simple.c) on top of file_cache_write (cache/mm_cache.c) *)
(* on top of a file stream (stream/mm_stream_file.c, the fp operations),   *)
(* whose FILE* has a buffer of its own.  One thread uses it; what is hard  *)
(* is the splitting of writes at the cache boundary, seeks, tells and      *)
(* truncations between buffered writes, and writes that fail half way.     *)
(***************************************************************************)
EXTENDS Integers, Sequences

CONSTANTS
    Bytes, HOLE,    \* the values of a byte, and a byte never written
    Chunks,         \* the buffers passed to cache_write, non-empty
    Offsets,        \* the offsets passed to cache_seek
    Lengths,        \* the lengths passed to cache_truncate
    Errnos,         \* the errors a write to the medium may end with
    CacheSize,      \* mCacheSize
    StdioSize,      \* the bytes the C library may hold back
    ErrLimit,       \* 10: consecutive errors before the callback
    MaxLen          \* bound: the longest file

ASSUME CacheAssumption ==
    /\ HOLE \notin Bytes
    /\ Chunks \subseteq Seq(Bytes) \ {<<>>}
    /\ Offsets \subseteq Int /\ Lengths \subseteq Nat
    /\ Errnos \subseteq {"EIO", "ENOSPC"}
    /\ CacheSize \in Nat \ {0} /\ StdioSize \in Nat
    /\ ErrLimit \in Nat /\ MaxLen \in Nat

VARIABLES
    life,      \* "none", "open", "closed", and "gone" with its stream
    cache,     \* mpCache[0 .. mValidLen-1]
    stream,    \* the output stream and its error state
    last       \* history: the last call on the cache and its argument, or
               \* what cache_tell returned

vars == <<life, cache, stream, last>>

\* mWriteErrCnt and the number of failed writes in a row are compared with
\* ErrLimit only, so they saturate just above it.
Count(n) == IF n > ErrLimit + 2 THEN ErrLimit + 2 ELSE n

NewStream == [file |-> <<>>,         \* what the medium has
              held |-> <<>>,         \* the bytes before pos that stdio has
              pos |-> 0,             \* the position ftello tells
              mWriteErrCnt |-> 0, mWriteErrNO |-> "none",
              notified |-> 0,        \* history: failed writes in a row when
                                     \* mCB.cb was first called, 0 before
              row |-> 0,             \* history: writes failed in a row
              lost |-> FALSE,        \* history: some byte was not written
              torn |-> FALSE]        \* history: a truncation passed stdio by

M == INSTANCE ByteFile WITH bytes <- stream.file, at <- stream.pos,
                            failed <- stream.lost

Origin(s) == s.pos - Len(s.held)

\* stdio takes d and keeps the last h bytes of all it has.
Taken(s, d, h) ==
    LET all == s.held \o d
        out == Len(all) - h
    IN [s EXCEPT !.file = M!Overlay(s.file, Origin(s), SubSeq(all, 1, out)),
                 !.held = SubSeq(all, out + 1, Len(all)),
                 !.pos = @ + Len(d)]

\* The medium takes k bytes and an error ends it; stdio drops the others.
Broken(s, d, k) ==
    [s EXCEPT !.file = M!Overlay(@, Origin(s), SubSeq(s.held \o d, 1, k)),
              !.held = <<>>, !.pos = Origin(s) + k, !.lost = TRUE]

\* stdio writes out what it holds, or fails to, before fseeko and in fclose.
Drained(s) ==
    {Taken(s, <<>>, 0)} \cup {Broken(s, <<>>, k) : k \in 0..(Len(s.held) - 1)}

\* Mutant of WriteOk: a success leaves the error count alone.
WriteOkUncleared(s, d, h) == [Taken(s, d, h) EXCEPT !.row = 0]

\* file_cache_write: fwrite takes all of d, or fails half way.
WriteOk(s, d, h) == [Taken(s, d, h) EXCEPT !.mWriteErrCnt = 0, !.row = 0]

\* Mutant of WriteShort: the callback waits for one error more.
WriteShortLate(s, d, k, e) ==
    [Broken(s, d, k) EXCEPT
        !.mWriteErrNO = e,
        !.mWriteErrCnt = Count(@ + 1),
        !.notified = IF @ = 0 /\ s.mWriteErrCnt > ErrLimit + 1
                     THEN Count(s.row + 1) ELSE @,
        !.row = Count(@ + 1)]

WriteShort(s, d, k, e) ==
    [Broken(s, d, k) EXCEPT
        !.mWriteErrNO = e,
        !.mWriteErrCnt = Count(@ + 1),
        !.notified = IF @ = 0 /\ s.mWriteErrCnt > ErrLimit
                     THEN Count(s.row + 1) ELSE @,
        !.row = Count(@ + 1)]

\* The early return for EIO.
WriteRefused(s) == [s EXCEPT !.row = Count(@ + 1), !.lost = TRUE]

FileCacheWrite(s, d) ==
    LET all == Len(s.held) + Len(d)
    IN CASE d = <<>> -> {s}       \* no call
         [] d # <<>> /\ s.mWriteErrNO = "EIO" -> {WriteRefused(s)}
         [] OTHER -> {WriteOk(s, d, h) : h \in {i \in 0..StdioSize : i <= all}} \cup
                     {WriteShort(s, d, k, e) : k \in 0..(all - 1), e \in Errnos}

-----------------------------------------------------------------------------
Init == life = "none" /\ cache = <<>> /\ stream = NewStream
        /\ last = M!Done("none", <<>>, 0, "none")

\* cache_handle_create with CACHEMODE_SIMPLE.
Create ==
    /\ life = "none"
    /\ life' = "open"
    /\ cache' = <<>>
    /\ UNCHANGED <<stream, last>>

\* destroy_cache_simple frees the cache and what is in it.
Destroy ==
    /\ life = "open"
    /\ life' = "closed"
    /\ cache' = <<>>
    /\ stream' = [stream EXCEPT !.lost = @ \/ cache # <<>>]
    /\ UNCHANGED last

\* Mutants of Write: a cache that is just full is kept, or left in place
\* when it is written out.
WriteKeepsFull(d) ==
    /\ life = "open"
    /\ stream.pos + Len(cache) + Len(d) <= MaxLen
    /\ LET total == cache \o d
           out   == IF Len(total) <= CacheSize THEN 0
                    ELSE (Len(total) \div CacheSize) * CacheSize
       IN /\ \E s \in FileCacheWrite(stream, SubSeq(total, 1, out)) : stream' = s
          /\ cache' = SubSeq(total, out + 1, Len(total))
    /\ last' = M!Done("write", d, 0, "none")
    /\ UNCHANGED life

WriteDropsRest(d) ==
    /\ life = "open"
    /\ stream.pos + Len(cache) + Len(d) <= MaxLen
    /\ LET total == cache \o d
           out   == (Len(total) \div CacheSize) * CacheSize
       IN /\ \E s \in FileCacheWrite(stream, SubSeq(total, 1, out)) : stream' = s
          /\ cache' = IF out = 0 THEN total ELSE <<>>
    /\ last' = M!Done("write", d, 0, "none")
    /\ UNCHANGED life

\* FsCacheSimpleWrite: fill the cache and write it out when d does not fit,
\* then whole cache sizes straight from d, then cache the rest.
Write(d) ==
    /\ life = "open"
    /\ stream.pos + Len(cache) + Len(d) <= MaxLen
    /\ LET total  == cache \o d
           first  == IF cache # <<>> /\ Len(total) >= CacheSize
                     THEN CacheSize ELSE 0
           direct == IF cache # <<>> /\ Len(total) < CacheSize THEN 0
                     ELSE ((Len(total) - first) \div CacheSize) * CacheSize
       IN /\ \E s1 \in FileCacheWrite(stream, SubSeq(total, 1, first)) :
             \E s2 \in FileCacheWrite(s1, SubSeq(total, first + 1, first + direct)) :
                stream' = s2
          /\ cache' = SubSeq(total, first + direct + 1, Len(total))
    /\ last' = M!Done("write", d, 0, "none")
    /\ UNCHANGED life

\* The contents once the cache and stdio have written what they hold.
Logical == M!Overlay(stream.file, Origin(stream), stream.held \o cache)

\* FsCacheSimpleFlush: the streams it may leave.
Flushed == FileCacheWrite(stream, cache)

\* The flush, and then what the call makes of the stream.
FlushInto(streams) ==
    /\ life = "open"
    /\ cache' = <<>>
    /\ stream' \in streams
    /\ UNCHANGED life

Flush == FlushInto(Flushed) /\ UNCHANGED last

\* fseeko, which refuses a negative position, and goes nowhere when stdio's
\* bytes could not be written.
Sought(s, off, whence) ==
    {LET x == M!Target(d.file, d.pos, off, whence)
     IN IF x < 0 \/ (d.lost /\ ~s.lost) THEN d ELSE [d EXCEPT !.pos = x] :
        d \in Drained(s)}

Seek(off, whence) ==
    /\ M!Target(Logical, stream.pos + Len(cache), off, whence) <= MaxLen
    /\ FlushInto(UNION {Sought(s, off, whence) : s \in Flushed})
    /\ last' = M!Done("seek", <<>>, off, whence)

Tell ==
    /\ FlushInto(Flushed)
    /\ last' = M!Done("tell", <<>>, stream'.pos, "none")

\* ftruncate of the descriptor: stdio's bytes and position are not touched.
Cut(s, n) == [s EXCEPT !.file = M!Resized(@, n), !.torn = @ \/ s.held # <<>>]

Truncate(n) ==
    /\ FlushInto({Cut(s, n) : s \in Flushed})
    /\ last' = M!Done("truncate", <<>>, n, "none")

\* destory_outstream_handle_file, after the cache was destroyed.
CloseStream ==
    /\ life = "closed"
    /\ life' = "gone"
    /\ stream' \in Drained(stream)
    /\ UNCHANGED <<cache, last>>

Next ==
    \/ Create
    \/ Destroy
    \/ \E d \in Chunks : Write(d)
    \/ Flush
    \/ \E off \in Offsets, w \in {"SEEK_SET", "SEEK_CUR", "SEEK_END"} : Seek(off, w)
    \/ Tell
    \/ \E n \in Lengths : Truncate(n)
    \/ CloseStream

Spec == Init /\ [][Next]_vars

-----------------------------------------------------------------------------
\* The types, and between two calls mValidLen < mCacheSize: FsCacheSimpleWrite
\* refuses to go on otherwise ("why mValidLen >= mCacheSize ?!").
TypeOK ==
    /\ life \in {"none", "open", "closed", "gone"}
    /\ cache \in Seq(Bytes) /\ Len(cache) < CacheSize
    /\ stream.file \in Seq(Bytes \cup {HOLE})
    /\ stream.held \in Seq(Bytes) /\ Len(stream.held) <= StdioSize
    /\ stream.pos \in Nat /\ Origin(stream) \in Nat
    /\ stream.mWriteErrCnt \in 0..(ErrLimit + 2)
    /\ stream.mWriteErrNO \in Errnos \cup {"none"}
    /\ last.call \in {"none", "write", "seek", "tell", "truncate"}
    /\ last.n \in Int

\* Until a write fails, or a truncation finds bytes in stdio's buffer, which
\* overtake it, the user of the cache cannot tell it from a file without one:
\* call by call, each byte lands where it was to be written, and seeks from the
\* position or the end, and tells, count what the cache and stdio still hold,
\* whatever the mixture of cached and direct writes.
Unbuffered ==
    INSTANCE ByteFile WITH bytes <- Logical,
                           at <- stream.pos + Len(cache),
                           failed <- stream.lost \/ stream.torn
ImplementsFile == Unbuffered!Spec

\* mCB is there "for notify writeErr message to RecSink till app"
\* (mm_stream.h): after more than ErrLimit writes in a row that failed, the
\* callback has been called.
FailuresAreNotified == stream.row > ErrLimit + 1 => stream.notified # 0

\* A write that succeeds after failures ends the series: nobody is notified
\* before ErrLimit + 2 writes have failed in a row.
NoEarlyNotice == stream.notified # 0 => stream.notified > ErrLimit + 1
=============================================================================
