# Pluto-Project in TLA+

Pluto-Project is a C library in two parts. `mm_foundations` is what threads
talk to each other with: a message queue, a semaphore, an intrusive list and
logging. `mm_media` records audio and video packets into MP4 and MPEG-TS files
through a write cache and a file stream. This directory holds TLA+ models of
its stateful parts, TLC configurations that check them on small instances, and
theorems that TLAPS checks for every value of their constants.

## 1. The system

| Component | State | Operations | Talks to |
|---|---|---|---|
| message queue, `mm_message.c` | idle and ready list of nodes, list of pools, `mMsgCnt`, `mMsgPoolCnt`, `mWaitingFlag`, mutex, condition variable, malloc'ed payloads | create, destroy, put (with and without data), get, count, wait and dry wait, each with and without timeout | any number of user threads |
| semaphore, `mm_semaphore.c` | `sem_val`, mutex, condition variable | down, up, up_unique, reset, wait, signal | any number of user threads |
| write cache, `mm_cache.c`, `mm_cache_simple.c` | `mpCache[0..mValidLen-1]`, and in the stream `mWriteErrCnt`, `mWriteErrNO` | write, flush, seek, tell, truncate, destroy | called by a muxer, calls a stream; write error callback to the application |
| file stream, `mm_stream*.c` | `FILE*` or dup'ed descriptor and its offset, size, path, error state | open, read, write, seek, tell, size, truncate, fallocate, close | called by the cache and by tests |
| MP4 muxer, `Mp4Muxer.c` | counters of seven tables in `mov_inf_cache`, key frame list, `mdat_size`, current chunk | write header, packet, trailer | called by its driver, writes through the cache |
| MP4 driver, `Mp4MuxerDrv.c` | stream handle, cache mode and size, codec data, track info | open, IOCtrl, write CSD, header, packet, trailer, close | application above, muxer below |
| MPEG-TS muxer and driver, `mpeg2ts_muxer/` | continuity counters by PID, PAT/PMT period, packet under construction | as for MP4 | as for MP4 |
| muxer writer, `muxer_writer.c` | the table of drivers | create, destroy a handle | application |
| list, log, time, types | the list heads in their users; nothing else | | everything |

What is hard, by component, and what makes the component correct:

- *Message queue.* Several threads, one mutex, one condition variable and one
  flag for all who wait. A wait gives the mutex up, and what it knew before is
  stale afterwards; wakeups may be spurious; mallocs fail half way through a
  put; the payload pointer a consumer gets belongs to a node that is idle
  again. It is correct when it is a first-in first-out channel, loses no node
  and no payload, keeps its counter equal to its list, and leaves no thread
  asleep beside a message.
- *Semaphore.* Two kinds of sleepers on one condition variable, barging
  between a signal and the wakeup, resets. It is correct when the value never
  goes below 0, one signal for each `up` is enough, and `up_unique` makes no
  second unit.
- *Write cache.* No concurrency; the hard part is where a write is split at the
  end of the cache, what a seek, tell or truncate does to bytes that the cache
  or stdio still holds, and failed or short writes. It is correct when it cannot be told
  from a file without a cache until a write fails, and when failures are
  reported.
- *MP4 muxer.* A protocol of calls over a long time; the sample tables are built
  piecemeal while packets of two tracks alternate, and they describe bytes
  written long before. It is correct when a player finds in the finished file
  every sample that was recorded, at its time, with its key frames, and when the
  boxes tile the file.
- *MPEG-TS muxer.* A frame in two pieces of memory is cut into packets of 188
  bytes, behind a prefix of varying length and with stuffing in the last one;
  sizes, counters and lengths are each computed in more than one place, by
  formulas of their own. It is correct when the repository's own reader
  (`check_ts_muxer.c`) gets back every frame whole and in order, when every PID
  is counted without a gap, and when a reader can tune in at any video frame.
- *File stream over a descriptor.* Streams dup the descriptor they are given and
  so share the kernel's offset with each other and with the application. It is
  correct when nobody notices: each reads and writes as if it had an offset of
  its own.

The full list of hazards, each at its line with the properties that cover it,
is in `PROJECT.json` under `hazards`.

## 2. Modules

| Module | Models |
|---|---|
| `FifoChannel` | abstract: the channel a message queue is to its users |
| `MessageQueue` | `mm_message.c`, detailed; refines `FifoChannel` |
| `MCMessageQueue` | instances of it |
| `MessageQueue_proofs` | the theorems about it |
| `Semaphore`, `MCSemaphore` | `mm_semaphore.c` and an instance |
| `Semaphore_proofs` | the theorems about it |
| `ByteFile` | abstract: a file with a position and no cache |
| `CacheWriter`, `MCCacheWriter` | `mm_cache_simple.c` over `file_cache_write` over the `FILE*` stream; refines `ByteFile` |
| `CacheWriter_proofs` | the theorems about it, the refinement among them |
| `FileHandles` | abstract: handles on one file, each with a position of its own |
| `StreamFd`, `MCStreamFd` | the descriptor streams of `mm_stream_file.c`; refines `FileHandles` |
| `StreamFd_proofs` | the theorems about it, the refinement among them |
| `AvcConfig` | the search for parameter sets in codec data, as in `Mp4Muxer.c` and by definition |
| `Mp4Boxes` | every box inside moov: its size function and what its writer puts there |
| `Mp4Muxer`, `MCMp4Muxer` | `Mp4Muxer.c` and `Mp4MuxerDrv.c`, over a `ByteFile`-like file; extends `Mp4Boxes` |
| `Sums` | sums over the entries of a table, as the loops of `Mp4Muxer.c` add them up; also what TS packets carry |
| `Sums_proofs`, `Mp4Boxes_proofs` | lemmas about sums and about boxes inside boxes |
| `Mp4Muxer_proofs` | the theorems about the muxer; extends `Mp4Boxes_proofs` |
| `TsDemux` | what `check_ts_muxer.c` reads out of a transport stream |
| `Mpeg2tsMuxer`, `MCMpeg2tsMuxer` | `Mpeg2tsMuxer.c` and `Mpeg2tsMuxerDrv.c`; extends `TsDemux` |
| `Mpeg2tsMuxer_proofs` | the theorems about it |

`PROJECT.json` (`map`) gives the source lines of every definition that models
code. Operators commented "Mutant of X" are variants of X with a plausible bug;
no specification uses them. `PROJECT.json` (`mutants`) pairs each with a
property that fails when it takes the place of X, so that every checked
property is known to depend on the code it is about.

### MessageQueue

*Atomicity.* Every function of `mm_message.c` holds the mutex throughout except
inside `pthread_cond_wait` and `pthread_cond_timedwait`. A function that does
not wait is one action. One that waits is an action up to the wait
(`WaitMessage`, `TimedWaitMessage`, `DryWait`) and one from the wakeup on
(`ResumeWait`, `ResumeTimedWait`, `ResumeDryWait`); in between `pc[t]` is
"asleep", then "woken" (signalled, or spuriously by `WakeSpuriously`) or
"expired" (`Expire`, the deadline passed). Signals wake one sleeper chosen
freely. An expired thread is not a sleeper: a later signal does not reach it.

*State.* `idle` and `ready` are the two lists as sequences of node numbers,
`pools` the number of node arrays malloc'ed. A node has the message, its
payload pointer and whether `mDataSize` is non-zero, which is what the code
looks at before it frees. `heap` says which payload buffers are allocated and
whose bytes they hold. The other variables have the source's names. `accepted`
and `delivered` are histories, `out` is the caller's `msg_out` while the caller
uses it (`pc[t] = "done"` until `Release`), and `seen` the count a thread got
from `dry_wait_message_queue` or `get_message_count`, until its next call.

*Failure.* Every malloc may fail, at the point where the code calls it:
`MessageCreate`, `GrowFails` (before or after `mMsgPoolCnt++`), `CopyFails`
(the node keeps half of the new message and stays idle).

*Undefined behaviour* is a choice. `message_create` passes an attribute object
to `pthread_cond_init` after it destroyed it: `condClock` is either clock.
`list_first_entry` of an empty list yields the list head itself: `life` becomes
"corrupt" (`FetchFromHead`), from where nothing goes on.

### Semaphore

`uses` is chosen at the start among `Profiles`, so that one run covers several
ways to use a semaphore. `mm_sem_wait` and `mm_sem_down` sleep on the same
condition variable, and the model lets a signal reach either.

### CacheWriter

`stream` is the file, the bytes that the `FILE*`'s own buffer holds back
(`held`), the position and the error state (`mWriteErrCnt`, `mWriteErrNO`, the
callback), with four histories; `last` is the last call with its argument, by
which the refinement knows what the call should have done. `FileCacheWrite` is the set of outcomes of
`file_cache_write`: `fwrite` takes everything and the C library keeps the last
bytes, or the medium takes a part and an error ends it, or nothing is tried
after an EIO. `Write` chains two of them, one to write out the filled cache and
one for the whole cache sizes written straight from the caller's buffer, and
caches the rest. Flush, seek, tell and truncate begin with `FlushInto`, because
each flushes the cache first in the code; the cache is empty afterwards whether
or not the write succeeded. `fseeko` and `fclose` write out what stdio holds;
`ftruncate`, which acts on the descriptor, does not, so that bytes written just
before a truncation arrive after it and undo it (`torn`). The repository's only
caller seeks before it truncates.

### Mp4Muxer

The seven tables lie in one array `inf` in the order, and with the lengths,
they have in `mov_inf_cache`; `At` is `cache_write_ptr`, which wraps at the end
of the table's part. `Entries` and `Enter` are the bookkeeping of
`mov_write_packet`. `Data` is what is written for a packet that arrives in two
pieces: the start code is replaced by a length, wherever the first piece ends.
The contents of mdat are a sequence of cells "byte k of packet n" or "byte k of
length v", so that a sample can be compared with the packet it came from. Boxes
are records of type and size by file position. `Trak` is what the trailer
writes, read from the tables' first entries on as the code reads them. The
driver's part is `drv`: which IOCtrls were called before the header, and with
what the header can succeed.

`Mp4Boxes` states a box as a sequence of items, each with the bytes it takes:
heads with the size they tell, fields, and an end marker. `StsdSize`,
`EsdsSize` and so on are the size functions, `StsdTag`, `EsdsTag` the writers;
nothing relates the two but `BoxesNest`, which counts what lies between a head
and its end. `AvcConfig!FindStartCode` is the search of the code with its three
phases (bytes up to an aligned address, words, bytes), `AnnexB` the definition
of a byte stream it is compared with in `DecoderConfigured`. `NalUnits` is defined
for the offsets from which the code's own unbounded loop stops (`Offsets`).

`Mp4Assumption` says what a packet is: a ring buffer splits a frame behind its
first byte at the earliest; a video frame is empty or longer than its start code;
an IDR frame, which the code knows by its bytes, has some. `BoxesAssumption`:
codec data are bytes and the title has a length.

### StreamFd

`koffset` is the offset in the kernel that all dup'ed descriptors share;
`stream[s]` has the stream's own `offset` (its base) and `cur_offset`. A
descriptor is "failed" when `dup` failed, which the code does not look at, so
that every later call on it fails. `OwnerSeeks` is the application that moves
the shared offset between two calls; `MediumFails` lets reads fail and writes be
cut short from then on. The width of the `int` that holds the result of
`lseek64` is `IntMod`. `FileHandles` takes a call with its arguments and its
result (`last`) and says which results and effects are right.

### Mpeg2tsMuxer

The file is a list of segments, one for each `cache_write`: the object written
(a table, the header of a TS packet, an access unit delimiter, codec data, a
frame), from which of its bytes on and how many. Addresses are relative to the
first piece of the frame (`data0` is 0), since the writer decides by comparing
addresses which piece it is in. `WriteAccessUnit` is `mpeg2ts_write_packet` up
to its loop, `WriteFragment` a round of the loop, `WriteAvTsPacket` the copying
of a part of the frame that both end with. A negative size, an assertion and a
NULL pointer end the model in "overrun", "aborted" and "crashed".
`TsDemux!Elementary` reads a file back as `check_ts_muxer.c` does: it goes over
the segments, tells from each header at a packet boundary which bytes of that
packet are payload, and joins what it copies (`Read`). `Recorded` is what it should
have got: for each frame of the track, the codec data or ADTS header and as many
bytes of the frame as the loop has reached (`Written`).

## 3. Runs

| Run | Instance | States | What it shows |
|---|---|---|---|
| `MQ_one_consumer` | a producer, a consumer that calls every function, 4 puts, 2 messages (one without payload), 2 buffers, pools of 2, fair | 29,738 | types, partition of the nodes, exact counter, `NoLostWakeup`, `CountStillThere`, a message that a timed wait saw is still there (`MessageStillThere`), refinement of `FifoChannel`, and that a waiter returns while messages are ready |
| `MQ_two_consumers` | a producer and two consumers, spurious wakeups, 4 puts, 3 messages, 3 buffers, symmetry of buffers and of messages with payload | 372,389 | nodes and payloads are neither lost nor shared, a payload stays valid while the queue promises it, destroy frees all, refinement of `FifoChannel` |
| `Sem` | four threads, three profiles, values 0 to 3, spurious wakeups, fair | 221 | no negative value, a woken thread for every unit (`WakeupPerUnit`), no thread left asleep in a down beside a unit (`UpDownOk`), `up_unique` stays binary |
| `Cache` | cache of 2 bytes, 1 byte of stdio buffer, writes of 1 to 4 bytes, file of up to 4 bytes, seeks with three whences to -1, 0 and 2, truncation to 1 and 4, a full medium, `ErrLimit` 1 | 257,652 | refinement of `ByteFile` call by call, the callback comes after the limit and not before |
| `Mp4` | up to 5 packets out of 5 kinds, both codecs, three kinds of video codec data, tables of 2 and 3 entries, 3 key frames | 144,209 | samples, sync samples and times read back from the finished file; the boxes tile the file, and inside moov each is as large as its head tells; the decoder gets its parameter sets |
| `Ts` | up to 4 frames out of 6 kinds, counters modulo 3, lengths written as 0 from 355 on | 31,221 | the file is whole packets, frames read back, counters without gaps, tables before every video frame, exact PES lengths, times to all bits |
| `Fd` | two streams with bases 0 and 1, a file of 3 to 4 bytes, elements of 1 and 2 bytes, an `int` of 2 bits, a medium that may fail, symmetry of streams | 111,246 | no stream before its base; refinement of `FileHandles` |
| `MQ_empty_fetch` | a thread in the timed wait and one that calls `get_message`, 2 puts, no spurious wakeups | violated | finding 1 |
| `MQ_lost_wakeup` | two threads in the forever wait | violated | finding 2 |
| `MQ_timeout_clock` | as `MQ_one_consumer`, 2 puts | violated | finding 3 |
| `Cache_eio` | as `Cache`, with EIO | violated | finding 4 |
| `Ts_small` | an audio frame of 100 bytes | violated | finding 5 |

*Why the bounds are enough.* In the queue, pools of 2 and two pools make the
idle list run empty, grow, and run empty with no growth left; 4 puts go around a
pool twice, so nodes are reused with the payload of an earlier message still in
them. `MaxPoolCnt` is one more than `MaxPools`, so that the leaked count shows.
Two consumers are what barging, a shared flag and stolen messages need. In the
cache, one to four bytes against a cache of two are less than, exactly, more
than and twice its size; one byte of stdio buffer is held back or not at every
write. `ErrLimit` stands for 10: only
comparisons with it matter, and the counters saturate above it. In the MP4
muxer, five packets overflow the chunk tables (2) and the sample tables (3),
which is the reason `Fits` appears in the properties; recordings that fit
include all alternations of tracks; `Reserve` is such that short recordings
have their moov in the reserved space and longer ones behind the data. The frame
sizes split a frame inside the start code, right behind it, and behind the
NAL header. The boxes have their real sizes, so `Reserve` is large: with 1181
bytes the moov of one track, and of two tracks with few entries, fits the
reserved space, and others do not. Audio codec data of 113 bytes is the least
that needs a second byte in the length of a descriptor; the video codec data has
its second start code at an aligned and at an unaligned offset, or none. In the
TS muxer the frames leave nothing for a second packet (155 and 156 bytes, the
least that are safe, see finding 5), 183 and 184 bytes for the last one (an
adaptation field of length 0, and none), or a few; the second piece lies behind
the first, or below it as in a ring buffer. Counters modulo 3 go around within
a frame or two; 355 lies among the PES lengths of these frames. In `Fd`, two
streams and the opener are all that can disturb each other pairwise, and an
`int` of two bits makes position 3 the one whose low bits are all ones.

*Deadlock* is checked in `Sem`, where it says little: one thread can always reset
or signal. That no thread stays asleep beside a unit is what `UpDownOk` says. The
other configurations turn it off because the system may really stop: consumers
sleep for ever once `MaxPuts` messages were accepted and taken; a cache and a
recording end when they are closed; no call is obliged to be made on a stream.

*Fairness.* `MessageQueue!FairSpec` and `Semaphore!FairSpec` assume weak
fairness of `Resume(t)`, and of `Expire(t)`, for each thread: nobody holds the
mutex while sleeping, so a thread that was woken, or whose deadline passed, gets
it in the end. Nobody is obliged to make a new call, and no put is assumed.

## 4. Findings

1. `MQ_empty_fetch`. A timed wait that was signalled does not test the ready
   list again (`mm_message.c:340`). When another consumer takes the message
   between the signal and the wakeup, `list_first_entry` yields the list head
   itself, where its comment says "Note, that list is expected to be not empty."
   (`mm_list.h:360`). A spurious wakeup does the same. With one consumer that only
   signals wake, `FetchFromNonEmpty` is proved (section 5).
2. `MQ_lost_wakeup`. Two threads are in the forever wait and two messages are
   put. The first waiter to leave clears `mWaitingFlag` (`mm_message.c:304`), the
   second put does not signal (line 245), and the other thread sleeps beside a
   ready message. With one consumer `NoLostWakeup` and `WaiterReturns` hold.
3. `MQ_timeout_clock`. The deadline comes from `gettimeofday` unless
   `HAVE_POSIX_CLOCKS` is defined (line 322), the condition variable's clock
   from an attribute that was set to the monotonic clock and destroyed before it
   was used (lines 113-117). Where the destroyed attribute still reads as it
   did, the wait does not time out.
4. `Cache_eio`. After an EIO, `file_cache_write` returns before it counts
   (`mm_cache.c:66`), the count never passes its limit, and the callback that
   `mm_stream.h:24` declares "for notify writeErr message to RecSink till app"
   is never called.
5. `Ts_small`. For a frame that does not fill its first TS packet the padding
   is a constant, `TS_PACKAGE_SZ - 18 - 8` (`Mpeg2tsMuxer.c:297`), instead of what
   the frame leaves. The header alone is then 188 bytes long and a negative size
   is left for the frame, where `write_av_ts_packet` claims "this case can NOT
   happen".

Behaviours of the code that an instance or an assumption excludes, and that
have no run of their own:

- With a positive timeout and a ready list that is not empty,
  `wait_message_queue_not_empty` returns 0 at once (`mm_message.c:308`) and writes
  nothing to `msg_out`. The test takes 0 for a message and prints its fields
  (`foundations_test.c:58-59`). Nothing is lost: `MessageStillThere` says that the
  message waits for the next call.
- Because of finding 1 `MQ_two_consumers` leaves the timed wait out, and
  `MQ_one_consumer` includes it without spurious wakeups. The theorems that
  depend on it say so in their hypotheses.
- `PayloadSafe` promises a fetched payload for as many puts as there are idle
  nodes before its own. A consumer that keeps it longer finds it freed by a put
  (`mm_message.c:30-35`), and nothing in the queue prevents that.
- A failed write of the cache is success to the muxer (`mm_cache_simple.c:47`):
  the error callback is the only notice, and `FailuresAreNotified` is about the
  callback only.
- A table of the MP4 muxer that is full wraps and loses the entries at its start
  (`Mp4Muxer.c:1381`). `SamplesReadBack` holds of the tracks that fit (`Fits`), beside
  one that does not.
- When a TS packet ends exactly where the first piece of a frame does and the
  second piece lies elsewhere, `stream_ptr` points behind the first piece, which
  is neither piece: the next bytes are copied from beside the frame
  (`Mpeg2tsMuxer.c:183-196`). The frames of `Ts` whose pieces lie apart are not
  split there.
- Audio packets that were not announced with `SET_TRACK_INFO` are written under
  PID 0, which is that of the PAT. `Sound` leaves such recordings out.
- The time stamp has 32 bits, where the comment beside it (line 336) and the
  format have 33: it starts anew after 13 hours. `TsAssumption` stays below.
- A write on a descriptor at an offset whose low 32 bits are all ones is
  refused (`mm_stream_file.c:202`). `FileHandles` admits it (`Unwritable`).
- In codec data, `ff_avc_find_startcode` may take a start code of three bytes
  for one of four and cut a byte off the unit before it, and misses one near the
  end of short data. `Mp4Assumption` asks for start codes of four bytes and for
  units of at least four bytes.
- Zeros that an encoder stuffs in behind a unit are copied with it into the avcC
  box, since the code tells units by where start codes begin. `DecoderConfigured`
  speaks of codec data without them (`Unstuffed`).
- `check_ts_muxer` waits for an audio packet and does not end on a recording
  without audio. `TsDemux` models what it makes of the packets it reads.

## 5. Proofs

### The message queue

`MessageQueue_proofs` proves, for every set of threads, messages and buffers,
every pool size and every bound, under `QueueAssumption` (stated in
`MessageQueue`: constants have their types, pools have at least one node, and
`NULL` is neither a message nor a buffer):

| Theorem | States |
|---|---|
| `TypeCorrect` | `Spec => []TypeOK` |
| `NodesPartitioned` | `Spec => [](FetchFromNonEmpty => ListsPartition)` |
| `CounterExact` | `Spec => [](FetchFromNonEmpty => CountInReady)` |
| `NeverFetchFromEmpty` | `OneConsumer /\ ~SpuriousWakeups /\ Spec => []FetchFromNonEmpty` |
| `SeenMessageStays` | `OneConsumer /\ ~SpuriousWakeups /\ Spec => []MessageStillThere` |
| `ImplementsFifo` | `(NoTimedWait \/ (OneConsumer /\ ~SpuriousWakeups)) /\ Spec => FifoSpec` |

`OneConsumer` says that at most one thread calls anything but put, `NoTimedWait`
that no thread calls `wait_message_queue_not_empty` with a positive timeout. A
signalled timed wait fetches without a test (finding 1), so the last three need
that nobody else takes the message and that only signals wake; without the timed
wait, the queue is a FIFO for any number of consumers, however woken. For the
same reason the second and the third are stated up to the first fetch from an
empty list.

*The argument.* None of the invariants is inductive alone: that the lists
partition the pools says nothing of which message a ready node carries, and
that is what the order of delivery depends on. `QueueInv` is the conjunction of
`ListsPartition`, `CountInReady` and `Conserved`: the messages accepted are the
messages delivered followed by those in the ready list. `PartitionMove` (moving
the head of one list to the tail of the other keeps a partition) and
`PartitionGrow` (a new pool is disjoint from the old ones) are the lemmas about
lists; `FetchInv` and `PutMessageInv` use them for the two kinds of step that
touch the lists; `StepKinds` reduces all other actions to a fetch, to no change,
or to the fetch from an empty list. The refinement then reads off `Conserved` that
a fetch is `Fifo!Take` (`NextFifo`). That last kind of step is ruled out in two
ways. Without timed waits by `CallInv`: a thread is inside a wait only if it makes
that call. With them by `WokenInv`: whoever is woken has a message beside it. A put
establishes that, since it signals only after it made a message ready and a
failed copy signals nobody; only a fetch could undo it, and who fetches is, by
`OneConsumer` and `WaitsUsed` (whoever is inside a wait calls one), the woken thread
itself. An expired deadline leaves without a message, so it needs none.

| Theorem | States |
|---|---|
| `PayloadsOwned` | `NoEmptyPayload /\ Spec => []PayloadOwnership` |
| `NothingLeaks` | `NoEmptyPayload /\ Spec => []DestroyFreesAll` |
| `PayloadStays` | `NoEmptyPayload /\ Spec => []PayloadSafe` |
| `WakeupsKept` | `OneWaiter /\ Spec => []NoLostWakeup` |
| `CountsStay` | `OneConsumer /\ Spec => []CountStillThere` |

`NoEmptyPayload` says that nobody puts a payload pointer with size 0: the code
copies such a payload and frees it by its size, so it would leak. `OneWaiter`
says that at most one thread calls functions that wait; with more, finding 2 is
what happens, and with more than one consumer a count is as stale as the other
consumer likes. None of the five excludes the timed wait, failing mallocs or
spurious wakeups.

*The argument.* A payload is owned (`Owned`) when buffers in use and nodes with
a payload correspond one to one and a node without one has size 0; the half-made
copy of a failed malloc must keep that (`CopyFailsOwned`). `PayloadInv` adds
that every node with a payload is in one of the two lists, where
`message_destroy` looks for it. `SafeInv` is what the promise of a fetched
payload rests on: the node it came from is idle, at the distance from the head
of the idle list that is the number of puts the promise still allows; a put
takes the head and moves the others up, a fetch appends behind, a new pool goes
to the end. `FlagInv` says that the flag is up while the waiter can be signalled
and that the waiter sleeps only while nothing is ready; it needs `WaitsUsed`, by
which everybody else is outside. `SeenInv` says that a thread inside a wait
knows no count, so that what was seen only shrinks by the consumer's own calls.

### The semaphore

`Semaphore_proofs`, under `SemaphoreAssumption` (finitely many threads, profiles
that name calls of the semaphore, a maximal value of at least 1):

| Theorem | States |
|---|---|
| `TypeCorrect` | `Spec => []TypeOK` |
| `WakeupForEachUnit` | `Spec => []WakeupPerUnit` |
| `UniqueIsBinary` | `Spec => UniqueStaysBinary` |

`WakeupPerUnit` compares the number of woken threads with the value, and only
while a thread sleeps. It is inductive together with `WaitersUseWait`: a thread
sleeps in `mm_sem_wait` only if its profile has that call, so where none has, a
signal never goes astray. An `up` beside a sleeper adds a woken thread to the
unit; the one that goes from 0 threads asleep to one does so from value 0; a
woken thread that finds no unit goes back to sleep when the value is 0, where
nothing is claimed.

### The descriptor streams

`StreamFd_proofs`, under `StreamAssumption` (types of the constants only):

| Theorem | States |
|---|---|
| `TypeCorrect` | `Spec => []TypeOK` |
| `NeverBeforeBase` | `Spec => []BehindBase` |
| `ImplementsFileHandles` | `Spec => ImplementsHandles` |

`BehindBase` is needed for the other two: without it a read could begin at a
negative offset and a position counted from the base would not be a number of
bytes. `koffset` does not appear in any invariant, which is the point: every call
has set it before it depends on it. `IInv` is `TypeOK` with `BehindBase`; each
call is a lemma that maps it to a call, or a refusal, of `FileHandles`.

### The write cache

`CacheWriter_proofs`, under `CacheAssumption` (types of the constants, a cache
of at least one byte, writes that are not empty):

| Theorem | States |
|---|---|
| `TypeCorrect` | `Spec => []TypeOK` |
| `NoticeIsLate` | `Spec => []NoEarlyNotice` |
| `FailuresNotified` | `"EIO" \notin Errnos` implies `Spec => []FailuresAreNotified` |
| `CacheIsInvisible` | `Spec => ImplementsFile` |

Without its assumption `FailuresNotified` is false (finding 4).

*The argument.* What the user sees is `Contents`: the file overlaid with what
stdio and then the cache hold. `OverlayBehind` (two writes, one behind the
other, are one) and `SplitAt` (a sequence is what is before a place and what is
behind) give `TakenKeepsContents`: however many bytes stdio passes on and keeps,
the contents are the same. `WriteStep` uses it twice, for the filled cache and
for the whole cache sizes written directly, and gets from the division that what
is left is shorter than the cache. `Follows` is what no step of a stream takes
back: lost bytes stay lost, the counters stay related. The invariant `IInv` adds
to the types that stdio's bytes end at the position (`GoodStream`) and that the
code's count never exceeds the failures in a row (`Counted`); for
`FailuresNotified` the two are equal (`CountedAll`), which refused writes would
break. Each step then either fails, after which `ByteFile` promises nothing, or is
the same call of `ByteFile`, or leaves contents, position and last call alone.

### The MPEG-TS muxer

`Mpeg2tsMuxer_proofs`, for any set of frames and any number of them, under
`TsAssumption` (frames have a first piece, pieces do not overlap, time stamps stay
within the 32 bits of the writer):

| Theorem | States |
|---|---|
| `TypesCorrect` | `Spec => []TypeOK` |
| `WholePacketsAlways` | `Spec => []WholePackets` |
| `ContinuityNeverBreaks` | `Spec => []ContinuityCounts` |
| `TablesAlwaysLead` | `Spec => []TablesLead` |
| `TimesAlwaysReadBack` | `Spec => []TimesReadBack` |
| `PesLengthsAlwaysExact` | `Spec => []PesLengthsExact` |
| `FragmentsAlwaysFit` | `FramesFit /\ Spec => []FragmentsFit` |
| `FramesAlwaysInOrder` | `FramesFit /\ Spec => []FramesInOrder` |
| `StreamsAlwaysReadBack` | `FramesFit /\ AudioCounted /\ Spec => []StreamsReadBack` |

The first six need no assumption on the frames' sizes: their properties speak of
recordings in which no fragment was refused. `FramesFit` asks that every frame
fills its first TS packet, which has room for its codec data, and that its pieces
are contiguous or the split is not where a packet ends. What it leaves out is
wrong in the code (finding 5, and the second of the behaviours listed behind it).
`FramesInOrder`, which no run checks by itself, is the stronger form of "the
fragments fit": the bytes of the frames lie in the file once each and in order,
over both pieces and all packets.
`AudioCounted` asks that an audio frame is short enough for its PES packet to have
a length (`MaxPes`, 65535 in the code, where an AAC frame has at most a few
thousand bytes): a packet without one has length 0, and the reader would take that
for the length of a short frame.

*The argument.* Every handler comes down to one form, `Packet(f, head, g)`: the
file g is f, at a boundary, with a header and further segments that are no
headers, up to the next boundary. `TablesArePackets`, `StartsPacket` and
`FragmentsPacket` prove that of the actions, through the three places that copy a
part of a frame (`WriteAvTsPacketExtends`); the invariants are then about packets
only. `CountInv` relates the three counters of the code to the number of packets
of their PIDs, `LeadInv` says which PIDs the last table lists, `TimesInv` pairs
frames taken with start packets. `PesInv` adds up, with `Sum`, what the packets
of a PID carry since a start packet: with what the loop has left to write of the
frame (`LeftOf`) it is the length the start packet tells. `Begun` connects the
frame in the loop with the last frame taken, whose PID is the track's. `LoopInv`
is the address arithmetic: the address in the loop is in the piece, and at the
place in it, that the bytes left to write say (`InPlace`). That the 32 bits of a
time survive five bytes with marker bits is arithmetic (`PtsRead`).

`StreamsReadBack` relates two functions defined over numbers, the reader's pass
over the segments (`Reading`) and the parts of a track behind each other
(`Concat`). Its invariant is `ReadInv`: after every step, in the midst of a frame
too, what a reader of a track's PID has got is what was recorded of the track.
`GotWrite` says what one more write makes the reader do: nothing if it is empty,
else one `Read`. From it follow the four cases of a write, each a lemma: a header
of the reader's PID opens a payload (`HeaderRead`), a header of another PID closes
it and what follows is passed over (`ForeignPacket`), bytes in an open payload
prolong the last piece or begin a new one (`CopiedContent`), and bytes in front of
the payload, the delimiter, are skipped (`SkippedContent`). `At(f, pid, isVideo, b,
e, stream)` is the state between the writes of one packet: the reader copies from
b to e and has `stream`. `FragmentRead` carries it over the two writes of a fragment
that crosses from the first piece of the frame to the second, where the pieces
join because `InPlace` says which byte comes next; `FirstPacketRead` and
`NextPacketRead` compose a packet, and `RecordedFirst` and `RecordedNext` say that
only the last part of one track changes. `PidsApart` keeps the tracks' readers from
seeing each other's packets. The other invariants it needs are `TypeInv`, `Begun`,
`LoopInv` and `WholeInv` (a step begins at a packet boundary).

### The MP4 muxer

`Mp4Muxer_proofs`, for any packets, table sizes, reserved space, codec data and
title, under `Mp4Assumption` and `BoxesAssumption`:

| Theorem | States |
|---|---|
| `TypesCorrect` | `Spec => []TypeOK` |
| `SamplesPlayBack` | `Spec => []SamplesReadBack` |
| `SyncSamplesCorrect` | `Spec => []SyncSamplesAreIdr` |
| `TimesPlayBack` | `Spec => []TimesReadBack` |
| `BoxesAlwaysTile` | `Spec => []BoxesTile` |
| `BoxesAlwaysNest` | `Spec => []BoxesNest` |
| `DecoderAlwaysConfigured` | `Spec => []DecoderConfigured` |

*The argument.* `SamplesReadBack` speaks of a finished file; what makes it true
is an invariant of the recording. `Chunked(co, sc, sz, got, data, open)` says that
the chunks of a track, the last of them with `open` samples not yet entered,
hold its samples one behind the other in `data`, byte for byte. A packet
prolongs the open chunk or, when it belongs to the other track, closes it
and opens one at the end of the data (`Recording`); the trailer closes the last
(`Finished`). `Kept` has the types, among them that the media data are as long as
`mdat_size` says. `Fresh` says that nothing is recorded before the header,
`Numbering` that key frame numbers are those of the IDR frames, ascending. The
seven tables share one array; `RoomFacts` (each table's addresses are its own)
and `EntryAfter` keep what is said of one apart from the others. A second
invariant, `BInv`, is about boxes: it counts packets against `MaxPackets`, relates
the tables of durations and sizes (`Timed`), and keeps the boxes of the header as
they were (`Layout`) until the trailer has written the other ones, in the
reserved space or behind the data.

For `BoxesNest`, `Nested(s, n)` says that s takes n bytes and that each head in it
is closed after as many bytes as it tells. Every kind of box has a lemma
`Nested...(its writer, its size function)`, composed by `NestedJoin` (one behind
the other) and `NestedBox` (one in the other) along the calls of the code, up to
`NestedMoov`; `NestedFits` turns it into the property.

`DecoderConfigured` has two halves. `Holds(s, pieces)` says that the codec data
among the items of s are these pieces, in order; it is composed along the same
calls as `Nested`, most of which hold none (`Plain`), up to `HoldsMoov`: `moov`
carries what `ff_isom_write_avcc` got from the search, and nothing else of the kind.
The other half is `ParameterSetFound`: the last unit of a type that the search
meets is the last one there is by definition. `NextFound` shows that from the
byte behind a start code `FindStartCode`, whichever of its three phases finds it,
ends at the zero in front of the next start code or at the end, and `UnitFound`
that the unit taken is the one of `AnnexB`; `AgreeStep`
goes from the last start code back to the first, by `IntervalInduction`. `AnnexB`
gives the units as a function of the offset of their start code, not as a list, so that
this argument needs no sorting.

*Sums and searches.* The tables are read by adding up their entries, and codec
data by searching from one start code to the next. Both are functions over an
interval of numbers. The induction they need is not over data but over numbers,
and it is done here with sets: `Sums_proofs` proves that a non-empty set of
naturals has a least element (`Least`) and that a set with a, closed under
successor up to b, contains a..b (`IntervalInduction`); from these, that the recursive
function exists, what it is at the next index, and that sums split and shift.
`UnitsFacts` does the same for the search in codec data.

### Only model-checked

- Liveness (`WaiterReturns`, `UpDownOk`): TLAPS has no way from fairness to it.

Every other property of a passing run is stated by a theorem; where it has a
hypothesis on the constants, the tables above give it. The instance of `Ts`
meets both of the muxer's, and `MCSmallPackets`, of `Ts_small`, does not.

## 6. What is not modelled, and why

- *Muxer writer* (`muxer_writer.c`): two functions that pick a driver's table of
  functions and free it; they keep no state.
- *File stream*: read and size of a `FILE*`, which nobody calls while writing;
  `fallocate`; the truncate and fallocate of descriptors, which no stream
  installs; `ext_info.length`, which nothing uses; two threads inside calls on the
  same descriptor at once, which the library does nothing about.
- *MPEG-TS muxer*: values no property is about (CRC, PCR, the fields of the ADTS
  header other than its length), total time, card state, fallocate.
- *`mm_list.h`*: its lists are sequences in the models. `mm_log.h`, time and
  type headers: formatting and names. Tests and tools: the order of calls and
  what is expected of them are taken from here.
- *Message queue*: `message_destroy` with threads inside (the queue has no means
  to shut them out; the test joins its threads first). A payload pointer with
  size 0 is in the model (`Empty`) but not in the runs: nobody puts one, and the
  code would leak it.
- *Semaphore*: `mm_sem_get_val` only reads; the `mm_cond_wait` macros of the
  header have no user.
- *MP4 muxer*: a failing malloc in Open, a second `SET_TRACK_INFO`, codecs other
  than those the header is written for, a second trailer, a video packet whose
  first piece is empty and second is not or that is shorter than a start code,
  `mdat_size` beyond 31 bits, and a medium that fails (the muxer ignores the
  result of every write; `CacheWriter` says what is left of the promise then).
  The values of fields in boxes (times, dimensions, rotation, rates) are left
  out: only the bytes they take count. `udta` is never written, because
  `geo_available` is never set, nor are `elst` and `edts`.
- *Cache*: an error of the medium in the last `fclose` (modelled) is reported
  to nobody. The mode `CACHEMODE_THREAD` has no implementation in the repository.

## 7. Plan

What is left is more of the system.

1. `Recorder`: a muxer over `CacheWriter` over the stream, with the life cycle
   of `muxer_writer.c`: a finished file is in the stream when the trailer
   returns, and not before.
2. `mdat_size` and the offsets of chunks with a scaled width.
