----------------------------- MODULE FileHandles -----------------------------
(***************************************************************************)
(* Several handles on one file, each with a position of its own, counted   *)
(* from the handle's base: what the descriptor streams are to those who    *)
(* read through them.  `last` is the last call, with what it was given and *)
(* what it returned.                                                       *)
(***************************************************************************)
EXTENDS Integers, Sequences

CONSTANTS Streams, Bases, Bytes, HOLE,
          Unwritable      \* places in the file where a write may be refused

VARIABLES
    bytes,      \* the contents, shared
    works,      \* whether the medium works
    handle,     \* of each stream: its state, its base, and its position
    last

handlesVars == <<bytes, works, handle, last>>

F == INSTANCE ByteFile WITH at <- 0, failed <- FALSE

\* A call of s: elements of size n and how many, or an offset and its whence;
\* the bytes read or to be written; the result.
Done(s, call, n, many, whence, data, result) ==
    [s |-> s, call |-> call, n |-> n, many |-> many, whence |-> whence,
     data |-> data, result |-> result]
NoCall == Done("none", "none", 0, 0, "none", <<>>, 0)

NoHandle == [state |-> "none", base |-> 0, pos |-> 0]

Init ==
    /\ bytes \in Seq(Bytes) /\ works = TRUE
    /\ handle = [s \in Streams |-> NoHandle]
    /\ last = NoCall

Place(s) == handle[s].base + handle[s].pos
Target(s, off, whence) ==
    off + CASE whence = "SEEK_SET" -> handle[s].base
            [] whence = "SEEK_CUR" -> Place(s)
            [] whence = "SEEK_END" -> Len(bytes)

Moved(s, k) == handle' = [handle EXCEPT ![s].pos = @ + k]

\* As much as there is, up to what was asked for; whole elements count.
Read(s, size, nmemb, data, result) ==
    /\ Len(data) <= size * nmemb
    /\ Len(data) < size * nmemb => Place(s) + Len(data) >= Len(bytes)
    /\ \A j \in DOMAIN data : Place(s) + j <= Len(bytes) /\ data[j] = bytes[Place(s) + j]
    /\ result = Len(data) \div size
    /\ Moved(s, Len(data)) /\ UNCHANGED bytes

\* All of d, or a part of it once the medium fails.
Write(s, size, d, result) ==
    \E k \in 0..Len(d) :
        /\ works => k = Len(d)
        /\ result = k \div size
        /\ bytes' = F!Overlay(bytes, Place(s), SubSeq(d, 1, k))
        /\ Moved(s, k)

\* A target before the base is the base.
Seek(s, off, whence, result) ==
    LET target == Target(s, off, whence) - handle[s].base
    IN /\ handle' = [handle EXCEPT ![s].pos = IF target < 0 THEN 0 ELSE target]
       /\ result = 0 /\ UNCHANGED bytes

Tell(s, result) == result = handle[s].pos /\ UNCHANGED <<bytes, handle>>

Size(s, result) == result = Len(bytes) - handle[s].base /\ UNCHANGED <<bytes, handle>>

\* A refused call changes nothing, and only these are refused: any call on a
\* handle whose descriptor could not be duplicated, reading and writing on a
\* medium that fails, a seek to before the file, a write at certain places.
Refused(s, c) ==
    /\ \/ handle[s].state = "broken"
       \/ ~works /\ c.call \in {"read", "write"}
       \/ c.call = "seek" /\ Target(s, c.n, c.whence) < 0
       \/ c.call = "write" /\ Place(s) \in Unwritable
    /\ c.result < 0 /\ UNCHANGED <<bytes, handle>>

Effect(s, c) ==
    \/ c.call = "read" /\ Read(s, c.n, c.many, c.data, c.result)
    \/ c.call = "write" /\ Write(s, c.n, c.data, c.result)
    \/ c.call = "seek" /\ Seek(s, c.n, c.whence, c.result)
    \/ c.call = "size" /\ Size(s, c.result)

Call(s, c) ==
    /\ c.s = s
    /\ \/ handle[s].state = "live" /\ Effect(s, c)
       \/ handle[s].state # "none" /\ c.call = "tell" /\ Tell(s, c.result)
       \/ handle[s].state # "none" /\ c.call # "tell" /\ Refused(s, c)
    /\ UNCHANGED works

OpenOrClose(s) ==
    /\ \/ /\ handle[s].state = "none"
          /\ \E how \in {"live", "broken"}, base \in Bases :
                handle' = [handle EXCEPT ![s] = [state |-> how, base |-> base, pos |-> 0]]
       \/ /\ handle[s].state # "none"
          /\ handle' = [handle EXCEPT ![s] = NoHandle]
    /\ last' = NoCall /\ UNCHANGED <<bytes, works>>

MediumFails == works' = FALSE /\ last' = NoCall /\ UNCHANGED <<bytes, handle>>

Next ==
    \/ \E s \in Streams : Call(s, last') \/ OpenOrClose(s)
    \/ MediumFails

Spec == Init /\ [][Next]_handlesVars
=============================================================================
