------------------------------ MODULE ByteFile ------------------------------
(***************************************************************************)
(* An unbuffered file with a position, what a cache writer looks like to   *)
(* the muxer that writes through it: every call has its effect at once.    *)
(* Once the medium has failed ("failed"), nothing more is promised.        *)
(***************************************************************************)
EXTENDS Integers, Sequences

CONSTANTS Bytes, HOLE

VARIABLES
    bytes,    \* the contents
    at,       \* the position of the next write
    last,     \* the last call that did something, what it was given or told
    failed

fileVars == <<bytes, at, last, failed>>

Done(call, data, n, whence) ==
    [call |-> call, data |-> data, n |-> n, whence |-> whence]

\* The contents of f after d is written at position p.
Overlay(f, p, d) ==
    IF d = <<>> THEN f
    ELSE [i \in 1..(IF p + Len(d) > Len(f) THEN p + Len(d) ELSE Len(f)) |->
            IF i > p /\ i <= p + Len(d) THEN d[i - p]
            ELSE IF i <= Len(f) THEN f[i] ELSE HOLE]

Resized(f, n) == [i \in 1..n |-> IF i <= Len(f) THEN f[i] ELSE HOLE]

\* Where a seek from position p of f leads.
Target(f, p, off, whence) ==
    off + CASE whence = "SEEK_SET" -> 0
            [] whence = "SEEK_CUR" -> p
            [] whence = "SEEK_END" -> Len(f)

Init ==
    /\ bytes = <<>> /\ at = 0 /\ failed = FALSE
    /\ last = Done("none", <<>>, 0, "none")

Write(d) ==
    /\ bytes' = Overlay(bytes, at, d)
    /\ at' = at + Len(d)
    /\ last' = Done("write", d, 0, "none")

\* A negative target is refused.
Seek(off, whence) ==
    /\ at' = IF Target(bytes, at, off, whence) < 0 THEN at
             ELSE Target(bytes, at, off, whence)
    /\ last' = Done("seek", <<>>, off, whence)
    /\ UNCHANGED bytes

Tell ==
    /\ last' = Done("tell", <<>>, at, "none")
    /\ UNCHANGED <<bytes, at>>

Truncate(n) ==
    /\ bytes' = Resized(bytes, n)
    /\ last' = Done("truncate", <<>>, n, "none")
    /\ UNCHANGED at

Next ==
    \/ failed'
    \/ ~failed' /\ \/ last'.call = "write" /\ Write(last'.data)
                   \/ last'.call = "seek" /\ Seek(last'.n, last'.whence)
                   \/ last'.call = "tell" /\ Tell
                   \/ last'.call = "truncate" /\ Truncate(last'.n)

Spec == Init /\ [][Next /\ (failed => failed')]_fileVars
=============================================================================
