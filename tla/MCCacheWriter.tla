---------------------------- MODULE MCCacheWriter ----------------------------
(***************************************************************************)
(* A small instance of CacheWriter: a cache of two bytes, and writes       *)
(* shorter than it, as long, longer, and twice as long.                    *)
(***************************************************************************)
EXTENDS CacheWriter, FiniteSets

CONSTANTS a, b

MCChunks == {<<a>>, <<b, a>>, <<a, b, b>>, <<b, a, a, b>>}
MCOffsets == {-1, 0, 2}
MCLengths == {1, 4}
=============================================================================
