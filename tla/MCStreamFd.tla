----------------------------- MODULE MCStreamFd -----------------------------
(***************************************************************************)
(* Two streams, one from the start of the file and one or two bytes into   *)
(* it; elements of one and two bytes against odd and even lengths.         *)
(***************************************************************************)
EXTENDS StreamFd, TLC

CONSTANTS a, b

MCFiles == {<<a, b, a>>}
MCChunks == {<<b>>, <<a, b>>}
MCSymmetry == Permutations(Streams)
MCOffsets == {-1, 1}
=============================================================================
