---------------------------- MODULE FifoChannel ----------------------------
(***************************************************************************)
(* What a message queue promises to its users, whatever its lists and its  *)
(* threads do: every message accepted is handed out at most once, in the   *)
(* order of acceptance, and nothing else is handed out.  Closing the       *)
(* channel drops what was not taken.                                       *)
(***************************************************************************)
EXTENDS Naturals, Sequences

CONSTANT Msgs

VARIABLES sent, got     \* the messages accepted and those handed out

chanVars == <<sent, got>>

Init == sent = <<>> /\ got = <<>>

Send(m) == sent' = Append(sent, m) /\ UNCHANGED got

Take == /\ Len(got) < Len(sent)
        /\ got' = Append(got, sent[Len(got) + 1])
        /\ UNCHANGED sent

Close == sent' = <<>> /\ got' = <<>>

Next == (\E m \in Msgs : Send(m)) \/ Take \/ Close

Spec == Init /\ [][Next]_chanVars
=============================================================================
