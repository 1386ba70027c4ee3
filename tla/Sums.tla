-------------------------------- MODULE Sums --------------------------------
(***************************************************************************)
(* Sums over the entries of a table.                                       *)
(***************************************************************************)
EXTENDS Integers

\* s[m] + ... + s[n], which is 0 for n = m - 1.
Sum(s, m, n) ==
    LET upTo[k \in (m - 1)..n] == IF k = m - 1 THEN 0 ELSE upTo[k - 1] + s[k]
    IN upTo[n]
=============================================================================
