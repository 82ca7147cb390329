----------------------------- MODULE PartialSums -----------------------------
(***************************************************************************)
(* Sums over the entries of an array, as the properties of the pulse       *)
(* trains and of the bit buffer use them.                                  *)
(***************************************************************************)
EXTENDS Integers

\* a[0] + ... + a[n - 1]
SumBelow(a, n) ==
    LET upTo[i \in 0..n] == IF i = 0 THEN 0 ELSE upTo[i - 1] + a[i - 1]
    IN  upTo[n]

=============================================================================
