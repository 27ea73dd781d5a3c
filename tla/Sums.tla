-------------------------------- MODULE Sums --------------------------------
(***************************************************************************)
(* The sum of a function over 1..n, written as a recursive function so that *)
(* it can be both evaluated and reasoned about.                             *)
(***************************************************************************)
EXTENDS Integers

\* The partial sums of f: PartialSums(f, n)[i] = f[1] + ... + f[i].
PartialSums(f, n) ==
  LET s[i \in 0..n] == IF i = 0 THEN 0 ELSE s[i - 1] + f[i] IN s

SumTo(f, n) == PartialSums(f, n)[n]
=============================================================================
