-------------------------------- MODULE Sums --------------------------------
(***************************************************************************)
(* Sums, products and powers of integers as recursive functions, of which  *)
(* SeqLemmas proves what they compute.                                     *)
(***************************************************************************)
EXTENDS Integers

\* f[1] + ... + f[n] and f[1] * ... * f[n].
SumTo(f, n) ==
  LET sum[k \in 0 .. n] == IF k = 0 THEN 0 ELSE sum[k - 1] + f[k] IN sum[n]
ProductTo(f, n) ==
  LET product[k \in 0 .. n] == IF k = 0 THEN 1 ELSE product[k - 1] * f[k] IN product[n]

\* 2 ^ n.
PowerOf2(n) == ProductTo([k \in 1 .. n |-> 2], n)
=============================================================================
