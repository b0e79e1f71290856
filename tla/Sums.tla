-------------------------------- MODULE Sums --------------------------------
(* Totals over the rows of a table, the SQL aggregate SUM(column). *)
EXTENDS Integers

(* The sum of f[1], ..., f[n], for a function f on 1..n. *)
Total(f, n) ==
  LET upTo[i \in 0..n] == IF i = 0 THEN 0 ELSE upTo[i - 1] + f[i]
  IN  upTo[n]
=============================================================================
