------------------------------- MODULE Totals -------------------------------
(***************************************************************************)
(* The sum of a function with values in Nat over its finite domain, as the *)
(* number of unit tokens <<x, 1>>, ..., <<x, f[x]>> the function hands     *)
(* out.  Counting tokens instead of folding keeps the laws of the sum      *)
(* within first-order reach of the provers (TotalsTheorems proves them).   *)
(***************************************************************************)
EXTENDS Integers, FiniteSets

Tokens(f) == UNION {{x} \X (1 .. f[x]) : x \in DOMAIN f}

Total(f) == Cardinality(Tokens(f))
=============================================================================
