--------------------------- MODULE MCLoopBreaker ----------------------------
(***************************************************************************)
(* A handful of agents' requests, under one key or two.                    *)
(***************************************************************************)
EXTENDS LoopBreaker, TLC

RequestSymmetry == Permutations(Requests) \cup Permutations(Keys)
=============================================================================
