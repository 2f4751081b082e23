------------------------------- MODULE MCHost -------------------------------
(* The pipe host on small instances.  Requests are interchangeable.         *)
EXTENDS Host, TLC

CallSymmetry == Permutations(Calls)
=============================================================================
