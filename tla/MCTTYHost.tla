------------------------------ MODULE MCTTYHost ------------------------------
(* The TTY host on small instances.  Clients are interchangeable.           *)
EXTENDS TTYHost, TLC

ClientSymmetry == Permutations(Clients)
=============================================================================
