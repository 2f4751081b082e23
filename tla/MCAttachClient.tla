--------------------------- MODULE MCAttachClient ---------------------------
(* Two attach commands on a host that restarts its task once.               *)
EXTENDS AttachClient, TLC

ClientSymmetry == Permutations(Clients)
=============================================================================
