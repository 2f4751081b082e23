--------------------------- MODULE MCPosixSession ---------------------------
(* One session of the posix backend on small instances.  Requests are        *)
(* interchangeable.                                                        *)
EXTENDS PosixSession, TLC

CallSymmetry == Permutations(Calls)
=============================================================================
