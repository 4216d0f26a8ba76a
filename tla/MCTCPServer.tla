---------------------------- MODULE MCTCPServer ----------------------------
(* Instances of TCPServer for TLC. *)
EXTENDS TCPServer, TLC

MCSymmetry == Permutations(Conns)
=============================================================================
