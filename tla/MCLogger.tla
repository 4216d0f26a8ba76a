------------------------------ MODULE MCLogger ------------------------------
(* Instances of Logger for TLC. *)
EXTENDS Logger, TLC

MCSymmetry == Permutations(Workers)
=============================================================================
