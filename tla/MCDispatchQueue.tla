--------------------------- MODULE MCDispatchQueue ---------------------------
(* Small instances of DispatchQueue for TLC. *)
EXTENDS DispatchQueue, TLC

CONSTANTS a1, a2, a3

MCSymmetry == Permutations(Agents)
=============================================================================
