----------------------------- MODULE MCLogReaders -----------------------------
(* Instances of LogReaders for TLC. *)
EXTENDS LogReaders

CONSTANTS h1, e1, e2, r1

Symmetry == Permutations({e1, e2})
===============================================================================
