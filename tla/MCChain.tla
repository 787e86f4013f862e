------------------------------- MODULE MCChain -------------------------------
(* Instances of Chain for TLC. *)
EXTENDS ChainRefinesLog

CONSTANTS h1, h2, e1, e2

Symmetry == Permutations({h1, h2}) \cup Permutations({e1, e2})

\* The faults after which the code is expected to go on as if nothing had happened.
SafeFaults == {"write", "rename", "crash"}
AllFaults == FaultNames
==============================================================================
