----------------------------- MODULE MCPowerLoss -----------------------------
(* Instances of PowerLoss for TLC. *)
EXTENDS PowerLoss

CONSTANTS h1, h2, e1, e2

Symmetry == Permutations({h1, h2}) \cup Permutations({e1, e2})

AllFaults == FaultNames
==============================================================================
