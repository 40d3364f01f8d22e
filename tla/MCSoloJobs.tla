----------------------------- MODULE MCSoloJobs -----------------------------
(* Model-checking instance of SoloJobs: miners are interchangeable.        *)
EXTENDS SoloJobs, TLC

Symmetry == Permutations(Miners)
=============================================================================
