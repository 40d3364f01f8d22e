----------------------------- MODULE MCStratum ------------------------------
(* Model-checking instance of Stratum: submissions, sockets, names and     *)
(* share contents are interchangeable.                                     *)
EXTENDS Stratum, TLC

Symmetry == Permutations(Submissions) \cup Permutations(Sockets)
            \cup Permutations(Names) \cup Permutations(Nonces)
=============================================================================
