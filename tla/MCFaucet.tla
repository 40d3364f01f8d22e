------------------------------ MODULE MCFaucet ------------------------------
(* Model-checking instance of Faucet: requests are interchangeable. *)
EXTENDS Faucet, TLC

Symmetry == Permutations(Requests)
=============================================================================
