------------------------------ MODULE MCBounty ------------------------------
(* Model-checking instance of Bounty: an hour that pays one wallet well,   *)
(* one that pays two a little and one that pays none.                      *)
EXTENDS Bounty, TLC

CONSTANTS w1, w2
Paid(x, y) == [w \in Wallets |-> IF w = w1 THEN x ELSE IF w = w2 THEN y ELSE 0]
MCPayouts == {Paid(0, 0), Paid(1, 1), Paid(2, 0)}
Symmetry == Permutations(Runs)
=============================================================================
