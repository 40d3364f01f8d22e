---------------------------- MODULE MCPoolPayout ----------------------------
(* Model-checking instance of PoolPayout: a large and a small miner, a     *)
(* name that does not resolve and the fee wallet mining itself.            *)
EXTENDS PoolPayout, TLC

CONSTANTS a1, a2
Window(x, y, d, f) == a1 :> x @@ a2 :> y @@ Domain :> d @@ FeeWallet :> f
MCWindows == {Window(0, 0, 0, 0), Window(2, 1, 0, 0), Window(13, 1, 1, 0), Window(1, 0, 3, 2)}
Symmetry == Permutations(Runs)
=============================================================================
