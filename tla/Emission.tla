------------------------------ MODULE Emission ------------------------------
(***************************************************************************)
(* The coins of the chain: the subsidy of every block (GetBlockSubsidy of  *)
(* validation.cpp) and what has been issued up to a height.                *)
(***************************************************************************)
EXTENDS Integers

CONSTANTS Reward,    \* 50000 * COIN
          Premine,   \* 10000000000 * COIN, the subsidy of block 1
          Interval,  \* nSubsidyHalvingInterval, 400000
          Shifted,   \* external: Shifted[n] is Reward >> n
          MAX_MONEY, \* 50000000000 * COIN
          MaxBlocks  \* bound on the height

ASSUME EmissionAssumption ==
    /\ Reward \in Nat /\ Premine \in Nat /\ Interval \in Nat \ {0, 1} /\ MAX_MONEY \in Nat
    /\ Shifted \in [0..63 -> Nat] /\ Shifted[0] = Reward
    /\ \A n \in 0..62 : Shifted[n + 1] = Shifted[n] \div 2
    /\ Premine + 2 * (Interval * Reward) <= MAX_MONEY

VARIABLES blockHeight, supply

supplyVars == <<blockHeight, supply>>

\* Mutant: one halving less.
SubsidyLate(h) ==
    IF h = 1 THEN Premine
    ELSE IF h \div (Interval + Interval) >= 64 THEN 0 ELSE Shifted[h \div (Interval + Interval)]

\* Block 1 is the premine; the shift is undefined from 64 halvings on.
GetBlockSubsidy(h) ==
    IF h = 1 THEN Premine
    ELSE IF h \div Interval >= 64 THEN 0 ELSE Shifted[h \div Interval]

\* The genesis block pays nothing.
EmissionInit == blockHeight = 0 /\ supply = 0

\* ConnectBlock lets a coinbase pay out the subsidy at most (and the fees,
\* which are no new coins).
ConnectBlock(claimed) ==
    /\ blockHeight < MaxBlocks
    /\ blockHeight' = blockHeight + 1
    /\ supply' = supply + claimed

EmissionNext == \E claimed \in 0..GetBlockSubsidy(blockHeight + 1) : ConnectBlock(claimed)
EmissionSpec == EmissionInit /\ [][EmissionNext]_supplyVars

-----------------------------------------------------------------------------
(***************************************************************************)
(* The supply never exceeds MAX_MONEY (consensus/amount.h), premine and    *)
(* every halving with its rounding included.                               *)
(***************************************************************************)
SupplyCapped == supply <= MAX_MONEY

EmissionTypeOK == blockHeight \in Nat /\ supply \in Nat

(***************************************************************************)
(* What remains to be paid keeps below the limit: the rest of the current  *)
(* era, and as much again for all the eras after it.                       *)
(***************************************************************************)
Era == blockHeight \div Interval
Position == blockHeight % Interval
EmissionInv ==
    /\ EmissionTypeOK
    /\ supply <= Premine + 2 * (Interval * Reward)
    /\ blockHeight = 0 => supply = 0
    /\ Era < 64 /\ blockHeight > 0 =>
          supply + (Interval - 1 - Position) * Shifted[Era] + Interval * Shifted[Era]
             <= Premine + 2 * (Interval * Reward)
=============================================================================
