------------------------------ MODULE Retarget ------------------------------
(***************************************************************************)
(* The difficulty of mainnet (pow.cpp): DarkGravityWave over the last      *)
(* blocks, and the emergency adjustment for a block that is hours late.    *)
(* Targets are integers of a machine word that wraps, and a block stores   *)
(* its target rounded down to the mantissa of nBits.  Times are relative   *)
(* to the block before, whose clock a block's may also be behind.          *)
(***************************************************************************)
EXTENDS Integers, Sequences

CONSTANTS PastBlocks, \* 24
          Spacing,    \* nPowTargetSpacing, 600 s
          Emergency,  \* 6 hours
          MaxPeriods, \* 10
          powLimit, Word, \* 2^240 - 1 and 2^256
          Radix,      \* 256, the steps of the exponent of nBits
          MaxExponent, \* 30: a number of 256 bits has a size of up to 33 bytes
          Shift,      \* external: Shift[k] is Radix^k, 1 << 8 * k
          Twice,      \* external: Twice[k] is 2^k, what k doublings make of 1
          Gaps        \* bound: how long after its predecessor a block may come

ASSUME RetargetAssumption ==
    /\ PastBlocks \in Nat \ {0, 1} /\ Spacing \in Nat \ {0} /\ Emergency \in Nat \ {0} /\ Gaps \subseteq Int
    /\ powLimit \in Nat \ {0} /\ Word \in Nat
    /\ (3 * (PastBlocks * Spacing)) * powLimit < Word /\ (PastBlocks + 1) * powLimit < Word
ASSUME TwiceAssumption ==
    /\ MaxPeriods \in Nat /\ Twice \in [0..MaxPeriods -> Nat] /\ Twice[0] = 1
    /\ \A k \in 0..MaxPeriods - 1 : Twice[k + 1] = 2 * Twice[k]
    /\ powLimit * Twice[MaxPeriods] < Word
ASSUME ShiftAssumption ==
    /\ Radix \in Nat \ {0} /\ Radix % 2 = 0 /\ MaxExponent \in Nat
    /\ Shift \in [0..MaxExponent -> Nat] /\ Shift[0] = 1
    /\ \A k \in 0..MaxExponent - 1 : Shift[k + 1] = Radix * Shift[k]
    /\ powLimit \div Shift[MaxExponent] < (Radix * Radix * Radix) \div 2

VARIABLES window \* the last blocks, newest first: gap to the one before, and target

windowVars == <<window>>

\* GetCompact and SetCompact: three digits, the first below half the radix.
Mantissa == (Radix * Radix * Radix) \div 2
Exponents == 0..MaxExponent
Exponent(t) == CHOOSE k \in Exponents : t \div Shift[k] < Mantissa /\ \A j \in 0..k - 1 : t \div Shift[j] >= Mantissa
Compact(t) == LET s == Shift[Exponent(t)] IN (t \div s) * s

\* PastDifficultyAverage after reading n blocks.
Average[n \in 1..PastBlocks] ==
    IF n <= 1 THEN window[1].target
    ELSE ((Average[n - 1] * n + window[n].target) % Word) \div (n + 1)

\* The gaps between the blocks read, one fewer than there are blocks.
Timespan[n \in 1..PastBlocks] == IF n <= 1 THEN 0 ELSE Timespan[n - 1] + window[n - 1].gap

TargetTimespan == PastBlocks * Spacing
Bounded(x) ==
    IF x < TargetTimespan \div 3 THEN TargetTimespan \div 3
    ELSE IF x > TargetTimespan * 3 THEN TargetTimespan * 3 ELSE x
Limited(t) == IF t > powLimit THEN powLimit ELSE t

Unlimited(avg, span) == ((avg * Bounded(span)) % Word) \div TargetTimespan

DarkGravityWave ==
    Compact(IF Len(window) < PastBlocks THEN powLimit
            ELSE Limited(Unlimited(Average[PastBlocks], Timespan[PastBlocks])))

\* Mutant: the periods are not limited to ten.
DoubledOn(t, periods) == (t * 2^periods) % Word

Doubled(t, periods) == (t * Twice[IF periods < MaxPeriods THEN periods ELSE MaxPeriods]) % Word

\* The emergency adjustment of what the last blocks ask for.
Adjusted(wave, gap) ==
    IF gap > Emergency THEN Compact(Limited(Doubled(wave, gap \div Emergency))) ELSE wave

GetNextWorkRequired(gap) == Adjusted(DarkGravityWave, gap)

RetargetInit == window = <<>>

\* A block is found; with a target of zero none is (DeriveTarget).
AddBlock(gap) ==
    /\ GetNextWorkRequired(gap) > 0
    /\ window' = SubSeq(<<[gap |-> gap, target |-> GetNextWorkRequired(gap)]>> \o window, 1,
                        IF Len(window) < PastBlocks THEN Len(window) + 1 ELSE PastBlocks)

RetargetNext == \E gap \in Gaps : AddBlock(gap)
RetargetSpec == RetargetInit /\ [][RetargetNext]_windowVars

-----------------------------------------------------------------------------
RetargetTypeOK ==
    /\ window \in Seq([gap : Gaps, target : 1..powLimit])
    /\ Len(window) <= PastBlocks

(***************************************************************************)
(* "If no block has been mined for > 6 hours, reduce difficulty" (pow.cpp: *)
(* 91-107): whatever the blocks before it, a later block never needs more  *)
(* work than an earlier one, rounding, limits and the word included.       *)
(***************************************************************************)
WaitingHelps ==
    LET wave == DarkGravityWave
        bits == [g \in Gaps |-> Adjusted(wave, g)]
    IN  \A g, h \in Gaps : g <= h => bits[g] <= bits[h]

(***************************************************************************)
(* No sum or product of the wave (pow.cpp:36, 60) exceeds the 256 bits of  *)
(* arith_uint256, whatever targets and times the last blocks have.         *)
(***************************************************************************)
NoWrap ==
    Len(window) = PastBlocks =>
        /\ \A n \in 2..PastBlocks : Average[n - 1] * n + window[n].target < Word
        /\ Average[PastBlocks] * Bounded(Timespan[PastBlocks]) < Word
=============================================================================
