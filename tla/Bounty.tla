------------------------------- MODULE Bounty -------------------------------
(***************************************************************************)
(* The bonus engine at the end of processPayouts (mining_pool/src/pool.js, *)
(* 1282-1354): lifetime totals and the one-off bonus for miners that       *)
(* reach a threshold.  A run begins with the payouts object of a payment   *)
(* that PoolPayout has recorded; every awaited call is a step.  The faucet *)
(* wallet is counted in bonuses.                                           *)
(***************************************************************************)
EXTENDS Integers, FiniteSets, Functions

CONSTANTS Runs, Wallets, NoWallet,
          Payouts,               \* what one run may have paid, by wallet
          SoloReward, Threshold, Cap,
          MaxSolo,               \* bound on solo blocks per wallet
          InitialFaucet

ASSUME BountyAssumption ==
    /\ IsFiniteSet(Runs) /\ IsFiniteSet(Wallets) /\ NoWallet \notin Wallets /\ Payouts \subseteq [Wallets -> Nat]
    /\ {SoloReward, Cap, MaxSolo, InitialFaucet} \subseteq Nat /\ Threshold \in Nat \ {0}

VARIABLES pc, pay, snap, todo, cur, \* per run: next call, payouts, solo blocks read,
                                    \* wallets left, wallet in hand
          solo,                     \* solo:blocks, by wallet
          lifetime, claimed, count, \* miner:lifetime:*, miner:bonus:*, miner:bounty_count
          faucet, bonuses,          \* faucet wallet; bonuses received on the chain
          paid,                     \* history: all pool payouts, by wallet
          slips                     \* history: what has gone wrong so far

vars == <<pc, pay, snap, todo, cur, solo, lifetime, claimed, count, faucet, bonuses, paid, slips>>
redisVars == <<lifetime, claimed, count>>
chainVars == <<solo, faucet, bonuses, paid>>
runVars == <<pay, snap, todo, cur>>

Labels == {"idle", "engine", "next", "claimed", "count", "send", "incr", "mark", "done"}
Nothing == [w \in Wallets |-> 0]

TypeOK ==
    /\ pc \in [Runs -> Labels] /\ pay \in [Runs -> [Wallets -> Nat]] /\ snap \in [Runs -> [Wallets -> Nat]]
    /\ todo \in [Runs -> SUBSET Wallets] /\ cur \in [Runs -> Wallets \cup {NoWallet}]
    /\ \A r \in Runs : pc[r] \in {"claimed", "count", "send", "incr", "mark"} => cur[r] \in Wallets
    /\ {solo, lifetime, bonuses, paid} \subseteq [Wallets -> Nat]
    /\ claimed \subseteq Wallets /\ count \in Nat /\ faucet \in Nat
    /\ slips \subseteq {"beside", "low", "thrown"}

Init ==
    /\ pc = [r \in Runs |-> "idle"] /\ pay = [r \in Runs |-> Nothing] /\ snap = [r \in Runs |-> Nothing]
    /\ todo = [r \in Runs |-> {}] /\ cur = [r \in Runs |-> NoWallet]
    /\ solo = Nothing /\ lifetime = Nothing /\ claimed = {} /\ count = 0
    /\ faucet = InitialFaucet /\ bonuses = Nothing /\ paid = Nothing /\ slips = {}

Slip(k, when) == slips' = IF when THEN slips \cup {k} ELSE slips
Step(r, from, to) == pc[r] = from /\ pc' = [pc EXCEPT ![r] = to]

\* A solo miner finds a block.
SoloBlock(w) ==
    /\ solo[w] < MaxSolo /\ solo' = [solo EXCEPT ![w] = @ + 1]
    /\ UNCHANGED <<pc, runVars, redisVars, faucet, bonuses, paid, slips>>

\* A payment was made and recorded; the fee wallet's part is left out.
Begin(r) ==
    /\ Step(r, "idle", "engine") /\ Slip("beside", \E q \in Runs : pc[q] \notin {"idle", "done"})
    /\ \E p \in Payouts : pay' = [pay EXCEPT ![r] = p] /\ paid' = [w \in Wallets |-> paid[w] + p[w]]
    /\ UNCHANGED <<snap, todo, cur, redisVars, solo, faucet, bonuses>>

\* The faucet's balance, then solo:blocks: the wallets with any reward.  A solo
\* block does not count when its name is not resolved now, or when it has
\* dropped out of the list of 100.
Engine(r) ==
    /\ Step(r, "engine", IF faucet >= 1 THEN "next" ELSE "done") /\ Slip("low", faucet < 1)
    /\ \E k \in [Wallets -> 0..MaxSolo] :
        /\ \A w \in Wallets : k[w] <= solo[w]
        /\ snap' = [snap EXCEPT ![r] = k]
        /\ todo' = [todo EXCEPT ![r] = {w \in Wallets : pay[r][w] > 0 \/ k[w] > 0}]
    /\ UNCHANGED <<pay, cur, redisVars, chainVars>>

\* Mutant: only the first wallet is credited.
FinishEarly(r) ==
    /\ todo[r] = {} \/ cur[r] # NoWallet
    /\ Step(r, "next", "done")
    /\ UNCHANGED <<runVars, redisVars, chainVars, slips>>

Finish(r) ==
    /\ todo[r] = {} /\ Step(r, "next", "done")
    /\ UNCHANGED <<runVars, redisVars, chainVars, slips>>

\* Mutant: this hour's payout counts twice towards the threshold.
CreditTwice(r, w) ==
    LET l == lifetime[w] + pay[r][w]
    IN  /\ w \in todo[r]
        /\ Step(r, "next", IF l + pay[r][w] + snap[r][w] * SoloReward >= Threshold THEN "claimed" ELSE "next")
        /\ lifetime' = [lifetime EXCEPT ![w] = l]
        /\ todo' = [todo EXCEPT ![r] = @ \ {w}] /\ cur' = [cur EXCEPT ![r] = w]
        /\ UNCHANGED <<pay, snap, claimed, count, chainVars, slips>>

\* Mutant: the loop does not advance the wallet it works on.
CreditStuck(r, w) ==
    LET l == lifetime[w] + pay[r][w]
    IN  /\ w \in todo[r]
        /\ Step(r, "next", IF l + snap[r][w] * SoloReward >= Threshold THEN "claimed" ELSE "next")
        /\ lifetime' = [lifetime EXCEPT ![w] = l]
        /\ todo' = [todo EXCEPT ![r] = @ \ {w}]
        /\ UNCHANGED <<pay, snap, cur, claimed, count, chainVars, slips>>

\* incrByFloat (or get, without a payout) of the lifetime total, and the
\* threshold on lifetime plus all-time solo rewards.
Credit(r, w) ==
    LET l == lifetime[w] + pay[r][w]
    IN  /\ w \in todo[r]
        /\ Step(r, "next", IF l + snap[r][w] * SoloReward >= Threshold THEN "claimed" ELSE "next")
        /\ lifetime' = [lifetime EXCEPT ![w] = l]
        /\ todo' = [todo EXCEPT ![r] = @ \ {w}] /\ cur' = [cur EXCEPT ![r] = w]
        /\ UNCHANGED <<pay, snap, claimed, count, chainVars, slips>>

ReadClaimed(r) ==
    /\ Step(r, "claimed", IF cur[r] \in claimed THEN "next" ELSE "count")
    /\ UNCHANGED <<runVars, redisVars, chainVars, slips>>

ReadCount(r) ==
    /\ Step(r, "count", IF count < Cap THEN "send" ELSE "next")
    /\ UNCHANGED <<runVars, redisVars, chainVars, slips>>

\* Mutant: an error of sendtoaddress is ignored.
SendBonusUnchecked(r) ==
    /\ Step(r, "send", "incr") /\ slips' = slips
    /\ \/ /\ faucet >= 1 /\ faucet' = faucet - 1 /\ bonuses' = [bonuses EXCEPT ![cur[r]] = @ + 1]
       \/ UNCHANGED <<faucet, bonuses>>
    /\ UNCHANGED <<runVars, redisVars, solo, paid>>

\* sendtoaddress: made and answered, made with the answer lost, or refused.
SendBonus(r) ==
    /\ \/ /\ Step(r, "send", "incr") \/ Step(r, "send", "done")
          /\ faucet >= 1 /\ faucet' = faucet - 1 /\ bonuses' = [bonuses EXCEPT ![cur[r]] = @ + 1]
       \/ Step(r, "send", "done") /\ UNCHANGED <<faucet, bonuses>>
    /\ Slip("thrown", pc'[r] = "done")
    /\ UNCHANGED <<runVars, redisVars, solo, paid>>

Incr(r) ==
    /\ Step(r, "incr", "mark") /\ count' = count + 1
    /\ UNCHANGED <<runVars, lifetime, claimed, chainVars, slips>>

\* Mutant: the mark is not permanent.
MarkForgotten(r) ==
    /\ Step(r, "mark", "next")
    /\ UNCHANGED <<runVars, redisVars, chainVars, slips>>

Mark(r) ==
    /\ Step(r, "mark", "next") /\ claimed' = claimed \cup {cur[r]}
    /\ UNCHANGED <<runVars, lifetime, count, chainVars, slips>>

\* A call throws (the engine's catch) or the process is restarted.
Throws(r) ==
    /\ \E l \in Labels \ {"idle", "send", "done"} : Step(r, l, "done")
    /\ Slip("thrown", TRUE)
    /\ UNCHANGED <<runVars, redisVars, chainVars>>

Run(r) ==
    \/ Begin(r) \/ Engine(r) \/ Finish(r) \/ (\E w \in Wallets : Credit(r, w)) \/ ReadClaimed(r)
    \/ ReadCount(r) \/ SendBonus(r) \/ Incr(r) \/ Mark(r) \/ Throws(r)
Next == (\E w \in Wallets : SoloBlock(w)) \/ (\E r \in Runs : Run(r))
Spec == Init /\ [][Next]_vars

-----------------------------------------------------------------------------
Total(f) == SumFunctionOnSet(f, Wallets)

(***************************************************************************)
(* A wallet is marked as having its bonus, and the counter moves, only for *)
(* bonuses that were sent (1340-1345), whatever fails in between.          *)
(***************************************************************************)
MarkedIsSent == (\A w \in claimed : bonuses[w] >= 1) /\ count <= Total(bonuses)

(***************************************************************************)
(* Only a wallet that has mined the threshold gets the bonus (1329-1333).  *)
(***************************************************************************)
Eligible == \A w \in Wallets : bonuses[w] > 0 => lifetime[w] + solo[w] * SoloReward >= Threshold

(***************************************************************************)
(* "`miner:lifetime:wallet` stores the all-time pool rewards" (1317): the  *)
(* total never exceeds what the pool has paid the wallet, whatever solo    *)
(* rewards are re-read and whatever runs fail or overlap, and with no run  *)
(* under way it equals what was paid, also when runs have overlapped,      *)
(* until the first call that throws or hour in which the faucet is low.    *)
(***************************************************************************)
LifetimeIsAllTime ==
    /\ \A w \in Wallets : lifetime[w] <= paid[w]
    /\ slips \subseteq {"beside"} /\ (\A r \in Runs : pc[r] \in {"idle", "done"}) => lifetime = paid

(***************************************************************************)
(* One bonus for each miner, and no more than the cap (1334-1345), until   *)
(* the first call that throws or run that begins beside another one.       *)
(***************************************************************************)
BonusesLimited ==
    slips \subseteq {"low"} => (\A w \in Wallets : bonuses[w] <= 1) /\ Total(bonuses) <= Cap

(***************************************************************************)
(* Why MarkedIsSent and Eligible hold: a run that has yet to count a bonus *)
(* or to mark its wallet has sent it, and one on its way to the send works *)
(* on a wallet that has mined the threshold, whatever the other runs and   *)
(* the solo miners have done since it looked.                              *)
(***************************************************************************)
Mined(w) == lifetime[w] + solo[w] * SoloReward >= Threshold
Uncounted == {r \in Runs : pc[r] = "incr"}
Sound(r) ==
    /\ \A w \in Wallets : snap[r][w] <= solo[w]
    /\ pc[r] \in {"claimed", "count", "send"} => Mined(cur[r])
    /\ pc[r] \in {"incr", "mark"} => bonuses[cur[r]] >= 1
BonusInv ==
    /\ TypeOK /\ \A r \in Runs : Sound(r)
    /\ \A w \in Wallets : bonuses[w] >= 1 => Mined(w)
    /\ \A w \in claimed : bonuses[w] >= 1
    /\ count + Cardinality(Uncounted) <= Total(bonuses)

(***************************************************************************)
(* Why LifetimeIsAllTime holds: what was paid is in the lifetime total or  *)
(* still due to be added by a run under way.                               *)
(***************************************************************************)
Due(r, w) == IF pc[r] = "engine" \/ (pc[r] \notin {"idle", "done"} /\ w \in todo[r]) THEN pay[r][w] ELSE 0
Pending(w) == SumFunctionOnSet([r \in Runs |-> Due(r, w)], Runs)
LifetimeInv ==
    \A w \in Wallets : /\ lifetime[w] + Pending(w) <= paid[w]
                       /\ slips \subseteq {"beside"} => lifetime[w] + Pending(w) = paid[w]

(***************************************************************************)
(* Why BonusesLimited holds of runs that follow one another: every bonus   *)
(* is counted and every wallet that got one is marked, but for the one the *)
(* run has in hand, and the claim and the count that a run has read hold   *)
(* when it sends.                                                          *)
(***************************************************************************)
LimitedInv ==
    slips \subseteq {"low"} =>
        /\ \A r, q \in Runs : pc[r] \notin {"idle", "done"} /\ pc[q] \notin {"idle", "done"} => r = q
        /\ \A r \in Runs : pc[r] \in {"count", "send"} => cur[r] \notin claimed
        /\ \A r \in Runs : pc[r] = "send" => count < Cap
        /\ \A w \in Wallets :
            \/ bonuses[w] = 0
            \/ bonuses[w] = 1 /\ (w \in claimed \/ \E r \in Runs : pc[r] \in {"incr", "mark"} /\ cur[r] = w)
        /\ Total(bonuses) = count + Cardinality(Uncounted) /\ Total(bonuses) <= Cap
=============================================================================
