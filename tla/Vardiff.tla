------------------------------- MODULE Vardiff ------------------------------
(***************************************************************************)
(* The difficulty of one stratum connection (startVardiff, sendDifficulty, *)
(* parseDiffOverride, the same code in both servers of pool.js): its       *)
(* retarget intervals, the share timestamps they read and clear, and the   *)
(* difficulty a miner asks for in its password.  The miner does Power units*)
(* of work per tick; a share of difficulty d takes d units.                *)
(***************************************************************************)
EXTENDS Integers, Sequences, FiniteSets

CONSTANTS StartDiff, MinDiff, MaxDiff,
          Expected,  \* shares per interval at the target rate: 60 s / 10 s
          Period,    \* ticks per retarget interval
          Cap,       \* timestamps kept, 500
          Requested, \* difficulties asked for in passwords
          Powers,    \* work per tick of a miner
          Intervals  \* bound on mining.authorize messages: what each may start

ASSUME VardiffAssumption ==
    /\ MinDiff \in Nat \ {0} /\ StartDiff \in MinDiff..MaxDiff /\ MaxDiff \in Nat
    /\ Expected \in Nat \ {0} /\ Period \in Nat \ {0} /\ Cap \in Nat \ {0}
    /\ Requested \subseteq Nat /\ Powers \subseteq Nat /\ IsFiniteSet(Intervals)

VARIABLES alive,           \* the connection is open
          socketDiff, diffOverridden,
          shareTimestamps, \* ages in ticks, oldest first
          intervals,       \* the intervals that are running
          vardiffTimer,    \* the handle kept: one of them, or none
          due,             \* per interval: ticks until it fires
          auths,           \* the mining.authorize messages handled
          wanted,          \* history: the last difficulty asked for, 0 if none
          power, work      \* the miner: its speed, and work done for the next share

diffVars == <<alive, socketDiff, diffOverridden, shareTimestamps, intervals, vardiffTimer, due, auths, wanted, power, work>>

DiffTypeOK ==
    /\ alive \in BOOLEAN /\ diffOverridden \in BOOLEAN
    /\ socketDiff \in MinDiff..MaxDiff
    /\ shareTimestamps \in Seq(Nat) /\ Len(shareTimestamps) <= Cap
    /\ intervals \subseteq auths /\ auths \subseteq Intervals
    /\ vardiffTimer \subseteq auths /\ Cardinality(vardiffTimer) <= 1
    /\ due \in [Intervals -> 0..Period]
    /\ wanted \in {0} \cup MinDiff..MaxDiff
    /\ power \in Powers /\ work \in Nat

DiffInit ==
    /\ alive = TRUE /\ diffOverridden = FALSE
    /\ socketDiff = StartDiff
    /\ shareTimestamps = <<>>
    /\ intervals = {} /\ vardiffTimer = {} /\ auths = {}
    /\ due = [i \in Intervals |-> 0]
    /\ wanted = 0
    /\ power \in Powers /\ work = 0

Clamp(d) == IF d < MinDiff THEN MinDiff ELSE IF d > MaxDiff THEN MaxDiff ELSE d
Rounded(a, b) == (2 * a + b) \div (2 * b)

\* Mutant: an interval is started in any case.
AuthorizeDiffAlways(i, ask) ==
    /\ alive /\ i \notin auths
    /\ auths' = auths \cup {i}
    /\ diffOverridden' = (diffOverridden \/ ask # {})
    /\ \/ ask = {} /\ UNCHANGED <<socketDiff, wanted>>
       \/ \E d \in ask : socketDiff' = Clamp(d) /\ wanted' = Clamp(d)
    /\ intervals' = intervals \cup {i} /\ vardiffTimer' = {i} /\ due' = [due EXCEPT ![i] = Period]
    /\ UNCHANGED <<alive, shareTimestamps, power, work>>

\* mining.authorize with the difficulty asked for, {} if none: it is sent at
\* once, and an interval is started unless one was ever asked for.
AuthorizeDiff(i, ask) ==
    /\ alive /\ i \notin auths
    /\ auths' = auths \cup {i}
    /\ diffOverridden' = (diffOverridden \/ ask # {})
    /\ \/ ask = {} /\ UNCHANGED <<socketDiff, wanted>>
       \/ \E d \in ask : socketDiff' = Clamp(d) /\ wanted' = Clamp(d)
    /\ IF diffOverridden' THEN UNCHANGED <<intervals, vardiffTimer, due>>
       ELSE /\ intervals' = intervals \cup {i}
            /\ vardiffTimer' = {i}
            /\ due' = [due EXCEPT ![i] = Period]
    /\ UNCHANGED <<alive, shareTimestamps, power, work>>

\* A tick: the miner works and submits what it finds, the cap drops the oldest.
DiffTick ==
    /\ \A i \in intervals : due[i] > 0
    /\ due' = [i \in Intervals |-> IF i \in intervals THEN due[i] - 1 ELSE due[i]]
    /\ LET found == IF alive THEN (work + power) \div socketDiff ELSE 0
           aged == [k \in 1..Len(shareTimestamps) |-> IF shareTimestamps[k] > Period THEN Period + 1 ELSE shareTimestamps[k] + 1]
           all == aged \o [k \in 1..found |-> 0]
       IN  /\ shareTimestamps' = SubSeq(all, IF Len(all) > Cap THEN Len(all) - Cap + 1 ELSE 1, Len(all))
           /\ work' = IF alive THEN (work + power) % socketDiff ELSE work
    /\ UNCHANGED <<alive, socketDiff, diffOverridden, intervals, vardiffTimer, auths, wanted, power>>

Recent == Cardinality({k \in 1..Len(shareTimestamps) : shareTimestamps[k] <= Period})

\* Mutant: no limits.
RetargetedRaw(r) == IF r = 0 THEN Rounded(socketDiff, 2) ELSE Rounded(socketDiff * r, Expected)

\* socketDiff * targetTime / actualTime, where no recent share counts as twice
\* the target time.
Retargeted(r) == Clamp(IF r = 0 THEN Rounded(socketDiff, 2) ELSE Rounded(socketDiff * r, Expected))

\* Mutant: every deviation counts.
OffTargetAny(r) == r # Expected

\* Expected / r outside of 1 - 0.25 .. 1 + 0.25.
OffTarget(r) == r = 0 \/ 4 * Expected < 3 * r \/ 4 * Expected > 5 * r

\* The callback of an interval; it does not ask whose interval it is.
Fire(i) ==
    /\ i \in intervals /\ due[i] = 0
    /\ due' = [due EXCEPT ![i] = Period]
    /\ \/ Len(shareTimestamps) < 2 /\ UNCHANGED <<socketDiff, shareTimestamps>>
       \/ /\ Len(shareTimestamps) >= 2
          /\ socketDiff' = IF OffTarget(Recent) THEN Retargeted(Recent) ELSE socketDiff
          /\ shareTimestamps' = <<>>
    /\ UNCHANGED <<alive, diffOverridden, intervals, vardiffTimer, auths, wanted, power, work>>

\* The close event clears the interval whose handle is kept.
CloseDiff ==
    /\ alive /\ alive' = FALSE
    /\ intervals' = intervals \ vardiffTimer
    /\ UNCHANGED <<socketDiff, diffOverridden, shareTimestamps, vardiffTimer, due, auths, wanted, power, work>>

DiffNext ==
    \/ \E i \in Intervals, ask \in {{}} \cup {{d} : d \in Requested} : AuthorizeDiff(i, ask)
    \/ DiffTick \/ CloseDiff
    \/ \E i \in Intervals : Fire(i)
DiffSpec == DiffInit /\ [][DiffNext]_diffVars

-----------------------------------------------------------------------------
Once == Cardinality(auths) <= 1

(***************************************************************************)
(* "Password override = no auto-adjust" (pool.js:347): on a connection     *)
(* that authorises once, the difficulty asked for stays in force, and an   *)
(* interval runs only while the connection is open and has asked for none  *)
(* (465).  After a second authorisation neither need hold: an interval of  *)
(* the first goes on (348-366), and when its handle was overwritten, even  *)
(* beyond the close event.                                                 *)
(***************************************************************************)
OverrideHolds ==
    Once => (wanted # 0 => socketDiff = wanted) /\ (wanted # 0 \/ ~alive => intervals = {})

(***************************************************************************)
(* The control loop settles (349-366): for a miner of constant speed that  *)
(* authorises once, the difficulty changes finitely often, rounding, the   *)
(* limits and the timestamps left over from a quiet interval included.     *)
(***************************************************************************)
Settles == <>~Once \/ \E d \in MinDiff..MaxDiff : <>[](socketDiff = d)

(***************************************************************************)
(* Why OverrideHolds holds: the one authorisation either asks for a        *)
(* difficulty and starts no interval, or starts the one whose handle is    *)
(* kept for the close event.                                               *)
(***************************************************************************)
OverrideInv ==
    /\ DiffTypeOK /\ OverrideHolds
    /\ auths = {} => wanted = 0 /\ ~diffOverridden
    /\ Once => intervals \subseteq vardiffTimer
=============================================================================
