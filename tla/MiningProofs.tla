---------------------------- MODULE MiningProofs ----------------------------
(***************************************************************************)
(* What mining asks for and gives, for every value of the parameters: the  *)
(* difficulty of a connection to the pool (Vardiff), the coins ever issued *)
(* (Emission), and the difficulty of the network (Retarget).               *)
(***************************************************************************)
EXTENDS Vardiff, Emission, Retarget, NumberProofs, SequenceTheorems

\* A clamped difficulty is one between the limits.
LEMMA ClampIn == ASSUME NEW d \in Int PROVE Clamp(d) \in MinDiff..MaxDiff
BY VardiffAssumption DEF Clamp

\* Rounding a quotient gives an integer.
LEMMA RoundedInt == ASSUME NEW a \in Int, NEW b \in Nat \ {0} PROVE Rounded(a, b) \in Int
BY DEF Rounded

\* One timer is at most one.
LEMMA SingletonOnce == ASSUME NEW i PROVE Cardinality({i}) <= 1
<1>1. Cardinality({i}) = 1
  BY FS_Singleton
<1> QED
  BY <1>1

\* The recent shares of a connection are finitely many.
LEMMA RecentNat == ASSUME Len(shareTimestamps) \in Nat PROVE Recent \in Nat
<1>1. IsFiniteSet(1..Len(shareTimestamps))
  BY FS_Interval
<1>2. {k \in 1..Len(shareTimestamps) : shareTimestamps[k] <= Period} \in SUBSET (1..Len(shareTimestamps))
  OBVIOUS
<1>3. IsFiniteSet({k \in 1..Len(shareTimestamps) : shareTimestamps[k] <= Period})
  BY <1>1, <1>2, FS_Subset
<1> QED
  BY <1>3, FS_CardinalityType DEF Recent

\* A tick keeps the types of what it counts and ages.
LEMMA TickType ==
    ASSUME DiffTypeOK, DiffTick
    PROVE  /\ shareTimestamps' \in Seq(Nat) /\ Len(shareTimestamps') <= Cap
           /\ due' \in [Intervals -> 0..Period] /\ work' \in Nat
<1>a. MinDiff \in Nat \ {0} /\ MaxDiff \in Nat /\ Period \in Nat \ {0} /\ Cap \in Nat \ {0} /\ Powers \subseteq Nat
  BY VardiffAssumption
<1>b. work \in Nat /\ power \in Nat /\ socketDiff \in Nat \ {0} /\ shareTimestamps \in Seq(Nat)
  BY <1>a DEF DiffTypeOK
<1> DEFINE found == IF alive THEN (work + power) \div socketDiff ELSE 0
           aged == [k \in 1..Len(shareTimestamps) |-> IF shareTimestamps[k] > Period THEN Period + 1 ELSE shareTimestamps[k] + 1]
           new == [k \in 1..found |-> 0]
           all == aged \o new
           from == IF Len(all) > Cap THEN Len(all) - Cap + 1 ELSE 1
<1>1. (work + power) \div socketDiff \in Nat /\ (work + power) % socketDiff \in Nat
  <2>1. work + power \in Nat
    BY <1>b
  <2> QED
    BY <1>b, <2>1
<1>2. work' \in Nat
  BY <1>1, <1>b DEF DiffTick
<1>3. found \in Nat
  BY <1>1
<1>4. aged \in Seq(Nat)
  <2>1. Len(shareTimestamps) \in Nat /\ \A k \in 1..Len(shareTimestamps) : shareTimestamps[k] \in Nat
    BY <1>b
  <2>2. \A k \in 1..Len(shareTimestamps) : aged[k] \in Nat
    BY <1>a, <2>1
  <2> QED
    BY <2>1, <2>2
<1>5. new \in Seq(Nat)
  <2> HIDE DEF found
  <2> QED
    BY <1>3
<1> HIDE DEF aged, new
<1>6. all \in Seq(Nat) /\ Len(all) \in Nat
  BY <1>4, <1>5, ConcatProperties
<1>7. shareTimestamps' = SubSeq(all, from, Len(all))
  BY DEF DiffTick, aged, new
<1> HIDE DEF all
<1>8. from \in Nat \ {0} /\ Len(all) - from + 1 <= Cap
  BY <1>a, <1>6
<1> HIDE DEF from
<1>9. \A i \in from..Len(all) : all[i] \in Nat
  BY <1>6, <1>8, ElementOfSeq
<1>10. /\ SubSeq(all, from, Len(all)) \in Seq(Nat)
       /\ Len(SubSeq(all, from, Len(all))) = IF from <= Len(all) THEN Len(all) - from + 1 ELSE 0
  BY <1>6, <1>8, <1>9, SubSeqProperties
<1>11. shareTimestamps' \in Seq(Nat) /\ Len(shareTimestamps') <= Cap
  BY <1>a, <1>6, <1>7, <1>8, <1>10
<1>12. due' \in [Intervals -> 0..Period]
  <2>1. due \in [Intervals -> 0..Period] /\ \A i \in intervals : due[i] > 0
    BY DEF DiffTypeOK, DiffTick
  <2>2. due' = [i \in Intervals |-> IF i \in intervals THEN due[i] - 1 ELSE due[i]]
    BY DEF DiffTick
  <2> QED
    BY <1>a, <2>1, <2>2
<1> QED
  BY <1>2, <1>11, <1>12

\* Every step of the connection, its timers and its miner keeps the types.
LEMMA DiffType == DiffTypeOK /\ [DiffNext]_diffVars => DiffTypeOK'
<1> SUFFICES ASSUME DiffTypeOK, [DiffNext]_diffVars PROVE DiffTypeOK'
  OBVIOUS
<1>a. /\ MinDiff \in Nat \ {0} /\ MaxDiff \in Nat /\ Period \in Nat \ {0} /\ Cap \in Nat \ {0}
      /\ Requested \subseteq Nat /\ Expected \in Nat \ {0}
  BY VardiffAssumption
<1>1. ASSUME NEW i \in Intervals, NEW ask \in {{}} \cup {{d} : d \in Requested}, AuthorizeDiff(i, ask) PROVE DiffTypeOK'
  <2>1. \A d \in ask : Clamp(d) \in MinDiff..MaxDiff
    BY <1>a, ClampIn
  <2>2. socketDiff' \in MinDiff..MaxDiff /\ wanted' \in {0} \cup MinDiff..MaxDiff
    BY <1>1, <2>1 DEF AuthorizeDiff, DiffTypeOK
  <2>3. diffOverridden' \in BOOLEAN
    BY <1>1 DEF AuthorizeDiff
  <2>4. due' \in [Intervals -> 0..Period]
    <3>1. due \in [Intervals -> 0..Period] /\ (due' = due \/ due' = [due EXCEPT ![i] = Period])
      BY <1>1 DEF AuthorizeDiff, DiffTypeOK
    <3> QED
      BY <1>a, <3>1
  <2>5. Cardinality({i}) <= 1
    BY SingletonOnce, Zenon
  <2>6. vardiffTimer' \subseteq auths' /\ Cardinality(vardiffTimer') <= 1
    BY <1>1, <2>5, Zenon DEF AuthorizeDiff, DiffTypeOK
  <2>7. intervals' \subseteq auths' /\ auths' \subseteq Intervals
    BY <1>1 DEF AuthorizeDiff, DiffTypeOK
  <2>8. UNCHANGED <<alive, shareTimestamps, power, work>>
    BY <1>1 DEF AuthorizeDiff
  <2> QED
    BY <2>2, <2>3, <2>4, <2>6, <2>7, <2>8 DEF DiffTypeOK
<1>2. CASE DiffTick
  <2>1. UNCHANGED <<alive, socketDiff, diffOverridden, intervals, vardiffTimer, auths, wanted, power>>
    BY <1>2 DEF DiffTick
  <2> QED
    BY <1>2, <2>1, TickType DEF DiffTypeOK
<1>3. CASE CloseDiff
  BY <1>3, Zenon DEF CloseDiff, DiffTypeOK
<1>4. ASSUME NEW i \in Intervals, Fire(i) PROVE DiffTypeOK'
  <2>1. Recent \in Nat /\ socketDiff \in Nat
    BY <1>a, RecentNat DEF DiffTypeOK
  <2>2. Rounded(socketDiff, 2) \in Int /\ Rounded(socketDiff * Recent, Expected) \in Int
    BY <1>a, <2>1, RoundedInt
  <2>3. Retargeted(Recent) \in MinDiff..MaxDiff
    BY <2>2, ClampIn DEF Retargeted
  <2>4. socketDiff' \in MinDiff..MaxDiff
    BY <1>4, <2>3 DEF Fire, DiffTypeOK
  <2>5. shareTimestamps' \in Seq(Nat) /\ Len(shareTimestamps') <= Cap
    <3>1. shareTimestamps' = shareTimestamps \/ shareTimestamps' = <<>>
      BY <1>4 DEF Fire
    <3>2. shareTimestamps \in Seq(Nat) /\ Len(shareTimestamps) <= Cap
      BY DEF DiffTypeOK
    <3>3. CASE shareTimestamps' = <<>>
      <4>1. Len(<<>>) = 0 /\ <<>> \in Seq(Nat)
        OBVIOUS
      <4> QED
        BY <1>a, <3>3, <4>1
    <3> QED
      BY <3>1, <3>2, <3>3
  <2>6. due' \in [Intervals -> 0..Period]
    <3>1. due \in [Intervals -> 0..Period] /\ due' = [due EXCEPT ![i] = Period]
      BY <1>4 DEF Fire, DiffTypeOK
    <3> QED
      BY <1>a, <3>1
  <2>7. UNCHANGED <<alive, diffOverridden, intervals, vardiffTimer, auths, wanted, power, work>>
    BY <1>4 DEF Fire
  <2> QED
    BY <2>4, <2>5, <2>6, <2>7 DEF DiffTypeOK
<1>5. CASE UNCHANGED diffVars
  BY <1>5 DEF diffVars, DiffTypeOK
<1> QED
  BY <1>1, <1>2, <1>3, <1>4, <1>5 DEF DiffNext

\* Every step keeps what an only authorization established: see OverrideInv.
LEMMA OverrideStep == OverrideInv /\ [DiffNext]_diffVars => OverrideInv'
<1> SUFFICES ASSUME OverrideInv, [DiffNext]_diffVars PROVE OverrideInv'
  OBVIOUS
<1>t. DiffTypeOK /\ DiffTypeOK'
  BY DiffType DEF OverrideInv
<1>i. /\ Once => /\ wanted # 0 => socketDiff = wanted /\ intervals = {}
                 /\ ~alive => intervals = {}
                 /\ intervals \subseteq vardiffTimer
      /\ auths = {} => wanted = 0 /\ ~diffOverridden
  BY DEF OverrideInv, OverrideHolds
<1>1. ASSUME NEW i \in Intervals, NEW ask \in {{}} \cup {{d} : d \in Requested}, AuthorizeDiff(i, ask) PROVE OverrideInv'
  <2>1. i \notin auths /\ auths' = auths \cup {i} /\ alive /\ alive' = alive
    BY <1>1 DEF AuthorizeDiff
  <2>2. ASSUME Once' PROVE auths = {}
    <3>1. IsFiniteSet(Intervals) /\ auths \in SUBSET Intervals
      BY <1>t, VardiffAssumption DEF DiffTypeOK
    <3>2. IsFiniteSet(auths)
      BY <3>1, FS_Subset
    <3>3. Cardinality(auths') = Cardinality(auths) + 1 /\ Cardinality(auths) \in Nat
      BY <2>1, <3>2, FS_AddElement, FS_CardinalityType, Zenon
    <3>4. Cardinality(auths) = 0
      BY <2>2, <3>3 DEF Once
    <3> QED
      BY <3>2, <3>4, FS_EmptySet
  <2>3. ASSUME Once' PROVE /\ wanted' # 0 => socketDiff' = wanted' /\ intervals' = {}
                           /\ intervals' \subseteq vardiffTimer'
    <3>1. auths = {} /\ wanted = 0 /\ ~diffOverridden /\ intervals = {}
      BY <1>i, <1>t, <2>2, <2>3 DEF DiffTypeOK
    <3>2. CASE ask = {}
      <4>1. wanted' = wanted /\ intervals' = intervals \cup {i} /\ vardiffTimer' = {i}
        BY <1>1, <3>1, <3>2, Zenon DEF AuthorizeDiff
      <4> QED
        BY <3>1, <4>1
    <3>3. CASE ask # {}
      <4>1. intervals' = intervals /\ vardiffTimer' = vardiffTimer /\ socketDiff' = wanted'
        BY <1>1, <3>3, Zenon DEF AuthorizeDiff
      <4> QED
        BY <3>1, <4>1
    <3> QED
      BY <3>2, <3>3
  <2> QED
    BY <1>t, <2>1, <2>3 DEF OverrideInv, OverrideHolds
<1>2. CASE DiffTick \/ UNCHANGED diffVars
  <2>1. UNCHANGED <<alive, socketDiff, diffOverridden, intervals, vardiffTimer, auths, wanted>>
    BY <1>2 DEF DiffTick, diffVars
  <2> QED
    BY <1>i, <1>t, <2>1 DEF OverrideInv, OverrideHolds, Once
<1>3. CASE CloseDiff
  <2>1. UNCHANGED <<socketDiff, diffOverridden, vardiffTimer, auths, wanted>> /\ intervals' = intervals \ vardiffTimer
    BY <1>3 DEF CloseDiff
  <2> QED
    BY <1>i, <1>t, <2>1 DEF OverrideInv, OverrideHolds, Once
<1>4. ASSUME NEW i \in Intervals, Fire(i) PROVE OverrideInv'
  <2>1. i \in intervals /\ UNCHANGED <<alive, diffOverridden, intervals, vardiffTimer, auths, wanted>>
    BY <1>4 DEF Fire
  <2> QED
    BY <1>i, <1>t, <2>1 DEF OverrideInv, OverrideHolds, Once
<1> QED
  BY <1>1, <1>2, <1>3, <1>4 DEF DiffNext

(* On a connection that authorises once, a difficulty asked for in the     *)
(* password stays in force, and no interval outlives the connection        *)
(* (pool.js:347, 465), whatever the limits, the speed of the miner and the *)
(* order of its shares, intervals and the close event.                     *)
THEOREM OverrideHoldsThm == DiffSpec => [](DiffTypeOK /\ OverrideHolds)
<1>1. DiffInit => OverrideInv
  <2> SUFFICES ASSUME DiffInit PROVE OverrideInv
    OBVIOUS
  <2>1. Cardinality({}) = 0
    BY FS_EmptySet
  <2>2. DiffTypeOK
    <3>1. MinDiff \in Nat /\ StartDiff \in MinDiff..MaxDiff /\ Period \in Nat /\ Cap \in Nat
      BY VardiffAssumption
    <3>2. shareTimestamps \in Seq(Nat) /\ Len(shareTimestamps) = 0 /\ due \in [Intervals -> 0..Period]
      BY <3>1 DEF DiffInit
    <3>3. intervals \subseteq auths /\ auths \subseteq Intervals /\ vardiffTimer \subseteq auths /\ Cardinality(vardiffTimer) = 0
      BY <2>1 DEF DiffInit
    <3>4. /\ alive \in BOOLEAN /\ diffOverridden \in BOOLEAN /\ socketDiff = StartDiff /\ wanted = 0
          /\ power \in Powers /\ work = 0
      BY Zenon DEF DiffInit
    <3> QED
      BY <3>1, <3>2, <3>3, <3>4 DEF DiffTypeOK
  <2> QED
    BY <2>2 DEF DiffInit, OverrideInv, OverrideHolds
<1>2. OverrideInv => DiffTypeOK /\ OverrideHolds
  BY DEF OverrideInv
<1> QED
  BY <1>1, <1>2, OverrideStep, PTL DEF DiffSpec

-----------------------------------------------------------------------------

\* What one more block makes of the era of a height and of its position in it.
LEMMA NextHeight ==
    ASSUME NEW h \in Nat, NEW i \in Nat \ {0}
    PROVE  /\ h % i < i - 1 => (h + 1) \div i = h \div i /\ (h + 1) % i = (h % i) + 1
           /\ h % i = i - 1 => (h + 1) \div i = (h \div i) + 1 /\ (h + 1) % i = 0
<1> DEFINE e == h \div i  p == h % i  f == (h + 1) \div i  q == (h + 1) % i
<1>1. e \in Nat /\ p \in Nat /\ p < i /\ h = i * e + p
  BY Divide
<1>2. f \in Nat /\ q \in Nat /\ q < i /\ h + 1 = i * f + q
  BY Divide
<1> HIDE DEF e, p, f, q
<1>3. ASSUME p < i - 1 PROVE f = e /\ q = p + 1
  <2>1. i * e + (p + 1) = i * f + q
    BY <1>1, <1>2
  <2> QED
    BY <1>1, <1>2, <1>3, <2>1, Unique
<1>4. ASSUME p = i - 1 PROVE f = e + 1 /\ q = 0
  <2>1. i * (e + 1) + 0 = i * f + q
    BY <1>1, <1>2, <1>4
  <2> QED
    BY <1>1, <1>2, <2>1, Unique
<1> QED
  BY <1>3, <1>4 DEF e, p, f, q

\* The subsidy by the era of its height.
LEMMA SubsidyType ==
    ASSUME NEW h \in Nat \ {0}
    PROVE  /\ GetBlockSubsidy(h) \in Nat
           /\ h = 1 => GetBlockSubsidy(h) = Premine
           /\ h # 1 /\ h \div Interval < 64 => GetBlockSubsidy(h) = Shifted[h \div Interval]
           /\ h # 1 /\ h \div Interval >= 64 => GetBlockSubsidy(h) = 0
<1>1. h \div Interval \in Nat
  BY Divide, EmissionAssumption, Zenon
<1>2. Premine \in Nat /\ \A n \in 0..63 : Shifted[n] \in Nat
  BY EmissionAssumption
<1> QED
  BY <1>1, <1>2 DEF GetBlockSubsidy

\* A block keeps the supply below what the eras so far may have issued.
LEMMA EmissionStep == EmissionInv /\ [EmissionNext]_supplyVars => EmissionInv'
<1> DEFINE B == Premine + 2 * (Interval * Reward)
           h == blockHeight
           e == h \div Interval
           p == h % Interval
<1>0. Interval \in Nat \ {0, 1} /\ Reward \in Nat /\ Premine \in Nat /\ B \in Nat
  BY EmissionAssumption
<1>s. /\ Shifted[0] = Reward /\ \A n \in 0..63 : Shifted[n] \in Nat
      /\ \A n \in 0..62 : 2 * Shifted[n + 1] <= Shifted[n]
  <2>1. \A n \in 0..63 : Shifted[n] \in Nat
    BY EmissionAssumption
  <2>2. \A n \in 0..62 : Shifted[n + 1] = Shifted[n] \div 2
    BY EmissionAssumption
  <2>3. \A x \in Nat : 2 * (x \div 2) <= x
    OBVIOUS
  <2> QED
    BY <2>1, <2>2, <2>3, EmissionAssumption
<1>1. ASSUME EmissionInv, UNCHANGED supplyVars PROVE EmissionInv'
  BY <1>1 DEF EmissionInv, EmissionTypeOK, supplyVars, Era, Position
<1>2. ASSUME EmissionInv, NEW s \in 0..GetBlockSubsidy(blockHeight + 1), ConnectBlock(s) PROVE EmissionInv'
  <2>1. /\ h \in Nat /\ supply \in Nat /\ supply <= B
        /\ h = 0 => supply = 0
        /\ e < 64 /\ h > 0 => supply + (Interval - 1 - p) * Shifted[e] + Interval * Shifted[e] <= B
    BY <1>2 DEF EmissionInv, EmissionTypeOK, Era, Position
  <2>2. blockHeight' = h + 1 /\ supply' = supply + s
    BY <1>2 DEF ConnectBlock
  <2>3. s \in Nat /\ s <= GetBlockSubsidy(h + 1)
    BY <2>1, SubsidyType
  <2>4. e \in Nat /\ p \in Nat /\ p < Interval
    BY <1>0, <2>1, Divide
  <2>5. supply' \in Nat
    BY <2>1, <2>2, <2>3
  <2> DEFINE f == (h + 1) \div Interval
             q == (h + 1) % Interval
  <2>6. f \in Nat /\ q \in Nat /\ q < Interval
    BY <1>0, <2>1, Divide
  <2>7. /\ p < Interval - 1 => f = e /\ q = p + 1
        /\ p = Interval - 1 => f = e + 1 /\ q = 0
    BY <1>0, <2>1, NextHeight, Zenon
  <2>c. SUFFICES supply' <= B /\ (f < 64 => supply' + (Interval - 1 - q) * Shifted[f] + Interval * Shifted[f] <= B)
    BY <2>1, <2>2, <2>5 DEF EmissionInv, EmissionTypeOK, Era, Position
  <2>8. CASE h = 0
    <3>1. s <= Premine /\ supply' = s
      BY <2>1, <2>2, <2>3, <2>8, SubsidyType
    <3>2. Interval * 0 + 1 = Interval * f + q
      BY <1>0, <2>8, Divide
    <3>3. f = 0 /\ q = 1
      BY <1>0, <2>6, <3>2, Unique
    <3> HIDE DEF e, p, f, q
    <3>4. supply' <= Premine
      BY <3>1
    <3>5. (Interval - 2) * Reward <= Interval * Reward /\ Interval * Reward \in Nat
      BY <1>0
    <3> QED
      BY <1>0, <1>s, <2>5, <3>3, <3>4, <3>5
  <2>9. CASE h # 0 /\ f >= 64
    <3>1. s = 0
      BY <2>1, <2>3, <2>9, SubsidyType
    <3> HIDE DEF e, p, f, q, B
    <3>2. f \in Nat /\ ~(f < 64)
      BY <2>6, <2>9
    <3>3. supply' = supply
      BY <2>1, <2>2, <3>1
    <3> QED
      BY <2>1, <3>2, <3>3
  <2>10. CASE h # 0 /\ f < 64
    <3>1. s <= Shifted[f] /\ Shifted[f] \in Nat
      BY <1>s, <2>1, <2>3, <2>6, <2>10, SubsidyType
    <3>2. supply' + (Interval - 1 - q) * Shifted[f] + Interval * Shifted[f] <= B
      <4>1. CASE p < Interval - 1
        <5> HIDE DEF e, p, f, q, B, h
        <5>1. f = e /\ q = p + 1
          BY <2>7, <4>1
        <5>2. supply + (Interval - 1 - p) * Shifted[e] + Interval * Shifted[e] <= B
          BY <2>1, <2>10, <5>1
        <5>3. (Interval - 1 - p) * Shifted[e] = (Interval - 1 - q) * Shifted[f] + Shifted[f]
          BY <1>0, <2>4, <3>1, <5>1
        <5> DEFINE x == (Interval - 1 - q) * Shifted[f]
                   y == Interval * Shifted[f]
        <5>4. x \in Int /\ y \in Int
          BY <1>0, <2>6, <3>1
        <5>5. supply + (x + Shifted[f]) + y <= B
          BY <5>1, <5>2, <5>3
        <5> HIDE DEF x, y
        <5>6. supply' + x + y <= B
          BY <1>0, <2>1, <2>2, <2>3, <3>1, <5>4, <5>5
        <5> QED
          BY <5>6 DEF x, y
      <4>2. CASE p = Interval - 1
        <5> HIDE DEF e, p, f, q, B, h
        <5>1. f = e + 1 /\ q = 0
          BY <2>7, <4>2
        <5>2. supply + (Interval - 1 - p) * Shifted[e] + Interval * Shifted[e] <= B
          BY <2>1, <2>4, <2>10, <5>1
        <5>n. e \in 0..62
          BY <2>4, <2>10, <5>1
        <5>m. Shifted[f] = Shifted[e + 1] /\ e \in 0..63
          BY <5>1, <5>n
        <5>3. Shifted[e] \in Nat /\ 2 * Shifted[f] <= Shifted[e]
          BY <1>s, <5>n, <5>m
        <5>4. supply + Interval * Shifted[e] <= B
          BY <1>0, <2>1, <4>2, <5>2, <5>3
        <5>5. Interval * (2 * Shifted[f]) <= Interval * Shifted[e]
          BY <1>0, <3>1, <5>3, Times
        <5>6. Shifted[f] + (Interval - 1 - q) * Shifted[f] + Interval * Shifted[f] = Interval * (2 * Shifted[f])
          BY <1>0, <3>1, <5>1
        <5> DEFINE x == (Interval - 1 - q) * Shifted[f]
                   y == Interval * Shifted[f]
                   z == Interval * Shifted[e]
        <5>7. x \in Int /\ y \in Int /\ z \in Int
          BY <1>0, <2>6, <3>1, <5>3
        <5>8. supply + z <= B /\ Shifted[f] + x + y <= z
          BY <5>4, <5>5, <5>6
        <5> HIDE DEF x, y, z
        <5>9. supply' + x + y <= B
          BY <1>0, <2>1, <2>2, <2>3, <3>1, <5>7, <5>8
        <5> QED
          BY <5>9 DEF x, y
      <4> QED
        BY <1>0, <2>4, <4>1, <4>2
    <3>3. (Interval - 1 - q) * Shifted[f] >= 0 /\ Interval * Shifted[f] >= 0
      <4>1. Interval - 1 - q \in Nat
        BY <1>0, <2>6
      <4> HIDE DEF q, f
      <4> QED
        BY <1>0, <3>1, <4>1
    <3> DEFINE x == (Interval - 1 - q) * Shifted[f]
               y == Interval * Shifted[f]
    <3>4. x \in Int /\ y \in Int
      BY <1>0, <2>6, <3>1
    <3>5. x >= 0 /\ y >= 0 /\ supply' + x + y <= B
      BY <3>2, <3>3
    <3> HIDE DEF x, y, B, e, p, f, q
    <3>n. \A a, b, c, d \in Int : b >= 0 /\ c >= 0 /\ a + b + c <= d => a <= d
      OBVIOUS
    <3>i. supply' \in Int /\ B \in Int
      BY <1>0, <2>5
    <3>6. supply' <= B
      BY <3>i, <3>n, <3>4, <3>5, Zenon
    <3> QED
      BY <3>2, <3>6
  <2> QED
    BY <2>6, <2>8, <2>9, <2>10
<1> QED
  BY <1>1, <1>2 DEF EmissionNext

(* However the halvings round and whatever the coinbases leave unclaimed,  *)
(* the coins issued by GetBlockSubsidy (validation.cpp:1838) never exceed  *)
(* MAX_MONEY, for every reward, premine and interval that fit below it.    *)
THEOREM SupplyCappedThm == EmissionSpec => []SupplyCapped
<1>1. EmissionInit => EmissionInv
  <2>1. Premine + 2 * (Interval * Reward) >= 0
    BY EmissionAssumption
  <2> QED
    BY <2>1 DEF EmissionInit, EmissionInv, EmissionTypeOK
<1>2. EmissionInv => SupplyCapped
  BY EmissionAssumption DEF EmissionInv, EmissionTypeOK, SupplyCapped
<1> QED
  BY <1>1, <1>2, EmissionStep, PTL DEF EmissionSpec

-----------------------------------------------------------------------------

\* The powers of the radix, and that the radix divides the bound of a mantissa.
LEMMA ShiftIs ==
    /\ Radix \in Nat \ {0} /\ MaxExponent \in Nat /\ Mantissa \in Nat
    /\ \A k \in Exponents : Shift[k] \in Nat \ {0}
    /\ \A j \in Exponents, k \in Exponents : j <= k => Shift[j] <= Shift[k]
    /\ \A k \in Exponents : k # 0 => k - 1 \in Exponents /\ Shift[k] = Radix * Shift[k - 1]
    /\ \E q \in Nat : Mantissa = Radix * q
<1>1. /\ Radix \in Nat \ {0} /\ MaxExponent \in Nat /\ Shift \in [0..MaxExponent -> Nat] /\ Shift[0] = 1
      /\ \A k \in 0..MaxExponent - 1 : Shift[k + 1] = Radix * Shift[k]
  BY ShiftAssumption
<1>2. \A j \in 0..MaxExponent : \A k \in j..MaxExponent : Shift[j] <= Shift[k] /\ Shift[k] >= 1
  BY <1>1, Growing, Zenon
<1>3. \E q \in Nat : Mantissa = Radix * q
  <2>1. PICK h \in Nat : Radix = 2 * h
    <3>1. Radix % 2 = 0 /\ Radix = 2 * (Radix \div 2) + (Radix % 2) /\ Radix \div 2 \in Nat
      BY <1>1, ShiftAssumption
    <3> QED
      BY <3>1
  <2> DEFINE c == Radix * (Radix * h)
  <2>2. Radix * h \in Nat /\ c \in Nat
    BY <1>1
  <2>3. Radix * Radix * Radix = 2 * c
    BY <1>1, <2>1
  <2>4. (2 * c) \div 2 = c
    <3> HIDE DEF c
    <3> QED
      BY <2>2
  <2> QED
    BY <2>2, <2>3, <2>4 DEF Mantissa
<1>4. \A k \in Exponents : k # 0 => k - 1 \in Exponents /\ Shift[k] = Radix * Shift[k - 1]
  <2> SUFFICES ASSUME NEW k \in Exponents, k # 0 PROVE k - 1 \in Exponents /\ Shift[k] = Radix * Shift[k - 1]
    OBVIOUS
  <2>1. k - 1 \in 0..MaxExponent - 1 /\ (k - 1) + 1 = k
    BY <1>1 DEF Exponents
  <2> QED
    BY <1>1, <2>1 DEF Exponents
<1>5. Mantissa \in Nat
  BY <1>1, <1>3
<1> QED
  BY <1>1, <1>2, <1>3, <1>4, <1>5 DEF Exponents

\* The least target that does not fit three digits at exponent k.
Level(k) == Shift[k] * Mantissa

\* A target fits three digits at exponent k exactly when it is below the level of k.
LEMMA Levels ==
    /\ \A k \in Exponents : Level(k) \in Nat
    /\ \A j, k \in Exponents : j <= k => Level(j) <= Level(k)
    /\ \A k \in Exponents, t \in Nat : t \div Shift[k] >= Mantissa <=> Level(k) <= t
<1>1. \A k \in Exponents : Shift[k] \in Nat \ {0} /\ Mantissa \in Nat
  BY ShiftIs
<1>2. \A k \in Exponents : Level(k) \in Nat
  BY <1>1 DEF Level
<1>3. ASSUME NEW j \in Exponents, NEW k \in Exponents, j <= k PROVE Level(j) <= Level(k)
  <2>1. Shift[j] \in Nat /\ Shift[k] \in Nat /\ Mantissa \in Nat /\ Shift[j] <= Shift[k]
    BY <1>1, <1>3, ShiftIs
  <2>2. Mantissa * Shift[j] <= Mantissa * Shift[k]
    BY <2>1, Times
  <2> QED
    BY <2>1, <2>2 DEF Level
<1>4. ASSUME NEW k \in Exponents, NEW t \in Nat PROVE t \div Shift[k] >= Mantissa <=> Level(k) <= t
  BY <1>1, Quotient DEF Level
<1> QED
  BY <1>2, <1>3, <1>4

\* Every target up to the limit has an exponent, the least at which it fits.
LEMMA ExponentIs ==
    ASSUME NEW t \in 0..powLimit
    PROVE  /\ Exponent(t) \in Exponents /\ t < Level(Exponent(t))
           /\ \A j \in Exponents : j < Exponent(t) => Level(j) <= t
<1> DEFINE Fits == {k \in Exponents : t \div Shift[k] < Mantissa}
<1>0. MaxExponent \in Nat /\ Mantissa \in Nat /\ t \in Nat
  BY ShiftIs
<1>t. \A k \in Exponents : t \div Shift[k] \in Nat
  BY ShiftIs, Divide
<1>1. MaxExponent \in Fits
  <2>1. MaxExponent \in Exponents
    BY <1>0 DEF Exponents
  <2>2. Shift[MaxExponent] \in Nat \ {0} /\ powLimit \in Nat /\ t <= powLimit
    BY <2>1, ShiftIs, RetargetAssumption
  <2>3. t \div Shift[MaxExponent] <= powLimit \div Shift[MaxExponent]
    BY <2>2, QuotientMono
  <2>4. powLimit \div Shift[MaxExponent] < Mantissa /\ powLimit \div Shift[MaxExponent] \in Nat
    BY <2>2, ShiftAssumption, Divide DEF Mantissa
  <2>5. t \div Shift[MaxExponent] < Mantissa
    BY <2>1, <2>3, <2>4, <1>0, <1>t
  <2> QED
    BY <2>1, <2>5
<1>2. PICK k \in Fits : \A i \in Fits : k <= i
  <2>1. Fits \in SUBSET Nat /\ Fits # {}
    BY <1>1, <1>0 DEF Exponents
  <2> HIDE DEF Fits
  <2> QED
    BY <2>1, SmallestNat
<1>3. \A j \in 0..k - 1 : j \in Exponents /\ j \notin Fits
  <2>1. k \in Nat /\ k <= MaxExponent
    BY <1>2, <1>0 DEF Exponents
  <2>2. \A i \in Fits : i >= k
    BY <1>2
  <2> HIDE DEF Fits
  <2> QED
    BY <1>0, <2>1, <2>2 DEF Exponents
<1>4. \A j \in 0..k - 1 : t \div Shift[j] >= Mantissa
  BY <1>0, <1>t, <1>3
<1> DEFINE P(e) == t \div Shift[e] < Mantissa /\ \A j \in 0..e - 1 : t \div Shift[j] >= Mantissa
<1>5. k \in Exponents /\ P(k)
  BY <1>2, <1>4
<1>6. Exponent(t) = CHOOSE e \in Exponents : P(e)
  BY DEF Exponent
<1> DEFINE e == Exponent(t)
<1>7. e \in Exponents /\ P(e)
  <2> HIDE DEF P
  <2> QED
    BY <1>5, <1>6
<1>8. t < Level(e)
  <2> HIDE DEF e
  <2>1. ~ (t \div Shift[e] >= Mantissa)
    BY <1>0, <1>t, <1>7
  <2>2. ~ (Level(e) <= t) /\ Level(e) \in Nat
    BY <1>0, <1>7, <2>1, Levels
  <2> QED
    BY <1>0, <2>2
<1>9. ASSUME NEW j \in Exponents, j < e PROVE Level(j) <= t
  <2> HIDE DEF e
  <2>1. j \in 0..e - 1
    BY <1>0, <1>7, <1>9 DEF Exponents
  <2>2. t \div Shift[j] >= Mantissa
    BY <1>7, <2>1
  <2> QED
    BY <1>0, <2>2, Levels
<1> QED
  BY <1>7, <1>8, <1>9

\* Storing a target in nBits never raises it.
LEMMA CompactLess ==
    ASSUME NEW t \in 0..powLimit
    PROVE  Compact(t) \in 0..powLimit /\ Compact(t) <= t
<1> DEFINE s == Shift[Exponent(t)]
<1> DEFINE q == t \div s
<1>1. s \in Nat \ {0}
  BY ExponentIs, ShiftIs
<1>2. t \in Nat /\ powLimit \in Nat /\ t <= powLimit
  BY RetargetAssumption
<1>3. Compact(t) = q * s
  BY DEF Compact
<1> HIDE DEF s
<1>4. q \in Nat /\ t % s \in Nat /\ t = s * q + (t % s)
  BY <1>1, <1>2, Divide
<1> HIDE DEF q
<1>5. s * q \in Nat /\ q * s = s * q
  BY <1>1, <1>4
<1> QED
  BY <1>2, <1>3, <1>4, <1>5

\* Nor does it take the target below the level of a smaller exponent.
LEMMA CompactLow ==
    ASSUME NEW t \in 0..powLimit, NEW j \in Exponents, j < Exponent(t)
    PROVE  Level(j) <= Compact(t)
<1> DEFINE e == Exponent(t)
<1> DEFINE s == Shift[e]
<1> DEFINE r == Shift[e - 1]
<1>1. e \in Exponents /\ e # 0 /\ j <= e - 1 /\ e - 1 \in Exponents
  BY ExponentIs, ShiftIs DEF Exponents
<1>2. Level(j) <= Level(e - 1) /\ Level(e - 1) <= t /\ Level(j) \in Nat /\ Level(e - 1) \in Nat
  <2>1. e - 1 < e
    BY <1>1 DEF Exponents
  <2> QED
    BY <1>1, <2>1, ExponentIs, Levels
<1>3. s = Radix * r /\ s \in Nat \ {0} /\ r \in Nat \ {0} /\ Radix \in Nat
  BY <1>1, ShiftIs
<1>4. PICK q \in Nat : Mantissa = Radix * q
  BY ShiftIs
<1>5. Level(e - 1) = s * q
  <2>1. Level(e - 1) = r * (Radix * q)
    BY <1>4 DEF Level
  <2> HIDE DEF s, r
  <2>2. r * (Radix * q) = (Radix * r) * q
    BY <1>3
  <2> QED
    BY <1>3, <2>1, <2>2
<1>6. Compact(t) = (t \div s) * s
  BY DEF Compact
<1>7. t \in Nat
  BY RetargetAssumption
<1> HIDE DEF s, r, e
<1>8. t \div s >= q
  BY <1>2, <1>3, <1>4, <1>5, <1>7, Quotient
<1> DEFINE d == t \div s
<1>9. d \in Nat /\ q <= d
  BY <1>3, <1>7, <1>8, Divide
<1> HIDE DEF d
<1>10. s * q <= s * d /\ s * d = d * s /\ s * d \in Nat
  BY <1>3, <1>9, Times
<1> QED
  BY <1>2, <1>5, <1>6, <1>10 DEF d

\* Of two targets the smaller is not stored as the greater.
LEMMA CompactMono ==
    ASSUME NEW t \in 0..powLimit, NEW u \in 0..powLimit, t <= u
    PROVE  Compact(t) <= Compact(u)
<1> DEFINE e == Exponent(t)
<1> DEFINE d == Exponent(u)
<1>1. /\ e \in Exponents /\ t < Level(e) /\ \A j \in Exponents : j < e => Level(j) <= t
      /\ d \in Exponents /\ u < Level(d)
  BY ExponentIs
<1>2. /\ t \in Nat /\ u \in Nat /\ MaxExponent \in Nat /\ e \in Nat /\ d \in Nat
      /\ Level(e) \in Nat /\ Level(d) \in Nat
  BY <1>1, RetargetAssumption, ShiftIs, Levels DEF Exponents
<1>3. Compact(t) \in Nat /\ Compact(u) \in Nat /\ Compact(t) <= t
  BY CompactLess
<1>4. CASE e = d
  <2> DEFINE s == Shift[e]
  <2> DEFINE p == t \div s
  <2> DEFINE q == u \div s
  <2>1. Compact(t) = p * s /\ Compact(u) = q * s
    BY <1>4 DEF Compact
  <2>2. s \in Nat \ {0}
    BY <1>1, ShiftIs
  <2> HIDE DEF s
  <2>3. p \in Nat /\ q \in Nat /\ p <= q
    BY <1>2, <2>2, Divide, QuotientMono
  <2> HIDE DEF p, q
  <2>4. s * p <= s * q /\ s * p = p * s /\ s * q = q * s
    BY <2>2, <2>3, Times
  <2> QED
    BY <2>1, <2>4
<1>5. CASE d < e
  <2> HIDE DEF d, e
  <2>1. Level(d) <= t
    BY <1>1, <1>5
  <2> QED
    BY <1>1, <1>2, <2>1
<1>6. CASE e < d
  <2>1. Level(e) <= Compact(u)
    BY <1>1, <1>6, CompactLow
  <2> HIDE DEF d, e
  <2> QED
    BY <1>1, <1>2, <1>3, <2>1
<1> HIDE DEF d, e
<1> QED
  BY <1>2, <1>4, <1>5, <1>6

\* What was read from nBits is stored exactly.
LEMMA CompactIdem ==
    ASSUME NEW t \in 0..powLimit
    PROVE  Compact(Compact(t)) = Compact(t)
<1> DEFINE D == Compact(t)
<1> DEFINE e == Exponent(t)
<1> DEFINE d == Exponent(D)
<1> DEFINE s == Shift[e]
<1>0. D \in 0..powLimit /\ D <= t
  BY CompactLess
<1>1. /\ e \in Exponents /\ t < Level(e)
      /\ d \in Exponents /\ D < Level(d) /\ \A j \in Exponents : j < d => Level(j) <= D
  <2> HIDE DEF D
  <2> QED
    BY <1>0, ExponentIs
<1>2. /\ t \in Nat /\ D \in Nat /\ MaxExponent \in Nat /\ e \in Nat /\ d \in Nat
      /\ Level(e) \in Nat /\ Level(d) \in Nat
  <2> HIDE DEF D, d, e
  <2> QED
    BY <1>0, <1>1, RetargetAssumption, ShiftIs, Levels DEF Exponents
<1>3. ~ (d < e)
  <2>1. d < e => Level(d) <= D
    BY <1>1, CompactLow
  <2> HIDE DEF D, d, e
  <2> QED
    BY <1>1, <1>2, <2>1
<1>4. ~ (e < d)
  <2> HIDE DEF D, d, e
  <2> QED
    BY <1>0, <1>1, <1>2
<1>5. d = e
  <2> HIDE DEF D, d, e
  <2> QED
    BY <1>2, <1>3, <1>4
<1> DEFINE q == t \div s
<1>6. s \in Nat \ {0}
  BY <1>1, ShiftIs
<1>7. D = q * s /\ Compact(D) = (D \div s) * s
  BY <1>5 DEF Compact
<1> HIDE DEF d, e, s, D
<1>8. q \in Nat
  BY <1>2, <1>6, Divide
<1> HIDE DEF q
<1>9. D \div s >= q
  <2>1. s * q <= D
    BY <1>6, <1>7, <1>8
  <2> QED
    BY <1>2, <1>6, <1>8, <2>1, Quotient
<1> DEFINE p == D \div s
<1>10. p \in Nat /\ p >= q
  BY <1>2, <1>6, <1>9, Divide
<1> HIDE DEF p
<1>11. s * q <= s * p
  BY <1>6, <1>8, <1>10, Times
<1>12. Compact(D) <= D /\ Compact(D) \in Nat
  BY <1>0, CompactLess
<1>13. D <= Compact(D)
  BY <1>6, <1>7, <1>8, <1>10, <1>11 DEF p
<1> QED
  BY <1>2, <1>12, <1>13 DEF D

\* f is computed by the recursion that starts with a and goes on with G.
Follows(f, N, a, G) == f = [n \in 1..N |-> IF n <= 1 THEN a ELSE G[<<n, f[n - 1]>>]]

\* A recursion over 1..N has a solution: a smallest N without one would extend the one before it.
LEMMA Recursion ==
    ASSUME NEW N \in Nat \ {0}, NEW V, NEW a \in V, NEW G \in [(1..N) \X V -> V]
    PROVE  \E f \in [1..N -> V] : Follows(f, N, a, G)
<1> DEFINE Up(f, m) == Follows(f, m, a, G)
<1> USE DEF Follows
<1> DEFINE Bad == {m \in 1..N : ~ \E f \in [1..m -> V] : Up(f, m)}
<1>1. ASSUME Bad # {} PROVE FALSE
  <2>1. PICK m \in Bad : \A i \in Bad : m <= i
    <3>1. Bad \in SUBSET Nat
      OBVIOUS
    <3> HIDE DEF Bad
    <3> QED
      BY <1>1, <3>1, SmallestNat
  <2>2. m \in 1..N /\ ~ \E f \in [1..m -> V] : Up(f, m)
    BY <2>1
  <2>3. CASE m = 1
    <3> DEFINE f == [n \in 1..1 |-> a]
    <3>1. f \in [1..m -> V]
      BY <2>3
    <3>2. Up(f, m)
      BY <2>3
    <3> QED
      BY <2>2, <3>1, <3>2, Zenon
  <2>4. CASE m # 1
    <3>1. m - 1 \in 1..N /\ m - 1 \notin Bad
      BY <2>1, <2>2, <2>4
    <3>2. PICK g \in [1..m - 1 -> V] : Up(g, m - 1)
      BY <3>1
    <3> DEFINE f == [n \in 1..m |-> IF n = m THEN G[<<m, g[m - 1]>>] ELSE g[n]]
    <3>3. g[m - 1] \in V /\ \A n \in 1..m - 1 : g[n] \in V
      BY <2>2, <3>1
    <3>4. G[<<m, g[m - 1]>>] \in V
      BY <2>2, <3>3
    <3>5. f \in [1..m -> V]
      BY <2>2, <3>3, <3>4
    <3>6. ASSUME NEW n \in 1..m PROVE f[n] = IF n <= 1 THEN a ELSE G[<<n, f[n - 1]>>]
      <4>1. CASE n = m
        <5>1. f[m - 1] = g[m - 1] /\ f[m] = G[<<m, g[m - 1]>>] /\ ~ (m <= 1)
          BY <2>2, <2>4
        <5> QED
          BY <4>1, <5>1, Zenon
      <4>2. CASE n # m
        <5>1. n \in 1..m - 1 /\ f[n] = g[n]
          BY <2>2, <4>2
        <5>2. g[n] = IF n <= 1 THEN a ELSE G[<<n, g[n - 1]>>]
          BY <3>2, <5>1
        <5>3. n # 1 => f[n - 1] = g[n - 1]
          BY <2>2, <5>1
        <5>4. n <= 1 <=> n = 1
          BY <2>2, <5>1
        <5> HIDE DEF f
        <5> QED
          BY <5>1, <5>2, <5>3, <5>4, Zenon
      <4> QED
        BY <4>1, <4>2
    <3>7. Up(f, m)
      <4>1. f = [n \in 1..m |-> f[n]]
        OBVIOUS
      <4> HIDE DEF f
      <4> QED
        BY <3>6, <4>1
    <3> HIDE DEF f, Follows
    <3> QED
      BY <2>2, <3>5, <3>7
  <2> QED
    BY <2>3, <2>4
<1>2. N \notin Bad /\ N \in 1..N
  BY <1>1
<1> HIDE DEF Follows
<1> QED
  BY <1>2

\* The blocks of a full window.
LEMMA WindowIs ==
    ASSUME RetargetTypeOK, Len(window) = PastBlocks
    PROVE  \A n \in 1..PastBlocks : window[n].target \in Nat /\ window[n].target <= powLimit /\ window[n].gap \in Int
<1>1. window \in Seq([gap : Gaps, target : 1..powLimit]) /\ Gaps \subseteq Int /\ powLimit \in Nat
  BY RetargetAssumption DEF RetargetTypeOK
<1>2. \A n \in 1..PastBlocks : window[n] \in [gap : Gaps, target : 1..powLimit]
  BY <1>1, ElementOfSeq, Zenon
<1>3. \A n \in 1..PastBlocks : window[n].target \in 1..powLimit /\ window[n].gap \in Gaps
  BY <1>2
<1>4. ASSUME NEW t \in 1..powLimit PROVE t \in Nat /\ t <= powLimit
  BY <1>1
<1> QED
  BY <1>1, <1>3, <1>4, Zenon

\* The average is computed by the steps of its loop.
LEMMA AverageSteps ==
    ASSUME RetargetTypeOK, Len(window) = PastBlocks
    PROVE  /\ Average[1] = window[1].target
           /\ \A n \in 1..PastBlocks : Average[n] \in Nat
           /\ \A n \in 2..PastBlocks :
                Average[n] = ((Average[n - 1] * n + window[n].target) % Word) \div (n + 1)
<1> DEFINE T(n) == window[n].target
<1> DEFINE Def(f) == [n \in 1..PastBlocks |->
             IF n <= 1 THEN T(1) ELSE ((f[n - 1] * n + T(n)) % Word) \div (n + 1)]
<1>0. PastBlocks \in Nat \ {0, 1} /\ Word \in Nat \ {0} /\ powLimit \in Nat
  <2>1. PastBlocks \in Nat \ {0, 1} /\ Word \in Nat /\ powLimit \in Nat /\ (PastBlocks + 1) * powLimit < Word
    BY RetargetAssumption
  <2>2. (PastBlocks + 1) * powLimit >= 0
    <3>1. PastBlocks + 1 \in Nat
      BY <2>1
    <3> QED
      BY <2>1, <3>1
  <2> QED
    BY <2>1, <2>2
<1>1. \A n \in 1..PastBlocks : T(n) \in Nat
  BY WindowIs
<1> HIDE DEF T
<1>2. \E f \in [1..PastBlocks -> Nat] : f = Def(f)
  <2> DEFINE G == [p \in (1..PastBlocks) \X Nat |-> ((p[2] * p[1] + T(p[1])) % Word) \div (p[1] + 1)]
  <2>1. ASSUME NEW n \in 1..PastBlocks, NEW v \in Nat
        PROVE  ((v * n + T(n)) % Word) \div (n + 1) \in Nat
    <3>1. n \in Nat /\ v * n \in Nat /\ n + 1 \in Nat \ {0}
      BY <1>0
    <3>2. v * n + T(n) \in Nat
      BY <3>1, <1>1
    <3>3. (v * n + T(n)) % Word \in Nat
      BY <1>0, <3>2, Divide
    <3> QED
      BY <3>1, <3>3, Divide
  <2>2. G \in [(1..PastBlocks) \X Nat -> Nat]
    BY <2>1, Zenon
  <2>3. PICK f \in [1..PastBlocks -> Nat] : Follows(f, PastBlocks, T(1), G)
    <3>1. T(1) \in Nat /\ PastBlocks \in Nat \ {0}
      BY <1>0, <1>1
    <3> HIDE DEF G
    <3> QED
      BY <2>2, <3>1, Recursion, Zenon
  <2>4. ASSUME NEW n \in 1..PastBlocks, ~ (n <= 1)
        PROVE  G[<<n, f[n - 1]>>] = ((f[n - 1] * n + T(n)) % Word) \div (n + 1)
    <3>1. f[n - 1] \in Nat
      BY <1>0, <2>4
    <3> QED
      BY <3>1
  <2>5. f = Def(f)
    <3> HIDE DEF G
    <3> QED
      BY <2>3, <2>4, Zenon DEF Follows
  <2> QED
    BY <2>5, Zenon
<1>3. Average = CHOOSE f : f = Def(f)
  BY DEF Average, T
<1>4. Average = Def(Average)
  <2> HIDE DEF Def
  <2> QED
    BY <1>2, <1>3
<1>5. Average[1] = T(1)
  BY <1>0, <1>4
<1>6. \A n \in 2..PastBlocks : Average[n] = ((Average[n - 1] * n + T(n)) % Word) \div (n + 1)
  BY <1>0, <1>4
<1>7. \A n \in 1..PastBlocks : Average[n] \in Nat
  <2> DEFINE Bad == {n \in 1..PastBlocks : Average[n] \notin Nat}
  <2> SUFFICES ASSUME Bad # {} PROVE FALSE
    OBVIOUS
  <2>1. PICK n \in Bad : \A i \in Bad : n <= i
    <3>1. Bad \in SUBSET Nat
      BY <1>0
    <3> HIDE DEF Bad
    <3> QED
      BY <3>1, SmallestNat
  <2>2. n \in 2..PastBlocks /\ n - 1 \in 1..PastBlocks /\ n \in Nat
    BY <1>0, <1>1, <1>5, <2>1
  <2>3. n - 1 \notin Bad
    BY <2>1, <2>2
  <2>4. Average[n - 1] \in Nat
    BY <2>2, <2>3
  <2>5. Average[n - 1] * n \in Nat /\ n + 1 \in Nat \ {0}
    BY <2>2, <2>4
  <2>6. Average[n - 1] * n + T(n) \in Nat
    BY <2>2, <2>5, <1>1
  <2>7. (Average[n - 1] * n + T(n)) % Word \in Nat
    BY <1>0, <2>6, Divide
  <2>8. Average[n] \in Nat
    BY <1>6, <2>2, <2>5, <2>7, Divide
  <2> QED
    BY <2>1, <2>8
<1> QED
  BY <1>5, <1>6, <1>7 DEF T

\* No average exceeds the limit, and no sum on the way to it exceeds the word.
LEMMA AverageBound ==
    ASSUME RetargetTypeOK, Len(window) = PastBlocks
    PROVE  /\ \A n \in 1..PastBlocks : Average[n] \in 0..powLimit
           /\ \A n \in 2..PastBlocks : Average[n - 1] * n + window[n].target < Word
<1> DEFINE T(n) == window[n].target
<1>0. /\ PastBlocks \in Nat \ {0, 1} /\ Word \in Nat /\ powLimit \in Nat
      /\ (PastBlocks + 1) * powLimit < Word
  BY RetargetAssumption
<1>1. \A n \in 1..PastBlocks : T(n) \in Nat /\ T(n) <= powLimit
  BY WindowIs
<1>2. /\ Average[1] = T(1) /\ \A n \in 1..PastBlocks : Average[n] \in Nat
      /\ \A n \in 2..PastBlocks : Average[n] = ((Average[n - 1] * n + T(n)) % Word) \div (n + 1)
  BY AverageSteps
<1> HIDE DEF T
\* One step from an average within the limit: neither a wrap nor a result beyond it.
<1>3. ASSUME NEW n \in 2..PastBlocks, Average[n - 1] <= powLimit
      PROVE  Average[n - 1] * n + T(n) < Word /\ Average[n] <= powLimit
  <2> DEFINE a == Average[n - 1]
  <2> DEFINE x == a * n + T(n)
  <2>1. n \in Nat /\ n - 1 \in 1..PastBlocks /\ n \in 1..PastBlocks /\ n + 1 \in Nat \ {0} /\ n + 1 <= PastBlocks + 1
    BY <1>0
  <2>2. a \in Nat /\ a <= powLimit /\ T(n) \in Nat /\ T(n) <= powLimit
    BY <1>1, <1>2, <1>3, <2>1
  <2>3. Average[n] = (x % Word) \div (n + 1)
    BY <1>2
  <2> HIDE DEF a
  <2>4. n * a <= n * powLimit /\ n * a \in Nat /\ n * powLimit \in Nat /\ a * n = n * a
    BY <1>0, <2>1, <2>2, Times
  <2>5. (n + 1) * powLimit = n * powLimit + powLimit
    BY <1>0, <2>1
  <2>6. x \in Nat /\ x <= (n + 1) * powLimit /\ (n + 1) * powLimit \in Nat
    BY <1>0, <2>2, <2>4, <2>5
  <2>7. (n + 1) * powLimit <= (PastBlocks + 1) * powLimit
    <3>1. powLimit * (n + 1) <= powLimit * (PastBlocks + 1)
      BY <1>0, <2>1, Times
    <3>2. powLimit * (n + 1) = (n + 1) * powLimit /\ powLimit * (PastBlocks + 1) = (PastBlocks + 1) * powLimit
      BY <1>0, <2>1
    <3> QED
      BY <3>1, <3>2
  <2>8. (PastBlocks + 1) * powLimit \in Nat
    BY <1>0
  <2>9. x < Word
    <3> HIDE DEF x
    <3> QED
      BY <1>0, <2>6, <2>7, <2>8
  <2>10. x % Word = x
    <3> HIDE DEF x
    <3> QED
      BY <1>0, <2>6, <2>9
  <2> HIDE DEF x
  <2>11. x \div (n + 1) <= powLimit
    <3> DEFINE q == x \div (n + 1)
    <3>1. q \in Nat
      BY <2>1, <2>6, Divide
    <3>2. powLimit + 1 \in Nat /\ (n + 1) * (powLimit + 1) = (n + 1) * powLimit + (n + 1)
      BY <1>0, <2>1
    <3>3. ~ ((n + 1) * (powLimit + 1) <= x)
      BY <2>1, <2>6, <3>2
    <3>4. ~ (q >= powLimit + 1)
      BY <2>1, <2>6, <3>2, <3>3, Quotient
    <3> HIDE DEF q
    <3>5. q <= powLimit
      BY <1>0, <3>1, <3>4
    <3> QED
      BY <3>5 DEF q
  <2> QED
    BY <2>3, <2>9, <2>10, <2>11 DEF x, a
<1> DEFINE Bad == {n \in 1..PastBlocks : ~ (Average[n] <= powLimit)}
<1>4. ASSUME Bad # {} PROVE FALSE
  <2>1. PICK n \in Bad : \A i \in Bad : n <= i
    <3>1. Bad \in SUBSET Nat
      BY <1>0
    <3> HIDE DEF Bad
    <3> QED
      BY <1>4, <3>1, SmallestNat
  <2>2. n # 1
    BY <1>0, <1>1, <1>2, <2>1
  <2>3. n \in 2..PastBlocks /\ n - 1 \in 1..PastBlocks /\ n - 1 \notin Bad
    BY <1>0, <2>1, <2>2
  <2>4. Average[n - 1] <= powLimit
    BY <2>3
  <2> QED
    BY <1>3, <2>1, <2>3, <2>4
<1>5. \A n \in 1..PastBlocks : Average[n] <= powLimit
  BY <1>4
<1>6. \A n \in 1..PastBlocks : Average[n] \in 0..powLimit
  BY <1>0, <1>2, <1>5
<1>7. ASSUME NEW n \in 2..PastBlocks PROVE Average[n - 1] * n + T(n) < Word
  <2>1. n - 1 \in 1..PastBlocks
    BY <1>0
  <2> QED
    BY <1>3, <1>5, <2>1
<1> QED
  BY <1>6, <1>7 DEF T

\* The time span of a full window is a number.
LEMMA TimespanInt ==
    ASSUME RetargetTypeOK, Len(window) = PastBlocks
    PROVE  Timespan[PastBlocks] \in Int
<1> DEFINE D(n) == window[n - 1].gap
<1> DEFINE Def(f) == [n \in 1..PastBlocks |-> IF n <= 1 THEN 0 ELSE f[n - 1] + D(n)]
<1>0. PastBlocks \in Nat \ {0, 1}
  BY RetargetAssumption
<1>1. \A n \in 2..PastBlocks : D(n) \in Int
  <2>1. \A n \in 2..PastBlocks : n - 1 \in 1..PastBlocks
    BY <1>0
  <2> QED
    BY <2>1, WindowIs
<1> HIDE DEF D
<1>2. \E f \in [1..PastBlocks -> Int] : f = Def(f)
  <2> DEFINE G == [p \in (1..PastBlocks) \X Int |-> IF p[1] <= 1 THEN 0 ELSE p[2] + D(p[1])]
  <2>1. G \in [(1..PastBlocks) \X Int -> Int]
    <3>1. \A n \in 1..PastBlocks : ~ (n <= 1) => n \in 2..PastBlocks
      BY <1>0
    <3> QED
      BY <1>1, <3>1
  <2>2. PICK f \in [1..PastBlocks -> Int] : Follows(f, PastBlocks, 0, G)
    <3>1. 0 \in Int /\ PastBlocks \in Nat \ {0}
      BY <1>0
    <3> HIDE DEF G
    <3> QED
      BY <2>1, <3>1, Recursion, Zenon
  <2>3. ASSUME NEW n \in 1..PastBlocks, ~ (n <= 1) PROVE G[<<n, f[n - 1]>>] = f[n - 1] + D(n)
    <3>1. f[n - 1] \in Int
      BY <1>0, <2>3
    <3> QED
      BY <2>3, <3>1
  <2>4. f = Def(f)
    <3> HIDE DEF G
    <3> QED
      BY <2>2, <2>3 DEF Follows
  <2> QED
    BY <2>4
<1>3. Timespan = CHOOSE f : f = Def(f)
  BY DEF Timespan, D
<1>4. Timespan = Def(Timespan)
  <2> HIDE DEF Def
  <2> QED
    BY <1>2, <1>3
<1>5. Timespan[1] = 0 /\ \A n \in 2..PastBlocks : Timespan[n] = Timespan[n - 1] + D(n)
  <2>1. ASSUME NEW n \in 1..PastBlocks PROVE Timespan[n] = IF n <= 1 THEN 0 ELSE Timespan[n - 1] + D(n)
    BY <1>4
  <2>2. 1 \in 1..PastBlocks /\ \A n \in 2..PastBlocks : n \in 1..PastBlocks /\ ~ (n <= 1)
    BY <1>0
  <2> QED
    BY <2>1, <2>2
<1> DEFINE Bad == {n \in 1..PastBlocks : Timespan[n] \notin Int}
<1>6. ASSUME Bad # {} PROVE FALSE
  <2>1. PICK n \in Bad : \A i \in Bad : n <= i
    <3>1. Bad \in SUBSET Nat
      BY <1>0
    <3> HIDE DEF Bad
    <3> QED
      BY <1>6, <3>1, SmallestNat
  <2>2. n \in 2..PastBlocks /\ n - 1 \in 1..PastBlocks /\ n - 1 \notin Bad
    BY <1>0, <1>5, <2>1
  <2>3. Timespan[n - 1] \in Int
    BY <2>2
  <2> QED
    BY <1>1, <1>5, <2>1, <2>2, <2>3
<1> QED
  BY <1>0, <1>6

\* Whatever the window, the wave is computed without a wrap.
LEMMA NoWrapType ==
    ASSUME RetargetTypeOK
    PROVE  NoWrap
<1> SUFFICES ASSUME Len(window) = PastBlocks PROVE NoWrap
  BY DEF NoWrap
<1> DEFINE a == Average[PastBlocks]
<1> DEFINE b == Bounded(Timespan[PastBlocks])
<1>0. /\ PastBlocks \in Nat \ {0, 1} /\ Spacing \in Nat \ {0} /\ powLimit \in Nat /\ Word \in Nat
      /\ (3 * TargetTimespan) * powLimit < Word
  BY RetargetAssumption DEF TargetTimespan
<1>1. TargetTimespan \in Nat
  BY <1>0 DEF TargetTimespan
<1>2. a \in Nat /\ a <= powLimit
  <2>1. PastBlocks \in 1..PastBlocks
    BY <1>0
  <2>2. a \in 0..powLimit
    BY <2>1, AverageBound
  <2> QED
    BY <1>0, <2>2
<1>3. b \in Nat /\ b <= 3 * TargetTimespan
  <2>1. Timespan[PastBlocks] \in Int
    BY TimespanInt
  <2>2. TargetTimespan \div 3 \in Nat /\ TargetTimespan \div 3 <= TargetTimespan * 3
    BY <1>1
  <2> QED
    BY <1>1, <2>1, <2>2 DEF Bounded
<1> HIDE DEF a, b
<1> DEFINE c == 3 * TargetTimespan
<1>4. c \in Nat /\ b <= c /\ c * powLimit < Word
  BY <1>0, <1>1, <1>3
<1> HIDE DEF c
<1>5. a * b <= a * c /\ c * a <= c * powLimit /\ a * c = c * a
  BY <1>0, <1>2, <1>3, <1>4, Times
<1>6. a * b \in Nat /\ c * a \in Nat /\ c * powLimit \in Nat
  BY <1>0, <1>2, <1>3, <1>4
<1>7. a * b < Word
  BY <1>0, <1>4, <1>5, <1>6
<1> QED
  BY <1>7, AverageBound DEF NoWrap, a, b

\* A limited target is within the limit.
LEMMA LimitedIn == ASSUME NEW t \in Nat PROVE Limited(t) \in 0..powLimit
<1>1. powLimit \in Nat
  BY RetargetAssumption
<1> QED
  BY <1>1 DEF Limited

\* What the last blocks ask for is a target within the limit, as nBits stores it.
LEMMA WaveIn ==
    ASSUME RetargetTypeOK
    PROVE  \E w \in 0..powLimit : DarkGravityWave = Compact(w)
<1>0. powLimit \in Nat /\ Word \in Nat /\ PastBlocks \in Nat /\ PastBlocks >= 1 /\ Spacing \in Nat \ {0}
  BY RetargetAssumption
<1>1. CASE Len(window) < PastBlocks
  <2>1. DarkGravityWave = Compact(powLimit) /\ powLimit \in 0..powLimit
    BY <1>0, <1>1 DEF DarkGravityWave
  <2> QED
    BY <2>1
<1>2. CASE ~ (Len(window) < PastBlocks)
  <2> DEFINE x == Average[PastBlocks] * Bounded(Timespan[PastBlocks])
  <2>1. Len(window) = PastBlocks
    <3>1. Len(window) \in Nat /\ Len(window) <= PastBlocks
      BY LenProperties DEF RetargetTypeOK
    <3> QED
      BY <1>0, <1>2, <3>1
  <2>2. x \in Nat /\ x < Word
    <3>1. Timespan[PastBlocks] \in Int
      BY <2>1, TimespanInt
    <3>2. Bounded(Timespan[PastBlocks]) \in Nat
      <4>1. TargetTimespan \in Nat
        BY <1>0 DEF TargetTimespan
      <4>2. TargetTimespan \div 3 \in Nat /\ TargetTimespan * 3 \in Nat
        BY <4>1
      <4> QED
        BY <3>1, <4>2 DEF Bounded
    <3>3. Average[PastBlocks] \in 0..powLimit
      <4>1. PastBlocks \in 1..PastBlocks
        BY <1>0
      <4> QED
        BY <2>1, <4>1, AverageBound
    <3>4. Average[PastBlocks] \in Nat
      BY <1>0, <3>3
    <3>5. x \in Nat
      BY <3>2, <3>4
    <3>6. x < Word
      BY <2>1, NoWrapType DEF NoWrap
    <3> QED
      BY <3>5, <3>6
  <2>3. Unlimited(Average[PastBlocks], Timespan[PastBlocks]) = (x % Word) \div TargetTimespan
    BY DEF Unlimited
  <2> HIDE DEF x
  <2>4. x % Word \in Nat /\ TargetTimespan \in Nat \ {0}
    <3>1. x % Word = x
      BY <1>0, <2>2
    <3>2. PastBlocks * Spacing \in Nat /\ PastBlocks * Spacing >= 1
      <4>1. Spacing * 1 <= Spacing * PastBlocks
        BY <1>0, Times
      <4> QED
        BY <1>0, <4>1
    <3> QED
      BY <2>2, <3>1, <3>2 DEF TargetTimespan
  <2>5. Unlimited(Average[PastBlocks], Timespan[PastBlocks]) \in Nat
    BY <2>3, <2>4, Divide
  <2> DEFINE w == Limited(Unlimited(Average[PastBlocks], Timespan[PastBlocks]))
  <2>6. w \in 0..powLimit
    BY <2>5, LimitedIn
  <2>7. DarkGravityWave = Compact(w)
    BY <1>2 DEF DarkGravityWave
  <2> HIDE DEF w
  <2> QED
    BY <2>6, <2>7
<1> QED
  BY <1>1, <1>2

\* The powers of two, up to the greatest number of periods.
LEMMA TwiceIs ==
    /\ MaxPeriods \in Nat
    /\ \A j \in 0..MaxPeriods : Twice[j] \in Nat /\ Twice[j] >= 1 /\ Twice[j] <= Twice[MaxPeriods]
    /\ \A j, k \in 0..MaxPeriods : j <= k => Twice[j] <= Twice[k]
<1>1. /\ MaxPeriods \in Nat /\ 2 \in Nat \ {0} /\ Twice \in [0..MaxPeriods -> Nat] /\ Twice[0] = 1
      /\ \A k \in 0..MaxPeriods - 1 : Twice[k + 1] = 2 * Twice[k]
  BY TwiceAssumption
<1>2. \A j \in 0..MaxPeriods : \A k \in j..MaxPeriods : Twice[j] <= Twice[k] /\ Twice[k] >= 1
  BY <1>1, Growing, Zenon
<1>3. \A j, k \in 0..MaxPeriods : j <= k => k \in j..MaxPeriods
  BY <1>1
<1>4. \A j \in 0..MaxPeriods : Twice[j] \in Nat /\ j \in j..MaxPeriods /\ MaxPeriods \in j..MaxPeriods
  BY <1>1
<1> QED
  BY <1>1, <1>2, <1>3, <1>4

Capped(periods) == IF periods < MaxPeriods THEN periods ELSE MaxPeriods

\* The doublings of a target do not wrap.
LEMMA DoubledIs ==
    ASSUME NEW t \in 0..powLimit, NEW p \in Nat
    PROVE  Doubled(t, p) = t * Twice[Capped(p)] /\ Doubled(t, p) \in Nat
<1> DEFINE d == Twice[Capped(p)]
<1> DEFINE m == Twice[MaxPeriods]
<1>0. powLimit \in Nat /\ t \in Nat /\ t <= powLimit /\ Word \in Nat /\ powLimit * m < Word
  BY RetargetAssumption, TwiceAssumption
<1>1. d \in Nat /\ m \in Nat /\ d <= m
  <2>1. Capped(p) \in 0..MaxPeriods /\ MaxPeriods \in 0..MaxPeriods
    BY TwiceIs DEF Capped
  <2> QED
    BY <2>1, TwiceIs
<1>2. Doubled(t, p) = (t * d) % Word
  BY DEF Doubled, Capped
<1> HIDE DEF d, m
<1>3. t * d <= t * m /\ m * t <= m * powLimit /\ t * m = m * t /\ m * powLimit = powLimit * m
  BY <1>0, <1>1, Times
<1>4. t * d \in Nat /\ m * t \in Nat /\ m * powLimit \in Nat
  BY <1>0, <1>1
<1>5. t * d < Word
  BY <1>0, <1>3, <1>4
<1> DEFINE x == t * d
<1>6. x % Word = x
  <2>1. x \in Nat /\ x < Word
    BY <1>4, <1>5
  <2> HIDE DEF x
  <2> QED
    BY <1>0, <2>1
<1> QED
  BY <1>2, <1>4, <1>6 DEF d

\* More periods never lower the target.
LEMMA DoubledMono ==
    ASSUME NEW t \in 0..powLimit, NEW p \in Nat, NEW q \in Nat, p <= q
    PROVE  t <= Doubled(t, p) /\ Doubled(t, p) <= Doubled(t, q)
<1> DEFINE c == Twice[Capped(p)]
<1> DEFINE d == Twice[Capped(q)]
<1>1. c \in Nat /\ d \in Nat /\ 1 <= c /\ c <= d
  <2>1. Capped(p) \in 0..MaxPeriods /\ Capped(q) \in 0..MaxPeriods /\ Capped(p) <= Capped(q)
    BY TwiceIs DEF Capped
  <2> QED
    BY <2>1, TwiceIs
<1>2. Doubled(t, p) = t * c /\ Doubled(t, q) = t * d
  BY DoubledIs
<1>3. t \in Nat
  BY RetargetAssumption
<1> HIDE DEF c, d
<1>4. t * 1 <= t * c /\ t * c <= t * d
  BY <1>1, <1>3, Times
<1> QED
  BY <1>2, <1>3, <1>4

\* The emergency adjustment of one wave grows with the gap.
LEMMA AdjustedMono ==
    ASSUME NEW w \in 0..powLimit, NEW g \in Int, NEW h \in Int, g <= h
    PROVE  Adjusted(Compact(w), g) <= Adjusted(Compact(w), h) /\ Adjusted(Compact(w), g) \in 0..powLimit
<1> DEFINE c == Compact(w)
<1> DEFINE L(gap) == Limited(Doubled(c, gap \div Emergency))
<1>0. powLimit \in Nat /\ Emergency \in Nat \ {0}
  BY RetargetAssumption
<1>1. c \in 0..powLimit /\ Compact(c) = c
  BY CompactLess, CompactIdem
<1> HIDE DEF c
<1>2. c \in Nat /\ c <= powLimit
  BY <1>0, <1>1
<1>3. ASSUME NEW gap \in Int, gap > Emergency
      PROVE  gap \div Emergency \in Nat /\ Doubled(c, gap \div Emergency) \in Nat
             /\ c <= Doubled(c, gap \div Emergency) /\ L(gap) \in 0..powLimit
  <2>1. gap \in Nat
    BY <1>0, <1>3
  <2>2. gap \div Emergency \in Nat
    BY <1>0, <2>1, Divide
  <2> DEFINE p == gap \div Emergency
  <2> HIDE DEF p
  <2>3. Doubled(c, p) \in Nat /\ c <= Doubled(c, p)
    <3>1. p \in Nat /\ p <= p
      BY <2>2 DEF p
    <3> QED
      BY <1>1, <3>1, DoubledIs, DoubledMono
  <2>4. Limited(Doubled(c, p)) \in 0..powLimit
    BY <2>3, LimitedIn
  <2> QED
    BY <2>2, <2>3, <2>4 DEF p
<1>4. Adjusted(c, g) \in 0..powLimit
  <2>1. CASE g > Emergency
    <3>1. L(g) \in 0..powLimit
      BY <1>3, <2>1
    <3>2. Adjusted(c, g) = Compact(L(g))
      BY <2>1 DEF Adjusted
    <3> HIDE DEF L
    <3> QED
      BY <3>1, <3>2, CompactLess
  <2>2. CASE ~ (g > Emergency)
    BY <1>1, <2>2 DEF Adjusted
  <2> QED
    BY <2>1, <2>2
<1>5. CASE ~ (h > Emergency)
  <2>1. ~ (g > Emergency)
    BY <1>0, <1>5
  <2>2. Adjusted(c, g) = c /\ Adjusted(c, h) = c
    BY <1>5, <2>1 DEF Adjusted
  <2> QED
    BY <1>2, <1>4, <2>2 DEF c
<1>6. CASE h > Emergency /\ ~ (g > Emergency)
  <2>1. L(h) \in 0..powLimit /\ Doubled(c, h \div Emergency) \in Nat /\ c <= Doubled(c, h \div Emergency)
    BY <1>3, <1>6
  <2>2. c <= L(h)
    <3> DEFINE x == Doubled(c, h \div Emergency)
    <3> HIDE DEF x
    <3>1. x \in Nat /\ c <= x
      BY <2>1 DEF x
    <3>2. c <= Limited(x)
      BY <1>0, <1>2, <3>1 DEF Limited
    <3> QED
      BY <3>2 DEF x
  <2>3. Adjusted(c, h) = Compact(L(h)) /\ Adjusted(c, g) = c
    BY <1>6 DEF Adjusted
  <2> HIDE DEF L
  <2>4. Compact(c) <= Compact(L(h))
    BY <1>1, <2>1, <2>2, CompactMono
  <2> QED
    BY <1>1, <1>4, <2>3, <2>4 DEF c
<1>7. CASE h > Emergency /\ g > Emergency
  <2>1. /\ L(h) \in 0..powLimit /\ L(g) \in 0..powLimit
        /\ g \div Emergency \in Nat /\ h \div Emergency \in Nat
        /\ Doubled(c, g \div Emergency) \in Nat /\ Doubled(c, h \div Emergency) \in Nat
    BY <1>3, <1>7
  <2>2. g \div Emergency <= h \div Emergency
    <3>1. g \in Nat /\ h \in Nat
      BY <1>0, <1>7
    <3> QED
      BY <1>0, <3>1, QuotientMono
  <2>3. L(g) <= L(h)
    <3> DEFINE p == g \div Emergency
    <3> DEFINE q == h \div Emergency
    <3> HIDE DEF p, q
    <3>1. p \in Nat /\ q \in Nat /\ p <= q
      BY <2>1, <2>2 DEF p, q
    <3>2. Doubled(c, p) <= Doubled(c, q) /\ Doubled(c, p) \in Nat /\ Doubled(c, q) \in Nat
      BY <1>1, <3>1, DoubledMono, DoubledIs
    <3>3. Limited(Doubled(c, p)) <= Limited(Doubled(c, q))
      BY <1>0, <3>2 DEF Limited
    <3> QED
      BY <3>3 DEF p, q
  <2>4. Adjusted(c, h) = Compact(L(h)) /\ Adjusted(c, g) = Compact(L(g))
    BY <1>7 DEF Adjusted
  <2> HIDE DEF L
  <2>5. Compact(L(g)) <= Compact(L(h))
    BY <2>1, <2>3, CompactMono
  <2> QED
    BY <1>4, <2>4, <2>5 DEF c
<1> QED
  BY <1>5, <1>6, <1>7

\* Whatever the window, waiting never raises the work.
LEMMA HelpsType == ASSUME RetargetTypeOK PROVE WaitingHelps
<1>1. PICK w \in 0..powLimit : DarkGravityWave = Compact(w)
  BY WaveIn
<1>2. Gaps \subseteq Int
  BY RetargetAssumption
<1>3. ASSUME NEW g \in Gaps, NEW h \in Gaps, g <= h
      PROVE  Adjusted(DarkGravityWave, g) <= Adjusted(DarkGravityWave, h)
  BY <1>1, <1>2, <1>3, AdjustedMono
<1> QED
  BY <1>3 DEF WaitingHelps

\* The window keeps its length, and its targets are between 1 and the limit.
LEMMA RetargetInvariance == RetargetSpec => []RetargetTypeOK
<1> DEFINE B == [gap : Gaps, target : 1..powLimit]
<1>0. PastBlocks \in Nat /\ Gaps \subseteq Int /\ powLimit \in Nat
  BY RetargetAssumption
<1>1. RetargetInit => RetargetTypeOK
  BY <1>0 DEF RetargetInit, RetargetTypeOK
<1>2. RetargetTypeOK /\ [RetargetNext]_windowVars => RetargetTypeOK'
  <2> SUFFICES ASSUME RetargetTypeOK, [RetargetNext]_windowVars PROVE RetargetTypeOK'
    OBVIOUS
  <2>1. CASE UNCHANGED windowVars
    BY <2>1 DEF windowVars, RetargetTypeOK
  <2>2. ASSUME NEW gap \in Gaps, AddBlock(gap) PROVE RetargetTypeOK'
    <3> DEFINE t == GetNextWorkRequired(gap)
    <3> DEFINE b == [gap |-> gap, target |-> t]
    <3> DEFINE s == <<b>> \o window
    <3> DEFINE n == IF Len(window) < PastBlocks THEN Len(window) + 1 ELSE PastBlocks
    <3>1. t \in 1..powLimit
      <4>1. PICK w \in 0..powLimit : DarkGravityWave = Compact(w)
        BY WaveIn
      <4>2. t \in 0..powLimit
        BY <1>0, <4>1, AdjustedMono DEF GetNextWorkRequired
      <4>3. t > 0
        BY <2>2 DEF AddBlock
      <4> HIDE DEF t
      <4> QED
        BY <1>0, <4>2, <4>3
    <3>2. window \in Seq(B) /\ Len(window) \in Nat /\ Len(window) <= PastBlocks
      BY LenProperties DEF RetargetTypeOK
    <3>3. window' = SubSeq(s, 1, n)
      BY <2>2 DEF AddBlock
    <3> HIDE DEF t
    <3>4. b \in B
      BY <3>1
    <3> HIDE DEF b, B
    <3>5. <<b>> \in Seq(B) /\ Len(<<b>>) = 1
      BY <3>4
    <3>6. s \in Seq(B) /\ Len(s) = 1 + Len(window)
      BY <3>2, <3>5, ConcatProperties
    <3> HIDE DEF s
    <3>7. n \in Nat /\ n <= PastBlocks /\ n <= Len(s)
      BY <1>0, <3>2, <3>6
    <3> HIDE DEF n
    <3>8. SubSeq(s, 1, n) \in Seq(B) /\ Len(SubSeq(s, 1, n)) <= PastBlocks
      <4>1. \A i \in 1..n : s[i] \in B
        BY <3>6, <3>7, ElementOfSeq
      <4>2. Len(SubSeq(s, 1, n)) = n
        BY <3>6, <3>7
      <4> QED
        BY <3>6, <3>7, <4>1, <4>2
    <3> QED
      BY <3>3, <3>8 DEF RetargetTypeOK, B
  <2> QED
    BY <2>1, <2>2 DEF RetargetNext
<1> QED
  BY <1>1, <1>2, PTL DEF RetargetSpec

(* A block that comes later never needs more work (pow.cpp:91-107), for    *)
(* every window of past blocks, every limit and every radix of nBits: the  *)
(* doublings neither wrap nor pass the limit, and the rounding of nBits    *)
(* keeps the order of targets.                                             *)
THEOREM WaitingHelpsThm == RetargetSpec => []WaitingHelps
BY RetargetInvariance, HelpsType, PTL

(* Neither the running average of pow.cpp:36 nor the product of            *)
(* pow.cpp:60 exceeds the word of arith_uint256, for every window.         *)
THEOREM NoWrapThm == RetargetSpec => []NoWrap
BY RetargetInvariance, NoWrapType, PTL
=============================================================================
