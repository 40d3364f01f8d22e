---------------------------- MODULE BountyProofs ----------------------------
(* What the bonus engine counts, marks and sends, for any number of runs   *)
(* and wallets and any payouts.                                            *)
EXTENDS Bounty, NumberProofs, TLAPS

\* The number of bonuses sent to all wallets.
LEMMA TotalNat == ASSUME NEW f \in [Wallets -> Nat] PROVE Total(f) \in Nat
<1>1. \A w \in Wallets : f[w] \in Nat
  OBVIOUS
<1> QED
  BY <1>1, BountyAssumption, SumNat DEF Total

\* The bonuses of one wallet change.
LEMMA TotalChange ==
    ASSUME NEW f \in [Wallets -> Nat], NEW g \in [Wallets -> Nat], NEW w \in Wallets,
           \A v \in Wallets : v # w => g[v] = f[v]
    PROVE  Total(g) = Total(f) - f[w] + g[w]
<1>1. \A v \in Wallets : f[v] \in Nat /\ g[v] \in Nat
  OBVIOUS
<1> QED
  BY <1>1, BountyAssumption, SumChange DEF Total

\* One more bonus is sent.
LEMMA BonusSent ==
    ASSUME bonuses \in [Wallets -> Nat], NEW w \in Wallets, bonuses' = [bonuses EXCEPT ![w] = @ + 1]
    PROVE  bonuses' \in [Wallets -> Nat] /\ Total(bonuses)' = Total(bonuses) + 1
<1> DEFINE f == bonuses
           g == bonuses'
<1>1. /\ f \in [Wallets -> Nat] /\ g \in [Wallets -> Nat]
      /\ g[w] = f[w] + 1 /\ \A v \in Wallets : v # w => g[v] = f[v]
  OBVIOUS
<1>2. Total(f) \in Nat /\ Total(bonuses)' = Total(g)
  BY TotalNat DEF Total
<1> HIDE DEF f, g
<1>3. Total(g) = Total(f) - f[w] + g[w]
  BY <1>1, TotalChange, Zenon
<1>4. f[w] \in Nat
  BY <1>1, Zenon
<1>5. Total(g) = Total(f) + 1
  BY <1>1, <1>2, <1>3, <1>4
<1> QED
  BY <1>1, <1>2, <1>5 DEF f, g

\* More pool rewards and more solo blocks keep a wallet above the threshold.
LEMMA StillMined ==
    ASSUME NEW l \in Nat, NEW m \in Nat, NEW s \in Nat, NEW t \in Nat, l <= m, s <= t, l + s * SoloReward >= Threshold
    PROVE  m + t * SoloReward >= Threshold
<1>1. SoloReward \in Nat /\ Threshold \in Nat
  BY BountyAssumption
<1>2. s * SoloReward <= t * SoloReward /\ s * SoloReward \in Nat /\ t * SoloReward \in Nat
  BY <1>1
<1> QED
  BY <1>1, <1>2

\* How a step of one run changes the number of bonuses sent and not yet counted.
LEMMA UncountedChange ==
    ASSUME pc \in [Runs -> Labels], NEW r \in Runs, NEW from \in Labels, NEW to \in Labels, Step(r, from, to)
    PROVE  /\ Cardinality(Uncounted) \in Nat /\ Cardinality(Uncounted)' \in Nat
           /\ from # "incr" /\ to # "incr" => Cardinality(Uncounted)' = Cardinality(Uncounted)
           /\ from # "incr" /\ to = "incr" => Cardinality(Uncounted)' = Cardinality(Uncounted) + 1
           /\ from = "incr" /\ to # "incr" => Cardinality(Uncounted)' = Cardinality(Uncounted) - 1
<1> DEFINE U == Uncounted
           V == Uncounted'
<1>1. pc[r] = from /\ pc' \in [Runs -> Labels] /\ pc'[r] = to /\ \A q \in Runs : q # r => pc'[q] = pc[q]
  BY DEF Step
<1>2. IsFiniteSet(U) /\ IsFiniteSet(V)
  BY BountyAssumption, FS_Subset DEF Uncounted
<1>3. /\ r \in U <=> from = "incr"
      /\ r \in V <=> to = "incr"
      /\ \A q \in Runs : q # r => (q \in U <=> q \in V)
      /\ U \subseteq Runs /\ V \subseteq Runs
  BY <1>1 DEF Uncounted
<1> HIDE DEF U, V
<1>4. Cardinality(U) \in Nat /\ Cardinality(V) \in Nat
  BY <1>2, FS_CardinalityType
<1>5. ASSUME from # "incr", to # "incr" PROVE V = U
  BY <1>3, <1>5
<1>6. ASSUME from # "incr", to = "incr" PROVE V = U \cup {r} /\ r \notin U
  BY <1>3, <1>6
<1>7. ASSUME from = "incr", to # "incr" PROVE V = U \ {r} /\ r \in U
  BY <1>3, <1>7
<1>8. ASSUME from # "incr", to = "incr" PROVE Cardinality(V) = Cardinality(U) + 1
  BY <1>2, <1>6, <1>8, FS_AddElement
<1>9. ASSUME from = "incr", to # "incr" PROVE Cardinality(V) = Cardinality(U) - 1
  BY <1>2, <1>7, <1>9, FS_RemoveElement
<1> QED
  BY <1>4, <1>5, <1>8, <1>9 DEF U, V

\* No bonus is sent, counted or marked at first.
LEMMA BonusInit == Init => BonusInv
<1> SUFFICES ASSUME Init PROVE BonusInv
  OBVIOUS
<1>1. TypeOK
  BY BountyAssumption DEF Init, TypeOK, Labels, Nothing
<1>2. \A r \in Runs : Sound(r)
  BY BountyAssumption DEF Init, Sound, Nothing
<1>3. Uncounted = {}
  BY DEF Init, Uncounted
<1>4. Cardinality(Uncounted) = 0
  BY <1>3, FS_EmptySet
<1>5. Total(bonuses) \in Nat /\ count = 0
  BY <1>1, TotalNat DEF TypeOK, Init
<1> QED
  BY <1>1, <1>2, <1>4, <1>5 DEF Init, BonusInv, Nothing

\* Every step of every run keeps marks and counts behind the bonuses sent.
LEMMA BonusNext == BonusInv /\ [Next]_vars => BonusInv'
<1> SUFFICES ASSUME BonusInv, [Next]_vars PROVE BonusInv'
  OBVIOUS
<1>t. /\ pc \in [Runs -> Labels] /\ pay \in [Runs -> [Wallets -> Nat]] /\ snap \in [Runs -> [Wallets -> Nat]]
      /\ todo \in [Runs -> SUBSET Wallets] /\ cur \in [Runs -> Wallets \cup {NoWallet}]
      /\ solo \in [Wallets -> Nat] /\ lifetime \in [Wallets -> Nat]
      /\ bonuses \in [Wallets -> Nat] /\ paid \in [Wallets -> Nat]
      /\ claimed \subseteq Wallets /\ count \in Nat /\ faucet \in Nat
      /\ slips \subseteq {"beside", "low", "thrown"}
  BY DEF BonusInv, TypeOK
<1>c. \A r \in Runs : pc[r] \in {"claimed", "count", "send", "incr", "mark"} => cur[r] \in Wallets
  BY DEF BonusInv, TypeOK
<1>s. \A r \in Runs : Sound(r)
  BY DEF BonusInv
<1>e. \A w \in Wallets : bonuses[w] >= 1 => Mined(w)
  BY DEF BonusInv
<1>m. (\A w \in claimed : bonuses[w] >= 1) /\ count + Cardinality(Uncounted) <= Total(bonuses)
  BY DEF BonusInv
<1>p. Total(bonuses) \in Nat
  BY <1>t, TotalNat
\* What a wallet has mined stays mined.
<1>g. ASSUME NEW w \in Wallets, Mined(w), solo'[w] \in Nat, lifetime'[w] \in Nat, lifetime[w] <= lifetime'[w], solo[w] <= solo'[w]
      PROVE  Mined(w)'
  BY <1>t, <1>g, StillMined DEF Mined
\* What a step of run r leaves of the facts about all others.
<1>k. ASSUME NEW r \in Runs, TypeOK', Sound(r)', UNCHANGED solo,
             \A w \in Wallets : lifetime[w] <= lifetime'[w] /\ bonuses[w] <= bonuses'[w],
             \A q \in Runs : q # r => pc'[q] = pc[q] /\ snap'[q] = snap[q] /\ cur'[q] = cur[q],
             \A w \in Wallets : bonuses'[w] # bonuses[w] => Mined(w)',
             \A w \in claimed' : w \in claimed \/ bonuses'[w] >= 1,
             (count + Cardinality(Uncounted) <= Total(bonuses))'
      PROVE  BonusInv'
  <2>t. /\ lifetime' \in [Wallets -> Nat] /\ bonuses' \in [Wallets -> Nat] /\ claimed' \subseteq Wallets
        /\ \A q \in Runs : pc'[q] \in {"claimed", "count", "send", "incr", "mark"} => cur'[q] \in Wallets
    BY <1>k DEF TypeOK
  <2>1. ASSUME NEW w \in Wallets, Mined(w) PROVE Mined(w)'
    BY <1>t, <1>g, <1>k, <2>1, <2>t
  <2>2. ASSUME NEW q \in Runs PROVE Sound(q)'
    <3>1. CASE q = r
      BY <1>k, <3>1
    <3>2. CASE q # r
      <4>1. Sound(q) /\ pc'[q] = pc[q] /\ snap'[q] = snap[q] /\ cur'[q] = cur[q]
        BY <1>k, <1>s, <3>2
      <4>2. \A w \in Wallets : (snap[q][w] <= solo[w])'
        BY <1>k, <4>1 DEF Sound
      <4>3. ASSUME pc'[q] \in {"claimed", "count", "send"} PROVE Mined(cur[q])'
        BY <1>c, <2>1, <4>1, <4>3 DEF Sound, Mined
      <4>4. ASSUME pc'[q] \in {"incr", "mark"} PROVE bonuses'[cur'[q]] >= 1
        <5>1. cur[q] \in Wallets /\ bonuses[cur[q]] >= 1
          BY <1>c, <4>1, <4>4 DEF Sound
        <5> QED
          BY <1>t, <1>k, <2>t, <4>1, <5>1
      <4> QED
        BY <4>1, <4>2, <4>3, <4>4 DEF Sound, Mined
    <3> QED
      BY <3>1, <3>2
  <2>3. ASSUME NEW w \in Wallets, bonuses'[w] >= 1 PROVE Mined(w)'
    BY <1>e, <1>k, <2>1, <2>3
  <2>4. ASSUME NEW w \in claimed' PROVE bonuses'[w] >= 1
    BY <1>t, <1>k, <1>m, <2>4, <2>t
  <2> QED
    BY <1>k, <2>2, <2>3, <2>4 DEF BonusInv
\* A step of run r that moves no money and no counter.
<1>q. ASSUME NEW r \in Runs, NEW from \in Labels \ {"incr"}, NEW to \in Labels \ {"incr"}, Step(r, from, to),
             TypeOK', Sound(r)', UNCHANGED <<solo, lifetime, bonuses, claimed, count>>,
             \A q \in Runs : q # r => snap'[q] = snap[q] /\ cur'[q] = cur[q]
      PROVE  BonusInv'
  <2>1. (count + Cardinality(Uncounted) <= Total(bonuses))'
    BY <1>t, <1>m, <1>q, UncountedChange
  <2>2. \A w \in Wallets : lifetime[w] <= lifetime'[w] /\ bonuses[w] <= bonuses'[w] /\ bonuses'[w] = bonuses[w]
    BY <1>t, <1>q
  <2>3. \A q \in Runs : q # r => pc'[q] = pc[q]
    BY <1>t, <1>q DEF Step
  <2> QED
    BY <1>k, <1>q, <2>1, <2>2, <2>3
<1> USE DEF Step, redisVars, chainVars, runVars
<1>1. ASSUME NEW w \in Wallets, SoloBlock(w) PROVE BonusInv'
  <2>0. /\ solo' = [solo EXCEPT ![w] = @ + 1] /\ solo' \in [Wallets -> Nat]
        /\ UNCHANGED <<pc, pay, snap, todo, cur, lifetime, claimed, count, faucet, bonuses, paid, slips>>
    BY <1>t, <1>1 DEF SoloBlock
  <2>1. \A v \in Wallets : solo[v] <= solo'[v]
    BY <1>t, <2>0
  <2>2. TypeOK'
    BY <1>t, <1>c, <2>0 DEF TypeOK
  <2>3. ASSUME NEW v \in Wallets, Mined(v) PROVE Mined(v)'
    BY <1>t, <1>g, <2>0, <2>1, <2>3
  <2>4. ASSUME NEW r \in Runs PROVE Sound(r)'
    <3>1. Sound(r)
      BY <1>s
    <3>2. \A v \in Wallets : snap'[r][v] <= solo'[v]
      BY <1>t, <2>0, <2>1, <3>1 DEF Sound
    <3>3. pc'[r] \in {"claimed", "count", "send"} => Mined(cur[r])'
      BY <1>c, <2>0, <2>3, <3>1 DEF Sound, Mined
    <3> QED
      BY <2>0, <3>1, <3>2, <3>3 DEF Sound
  <2>5. Uncounted' = Uncounted
    BY <2>0 DEF Uncounted
  <2> QED
    BY <1>e, <1>m, <2>0, <2>2, <2>3, <2>4, <2>5 DEF BonusInv
<1>2. ASSUME NEW r \in Runs, Begin(r) PROVE BonusInv'
  <2>0. PICK p \in Payouts : pay' = [pay EXCEPT ![r] = p] /\ paid' = [w \in Wallets |-> paid[w] + p[w]]
    BY <1>2, Zenon DEF Begin
  <2>1. /\ Step(r, "idle", "engine")
        /\ UNCHANGED <<snap, todo, cur, lifetime, claimed, count, solo, faucet, bonuses>>
    BY <1>2 DEF Begin
  <2>2. slips' \subseteq {"beside", "low", "thrown"}
    BY <1>t, <1>2 DEF Begin, Slip
  <2>3. pay' \in [Runs -> [Wallets -> Nat]] /\ paid' \in [Wallets -> Nat]
    BY <1>t, <2>0, BountyAssumption
  <2>4. pc' \in [Runs -> Labels] /\ pc'[r] = "engine" /\ \A q \in Runs : q # r => pc'[q] = pc[q]
    BY <1>t, <2>1 DEF Labels
  <2>5. TypeOK'
    BY <1>t, <1>c, <2>1, <2>2, <2>3, <2>4 DEF TypeOK
  <2>6. Sound(r)'
    BY <1>s, <2>1, <2>4 DEF Sound
  <2> QED
    BY <1>q, <2>1, <2>5, <2>6, Zenon DEF Labels
<1>3. ASSUME NEW r \in Runs, Engine(r) PROVE BonusInv'
  <2>0. PICK k \in [Wallets -> 0..MaxSolo] :
            /\ \A w \in Wallets : k[w] <= solo[w]
            /\ snap' = [snap EXCEPT ![r] = k]
            /\ todo' = [todo EXCEPT ![r] = {w \in Wallets : pay[r][w] > 0 \/ k[w] > 0}]
    BY <1>3, Zenon DEF Engine
  <2>1. /\ Step(r, "engine", "next") \/ Step(r, "engine", "done")
        /\ UNCHANGED <<pay, cur, lifetime, claimed, count, solo, faucet, bonuses, paid>>
    BY <1>3, Zenon DEF Engine
  <2>2. slips' \subseteq {"beside", "low", "thrown"}
    BY <1>t, <1>3 DEF Engine, Slip
  <2>3. snap' \in [Runs -> [Wallets -> Nat]] /\ todo' \in [Runs -> SUBSET Wallets]
    <3>1. k \in [Wallets -> Nat]
      BY BountyAssumption
    <3>2. {w \in Wallets : pay[r][w] > 0 \/ k[w] > 0} \in SUBSET Wallets
      OBVIOUS
    <3> HIDE DEF Step
    <3> QED
      BY <1>t, <2>0, <3>1, <3>2
  <2>4. pc' \in [Runs -> Labels] /\ pc'[r] \in {"next", "done"} /\ \A q \in Runs : q # r => pc'[q] = pc[q]
    BY <1>t, <2>1, Zenon DEF Labels
  <2>5. TypeOK'
    BY <1>t, <1>c, <2>1, <2>2, <2>3, <2>4 DEF TypeOK
  <2>6. Sound(r)'
    BY <1>t, <2>0, <2>1, <2>4 DEF Sound
  <2>7. \A q \in Runs : q # r => snap'[q] = snap[q] /\ cur'[q] = cur[q]
    BY <1>t, <2>0, <2>1
  <2> QED
    BY <1>q, <2>1, <2>5, <2>6, <2>7 DEF Labels
<1>4. ASSUME NEW r \in Runs, Finish(r) \/ ReadClaimed(r) \/ ReadCount(r) \/ Throws(r) PROVE BonusInv'
  <2>0. UNCHANGED <<pay, snap, todo, cur, lifetime, claimed, count, solo, faucet, bonuses, paid>>
    BY <1>4, Zenon DEF Finish, ReadClaimed, ReadCount, Throws
  <2>1. PICK from \in Labels, to \in Labels \ {"incr"} :
            Step(r, from, to) /\ (to \in {"next", "done"} \/ (from \in {"claimed", "count"} /\ to \in {"count", "send"}))
    BY <1>4, Zenon DEF Finish, ReadClaimed, ReadCount, Throws, Labels
  <2>2. slips' \subseteq {"beside", "low", "thrown"}
    BY <1>t, <1>4, Zenon DEF Finish, ReadClaimed, ReadCount, Throws, Slip
  <2>4. pc' \in [Runs -> Labels] /\ pc[r] = from /\ pc'[r] = to /\ \A q \in Runs : q # r => pc'[q] = pc[q]
    BY <1>t, <2>1 DEF Labels
  <2>5. TypeOK'
    <3>1. \A q \in Runs : pc'[q] \in {"claimed", "count", "send", "incr", "mark"} => cur'[q] \in Wallets
      BY <1>c, <2>0, <2>1, <2>4
    <3> QED
      BY <1>t, <2>0, <2>2, <2>4, <3>1 DEF TypeOK
  <2>6. Sound(r)'
    <3>1. Sound(r)
      BY <1>s
    <3> QED
      BY <2>0, <2>1, <2>4, <3>1 DEF Sound, Mined
  <2>7. (count + Cardinality(Uncounted) <= Total(bonuses))'
    <3>1. Cardinality(Uncounted) \in Nat /\ Cardinality(Uncounted)' \in Nat /\ Cardinality(Uncounted)' <= Cardinality(Uncounted)
      <4> HIDE DEF Step
      <4>1. CASE from = "incr"
        BY <1>t, <2>1, <4>1, UncountedChange
      <4>2. CASE from # "incr"
        BY <1>t, <2>1, <4>2, UncountedChange
      <4> QED
        BY <4>1, <4>2
    <3>2. count' = count /\ Total(bonuses)' = Total(bonuses)
      BY <2>0
    <3> QED
      BY <1>t, <1>m, <1>p, <3>1, <3>2
  <2>8. \A w \in Wallets : lifetime[w] <= lifetime'[w] /\ bonuses[w] <= bonuses'[w] /\ bonuses'[w] = bonuses[w]
    BY <1>t, <2>0
  <2> QED
    BY <1>k, <2>0, <2>4, <2>5, <2>6, <2>7, <2>8
<1>5. ASSUME NEW r \in Runs, NEW w \in Wallets, Credit(r, w) PROVE BonusInv'
  <2> DEFINE l == lifetime[w] + pay[r][w]
  <2>0. /\ pc[r] = "next" /\ pc' = [pc EXCEPT ![r] = IF l + snap[r][w] * SoloReward >= Threshold THEN "claimed" ELSE "next"]
        /\ lifetime' = [lifetime EXCEPT ![w] = l] /\ w \in todo[r]
        /\ todo' = [todo EXCEPT ![r] = @ \ {w}] /\ cur' = [cur EXCEPT ![r] = w]
        /\ UNCHANGED <<pay, snap, claimed, count, solo, faucet, bonuses, paid, slips>>
    BY <1>5 DEF Credit
  <2>1. l \in Nat /\ l >= lifetime[w] /\ snap[r][w] \in Nat /\ solo[w] \in Nat
    BY <1>t
  <2>2. \A v \in Wallets : lifetime[v] <= lifetime'[v] /\ bonuses[v] <= bonuses'[v] /\ bonuses'[v] = bonuses[v]
    BY <1>t, <2>0, <2>1
  <2>3. lifetime' \in [Wallets -> Nat] /\ cur' \in [Runs -> Wallets \cup {NoWallet}] /\ todo' \in [Runs -> SUBSET Wallets]
    BY <1>t, <2>0, <2>1
  <2>4. /\ pc' \in [Runs -> Labels] /\ pc'[r] \in {"claimed", "next"}
        /\ pc'[r] = "claimed" => l + snap[r][w] * SoloReward >= Threshold
        /\ \A q \in Runs : q # r => pc'[q] = pc[q] /\ cur'[q] = cur[q]
        /\ cur'[r] = w /\ lifetime'[w] = l
    BY <1>t, <2>0 DEF Labels
  <2> HIDE DEF l
  <2>5. TypeOK'
    <3>1. \A q \in Runs : pc'[q] \in {"claimed", "count", "send", "incr", "mark"} => cur'[q] \in Wallets
      BY <1>c, <2>4
    <3> QED
      BY <1>t, <2>0, <2>3, <2>4, <3>1 DEF TypeOK
  <2>6. Sound(r)'
    <3>1. Sound(r)
      BY <1>s
    <3>2. pc'[r] = "claimed" => Mined(w)'
      <4>1. snap[r][w] <= solo[w]
        BY <3>1 DEF Sound
      <4>2. pc'[r] = "claimed" => l + solo[w] * SoloReward >= Threshold
        BY <2>1, <2>4, <4>1, StillMined
      <4> QED
        BY <2>0, <2>4, <4>2 DEF Mined
    <3>3. \A v \in Wallets : (snap[r][v] <= solo[v])'
      BY <2>0, <3>1 DEF Sound
    <3> QED
      BY <2>4, <3>2, <3>3 DEF Sound, Mined
  <2>7. (count + Cardinality(Uncounted) <= Total(bonuses))'
    <3>1. Step(r, "next", "claimed") \/ Step(r, "next", "next")
      BY <2>0, Zenon
    <3> QED
      BY <1>t, <1>m, <1>p, <2>0, <3>1, UncountedChange, Zenon DEF Labels
  <2> QED
    BY <1>k, <2>0, <2>2, <2>4, <2>5, <2>6, <2>7
<1>6. ASSUME NEW r \in Runs, SendBonus(r) PROVE BonusInv'
  <2>0. pc[r] = "send" /\ UNCHANGED <<pay, snap, todo, cur, lifetime, claimed, count, solo, paid>>
    BY <1>6 DEF SendBonus
  <2>1. \/ /\ Step(r, "send", "incr") \/ Step(r, "send", "done")
           /\ faucet' \in Nat /\ bonuses' = [bonuses EXCEPT ![cur[r]] = @ + 1]
        \/ Step(r, "send", "done") /\ UNCHANGED <<faucet, bonuses>>
    BY <1>t, <1>6 DEF SendBonus
  <2>2. cur[r] \in Wallets /\ Sound(r) /\ Mined(cur[r])
    BY <1>c, <1>s, <2>0 DEF Sound
  <2>3. slips' \subseteq {"beside", "low", "thrown"}
    BY <1>t, <1>6 DEF SendBonus, Slip
  <2>4. pc' \in [Runs -> Labels] /\ pc'[r] \in {"incr", "done"} /\ \A q \in Runs : q # r => pc'[q] = pc[q]
    BY <1>t, <2>1 DEF Labels
  <2>5. /\ bonuses' \in [Wallets -> Nat] /\ \A v \in Wallets : bonuses[v] <= bonuses'[v]
        /\ \A v \in Wallets : v # cur[r] => bonuses'[v] = bonuses[v]
        /\ pc'[r] = "incr" => bonuses'[cur[r]] >= 1
    <3>1. CASE bonuses' = [bonuses EXCEPT ![cur[r]] = @ + 1]
      BY <1>t, <2>2, <3>1
    <3>2. CASE UNCHANGED bonuses /\ Step(r, "send", "done")
      BY <1>t, <3>2
    <3> QED
      BY <2>1, <3>1, <3>2
  <2>6. TypeOK'
    <3>1. \A q \in Runs : pc'[q] \in {"claimed", "count", "send", "incr", "mark"} => cur'[q] \in Wallets
      BY <1>c, <2>0, <2>2, <2>4
    <3>2. faucet' \in Nat
      BY <1>t, <2>1
    <3> QED
      BY <1>t, <2>0, <2>3, <2>4, <2>5, <3>1, <3>2 DEF TypeOK
  <2>7. \A v \in Wallets : bonuses'[v] # bonuses[v] => Mined(v)'
    BY <2>0, <2>2, <2>5 DEF Mined
  <2>8. Sound(r)'
    BY <2>0, <2>2, <2>4, <2>5 DEF Sound
  <2>9. (count + Cardinality(Uncounted) <= Total(bonuses))'
    <3>1. /\ Cardinality(Uncounted) \in Nat /\ Cardinality(Uncounted)' \in Nat
          /\ Step(r, "send", "incr") => Cardinality(Uncounted)' = Cardinality(Uncounted) + 1
          /\ Step(r, "send", "done") => Cardinality(Uncounted)' = Cardinality(Uncounted)
      BY <1>t, <2>1, UncountedChange DEF Labels
    <3>2. bonuses' = [bonuses EXCEPT ![cur[r]] = @ + 1] => Total(bonuses)' = Total(bonuses) + 1
      BY <1>t, <2>2, BonusSent, Zenon
    <3>3. bonuses' = bonuses => Total(bonuses)' = Total(bonuses)
      OBVIOUS
    <3> HIDE DEF Step
    <3> QED
      BY <1>t, <1>m, <1>p, <2>0, <2>1, <3>1, <3>2, <3>3
  <2>10. \A v \in Wallets : lifetime[v] <= lifetime'[v]
    BY <1>t, <2>0
  <2> QED
    BY <1>k, <2>0, <2>4, <2>5, <2>6, <2>7, <2>8, <2>9, <2>10
<1>7. ASSUME NEW r \in Runs, Incr(r) PROVE BonusInv'
  <2>0. /\ Step(r, "incr", "mark") /\ count' = count + 1
        /\ UNCHANGED <<pay, snap, todo, cur, lifetime, claimed, solo, faucet, bonuses, paid, slips>>
    BY <1>7 DEF Incr
  <2>1. pc[r] = "incr" /\ pc' \in [Runs -> Labels] /\ pc'[r] = "mark" /\ \A q \in Runs : q # r => pc'[q] = pc[q]
    BY <1>t, <2>0 DEF Labels
  <2>2. TypeOK'
    <3>1. \A q \in Runs : pc'[q] \in {"claimed", "count", "send", "incr", "mark"} => cur'[q] \in Wallets
      BY <1>c, <2>0, <2>1
    <3> QED
      BY <1>t, <2>0, <2>1, <3>1 DEF TypeOK
  <2>3. Sound(r)'
    <3>1. Sound(r)
      BY <1>s
    <3> QED
      BY <2>0, <2>1, <3>1 DEF Sound
  <2>4. (count + Cardinality(Uncounted) <= Total(bonuses))'
    <3>1. Cardinality(Uncounted) \in Nat /\ Cardinality(Uncounted)' = Cardinality(Uncounted) - 1
      BY <1>t, <2>0, UncountedChange, Zenon DEF Labels
    <3>2. Total(bonuses)' = Total(bonuses)
      BY <2>0
    <3> QED
      BY <1>t, <1>m, <1>p, <2>0, <3>1, <3>2
  <2>5. \A w \in Wallets : lifetime[w] <= lifetime'[w] /\ bonuses[w] <= bonuses'[w] /\ bonuses'[w] = bonuses[w]
    BY <1>t, <2>0
  <2> QED
    BY <1>k, <2>0, <2>1, <2>2, <2>3, <2>4, <2>5, Zenon
<1>8. ASSUME NEW r \in Runs, Mark(r) PROVE BonusInv'
  <2>0. /\ Step(r, "mark", "next") /\ claimed' = claimed \cup {cur[r]}
        /\ UNCHANGED <<pay, snap, todo, cur, lifetime, count, solo, faucet, bonuses, paid, slips>>
    BY <1>8, Zenon DEF Mark
  <2>1. pc[r] = "mark" /\ pc' \in [Runs -> Labels] /\ pc'[r] = "next" /\ \A q \in Runs : q # r => pc'[q] = pc[q]
    BY <1>t, <2>0 DEF Labels
  <2>2. Sound(r) /\ cur[r] \in Wallets /\ bonuses[cur[r]] >= 1
    BY <1>c, <1>s, <2>1 DEF Sound
  <2>3. TypeOK'
    <3>1. \A q \in Runs : pc'[q] \in {"claimed", "count", "send", "incr", "mark"} => cur'[q] \in Wallets
      BY <1>c, <2>0, <2>1
    <3> QED
      BY <1>t, <2>0, <2>1, <2>2, <3>1 DEF TypeOK
  <2>4. Sound(r)'
    BY <2>0, <2>1, <2>2 DEF Sound
  <2>5. (count + Cardinality(Uncounted) <= Total(bonuses))'
    <3>1. Cardinality(Uncounted)' = Cardinality(Uncounted)
      BY <1>t, <2>0, UncountedChange, Zenon DEF Labels
    <3> QED
      BY <1>m, <2>0, <3>1
  <2>6. \A w \in Wallets : lifetime[w] <= lifetime'[w] /\ bonuses[w] <= bonuses'[w] /\ bonuses'[w] = bonuses[w]
    BY <1>t, <2>0
  <2>7. \A w \in claimed' : w \in claimed \/ bonuses'[w] >= 1
    BY <2>0, <2>2
  <2> QED
    BY <1>k, <2>0, <2>1, <2>3, <2>4, <2>5, <2>6, <2>7
<1>9. CASE UNCHANGED vars
  <2>1. TypeOK' /\ Uncounted' = Uncounted
    BY <1>t, <1>c, <1>9 DEF vars, TypeOK, Uncounted
  <2> QED
    BY <1>s, <1>e, <1>m, <1>9, <2>1, Zenon DEF vars, BonusInv, Sound, Mined
<1> QED
  BY <1>1, <1>2, <1>3, <1>4, <1>5, <1>6, <1>7, <1>8, <1>9 DEF Next, Run

\* What a run, and all runs together, have still to add to a lifetime total.
LEMMA DueNat ==
    ASSUME TypeOK, NEW w \in Wallets
    PROVE  /\ \A r \in Runs : Due(r, w) \in Nat
           /\ Pending(w) \in Nat
<1> DEFINE f == [r \in Runs |-> Due(r, w)]
<1>1. \A r \in Runs : Due(r, w) \in Nat
  BY DEF TypeOK, Due
<1>2. \A r \in Runs : f[r] \in Nat
  BY <1>1
<1> HIDE DEF f
<1>3. SumFunctionOnSet(f, Runs) \in Nat
  BY <1>2, BountyAssumption, SumNat
<1> QED
  BY <1>1, <1>3 DEF f, Pending

\* One run changes what it has still to add.
LEMMA PendingChange ==
    ASSUME TypeOK, TypeOK', NEW w \in Wallets, NEW r \in Runs, \A q \in Runs : q # r => Due(q, w)' = Due(q, w)
    PROVE  Pending(w)' = Pending(w) - Due(r, w) + Due(r, w)'
<1> DEFINE f == [q \in Runs |-> Due(q, w)]
           g == [q \in Runs |-> Due(q, w)']
<1>1. \A q \in Runs : Due(q, w) \in Nat
  BY DueNat
<1>2. \A q \in Runs : Due(q, w)' \in Nat
  BY DEF TypeOK, Due
<1>3. /\ \A q \in Runs : f[q] \in Nat /\ g[q] \in Nat
      /\ \A q \in Runs : q # r => g[q] = f[q]
      /\ f[r] = Due(r, w) /\ g[r] = Due(r, w)'
  BY <1>1, <1>2
<1>4. Pending(w) = SumFunctionOnSet(f, Runs) /\ Pending(w)' = SumFunctionOnSet(g, Runs)
  BY DEF Pending
<1> HIDE DEF f, g
<1>5. IsFiniteSet(Runs)
  BY BountyAssumption
<1>6. SumFunctionOnSet(g, Runs) = SumFunctionOnSet(f, Runs) - f[r] + g[r]
  <2> HIDE <1>1, <1>2
  <2> QED
    BY <1>3, <1>5, SumChange
<1> QED
  BY <1>3, <1>4, <1>6

\* Nothing is paid and nothing is due.
LEMMA LifetimeInit == Init => LifetimeInv
<1> SUFFICES ASSUME Init, NEW w \in Wallets PROVE lifetime[w] + Pending(w) = paid[w] /\ Pending(w) \in Nat
  BY DEF Init, Nothing, LifetimeInv
<1>1. SumFunctionOnSet([r \in Runs |-> Due(r, w)], Runs) = 0
  <2> DEFINE f == [r \in Runs |-> Due(r, w)]
  <2>1. \A r \in Runs : f[r] = 0
    BY DEF Init, Due
  <2> HIDE DEF f
  <2>2. SumFunctionOnSet(f, Runs) = 0
    BY <2>1, BountyAssumption, SumZero
  <2> QED
    BY <2>2 DEF f
<1> QED
  BY <1>1 DEF Init, Nothing, Pending

\* What is paid moves from due to the lifetime total, or is lost with a slip.
LEMMA LifetimeNext == BonusInv /\ BonusInv' /\ LifetimeInv /\ [Next]_vars => LifetimeInv'
<1> SUFFICES ASSUME BonusInv, BonusInv', LifetimeInv, [Next]_vars, NEW w \in Wallets
             PROVE  /\ lifetime'[w] + Pending(w)' <= paid'[w]
                    /\ slips' \subseteq {"beside"} => lifetime'[w] + Pending(w)' = paid'[w]
  BY DEF LifetimeInv
<1> DEFINE Held == /\ lifetime'[w] + Pending(w)' <= paid'[w]
                   /\ slips' \subseteq {"beside"} => lifetime'[w] + Pending(w)' = paid'[w]
<1> SUFFICES Held
  OBVIOUS
<1>0. TypeOK /\ TypeOK'
  BY DEF BonusInv
<1>t. /\ lifetime \in [Wallets -> Nat] /\ paid \in [Wallets -> Nat] /\ pay \in [Runs -> [Wallets -> Nat]]
      /\ todo \in [Runs -> SUBSET Wallets] /\ pc \in [Runs -> Labels]
  BY <1>0 DEF TypeOK
<1>n. Pending(w) \in Nat /\ \A r \in Runs : Due(r, w) \in Nat
  BY <1>0, DueNat
<1>h. lifetime[w] + Pending(w) <= paid[w] /\ (slips \subseteq {"beside"} => lifetime[w] + Pending(w) = paid[w])
  BY DEF LifetimeInv
<1>d. ASSUME NEW r \in Runs,
             \A q \in Runs : q # r => pc'[q] = pc[q] /\ pay'[q] = pay[q] /\ todo'[q] = todo[q]
      PROVE  Pending(w)' = Pending(w) - Due(r, w) + Due(r, w)'
  <2>1. \A q \in Runs : q # r => Due(q, w)' = Due(q, w)
    BY <1>d DEF Due
  <2> QED
    BY <1>0, <2>1, PendingChange
\* A run that gives up what it had still to add.
<1>g. ASSUME NEW r \in Runs, \A q \in Runs : q # r => pc'[q] = pc[q] /\ pay'[q] = pay[q] /\ todo'[q] = todo[q],
             Due(r, w)' \in Nat, Due(r, w)' <= Due(r, w), UNCHANGED <<lifetime, paid>>,
             slips' \subseteq {"beside"} => slips \subseteq {"beside"} /\ Due(r, w)' = Due(r, w)
      PROVE  Held
  <2>1. Pending(w)' = Pending(w) - Due(r, w) + Due(r, w)'
    BY <1>d, <1>g
  <2> QED
    BY <1>t, <1>n, <1>h, <1>g, <2>1
<1> HIDE DEF Held
<1> USE DEF Step, redisVars, chainVars, runVars
<1>1. CASE UNCHANGED vars \/ \E v \in Wallets : SoloBlock(v)
  <2>1. UNCHANGED <<pc, pay, todo, lifetime, paid, slips>>
    BY <1>1 DEF vars, SoloBlock
  <2>2. Pending(w)' = Pending(w)
    BY <2>1 DEF Pending, Due
  <2> QED
    BY <1>h, <2>1, <2>2 DEF Held
<1>2. ASSUME NEW r \in Runs, Begin(r) PROVE Held
  <2>0. PICK p \in Payouts : pay' = [pay EXCEPT ![r] = p] /\ paid' = [v \in Wallets |-> paid[v] + p[v]]
    BY <1>2, Zenon DEF Begin
  <2>1. Step(r, "idle", "engine") /\ UNCHANGED <<todo, lifetime>>
    BY <1>2, Zenon DEF Begin
  <2>2. slips' \subseteq {"beside"} => slips \subseteq {"beside"}
    BY <1>2 DEF Begin, Slip
  <2>3. p[w] \in Nat
    BY BountyAssumption
  <2>4. Due(r, w) = 0 /\ Due(r, w)' = p[w] /\ paid'[w] = paid[w] + p[w]
    BY <1>t, <2>0, <2>1 DEF Due
  <2>5. Pending(w)' = Pending(w) - Due(r, w) + Due(r, w)'
    BY <1>t, <1>d, <2>0, <2>1
  <2> QED
    BY <1>t, <1>n, <1>h, <2>1, <2>2, <2>3, <2>4, <2>5 DEF Held
<1>3. ASSUME NEW r \in Runs, Engine(r) PROVE Held
  <2>0. PICK k \in [Wallets -> 0..MaxSolo] :
            todo' = [todo EXCEPT ![r] = {v \in Wallets : pay[r][v] > 0 \/ k[v] > 0}]
    BY <1>3, Zenon DEF Engine
  <2>1. /\ pc[r] = "engine" /\ pc' = [pc EXCEPT ![r] = IF faucet >= 1 THEN "next" ELSE "done"]
        /\ UNCHANGED <<pay, lifetime, paid>> /\ slips' = IF faucet < 1 THEN slips \cup {"low"} ELSE slips
    BY <1>3 DEF Engine, Slip
  <2>2. faucet \in Nat
    BY <1>0 DEF TypeOK
  <2>3. Due(r, w) = pay[r][w] /\ pay[r][w] \in Nat
    BY <1>t, <2>1 DEF Due
  <2>o. \A q \in Runs : q # r => pc'[q] = pc[q] /\ pay'[q] = pay[q] /\ todo'[q] = todo[q]
    BY <1>t, <2>0, <2>1
  <2>4. CASE faucet >= 1
    <3>1. Due(r, w)' = pay[r][w]
      BY <1>t, <2>0, <2>1, <2>3, <2>4 DEF Due
    <3>2. slips' = slips
      BY <2>1, <2>2, <2>4
    <3>3. Due(r, w)' \in Nat /\ Due(r, w)' <= Due(r, w) /\ Due(r, w)' = Due(r, w)
      BY <2>3, <3>1
    <3> QED
      BY <1>g, <2>o, <2>1, <3>2, <3>3
  <2>5. CASE faucet < 1
    <3>1. Due(r, w)' = 0
      BY <1>t, <2>1, <2>2, <2>5 DEF Due
    <3>2. ~(slips' \subseteq {"beside"})
      BY <2>1, <2>5
    <3> QED
      <4>1. Due(r, w)' \in Nat /\ Due(r, w)' <= Due(r, w)
        BY <2>3, <3>1
      <4> QED
        BY <1>g, <2>o, <2>1, <3>2, <4>1
  <2> QED
    BY <2>2, <2>4, <2>5
<1>4. ASSUME NEW r \in Runs, NEW v \in Wallets, Credit(r, v) PROVE Held
  <2>0. /\ pc[r] = "next" /\ (pc' = [pc EXCEPT ![r] = "claimed"] \/ pc' = [pc EXCEPT ![r] = "next"])
        /\ lifetime' = [lifetime EXCEPT ![v] = lifetime[v] + pay[r][v]] /\ v \in todo[r]
        /\ todo' = [todo EXCEPT ![r] = @ \ {v}] /\ UNCHANGED <<pay, paid, slips>>
    BY <1>4, Zenon DEF Credit
  <2>1. Pending(w)' = Pending(w) - Due(r, w) + Due(r, w)'
    BY <1>t, <1>d, <2>0
  <2>2. pay[r][w] \in Nat /\ pay'[r] = pay[r]
    BY <1>t, <2>0
  <2>3. CASE v = w
    <3>1. Due(r, w) = pay[r][w] /\ Due(r, w)' = 0 /\ lifetime'[w] = lifetime[w] + pay[r][w]
      BY <1>t, <2>0, <2>2, <2>3 DEF Due
    <3> QED
      BY <1>t, <1>n, <1>h, <2>0, <2>1, <2>2, <3>1 DEF Held
  <2>4. CASE v # w
    <3>1. Due(r, w)' = Due(r, w) /\ lifetime'[w] = lifetime[w]
      BY <1>t, <2>0, <2>2, <2>4 DEF Due
    <3> QED
      BY <1>t, <1>n, <1>h, <2>0, <2>1, <2>2, <3>1 DEF Held
  <2> QED
    BY <2>3, <2>4
\* The other steps: the run goes on, ends with nothing left, or is thrown out.
<1>5. ASSUME NEW r \in Runs, Finish(r) \/ ReadClaimed(r) \/ ReadCount(r) \/ SendBonus(r) \/ Incr(r) \/ Mark(r) \/ Throws(r)
      PROVE  Held
  <2>0. UNCHANGED <<pay, todo, lifetime, paid>>
    BY <1>5, Zenon DEF Finish, ReadClaimed, ReadCount, SendBonus, Incr, Mark, Throws
  <2>1. PICK from \in Labels \ {"idle", "done"}, to \in Labels \ {"idle", "engine"} : Step(r, from, to)
    BY <1>5, Zenon DEF Finish, ReadClaimed, ReadCount, SendBonus, Incr, Mark, Throws, Labels
  <2>2. slips' \subseteq {"beside"} => /\ slips \subseteq {"beside"} /\ from # "engine"
                                       /\ to = "done" => todo[r] = {}
    <3>1. CASE Finish(r)
      BY <1>t, <2>1, <3>1 DEF Finish
    <3>2. CASE ReadClaimed(r) \/ ReadCount(r) \/ Incr(r) \/ Mark(r)
      BY <1>t, <2>1, <3>2, Zenon DEF ReadClaimed, ReadCount, Incr, Mark
    <3>3. CASE SendBonus(r)
      BY <1>t, <2>1, <3>3, Zenon DEF SendBonus, Slip
    <3>4. CASE Throws(r)
      BY <3>4 DEF Throws, Slip
    <3> QED
      BY <1>5, <3>1, <3>2, <3>3, <3>4
  <2>3. pay[r][w] \in Nat /\ pay'[r] = pay[r] /\ todo'[r] = todo[r] /\ pc[r] = from /\ pc'[r] = to
    BY <1>t, <2>0, <2>1
  <2>4. Due(r, w)' \in Nat /\ Due(r, w)' <= Due(r, w)
    BY <2>1, <2>3 DEF Due
  <2>5. slips' \subseteq {"beside"} => Due(r, w)' = Due(r, w)
    BY <2>1, <2>2, <2>3 DEF Due
  <2> QED
    BY <1>t, <1>g, <2>0, <2>1, <2>2, <2>4, <2>5
<1> QED
  BY <1>1, <1>2, <1>3, <1>4, <1>5 DEF Next, Run

\* No bonus is sent, and no run is under way.
LEMMA LimitedInit == Init => LimitedInv
<1> SUFFICES ASSUME Init PROVE LimitedInv
  OBVIOUS
<1>1. Total(bonuses) = 0
  BY BountyAssumption, SumZero DEF Init, Nothing, Total
<1>2. Uncounted = {}
  BY DEF Init, Uncounted
<1>3. Cardinality(Uncounted) = 0
  BY <1>2, FS_EmptySet
<1>4. Cap \in Nat
  BY BountyAssumption
<1> QED
  BY <1>1, <1>3, <1>4 DEF Init, LimitedInv, Nothing

\* A run that is the only one under way finds the claim and the count as it
\* read them.
LEMMA LimitedNext == BonusInv /\ LimitedInv /\ [Next]_vars => LimitedInv'
<1> DEFINE Busy(r) == pc[r] \notin {"idle", "done"}
           InHand(w) == \E r \in Runs : pc[r] \in {"incr", "mark"} /\ cur[r] = w
           OneBusy == \A r, q \in Runs : Busy(r) /\ Busy(q) => r = q
           Fresh(r) == (pc[r] \in {"count", "send"} => cur[r] \notin claimed) /\ (pc[r] = "send" => count < Cap)
           Once(w) == bonuses[w] = 0 \/ (bonuses[w] = 1 /\ (w \in claimed \/ InHand(w)))
           Counted == Total(bonuses) = count + Cardinality(Uncounted) /\ Total(bonuses) <= Cap
           All == OneBusy /\ (\A r \in Runs : Fresh(r)) /\ (\A w \in Wallets : Once(w)) /\ Counted
<1>l. LimitedInv <=> (slips \subseteq {"low"} => All)
  BY DEF LimitedInv
<1>m. LimitedInv' <=> (slips' \subseteq {"low"} => All')
  BY DEF LimitedInv
<1> SUFFICES ASSUME BonusInv, [Next]_vars, slips' \subseteq {"low"}, slips \subseteq {"low"} => All PROVE All'
  BY <1>l, <1>m
<1>t. /\ pc \in [Runs -> Labels] /\ cur \in [Runs -> Wallets \cup {NoWallet}]
      /\ bonuses \in [Wallets -> Nat] /\ claimed \subseteq Wallets /\ count \in Nat
  BY DEF BonusInv, TypeOK
<1>c. \A r \in Runs : pc[r] \in {"claimed", "count", "send", "incr", "mark"} => cur[r] \in Wallets
  BY DEF BonusInv, TypeOK
<1>p. Total(bonuses) \in Nat /\ Cap \in Nat
  BY <1>t, TotalNat, BountyAssumption
<1> USE DEF Step, redisVars, chainVars, runVars
<1>s. slips \subseteq slips'
  <2>1. ASSUME NEW k, NEW b, Slip(k, b) PROVE slips \subseteq slips'
    BY <2>1 DEF Slip
  <2>2. CASE UNCHANGED vars \/ (\E v \in Wallets : SoloBlock(v))
    BY <2>2 DEF vars, SoloBlock
  <2>3. ASSUME NEW r \in Runs, Begin(r) \/ Engine(r) \/ SendBonus(r) \/ Throws(r) PROVE slips \subseteq slips'
    BY <2>1, <2>3, Zenon DEF Begin, Engine, SendBonus, Throws
  <2>4. ASSUME NEW r \in Runs, Finish(r) \/ (\E w \in Wallets : Credit(r, w)) \/ ReadClaimed(r) \/ ReadCount(r) \/ Incr(r) \/ Mark(r)
        PROVE slips \subseteq slips'
    BY <2>4 DEF Finish, Credit, ReadClaimed, ReadCount, Incr, Mark
  <2> QED
    BY <2>2, <2>3, <2>4, Zenon DEF Next, Run
<1>a. All
  BY <1>s
<1>1. CASE UNCHANGED vars \/ \E v \in Wallets : SoloBlock(v)
  <2>1. UNCHANGED <<pc, cur, claimed, count, bonuses>>
    BY <1>1 DEF vars, SoloBlock
  <2>2. Uncounted' = Uncounted
    BY <2>1 DEF Uncounted
  <2> QED
    BY <1>a, <2>1, <2>2
\* A step of the one run under way, from one label to another.
<1>k. ASSUME NEW r \in Runs, NEW from \in Labels \ {"done"}, NEW to \in Labels, Step(r, from, to),
             from = "idle" => \A q \in Runs : ~Busy(q)
      PROVE  /\ OneBusy' /\ pc[r] = from /\ pc'[r] = to
             /\ \A q \in Runs : q # r => pc[q] \in {"idle", "done"} /\ pc'[q] \in {"idle", "done"}
  <2>1. pc[r] = from /\ pc'[r] = to /\ \A q \in Runs : q # r => pc'[q] = pc[q]
    BY <1>t, <1>k
  <2>2. \A q \in Runs : q # r => ~Busy(q)
    BY <1>a, <1>k, <2>1
  <2> QED
    BY <2>1, <2>2
\* Of these, the ones that neither send, count nor mark.
<1>q. ASSUME NEW r \in Runs, NEW from \in Labels \ {"done", "incr", "mark"}, NEW to \in Labels \ {"incr", "mark"},
             Step(r, from, to), from = "idle" => \A q \in Runs : ~Busy(q),
             Fresh(r)', UNCHANGED <<bonuses, claimed, count>>
      PROVE  All'
  <2>1. /\ OneBusy' /\ pc[r] = from /\ pc'[r] = to
        /\ \A q \in Runs : q # r => pc[q] \in {"idle", "done"} /\ pc'[q] \in {"idle", "done"}
    <3> HIDE DEF Busy, OneBusy, Step
    <3> QED
      BY <1>k, <1>q
  <2>2. \A q \in Runs : Fresh(q)'
    BY <1>q, <2>1
  <2>3. \A w \in Wallets : Once(w)'
    <3>1. \A w \in Wallets : ~InHand(w)
      BY <1>q, <2>1
    <3>2. \A w \in Wallets : Once(w)
      BY <1>a
    <3> QED
      BY <1>q, <3>1, <3>2
  <2>4. Cardinality(Uncounted)' = Cardinality(Uncounted)
    BY <1>t, <1>q, UncountedChange, Zenon
  <2>5. Counted
    BY <1>a
  <2>6. Counted'
    BY <1>q, <2>4, <2>5
  <2> HIDE DEF OneBusy, Fresh, Once, Counted
  <2> QED
    BY <2>1, <2>2, <2>3, <2>6
<1>2. ASSUME NEW r \in Runs, Begin(r) PROVE All'
  <2>1. Step(r, "idle", "engine") /\ UNCHANGED <<cur, claimed, count, bonuses>>
    BY <1>2 DEF Begin
  <2>2. \A q \in Runs : ~Busy(q)
    BY <1>2 DEF Begin, Slip
  <2>3. Fresh(r)'
    BY <1>t, <2>1
  <2> HIDE DEF All, Busy, Fresh
  <2> QED
    BY <1>q, <2>1, <2>2, <2>3, Zenon DEF Labels
<1>3. ASSUME NEW r \in Runs, Engine(r) \/ Finish(r) \/ (\E w \in Wallets : Credit(r, w)) PROVE All'
  <2>1. UNCHANGED <<claimed, count, bonuses>>
    BY <1>3 DEF Engine, Finish, Credit
  <2>2. PICK from \in {"engine", "next"}, to \in {"next", "done", "claimed"} : Step(r, from, to)
    BY <1>3 DEF Engine, Finish, Credit
  <2>3. Fresh(r)'
    BY <1>t, <2>2
  <2> HIDE DEF All, Busy, Fresh
  <2> QED
    BY <1>q, <2>1, <2>2, <2>3, Zenon DEF Labels
<1>4. ASSUME NEW r \in Runs, ReadClaimed(r) \/ ReadCount(r) PROVE All'
  <2>1. UNCHANGED <<cur, claimed, count, bonuses>>
    BY <1>4 DEF ReadClaimed, ReadCount
  <2>2. PICK from \in {"claimed", "count"}, to \in {"next", "count", "send"} : Step(r, from, to)
    BY <1>4 DEF ReadClaimed, ReadCount
  <2>3. Fresh(r)'
    <3>1. Fresh(r)
      BY <1>a
    <3>2. CASE ReadClaimed(r)
      BY <1>t, <2>1, <3>2 DEF ReadClaimed
    <3>3. CASE ReadCount(r)
      BY <1>t, <2>1, <3>1, <3>3 DEF ReadCount
    <3> QED
      BY <1>4, <3>2, <3>3
  <2> HIDE DEF All, Busy, Fresh
  <2> QED
    BY <1>q, <2>1, <2>2, <2>3, Zenon DEF Labels
<1>5. ASSUME NEW r \in Runs, SendBonus(r) PROVE All'
  <2>1. /\ Step(r, "send", "incr") /\ bonuses' = [bonuses EXCEPT ![cur[r]] = @ + 1]
        /\ UNCHANGED <<cur, claimed, count>>
    <3>1. pc'[r] # "done"
      BY <1>5 DEF SendBonus, Slip
    <3>2. ~Step(r, "send", "done")
      BY <1>t, <3>1
    <3> HIDE DEF Step
    <3> QED
      BY <1>5, <3>2 DEF SendBonus
  <2>2. /\ OneBusy' /\ pc[r] = "send" /\ pc'[r] = "incr"
        /\ \A q \in Runs : q # r => pc[q] \in {"idle", "done"} /\ pc'[q] \in {"idle", "done"}
    <3> HIDE DEF Busy, OneBusy
    <3> QED
      BY <1>k, <2>1, Zenon DEF Labels
  <2>3. cur[r] \in Wallets /\ cur[r] \notin claimed /\ count < Cap
    BY <1>a, <1>c, <2>2, Zenon
  <2>4. \A q \in Runs : Fresh(q)'
    BY <2>2
  <2>5. ASSUME NEW w \in Wallets PROVE Once(w)'
    <3>1. Once(w) /\ ~InHand(w)
      BY <1>a, <2>2
    <3>2. CASE w = cur[r]
      <4>1. bonuses'[w] = 1
        BY <1>t, <2>1, <2>3, <3>1, <3>2
      <4>2. InHand(w)'
        BY <2>1, <2>2, <3>2
      <4> QED
        BY <4>1, <4>2
    <3>3. CASE w # cur[r]
      BY <1>t, <2>1, <2>3, <3>1, <3>3
    <3> QED
      BY <3>2, <3>3
  <2>6. Counted'
    <3>1. Uncounted = {}
      BY <2>2 DEF Uncounted
    <3>2. Cardinality(Uncounted) = 0
      BY <3>1, FS_EmptySet
    <3>3. Cardinality(Uncounted)' = Cardinality(Uncounted) + 1
      BY <1>t, <2>1, UncountedChange, Zenon DEF Labels
    <3>4. Total(bonuses)' = Total(bonuses) + 1
      BY <1>t, <2>1, <2>3, BonusSent, Zenon
    <3>5. Counted
      BY <1>a, Zenon
    <3> QED
      BY <1>t, <1>p, <2>1, <2>3, <3>2, <3>3, <3>4, <3>5
  <2> HIDE DEF OneBusy, Fresh, Once, Counted
  <2> QED
    BY <2>2, <2>4, <2>5, <2>6
<1>6. ASSUME NEW r \in Runs, Incr(r) \/ Mark(r) PROVE All'
  <2>1. UNCHANGED <<cur, bonuses>>
    BY <1>6 DEF Incr, Mark
  <2>2. PICK from \in {"incr", "mark"}, to \in {"mark", "next"} : Step(r, from, to)
    BY <1>6 DEF Incr, Mark
  <2>3. /\ OneBusy' /\ pc[r] = from /\ pc'[r] = to
        /\ \A q \in Runs : q # r => pc[q] \in {"idle", "done"} /\ pc'[q] \in {"idle", "done"}
    <3>1. from \in Labels \ {"done"} /\ to \in Labels /\ from # "idle"
      BY DEF Labels
    <3> HIDE DEF Busy, OneBusy, Step
    <3> QED
      BY <1>k, <2>2, <3>1
  <2>4. \A q \in Runs : Fresh(q)'
    BY <2>2, <2>3
  <2>5. ASSUME NEW w \in Wallets PROVE Once(w)'
    <3>1. Once(w)
      BY <1>a
    <3>2. InHand(w) => (w \in claimed \/ InHand(w))'
      <4>1. InHand(w) => cur[r] = w
        BY <2>3
      <4>2. CASE Incr(r)
        BY <1>t, <2>1, <2>3, <4>1, <4>2 DEF Incr
      <4>3. CASE Mark(r)
        BY <4>1, <4>3 DEF Mark
      <4> QED
        BY <1>6, <4>2, <4>3
    <3>3. claimed \subseteq claimed'
      BY <1>6 DEF Incr, Mark
    <3> QED
      BY <2>1, <3>1, <3>2, <3>3
  <2>6. Counted'
    <3>1. Counted /\ Total(bonuses)' = Total(bonuses)
      BY <1>a, <2>1, Zenon
    <3>2. CASE Incr(r)
      <4>1. Cardinality(Uncounted) \in Nat /\ Cardinality(Uncounted)' = Cardinality(Uncounted) - 1 /\ count' = count + 1
        BY <1>t, <3>2, UncountedChange, Zenon DEF Incr, Labels
      <4> QED
        BY <1>t, <1>p, <3>1, <4>1
    <3>3. CASE Mark(r)
      <4>1. Cardinality(Uncounted)' = Cardinality(Uncounted) /\ count' = count
        BY <1>t, <3>3, UncountedChange, Zenon DEF Mark, Labels
      <4> QED
        BY <3>1, <4>1
    <3> QED
      BY <1>6, <3>2, <3>3
  <2> HIDE DEF OneBusy, Fresh, Once, Counted
  <2> QED
    BY <2>3, <2>4, <2>5, <2>6, Zenon
<1>7. ASSUME NEW r \in Runs, Throws(r) PROVE FALSE
  BY <1>7, Zenon DEF Throws, Slip
<1> HIDE DEF All
<1> QED
  BY <1>1, <1>2, <1>3, <1>4, <1>5, <1>6, <1>7 DEF Next, Run

(* Balances, counters and lifetime totals stay natural numbers, and a run  *)
(* that is past the credit has a wallet in hand (pool.js:1282-1354).       *)
THEOREM TypeThm == Spec => []TypeOK
<1>1. BonusInv => TypeOK
  BY DEF BonusInv
<1> QED
  BY <1>1, BonusInit, BonusNext, PTL DEF Spec

(* No wallet is marked and no bonus counted that was not sent              *)
(* (pool.js:1340-1345), whatever runs overlap, fail and are restarted.     *)
THEOREM MarkedIsSentThm == Spec => []MarkedIsSent
<1>1. BonusInv => MarkedIsSent
  <2> SUFFICES ASSUME BonusInv PROVE MarkedIsSent
    OBVIOUS
  <2>1. count \in Nat /\ Total(bonuses) \in Nat
    BY TotalNat DEF BonusInv, TypeOK
  <2>2. Cardinality(Uncounted) \in Nat
    BY BountyAssumption, FS_Subset, FS_CardinalityType DEF Uncounted
  <2> QED
    BY <2>1, <2>2 DEF BonusInv, MarkedIsSent
<1> QED
  BY <1>1, BonusInit, BonusNext, PTL DEF Spec

(* Only wallets that have mined the threshold get a bonus                  *)
(* (pool.js:1329-1333), although the solo blocks are read once per run.    *)
THEOREM EligibleThm == Spec => []Eligible
<1>1. BonusInv => Eligible
  <2> SUFFICES ASSUME BonusInv, NEW w \in Wallets, bonuses[w] > 0 PROVE Mined(w)
    BY DEF Eligible, Mined
  <2>1. bonuses[w] \in Nat /\ (bonuses[w] >= 1 => Mined(w))
    BY DEF BonusInv, TypeOK
  <2> QED
    BY <2>1
<1> QED
  BY <1>1, BonusInit, BonusNext, PTL DEF Spec

(* The lifetime total of a wallet is what the pool has paid it             *)
(* (pool.js:1317-1327), never more, and no less until a call throws or the *)
(* faucet is low.                                                          *)
THEOREM LifetimeThm == Spec => []LifetimeIsAllTime
<1>1. BonusInv /\ LifetimeInv => LifetimeIsAllTime
  <2> SUFFICES ASSUME BonusInv, LifetimeInv PROVE LifetimeIsAllTime
    OBVIOUS
  <2>t. TypeOK /\ lifetime \in [Wallets -> Nat] /\ paid \in [Wallets -> Nat]
    BY DEF BonusInv, TypeOK
  <2>1. \A w \in Wallets : lifetime[w] <= paid[w]
    BY <2>t, DueNat DEF LifetimeInv
  <2>2. ASSUME slips \subseteq {"beside"}, \A r \in Runs : pc[r] \in {"idle", "done"} PROVE lifetime = paid
    <3>1. ASSUME NEW w \in Wallets PROVE lifetime[w] = paid[w]
      <4> DEFINE f == [r \in Runs |-> Due(r, w)]
      <4>1. \A r \in Runs : f[r] = 0
        BY <2>2 DEF Due
      <4> HIDE DEF f
      <4>2. SumFunctionOnSet(f, Runs) = 0
        BY <4>1, BountyAssumption, SumZero
      <4>3. Pending(w) = 0
        BY <4>2 DEF f, Pending
      <4> QED
        BY <2>t, <2>2, <4>3 DEF LifetimeInv
    <3> QED
      BY <2>t, <3>1
  <2> QED
    BY <2>1, <2>2 DEF LifetimeIsAllTime
<1> QED
  BY <1>1, BonusInit, BonusNext, LifetimeInit, LifetimeNext, PTL DEF Spec

(* Runs that follow one another and do not throw give each wallet at most  *)
(* one bonus, and no more than the cap in all (pool.js:1334-1345).         *)
THEOREM BonusesLimitedThm == Spec => []BonusesLimited
<1>1. LimitedInv => BonusesLimited
  BY DEF LimitedInv, BonusesLimited
<1> QED
  BY <1>1, BonusInit, BonusNext, LimitedInit, LimitedNext, PTL DEF Spec
=============================================================================
