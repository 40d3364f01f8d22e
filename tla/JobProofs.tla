----------------------------- MODULE JobProofs ------------------------------
(***************************************************************************)
(* Jobs and what they are made of: the jobs and coinbases of the solo      *)
(* server (SoloJobs), for any number of miners, refreshes and templates;   *)
(* and the data that the pool makes of a template and hands back in a      *)
(* block (JobData), for any height, number of transactions, hash and       *)
(* target.                                                                 *)
(***************************************************************************)
EXTENDS SoloJobs, JobData, NumberProofs

USE SoloAssumption

LEMMA SoloInit == Init => SoloInv
<1> SUFFICES ASSUME Init PROVE SoloInv
  OBVIOUS
<1>1. clash \in BOOLEAN
  BY Zenon DEF Init
<1>2. TypeOK /\ Started
  BY <1>1 DEF Init, TypeOK, Started
<1>3. JobOfOneTemplate /\ NoOlderCoinbase
  BY DEF Init, JobOfOneTemplate, NoOlderCoinbase
<1>4. \A m \in Miners : BuildsCurrent(m) /\ Served(m)
  BY DEF Init, BuildsCurrent, Served
<1>5. \A r \in Templates : LoopsCurrent(r)
  BY DEF Init, LoopsCurrent
<1> QED
  BY <1>2, <1>3, <1>4, <1>5 DEF Init, SoloInv

LEMMA NextType == TypeOK /\ Started /\ [Next]_vars => TypeOK' /\ Started'
<1> SUFFICES ASSUME TypeOK, Started, [Next]_vars PROVE TypeOK' /\ Started'
  OBVIOUS
<1> DEFINE TypeInv == TypeOK /\ Started
<1> USE DEF Started
<1> USE DEF TypeOK, Templates, Header, Notify, Tell, buildVars, loopVars
<1>1. ASSUME NEW m \in Miners, Authorize(m) \/ Close(m) PROVE TypeInv'
  <2>1. CASE Authorize(m)
    BY <2>1 DEF Authorize
  <2>2. CASE Close(m)
    BY <2>2 DEF Close
  <2> QED
    BY <1>1, <2>1, <2>2, Zenon
<1>2. ASSUME NEW m \in Miners, BuilderResolved(m) \/ BuilderFails(m) PROVE TypeInv'
  <2>1. CASE BuilderResolved(m)
    BY <2>1, SMTT(15) DEF BuilderResolved
  <2>2. CASE BuilderFails(m)
    BY <2>2 DEF BuilderFails
  <2> QED
    BY <1>2, <2>1, <2>2, Zenon
<1>3. ASSUME NEW m \in Miners, BuilderBuilt(m) PROVE TypeInv'
  <2>0. cur \in 0..MaxTemplate /\ btmpl[m] \in 0..MaxTemplate
    OBVIOUS
  <2>1. btmpl[m] \in Templates /\ cur \in Templates
    <3>1. cur # 0 /\ btmpl[m] # 0
      BY <1>3 DEF BuilderBuilt
    <3> HIDE DEF TypeOK, Started
    <3> QED
      BY <2>0, <3>1
  <2>2. told' \subseteq Notify
    BY <1>3, <2>1 DEF BuilderBuilt
  <2> QED
    BY <1>3, <2>1, <2>2 DEF BuilderBuilt
<1>4. ASSUME NEW r \in Templates, Refresh(r) PROVE TypeInv'
  <2>1. clash' \in BOOLEAN
    BY <1>4, Zenon DEF Refresh
  <2>2. UNCHANGED <<entry, cb, job, buildVars, hand, told, judged, failed>>
    BY <1>4 DEF Refresh
  <2>3. cur' = r /\ rpc' = [rpc EXCEPT ![r] = "loop"] /\ left' = [left EXCEPT ![r] = Miners]
    BY <1>4 DEF Refresh
  <2>4. TypeOK'
    BY <2>1, <2>2, <2>3
  <2>5. Started'
    BY <2>2, <2>3
  <2> QED
    BY <2>4, <2>5, Zenon
<1>5. ASSUME NEW r \in Templates, NEW m \in Miners, LoopTakes(r, m) PROVE TypeInv'
  BY <1>5 DEF LoopTakes
<1>6. ASSUME NEW r \in Templates, LoopBuilt(r) PROVE TypeInv'
  BY <1>6 DEF LoopBuilt
<1>7. ASSUME NEW r \in Templates, LoopFails(r) \/ LoopEnds(r) PROVE TypeInv'
  <2>1. CASE LoopFails(r)
    BY <2>1 DEF LoopFails
  <2>2. CASE LoopEnds(r)
    BY <2>2 DEF LoopEnds
  <2> QED
    BY <1>7, <2>1, <2>2, Zenon
<1>8. ASSUME NEW n \in told, Submit(n) PROVE TypeInv'
  BY <1>8 DEF Submit
<1>9. CASE UNCHANGED vars
  BY <1>9 DEF vars
<1> HIDE DEF TypeOK, Started
<1> QED
  BY <1>1, <1>2, <1>3, <1>4, <1>5, <1>6, <1>7, <1>8, <1>9 DEF Next, Builder, Loop

(* The state of the solo server keeps its types (pool.js:501-641), with    *)
(* templates changing under the builders or not.                           *)
THEOREM TypeCorrect == Spec => []TypeOK
<1>1. Init => TypeOK /\ Started
  BY SoloInit DEF SoloInv
<1> QED
  BY <1>1, NextType, PTL DEF Spec

(* What SoloInv says of the states in which there has been no clash.       *)
Settled ==
    /\ \A n \in told : n.head.cb = n.head.tmpl
    /\ judged # <<>> => judged.checked.cb = judged.hashed.cb /\ judged.checked.tmpl >= judged.hashed.tmpl
    /\ \A m \in Miners : BuildsCurrent(m) /\ Served(m)
    /\ \A r \in Templates : LoopsCurrent(r)
    /\ \A n \in told : JobCurrent(n)

LEMMA Unfolded == SoloInv <=> TypeOK /\ Started /\ (~clash => Settled)
BY Zenon DEF SoloInv, Settled, JobOfOneTemplate, NoOlderCoinbase

LEMMA SettledNext == ASSUME TypeOK, Started, TypeOK', Settled, Next, ~clash, ~clash' PROVE Settled'
<1> USE DEF TypeOK, Started, Settled, BuildsCurrent, LoopsCurrent, JobCurrent, Served,
            Templates, Header, Notify, Tell, buildVars, loopVars
<1>1. ASSUME NEW m \in Miners, Authorize(m) \/ Close(m) PROVE Settled'
  <2>1. CASE Authorize(m)
    BY <2>1 DEF Authorize
  <2>2. CASE Close(m)
    BY <2>2 DEF Close
  <2> QED
    BY <1>1, <2>1, <2>2, Zenon
<1>2. ASSUME NEW m \in Miners, BuilderResolved(m) \/ BuilderFails(m) PROVE Settled'
  <2>1. CASE BuilderResolved(m)
    BY <2>1 DEF BuilderResolved
  <2>2. CASE BuilderFails(m)
    BY <2>2 DEF BuilderFails
  <2> QED
    BY <1>2, <2>1, <2>2
<1>3. ASSUME NEW m \in Miners, BuilderBuilt(m) PROVE Settled'
  BY <1>3 DEF BuilderBuilt
<1>4. ASSUME NEW r \in Templates, Refresh(r) PROVE Settled'
  <2>1. ~Building /\ ~Looping
    BY <1>4, Zenon DEF Refresh
  <2>2. UNCHANGED <<entry, cb, job, buildVars, hand, told, judged, failed>>
    BY <1>4 DEF Refresh
  <2>3. r = cur + 1 /\ cur' = r /\ rpc' = [rpc EXCEPT ![r] = "loop"] /\ left' = [left EXCEPT ![r] = Miners]
    BY <1>4 DEF Refresh
  <2> QED
    BY <2>1, <2>2, <2>3 DEF Building, Looping
<1>5. ASSUME NEW r \in Templates, NEW m \in Miners, LoopTakes(r, m) PROVE Settled'
  BY <1>5 DEF LoopTakes
<1>6. ASSUME NEW r \in Templates, LoopBuilt(r) PROVE Settled'
  BY <1>6 DEF LoopBuilt
<1>7. ASSUME NEW r \in Templates, LoopFails(r) \/ LoopEnds(r) PROVE Settled'
  BY <1>7 DEF LoopFails, LoopEnds
<1>8. ASSUME NEW n \in told, Submit(n) PROVE Settled'
  BY <1>8 DEF Submit
<1> HIDE DEF Settled
<1> QED
  BY <1>1, <1>2, <1>3, <1>4, <1>5, <1>6, <1>7, <1>8 DEF Next, Builder, Loop

LEMMA ClashStays == ASSUME Next PROVE clash => clash'
<1>1. ASSUME NEW r \in Templates, Refresh(r) PROVE clash => clash'
  BY <1>1, Zenon DEF Refresh
<1>2. ASSUME NEW m \in Miners, Authorize(m) \/ Builder(m) \/ Close(m) PROVE clash' = clash
  BY <1>2 DEF Authorize, Builder, BuilderResolved, BuilderBuilt, BuilderFails, Close
<1>3. ASSUME NEW r \in Templates, Loop(r) PROVE clash' = clash
  BY <1>3 DEF Loop, LoopTakes, LoopBuilt, LoopFails, LoopEnds
<1>4. ASSUME NEW n \in told, Submit(n) PROVE clash' = clash
  BY <1>4 DEF Submit
<1> QED
  BY <1>1, <1>2, <1>3, <1>4, Zenon DEF Next

LEMMA SoloNext == SoloInv /\ [Next]_vars => SoloInv'
<1> SUFFICES ASSUME SoloInv, [Next]_vars PROVE SoloInv'
  OBVIOUS
<1>1. TypeOK /\ Started /\ TypeOK' /\ Started' /\ (~clash => Settled)
  BY NextType, Unfolded
<1>2. CASE Next
  <2>1. ASSUME ~clash' PROVE Settled'
    BY <1>1, <1>2, <2>1, SettledNext, ClashStays, Zenon
  <2>2. (SoloInv <=> TypeOK /\ Started /\ (~clash => Settled))'
    BY Unfolded, PTL
  <2> QED
    BY <1>1, <2>1, <2>2, Zenon
<1>3. CASE UNCHANGED vars
  BY <1>3 DEF vars, SoloInv, TypeOK, Started, JobOfOneTemplate, NoOlderCoinbase, BuildsCurrent, LoopsCurrent, JobCurrent, Served
<1> QED
  BY <1>2, <1>3

(* Until the template changes while a coinbase is being built, every job   *)
(* sent to a solo miner is of one template (pool.js:1021-1039), for any    *)
(* number of miners, refreshes and failures.                               *)
THEOREM JobOfOneTemplateThm == Spec => []JobOfOneTemplate
<1>1. SoloInv => JobOfOneTemplate
  BY DEF SoloInv
<1> QED
  BY <1>1, SoloInit, SoloNext, PTL DEF Spec

(* Until then a share is checked on the coinbase that was hashed and never *)
(* on an older template (pool.js:644-743).                                 *)
THEOREM NoOlderCoinbaseThm == Spec => []NoOlderCoinbase
<1>1. SoloInv => NoOlderCoinbase
  BY DEF SoloInv
<1> QED
  BY <1>1, SoloInit, SoloNext, PTL DEF Spec

(* Until then the refresh and the builders leave no miner on an older      *)
(* template (pool.js:599-614, 1120-1133), whoever else fails.              *)
THEOREM CaughtUpThm == Spec => []CaughtUp
<1>1. SoloInv => CaughtUp
  BY DEF SoloInv, CaughtUp, Served, Looping
<1> QED
  BY <1>1, SoloInit, SoloNext, PTL DEF Spec

HIDE SoloAssumption

-----------------------------------------------------------------------------

\* How many bytes are kept of a height: as many as it takes.
LEMMA TrimmedIs ==
    ASSUME NEW h \in Nat, h \div Place[4] < 128, NEW e \in 1..4,
           h \div Place[e] < 256, e = 1 \/ h \div Place[e] >= 1
    PROVE  Trimmed(h) = LittleEndian(h, e) /\ Len(Trimmed(h)) = e
<1> DEFINE b == LittleEndian(h, 4)
           End(x) == (x = 1 \/ b[x] # 0) /\ \A i \in (x + 1)..4 : b[i] = 0
<1>1. Place[1] = 1 /\ Place[2] = 256 /\ Place[3] = 65536 /\ Place[4] = 16777216
  BY DEF Place
<1>2. /\ b[1] = (h \div 1) % 256 /\ b[2] = (h \div 256) % 256 /\ b[3] = (h \div 65536) % 256
      /\ b[4] = (h \div 16777216) % 256
  BY <1>1 DEF LittleEndian
<1>3. e = 1 \/ e = 2 \/ e = 3 \/ e = 4
  OBVIOUS
<1> HIDE DEF b
<1>4. /\ e = 1 => b[2] = 0 /\ b[3] = 0 /\ b[4] = 0
      /\ e = 2 => b[2] # 0 /\ b[3] = 0 /\ b[4] = 0
      /\ e = 3 => b[3] # 0 /\ b[4] = 0
      /\ e = 4 => b[4] # 0
  BY <1>1, <1>2
<1>5. End(e)
  BY <1>3, <1>4
<1>6. ASSUME NEW x \in 1..4, End(x) PROVE x = e
  <2>1. ~ (x < e)
    BY <1>3, <1>4, <1>6
  <2>2. ~ (e < x)
    BY <1>3, <1>4, <1>6
  <2> QED
    BY <2>1, <2>2
<1> HIDE DEF End
<1>7. (CHOOSE x \in 1..4 : End(x)) = e
  BY <1>5, <1>6, Zenon
<1>8. Trimmed(h) = SubSeq(LittleEndian(h, 4), 1, e)
  BY <1>7, Zenon DEF Trimmed, End, b
<1>9. SubSeq(LittleEndian(h, 4), 1, e) = LittleEndian(h, e)
  BY DEF LittleEndian
<1> QED
  BY <1>8, <1>9 DEF LittleEndian

\* How many bytes the node's number has: as many as leave its sign clear.
LEMMA ScriptNumIs ==
    ASSUME NEW h \in Nat, h \div Place[4] < 128, NEW k \in 1..4,
           h \div Place[k] < 128, k = 1 \/ h \div Place[k - 1] >= 128
    PROVE  ScriptNum(h) = LittleEndian(h, k) /\ Len(ScriptNum(h)) = k
<1> DEFINE Fits(x) == h \div Place[x] < 128
           Size(x) == Fits(x) /\ (x = 1 \/ ~ Fits(x - 1))
<1>1. Place[1] = 1 /\ Place[2] = 256 /\ Place[3] = 65536 /\ Place[4] = 16777216
  BY DEF Place
<1>2. Size(k)
  BY <1>1
<1>3. k = 1 \/ k = 2 \/ k = 3 \/ k = 4
  OBVIOUS
<1>4. ASSUME NEW x \in 1..4, Size(x) PROVE x = k
  <2>1. x = 1 \/ x = 2 \/ x = 3 \/ x = 4
    OBVIOUS
  <2>2. ~ (x < k)
    BY <1>1, <1>2, <1>3, <1>4, <2>1
  <2>3. ~ (k < x)
    BY <1>1, <1>2, <1>3, <1>4, <2>1
  <2> QED
    BY <2>2, <2>3
<1>5. ScriptNum(h) = LittleEndian(h, CHOOSE x \in 1..4 : Size(x))
  BY DEF ScriptNum
<1> HIDE DEF Size
<1>6. (CHOOSE x \in 1..4 : Size(x)) = k
  BY <1>2, <1>4, Zenon
<1>7. ScriptNum(h) = LittleEndian(h, k)
  BY <1>5, <1>6, Zenon
<1>8. Len(LittleEndian(h, k)) = k
  BY DEF LittleEndian
<1> QED
  BY <1>7, <1>8, Zenon

\* The byte of a height with which its push ends.
Top(h) == Trimmed(h)[Len(Trimmed(h))]

\* Exactly the heights whose last pushed byte has its high bit clear are
\* pushed as the node wants them (pool.js 1050-1058 against CScript() << nHeight):
\* at the others the sign byte is missing.
THEOREM HeightsRefused ==
    ASSUME NEW h \in Nat, h >= BIP34Height, h \div Place[4] < 128
    PROVE  HeightScript(h) = NodeHeightScript(h) <=> Top(h) < 128
<1>0. h \in Nat /\ h > 16
  BY DEF BIP34Height
<1>1. Place[1] = 1 /\ Place[2] = 256 /\ Place[3] = 65536 /\ Place[4] = 16777216
  BY DEF Place
<1>2. PICK e \in 1..4 : h \div Place[e] < 256 /\ (e = 1 \/ h \div Place[e] >= 1)
  <2>1. CASE h < Place[3]
    <3>1. h \div Place[2] < 256 /\ h \div Place[2] >= 1
      BY <1>1, <2>1 DEF BIP34Height
    <3> QED
      BY <3>1
  <2>2. CASE h >= Place[3] /\ h < Place[4]
    <3>1. h \div Place[3] < 256 /\ h \div Place[3] >= 1
      BY <1>1, <2>2
    <3> QED
      BY <3>1
  <2>3. CASE h >= Place[4]
    <3>1. h \div Place[4] < 256 /\ h \div Place[4] >= 1
      BY <1>1, <2>3 DEF BIP34Height
    <3> QED
      BY <3>1
  <2> QED
    BY <2>1, <2>2, <2>3, <1>0, <1>1
<1>3. Trimmed(h) = LittleEndian(h, e) /\ Len(Trimmed(h)) = e
  BY <1>0, <1>2, TrimmedIs, Zenon
<1>4. HeightScript(h) = <<e>> \o LittleEndian(h, e)
  BY <1>3 DEF HeightScript
<1>5. NodeHeightScript(h) = <<Len(ScriptNum(h))>> \o ScriptNum(h)
  BY <1>0 DEF NodeHeightScript
<1>6. Top(h) = h \div Place[e] /\ h \div Place[e] \in Nat
  <2>1. LittleEndian(h, e)[e] = (h \div Place[e]) % 256
    BY DEF LittleEndian
  <2>2. h \div Place[e] \in Nat
    BY <1>0, <1>1, <1>2
  <2> QED
    BY <1>2, <1>3, <2>1, <2>2 DEF Top
<1>7. CASE Top(h) < 128
  <2>1. e = 1 \/ h \div Place[e - 1] >= 128
    BY <1>0, <1>1, <1>2
  <2>2. ScriptNum(h) = LittleEndian(h, e) /\ Len(ScriptNum(h)) = e
    BY <1>0, <1>6, <1>7, <2>1, ScriptNumIs, Zenon
  <2> QED
    BY <1>4, <1>5, <1>7, <2>2
<1>8. CASE ~ (Top(h) < 128)
  <2>1. e # 4 /\ e + 1 \in 1..4 /\ h \div Place[e + 1] < 128 /\ h \div Place[(e + 1) - 1] >= 128
    BY <1>0, <1>1, <1>2, <1>6, <1>8
  <2>2. ScriptNum(h) = LittleEndian(h, e + 1) /\ Len(ScriptNum(h)) = e + 1
    BY <1>0, <2>1, ScriptNumIs, Zenon
  <2>3. HeightScript(h)[1] = e /\ NodeHeightScript(h)[1] = e + 1
    BY <1>4, <1>5, <2>2 DEF LittleEndian
  <2> QED
    BY <1>8, <2>3
<1> QED
  BY <1>7, <1>8

-----------------------------------------------------------------------------
\* One pass of each of the loops that JobData writes as recursive functions: the
\* weights of the digits, the levels of the pool and of the node, the fold of a
\* branch b.
PoolPass(x) == IF Len(x) <= 1 THEN x ELSE [Pairs(Padded(x)) EXCEPT ![1] = Null]
NodePass(x) == IF Len(x) <= 1 THEN x ELSE Pairs(Padded(x))
Pass(loop, b, k, x) ==
    IF loop = "weight" THEN Base * x
    ELSE IF loop = "pool" THEN PoolPass(x)
    ELSE IF loop = "node" THEN NodePass(x)
    ELSE Hash(x, b[k])
IsLoop(f, N, a, loop, b) == f = [k \in 0..N |-> IF k = 0 THEN a ELSE Pass(loop, b, k, f[k - 1])]

\* Every loop can be carried through: a smallest number of passes for which it
\* could not would add one pass to a loop that can.
LEMMA LoopExists == ASSUME NEW N \in Nat, NEW a, NEW loop, NEW b PROVE \E f : IsLoop(f, N, a, loop, b)
<1> DEFINE Bad == {m \in Nat : ~ \E f : IsLoop(f, m, a, loop, b)}
<1>1. ASSUME Bad # {} PROVE FALSE
  <2>1. PICK m \in Bad : \A i \in Bad : m <= i
    <3>1. Bad \in SUBSET Nat
      OBVIOUS
    <3> HIDE DEF Bad
    <3> QED
      BY <1>1, <3>1, SmallestNat
  <2>2. m \in Nat /\ ~ \E f : IsLoop(f, m, a, loop, b)
    BY <2>1
  <2>3. CASE m = 0
    <3> DEFINE f == [k \in 0..0 |-> a]
    <3>1. f = [k \in 0..0 |-> IF k = 0 THEN a ELSE Pass(loop, b, k, f[k - 1])]
      OBVIOUS
    <3>2. IsLoop(f, 0, a, loop, b)
      BY <3>1, Zenon DEF IsLoop
    <3> QED
      BY <2>2, <2>3, <3>2, Zenon
  <2>4. CASE m # 0
    <3>1. m - 1 \in Nat /\ m - 1 \notin Bad
      BY <2>1, <2>2, <2>4
    <3>2. PICK g : IsLoop(g, m - 1, a, loop, b)
      BY <3>1
    <3>3. \A k \in 0..m - 1 : g[k] = IF k = 0 THEN a ELSE Pass(loop, b, k, g[k - 1])
      BY <3>2, Zenon DEF IsLoop
    <3> DEFINE f == [k \in 0..m |-> IF k = m THEN Pass(loop, b, m, g[m - 1]) ELSE g[k]]
    <3>4. ASSUME NEW k \in 0..m PROVE f[k] = IF k = 0 THEN a ELSE Pass(loop, b, k, f[k - 1])
      <4>1. CASE k = m
        <5>1. f[m - 1] = g[m - 1] /\ f[m] = Pass(loop, b, m, g[m - 1])
          BY <2>2, <2>4
        <5> QED
          BY <2>4, <4>1, <5>1, Zenon
      <4>2. CASE k # m
        <5>1. k \in 0..m - 1 /\ f[k] = g[k]
          BY <2>2, <4>2
        <5>2. k # 0 => f[k - 1] = g[k - 1]
          BY <2>2, <5>1
        <5> HIDE DEF f
        <5> QED
          BY <3>3, <5>1, <5>2, Zenon
      <4> QED
        BY <4>1, <4>2
    <3>5. f = [k \in 0..m |-> f[k]]
      OBVIOUS
    <3> HIDE DEF f
    <3>6. IsLoop(f, m, a, loop, b)
      BY <3>4, <3>5, Zenon DEF IsLoop
    <3> QED
      BY <2>2, <3>6, Zenon
  <2> QED
    BY <2>3, <2>4
<1> QED
  BY <1>1

\* What a loop computes.
LEMMA LoopIs ==
    ASSUME NEW N \in Nat, NEW a, NEW loop, NEW b, NEW f, IsLoop(f, N, a, loop, b)
    PROVE  /\ DOMAIN f = 0..N /\ f[0] = a
           /\ \A k \in 0..N : k # 0 => f[k] = Pass(loop, b, k, f[k - 1])
<1>1. DOMAIN f = 0..N /\ \A k \in 0..N : f[k] = IF k = 0 THEN a ELSE Pass(loop, b, k, f[k - 1])
  BY Zenon DEF IsLoop
<1>2. 0 \in 0..N
  OBVIOUS
<1> QED
  BY <1>1, <1>2, Zenon

\* The weights are the powers of the base.
LEMMA WeightSteps ==
    /\ Weight[0] = 1 /\ \A k \in 0..Width : k # 0 => Weight[k] = Base * Weight[k - 1]
<1> DEFINE Is(f) == IsLoop(f, Width, 1, "weight", <<>>)
<1>0. Width \in Nat
  BY JobDataAssumption
<1>1. \A f : Is(f) <=> f = [k \in 0..Width |-> IF k = 0 THEN 1 ELSE Base * f[k - 1]]
  BY Zenon DEF IsLoop, Pass
<1>2. \E f : Is(f)
  BY <1>0, LoopExists, Zenon
<1>3. Weight = CHOOSE f : f = [k \in 0..Width |-> IF k = 0 THEN 1 ELSE Base * f[k - 1]]
  BY Zenon DEF Weight
<1>4. Is(Weight)
  <2> DEFINE Eq(f) == f = [k \in 0..Width |-> IF k = 0 THEN 1 ELSE Base * f[k - 1]]
  <2>1. \E f : Eq(f)
    BY <1>1, <1>2
  <2>2. Eq(CHOOSE f : Eq(f))
    BY <2>1, Zenon
  <2>3. Eq(Weight)
    BY <1>3, <2>2, Zenon
  <2> QED
    BY <1>1, <2>3, Zenon
<1>5. Weight[0] = 1 /\ \A k \in 0..Width : k # 0 => Weight[k] = Pass("weight", <<>>, k, Weight[k - 1])
  BY <1>0, <1>4, LoopIs DEF Is
<1> QED
  BY <1>5, Zenon DEF Pass

\* Every weight is a positive number.
LEMMA WeightPos == \A k \in 0..Width : Weight[k] \in Nat \ {0}
<1> DEFINE Bad == {k \in 0..Width : Weight[k] \notin Nat \ {0}}
<1>1. ASSUME Bad # {} PROVE FALSE
  <2>1. PICK k \in Bad : \A i \in Bad : k <= i
    <3>1. Bad \in SUBSET Nat
      OBVIOUS
    <3> HIDE DEF Bad
    <3> QED
      BY <1>1, <3>1, SmallestNat
  <2>2. k \in 0..Width /\ k # 0 /\ k - 1 \in 0..Width /\ k - 1 \notin Bad
    BY <2>1, WeightSteps, JobDataAssumption
  <2>3. Weight[k] = Base * Weight[k - 1] /\ Weight[k - 1] \in Nat \ {0}
    BY <2>2, WeightSteps
  <2>4. Weight[k] \in Nat \ {0}
    BY <2>3, JobDataAssumption
  <2> QED
    BY <2>1, <2>4
<1> QED
  BY <1>1

\* The weights multiply.
LEMMA WeightSum ==
    ASSUME NEW j \in 0..Width, NEW k \in 0..Width, j + k <= Width
    PROVE  Weight[j + k] = Weight[j] * Weight[k]
<1>0. Width \in Nat /\ Base \in Nat
  BY JobDataAssumption
<1> DEFINE Bad == {i \in 0..k : Weight[j + i] # Weight[j] * Weight[i]}
<1>1. ASSUME Bad # {} PROVE FALSE
  <2>1. PICK i \in Bad : \A l \in Bad : i <= l
    <3>1. Bad \in SUBSET Nat
      BY <1>0
    <3> HIDE DEF Bad
    <3> QED
      BY <1>1, <3>1, SmallestNat
  <2>2. i \in 0..k /\ Weight[j + i] # Weight[j] * Weight[i]
    BY <2>1
  <2>3. Weight[j] \in Nat
    BY WeightPos
  <2>4. i # 0
    BY <2>2, <2>3, WeightSteps
  <2>5. i - 1 \in 0..k /\ i - 1 \notin Bad /\ i \in 0..Width /\ i - 1 \in 0..Width
        /\ j + i \in 0..Width /\ j + i # 0 /\ (j + i) - 1 = j + (i - 1)
    BY <1>0, <2>1, <2>2, <2>4
  <2>6. Weight[j + (i - 1)] = Weight[j] * Weight[i - 1]
    BY <2>5
  <2>7. Weight[i] = Base * Weight[i - 1] /\ Weight[j + i] = Base * Weight[j + (i - 1)] /\ Weight[i - 1] \in Nat
    BY <2>4, <2>5, WeightSteps, WeightPos, Zenon
  <2> DEFINE u == Weight[j]
             w == Weight[i - 1]
  <2>8. Base * (u * w) = u * (Base * w)
    <3>1. u \in Nat /\ w \in Nat
      BY <2>3, <2>7
    <3> HIDE DEF u, w
    <3> QED
      BY <1>0, <3>1
  <2> QED
    BY <2>2, <2>6, <2>7, <2>8, Zenon DEF u, w
<1> QED
  BY <1>0, <1>1

\* A higher place has no lower weight.
LEMMA WeightMono == ASSUME NEW j \in 0..Width, NEW k \in j..Width PROVE Weight[j] <= Weight[k]
<1> DEFINE w == Weight[j]
           x == Weight[k - j]
<1>1. k - j \in 0..Width /\ j + (k - j) <= Width /\ j + (k - j) = k
  BY JobDataAssumption
<1>2. Weight[k] = w * x /\ w \in Nat /\ x \in Nat \ {0}
  BY <1>1, WeightPos, WeightSum
<1> HIDE DEF w, x
<1>3. 1 \in Nat /\ x \in Nat /\ 1 <= x
  BY <1>2
<1>4. w * 1 <= w * x
  BY <1>2, <1>3, Times
<1>5. w <= w * x
  BY <1>2, <1>3, <1>4
<1> QED
  BY <1>2, <1>5, Zenon DEF w

\* v without its last digits, down to its i-th.
Prefix(v, i) == v \div Weight[Width - i]

\* A prefix is the one before it and a digit.
LEMMA PrefixIs ==
    ASSUME NEW v \in Nat, NEW i \in 1..Width
    PROVE  /\ Prefix(v, i) \in Nat /\ Prefix(v, i - 1) \in Nat
           /\ Digits(v, Width)[i] = Prefix(v, i) % Base
           /\ Prefix(v, i) % Base \in 0..(Base - 1)
           /\ Prefix(v, i) = Base * Prefix(v, i - 1) + (Prefix(v, i) % Base)
<1>0. Width \in Nat /\ Base \in Nat \ {0}
  BY JobDataAssumption
<1> DEFINE w == Weight[Width - i]
           p == v \div w
<1>1. Width - i \in 0..Width /\ Width - (i - 1) \in 0..Width /\ Width - (i - 1) # 0
      /\ (Width - (i - 1)) - 1 = Width - i
  BY <1>0
<1>2. w \in Nat \ {0} /\ Weight[Width - (i - 1)] \in Nat \ {0} /\ Weight[Width - (i - 1)] = Base * w
  BY <1>1, WeightPos, WeightSteps, Zenon
<1>3. Digits(v, Width)[i] = p % Base
  BY DEF Digits
<1> HIDE DEF w
<1>4. p \in Nat
  BY <1>2, Divide
<1>5. p \div Base = v \div (w * Base)
  BY <1>0, <1>2, QuotientTwice
<1>6. w * Base = Base * w
  BY <1>0, <1>2
<1>7. Prefix(v, i - 1) = p \div Base
  BY <1>2, <1>5, <1>6, Zenon DEF Prefix
<1>8. Prefix(v, i) = p
  BY DEF Prefix, w
<1> HIDE DEF p
<1>9. p \div Base \in Nat /\ p % Base \in Nat /\ p % Base < Base /\ p = Base * (p \div Base) + (p % Base)
  BY <1>0, <1>4, Divide
<1>10. p % Base \in 0..(Base - 1)
  BY <1>0, <1>9
<1> QED
  BY <1>3, <1>4, <1>7, <1>8, <1>9, <1>10, Zenon

\* Numbers with the same digits up to the i-th have the same prefix.
LEMMA SamePrefix ==
    ASSUME NEW u \in Nat, NEW v \in Nat, u < Weight[Width], v < Weight[Width],
           NEW i \in 0..Width, \A j \in 1..i : Digits(u, Width)[j] = Digits(v, Width)[j]
    PROVE  Prefix(u, i) = Prefix(v, i)
<1>0. Width \in Nat /\ Base \in Nat
  BY JobDataAssumption
<1> DEFINE Bad == {k \in 0..i : Prefix(u, k) # Prefix(v, k)}
<1>1. ASSUME Bad # {} PROVE FALSE
  <2>1. PICK k \in Bad : \A l \in Bad : k <= l
    <3>1. Bad \in SUBSET Nat
      BY <1>0
    <3> HIDE DEF Bad
    <3> QED
      BY <1>1, <3>1, SmallestNat
  <2>2. k \in 0..i /\ Prefix(u, k) # Prefix(v, k)
    BY <2>1
  <2>3. CASE k = 0
    <3>1. Weight[Width] \in Nat \ {0} /\ Width - 0 = Width
      BY <1>0, WeightPos
    <3> DEFINE w == Weight[Width]
    <3>2. ASSUME NEW x \in Nat, x < w PROVE x \div w = 0
      <4> HIDE DEF w
      <4>1. x \div w \in Nat /\ ~ (x \div w >= 1)
        BY <3>1, <3>2, Quotient, Divide DEF w
      <4> QED
        BY <4>1
    <3> QED
      BY <2>2, <2>3, <3>1, <3>2 DEF Prefix
  <2>4. CASE k # 0
    <3>1. k \in 1..Width /\ k - 1 \in 0..i /\ k - 1 \notin Bad /\ k \in 1..i
      BY <1>0, <2>1, <2>2, <2>4
    <3>2. Prefix(u, k - 1) = Prefix(v, k - 1)
      BY <3>1
    <3>3. Prefix(u, k) % Base = Prefix(v, k) % Base
      BY <3>1, PrefixIs
    <3>4. /\ Prefix(u, k) = Base * Prefix(u, k - 1) + (Prefix(u, k) % Base)
          /\ Prefix(v, k) = Base * Prefix(v, k - 1) + (Prefix(v, k) % Base)
      BY <3>1, PrefixIs, Zenon
    <3> QED
      BY <2>2, <3>2, <3>3, <3>4, Zenon
  <2> QED
    BY <2>3, <2>4
<1>2. i \in 0..i
  BY <1>0
<1> QED
  BY <1>1, <1>2

\* Comparing numbers is comparing their digits from the first on.
LEMMA Compare ==
    ASSUME NEW u \in Nat, NEW v \in Nat, u < Weight[Width], v < Weight[Width]
    PROVE  u <= v <=> \/ \A j \in 1..Width : Digits(u, Width)[j] = Digits(v, Width)[j]
                      \/ \E i \in 1..Width : /\ Digits(u, Width)[i] < Digits(v, Width)[i]
                                             /\ \A j \in 1..(i - 1) : Digits(u, Width)[j] = Digits(v, Width)[j]
<1> DEFINE Du == Digits(u, Width)
           Dv == Digits(v, Width)
<1>0. Width \in Nat /\ Base \in Nat \ {0}
  BY JobDataAssumption
<1>1. Prefix(u, Width) = u /\ Prefix(v, Width) = v
  <2>1. Width - Width = 0 /\ Weight[0] = 1
    BY <1>0, WeightSteps
  <2>2. \A x \in Nat : x \div 1 = x
    OBVIOUS
  <2> QED
    BY <2>1, <2>2, Zenon DEF Prefix
<1>2. ASSUME \A j \in 1..Width : Du[j] = Dv[j] PROVE u = v
  <2>1. Width \in 0..Width
    BY <1>0
  <2> QED
    BY <1>1, <1>2, <2>1, SamePrefix, Zenon
<1>3. ASSUME NEW i \in 0..Width, u <= v PROVE Prefix(u, i) <= Prefix(v, i)
  <2>1. Width - i \in 0..Width
    BY <1>0
  <2> QED
    BY <1>3, <2>1, WeightPos, QuotientMono DEF Prefix
<1>3b. ASSUME NEW i \in 0..Width, v <= u PROVE Prefix(v, i) <= Prefix(u, i)
  <2>1. Width - i \in 0..Width
    BY <1>0
  <2> QED
    BY <1>3b, <2>1, WeightPos, QuotientMono DEF Prefix
<1>4. ASSUME NEW i \in 1..Width, Du[i] < Dv[i], \A j \in 1..(i - 1) : Du[j] = Dv[j] PROVE u <= v
  <2>1. i - 1 \in 0..Width /\ i \in 0..Width
    BY <1>0
  <2>2. Prefix(u, i - 1) = Prefix(v, i - 1)
    BY <1>4, <2>1, SamePrefix, Zenon
  <2>3. /\ Prefix(u, i) = Base * Prefix(u, i - 1) + Du[i] /\ Prefix(v, i) = Base * Prefix(v, i - 1) + Dv[i]
        /\ Prefix(u, i) \in Nat /\ Prefix(v, i) \in Nat /\ Du[i] \in 0..(Base - 1) /\ Dv[i] \in 0..(Base - 1)
        /\ Prefix(u, i - 1) \in Nat
    BY PrefixIs, Zenon
  <2>4. Prefix(u, i) < Prefix(v, i)
    <3> DEFINE z == Base * Prefix(u, i - 1)
    <3>1. z \in Nat
      BY <1>0, <2>3
    <3>2. Prefix(u, i) = z + Du[i] /\ Prefix(v, i) = z + Dv[i]
      BY <2>2, <2>3, Zenon
    <3> HIDE DEF z, Du, Dv
    <3> QED
      BY <1>0, <1>4, <2>3, <3>1, <3>2
  <2>5. ~ (v <= u)
    BY <1>3b, <2>1, <2>3, <2>4
  <2> QED
    BY <2>5
<1>5. ASSUME u <= v, u # v PROVE \E i \in 1..Width : Du[i] < Dv[i] /\ \A j \in 1..(i - 1) : Du[j] = Dv[j]
  <2> DEFINE Bad == {k \in 0..Width : Prefix(u, k) # Prefix(v, k)}
  <2>1. Width \in Bad
    BY <1>0, <1>1, <1>5
  <2>2. PICK i \in Bad : \A k \in Bad : i <= k
    <3>1. Bad \in SUBSET Nat
      BY <1>0
    <3> HIDE DEF Bad
    <3> QED
      BY <2>1, <3>1, SmallestNat
  <2>3. \A k \in 0..(i - 1) : Prefix(u, k) = Prefix(v, k)
    BY <1>0, <2>2
  <2>4. i # 0
    <3>1. 0 \in 0..Width /\ \A j \in 1..0 : Du[j] = Dv[j]
      BY <1>0
    <3>2. Prefix(u, 0) = Prefix(v, 0)
      BY <3>1, SamePrefix, Zenon
    <3> QED
      BY <2>2, <3>2
  <2>5. i \in 1..Width /\ i - 1 \in 0..(i - 1) /\ Prefix(u, i) # Prefix(v, i) /\ i \in 0..Width
    BY <1>0, <2>2, <2>4
  <2> HIDE DEF Bad
  <2>6. /\ Prefix(u, i) = Base * Prefix(u, i - 1) + Du[i] /\ Prefix(v, i) = Base * Prefix(v, i - 1) + Dv[i]
        /\ Prefix(u, i) \in Nat /\ Prefix(v, i) \in Nat /\ Du[i] \in 0..(Base - 1) /\ Dv[i] \in 0..(Base - 1)
        /\ Prefix(u, i - 1) \in Nat
    BY <2>5, PrefixIs, Zenon
  <2>7. Prefix(u, i) < Prefix(v, i)
    BY <1>3, <1>5, <2>5, <2>6
  <2>8. Du[i] < Dv[i]
    <3> DEFINE z == Base * Prefix(u, i - 1)
    <3>1. z \in Nat
      BY <1>0, <2>6
    <3>2. Prefix(u, i) = z + Du[i] /\ Prefix(v, i) = z + Dv[i]
      BY <2>3, <2>5, <2>6, Zenon
    <3> HIDE DEF z, Du, Dv
    <3> QED
      BY <1>0, <2>6, <2>7, <3>1, <3>2
  <2>9. ASSUME NEW j \in 1..(i - 1) PROVE Du[j] = Dv[j]
    <3>1. j \in 1..Width /\ j \in 0..(i - 1)
      BY <1>0, <2>5
    <3>2. Du[j] = Prefix(u, j) % Base /\ Dv[j] = Prefix(v, j) % Base
      BY <3>1, PrefixIs, Zenon
    <3> QED
      BY <2>3, <3>1, <3>2, Zenon
  <2> QED
    BY <2>5, <2>8, <2>9, Zenon
<1>6. CASE u = v
  BY <1>6
<1>7. CASE u # v
  <2>1. ASSUME \A j \in 1..Width : Du[j] = Dv[j] PROVE FALSE
    BY <1>2, <1>7, <2>1, Zenon
  <2> QED
    BY <1>4, <1>5, <1>7, <2>1, Zenon
<1> QED
  BY <1>6, <1>7

\* The target that the node expands from the bits is below the weight of its
\* exponent, and dividing it gives the digits of the mantissa, none before them
\* and zeros after them.
LEMMA TargetIs ==
    ASSUME NEW e \in 0..Width, NEW m \in Nat, m < Weight[3]
    PROVE  /\ Expanded(e, m) \in Nat /\ Expanded(e, m) < Weight[e]
           /\ \A k \in 1..e : k <= 3 => Expanded(e, m) \div Weight[e - k] = m \div Weight[3 - k]
           /\ \A k \in 1..e : k > 3 => (Expanded(e, m) \div Weight[e - k]) % Base = 0
<1>0. Width \in Nat /\ Width > 2 /\ Base \in Nat \ {0} /\ 3 \in 0..Width /\ 0 \in 0..Width
  BY JobDataAssumption
<1> DEFINE t == Expanded(e, m)
<1>1. CASE e >= 3
  <2> DEFINE a == Weight[e - 3]
  <2>0. e - 3 \in 0..Width /\ 3 + (e - 3) = e /\ 3 + (e - 3) <= Width
    BY <1>0, <1>1
  <2>1. a \in Nat \ {0} /\ Weight[3] \in Nat \ {0} /\ Weight[e] = Weight[3] * a
    BY <1>0, <2>0, WeightPos, WeightSum
  <2>2. t = m * a
    BY <1>1 DEF Expanded
  <2>3. m * a = a * m /\ m * a \in Nat
    BY <2>1
  <2>4. t < Weight[e]
    <3> DEFINE w == Weight[3]
    <3>1. w \in Nat /\ m + 1 <= w /\ m + 1 \in Nat
      BY <2>1
    <3> HIDE DEF a, w
    <3>2. a * (m + 1) <= a * w
      BY <2>1, <3>1, Times
    <3>3. a * (m + 1) = a * m + a /\ a * w = w * a
      BY <2>1, <3>1
    <3>4. a * m < w * a
      BY <2>1, <2>3, <3>1, <3>2, <3>3
    <3> QED
      BY <2>1, <2>2, <2>3, <3>4, Zenon DEF w
  <2>5. ASSUME NEW k \in 1..e, k <= 3 PROVE t \div Weight[e - k] = m \div Weight[3 - k]
    <3> DEFINE b == Weight[3 - k]
    <3>1. e - k \in 0..Width /\ 3 - k \in 0..Width /\ (e - 3) + (3 - k) = e - k /\ (e - 3) + (3 - k) <= Width
      BY <1>0, <1>1, <2>5
    <3>2. b \in Nat \ {0} /\ Weight[e - k] = a * b
      BY <2>0, <3>1, WeightPos, WeightSum
    <3> HIDE DEF a, b
    <3>3. (a * m) \div (a * b) = m \div b
      BY <2>1, <3>2, QuotientCancel
    <3> QED
      BY <2>2, <2>3, <3>2, <3>3, Zenon DEF b
  <2>6. ASSUME NEW k \in 1..e, k > 3 PROVE (t \div Weight[e - k]) % Base = 0
    <3> DEFINE c == Weight[e - k]
               d == Weight[k - 3]
               g == Weight[k - 4]
    <3>1. /\ e - k \in 0..Width /\ k - 3 \in 0..Width /\ (e - k) + (k - 3) = e - 3 /\ (e - k) + (k - 3) <= Width
          /\ k - 3 # 0 /\ (k - 3) - 1 = k - 4 /\ k - 4 \in 0..Width
      BY <1>0, <1>1, <2>6
    <3>2. c \in Nat \ {0} /\ g \in Nat \ {0} /\ a = c * d /\ d = Base * g
      BY <3>1, WeightPos, WeightSum, WeightSteps
    <3> HIDE DEF a, c, d, g
    <3>3. d * m \in Nat /\ d * m = Base * (g * m) /\ g * m \in Nat
      BY <1>0, <3>2
    <3>4. (c * d) * m = c * (d * m)
      BY <1>0, <3>2, <3>3
    <3> DEFINE dm == d * m
               gm == g * m
    <3>5. t = c * dm /\ dm \in Nat /\ gm \in Nat /\ dm = Base * gm
      BY <2>2, <2>3, <3>2, <3>3, <3>4, Zenon
    <3> HIDE DEF dm, gm, t
    <3>6. t \div c = dm
      BY <3>2, <3>5, QuotientCancel, 1 \in Nat \ {0}
    <3>7. dm \div Base \in Nat /\ dm % Base \in Nat /\ dm % Base < Base /\ dm = Base * (dm \div Base) + (dm % Base)
      BY <1>0, <3>5, Divide, Zenon
    <3>8. dm = Base * gm + 0 /\ 0 < Base /\ 0 \in Nat
      BY <1>0, <3>5
    <3>9. Base * (dm \div Base) + (dm % Base) = Base * gm + 0
      BY <3>7, <3>8, Zenon
    <3>10. dm % Base = 0
      BY <1>0, <3>5, <3>7, <3>8, <3>9, Unique, Zenon
    <3> QED
      BY <3>6, <3>10, Zenon DEF c
  <2> QED
    BY <2>2, <2>3, <2>4, <2>5, <2>6, Zenon
<1>2. CASE e < 3
  <2> DEFINE a == Weight[3 - e]
  <2>0. 3 - e \in 0..Width /\ (3 - e) + e = 3 /\ (3 - e) + e <= Width /\ ~ (e >= 3)
    BY <1>0, <1>2
  <2>1. a \in Nat \ {0} /\ Weight[e] \in Nat \ {0} /\ Weight[3] = a * Weight[e]
    BY <1>0, <2>0, WeightPos, WeightSum
  <2>2. t = m \div a
    BY <2>0, Zenon DEF Expanded
  <2>3. m \div a \in Nat
    <3> HIDE DEF a
    <3> QED
      BY <2>1, Divide
  <2>4. m \div a < Weight[e]
    <3> DEFINE w == Weight[e]
    <3>1. w \in Nat /\ m < a * w
      BY <2>1
    <3> HIDE DEF a, w
    <3>2. m \div a >= w <=> a * w <= m
      BY <2>1, <3>1, Quotient, Zenon
    <3>3. a * w \in Nat
      BY <2>1, <3>1
    <3>4. m \div a < w
      BY <2>3, <3>1, <3>2, <3>3
    <3> QED
      BY <3>4 DEF w
  <2>5. ASSUME NEW k \in 1..e PROVE t \div Weight[e - k] = m \div Weight[3 - k]
    <3> DEFINE b == Weight[e - k]
    <3>1. e - k \in 0..Width /\ 3 - k \in 0..Width /\ (3 - e) + (e - k) = 3 - k /\ (3 - e) + (e - k) <= Width
      BY <1>0, <1>2
    <3>2. b \in Nat \ {0} /\ Weight[3 - k] = a * b
      BY <2>0, <3>1, WeightPos, WeightSum
    <3> HIDE DEF a, b
    <3>3. (m \div a) \div b = m \div (a * b)
      BY <2>1, <3>2, QuotientTwice, Zenon
    <3> QED
      BY <2>2, <3>2, <3>3, Zenon DEF b
  <2>6. ASSUME NEW k \in 1..e PROVE ~ (k > 3)
    BY <1>0, <1>2
  <2> QED
    BY <2>2, <2>3, <2>4, <2>5, <2>6, Zenon
<1> QED
  BY <1>0, <1>1, <1>2

\* The target buffer holds the digits of the node's target.
LEMMA TargetDigits ==
    ASSUME NEW e \in 0..Width, NEW m \in Nat, m < Weight[3], NEW i \in 1..Width
    PROVE  nBitsToTarget(e, m)[i] = Digits(Expanded(e, m), Width)[i]
<1>0. Width \in Nat /\ Width > 2 /\ Base \in Nat \ {0}
  BY JobDataAssumption
<1> DEFINE t == Expanded(e, m)
           start == Width - e
           k == i - start
<1>1. t \in Nat /\ t < Weight[e]
  BY TargetIs
<1>2. Digits(t, Width)[i] = (t \div Weight[Width - i]) % Base
  BY DEF Digits
<1>3. nBitsToTarget(e, m)[i] = IF start >= 0 /\ start < Width /\ i - 1 - start \in 0..2 THEN Digits(m, 3)[k] ELSE 0
  BY Zenon DEF nBitsToTarget
<1>4. start >= 0 /\ Width - i = e - k /\ (k \in 1..e \/ k <= 0) /\ k \in Int
  BY <1>0
<1> HIDE DEF t
<1>5. CASE k <= 0
  <2>1. Width - i \in e..Width /\ Width - i \in 0..Width
    BY <1>0, <1>5
  <2>2. Weight[e] <= Weight[Width - i]
    BY <2>1, WeightMono, Zenon
  <2>3. Weight[Width - i] \in Nat \ {0} /\ t < Weight[Width - i]
    BY <1>1, <2>1, <2>2, WeightPos
  <2>4. t \div Weight[Width - i] = 0
    BY <1>1, <2>3, QuotientZero, Zenon
  <2>5. 0 % Base = 0
    BY <1>0
  <2>6. ~ (i - 1 - start \in 0..2)
    BY <1>0, <1>5
  <2> QED
    BY <1>2, <1>3, <2>4, <2>5, <2>6, Zenon DEF t
<1>6. CASE k \in 1..e /\ k <= 3
  <2>1. start < Width /\ i - 1 - start \in 0..2 /\ k \in 1..3
    BY <1>0, <1>6
  <2>2. Digits(m, 3)[k] = (m \div Weight[3 - k]) % Base
    BY <2>1 DEF Digits
  <2>3. t \div Weight[e - k] = m \div Weight[3 - k]
    BY <1>6, TargetIs, Zenon DEF t
  <2> QED
    BY <1>2, <1>3, <1>4, <2>1, <2>2, <2>3, Zenon DEF t
<1>7. CASE k \in 1..e /\ k > 3
  <2>1. ~ (i - 1 - start \in 0..2)
    BY <1>0, <1>7
  <2>2. (t \div Weight[e - k]) % Base = 0
    BY <1>7, TargetIs, Zenon DEF t
  <2> QED
    BY <1>2, <1>3, <1>4, <2>1, <2>2, Zenon DEF t
<1> QED
  BY <1>4, <1>5, <1>6, <1>7

\* A hash meets the target buffer (hashMeetsTarget and nBitsToTarget, pool.js 175-187
\* and 242-250) exactly when it is at most the node's target, whatever the hash, the
\* exponent up to the width of a hash, and the mantissa.
THEOREM MeetsIs ==
    ASSUME NEW e \in 0..Width, NEW m \in Nat, m < Weight[3], NEW v \in Nat, v < Weight[Width]
    PROVE  hashMeetsTarget(HashBytes(v), nBitsToTarget(e, m)) <=> v <= Expanded(e, m)
<1>0. Width \in Nat
  BY JobDataAssumption
<1> DEFINE hash == HashBytes(v)
           target == nBitsToTarget(e, m)
           hashBE == [i \in 1..Len(hash) |-> hash[Len(hash) + 1 - i]]
           t == Expanded(e, m)
           Dv == Digits(v, Width)
           Dt == Digits(t, Width)
<1>1. Len(hash) = Width /\ \A i \in 1..Width : hash[i] = (v \div Weight[i - 1]) % Base
  BY <1>0 DEF HashBytes
<1>2. ASSUME NEW i \in 1..Width PROVE hashBE[i] = Dv[i]
  <2>1. Width + 1 - i \in 1..Width /\ (Width + 1 - i) - 1 = Width - i
    BY <1>0
  <2>2. Dv[i] = (v \div Weight[Width - i]) % Base
    BY DEF Digits
  <2>3. hashBE[i] = hash[Width + 1 - i]
    BY <1>1, Zenon
  <2> HIDE DEF hash, hashBE, Dv
  <2> QED
    BY <1>1, <2>1, <2>2, <2>3, Zenon
<1>3. \A i \in 1..Width : target[i] = Dt[i]
  BY TargetDigits, Zenon
<1>4. DOMAIN hashBE = 1..Width /\ DOMAIN target = 1..Width /\ hashBE = [i \in 1..Width |-> hashBE[i]]
      /\ target = [i \in 1..Width |-> target[i]]
  <2>1. target = [i \in 1..Width |-> target[i]] /\ DOMAIN target = 1..Width
    BY DEF nBitsToTarget
  <2> HIDE DEF hash, target
  <2> QED
    BY <1>1, <2>1
<1>5. hashMeetsTarget(hash, target) <=>
         \/ hashBE = target
         \/ \E i \in 1..Width : hashBE[i] < target[i] /\ \A j \in 1..(i - 1) : hashBE[j] = target[j]
  <2> HIDE DEF hash, target
  <2> QED
    BY <1>1, Zenon DEF hashMeetsTarget
<1> HIDE DEF hash, target, hashBE, Dv, Dt
<1>6. hashBE = target <=> \A j \in 1..Width : Dv[j] = Dt[j]
  BY <1>2, <1>3, <1>4, Zenon
<1>7. ASSUME NEW i \in 1..Width
      PROVE  (hashBE[i] < target[i] /\ \A j \in 1..(i - 1) : hashBE[j] = target[j])
                <=> (Dv[i] < Dt[i] /\ \A j \in 1..(i - 1) : Dv[j] = Dt[j])
  <2>1. \A j \in 1..(i - 1) : j \in 1..Width
    BY <1>0
  <2> QED
    BY <1>2, <1>3, <2>1, Zenon
<1>8. t \in Nat /\ t < Weight[Width]
  <2>1. t \in Nat /\ t < Weight[e] /\ Weight[e] \in Nat \ {0}
    BY TargetIs, WeightPos
  <2>2. Width \in e..Width /\ Width \in 0..Width
    BY <1>0
  <2>3. Weight[e] <= Weight[Width] /\ Weight[Width] \in Nat
    BY <2>2, WeightMono, WeightPos, Zenon
  <2> HIDE DEF t
  <2> QED
    BY <2>1, <2>3
<1> HIDE DEF t
<1>9. v <= t <=> \/ \A j \in 1..Width : Dv[j] = Dt[j]
                 \/ \E i \in 1..Width : Dv[i] < Dt[i] /\ \A j \in 1..(i - 1) : Dv[j] = Dt[j]
  BY <1>8, Compare, Zenon DEF Dv, Dt
<1> QED
  BY <1>5, <1>6, <1>7, <1>9, Zenon DEF hash, target, t

-----------------------------------------------------------------------------
\* A sequence of whatever values, and two of the same length that differ at most
\* in the first place.
IsSeq(s) == s \in Seq({s[i] : i \in DOMAIN s})
Agree(x, y) ==
    /\ IsSeq(x) /\ IsSeq(y) /\ Len(x) = Len(y) /\ Len(x) >= 1
    /\ \A i \in 2..Len(x) : x[i] = y[i]

\* A function on 1..n is a sequence of length n.
LEMMA FunctionIsSeq == ASSUME NEW n \in Nat, NEW s, s = [i \in 1..n |-> s[i]] PROVE IsSeq(s) /\ Len(s) = n
<1> DEFINE V == {s[i] : i \in 1..n}
<1>1. s \in [1..n -> V] /\ DOMAIN s = 1..n
  OBVIOUS
<1>2. s \in Seq(V) /\ Len(s) = n
  <2> HIDE DEF V
  <2> QED
    BY <1>1
<1> QED
  BY <1>1, <1>2, Zenon DEF IsSeq

LEMMA SeqIsFunction ==
    ASSUME NEW s, IsSeq(s)
    PROVE  Len(s) \in Nat /\ DOMAIN s = 1..Len(s) /\ s = [i \in 1..Len(s) |-> s[i]]
BY DEF IsSeq

\* One element put before a sequence.
LEMMA PutBefore ==
    ASSUME NEW a, NEW t, IsSeq(t)
    PROVE  /\ IsSeq(<<a>> \o t) /\ Len(<<a>> \o t) = Len(t) + 1 /\ (<<a>> \o t)[1] = a
           /\ \A i \in 2..(Len(t) + 1) : (<<a>> \o t)[i] = t[i - 1]
<1> DEFINE s == <<a>> \o t
           N == Len(t) + 1
<1>1. Len(t) \in Nat /\ DOMAIN t = 1..Len(t)
  BY SeqIsFunction
<1>2. s = [i \in 1..N |-> s[i]] /\ s[1] = a /\ \A i \in 2..N : s[i] = t[i - 1]
  BY <1>1 DEF IsSeq
<1>3. N \in Nat
  BY <1>1
<1> HIDE DEF s, N
<1>4. IsSeq(s) /\ Len(s) = N
  BY <1>2, <1>3, FunctionIsSeq, Zenon
<1> QED
  BY <1>2, <1>4, Zenon DEF s, N

\* A padded level has an even number of hashes, the last of an odd one twice.
LEMMA PaddedIs ==
    ASSUME NEW s, IsSeq(s), Len(s) >= 1
    PROVE  /\ Len(Padded(s)) = 2 * ((Len(s) + 1) \div 2)
           /\ \A i \in 1..Len(s) : Padded(s)[i] = s[i]
           /\ \A i \in 1..Len(Padded(s)) : i > Len(s) => Padded(s)[i] = s[Len(s)]
<1> DEFINE V == {s[i] : i \in DOMAIN s}
<1>1. s \in Seq(V) /\ Len(s) \in Nat /\ s[Len(s)] \in V
  BY DEF IsSeq
<1>2. CASE Len(s) % 2 # 0
  <2>1. Padded(s) = Append(s, s[Len(s)])
    BY <1>2, Zenon DEF Padded
  <2> HIDE DEF V
  <2>2. Len(Padded(s)) = Len(s) + 1 /\ \A i \in 1..Len(s) : Padded(s)[i] = s[i]
    BY <1>1, <2>1
  <2>3. Padded(s)[Len(s) + 1] = s[Len(s)]
    BY <1>1, <2>1
  <2>4. Len(s) + 1 = 2 * ((Len(s) + 1) \div 2)
    BY <1>1, <1>2
  <2>5. \A i \in 1..(Len(s) + 1) : i > Len(s) => i = Len(s) + 1
    BY <1>1
  <2> QED
    BY <2>2, <2>3, <2>4, <2>5, Zenon
<1>3. CASE Len(s) % 2 = 0
  <2>1. Padded(s) = s
    BY <1>3, Zenon DEF Padded
  <2>2. Len(s) = 2 * ((Len(s) + 1) \div 2)
    BY <1>1, <1>3
  <2>3. \A i \in 1..Len(s) : ~ (i > Len(s))
    BY <1>1
  <2> QED
    BY <2>1, <2>2, <2>3, Zenon
<1> QED
  BY <1>2, <1>3

\* The level above is half as long, rounded up, and shorter; its hashes are of
\* the pairs below.
LEMMA PairsIs ==
    ASSUME NEW s, IsSeq(s), Len(s) >= 2
    PROVE  /\ IsSeq(Pairs(Padded(s))) /\ Len(Pairs(Padded(s))) = (Len(s) + 1) \div 2
           /\ Len(Pairs(Padded(s))) >= 1 /\ Len(Pairs(Padded(s))) < Len(s)
           /\ \A i \in 1..Len(Pairs(Padded(s))) :
                 Pairs(Padded(s))[i] = <<Padded(s)[2 * i - 1], Padded(s)[2 * i]>>
<1> DEFINE p == Padded(s)
           h == (Len(s) + 1) \div 2
           q == Pairs(p)
<1>1. Len(s) \in Nat
  BY SeqIsFunction
<1>2. h \in Nat /\ h >= 1 /\ h < Len(s)
  BY <1>1
<1>3. Len(p) = 2 * h
  BY PaddedIs
<1>4. Len(p) \div 2 = h
  <2> HIDE DEF p, h
  <2> QED
    BY <1>2, <1>3
<1> HIDE DEF p, h
<1>5. q = [i \in 1..h |-> <<p[2 * i - 1], p[2 * i]>>]
  BY <1>4, Zenon DEF Pairs, Hash
<1>6. q = [i \in 1..h |-> q[i]] /\ \A i \in 1..h : q[i] = <<p[2 * i - 1], p[2 * i]>>
  BY <1>5
<1> HIDE DEF q
<1>7. IsSeq(q) /\ Len(q) = h
  BY <1>2, <1>6, FunctionIsSeq
<1> QED
  BY <1>2, <1>6, <1>7, Zenon DEF p, h, q

\* Levels that agree are followed by levels that agree, the node's first hash being
\* the one before it hashed with the sibling that the pool takes.
LEMMA PassAgrees ==
    ASSUME NEW x, NEW y, Agree(x, y)
    PROVE  /\ Agree(PoolPass(x), NodePass(y))
           /\ Len(y) <= 1 => Len(NodePass(y)) <= 1
           /\ Len(y) > 1 => Len(NodePass(y)) < Len(y) /\ NodePass(y)[1] = <<y[1], Padded(x)[2]>>
<1>0. IsSeq(x) /\ IsSeq(y) /\ Len(x) = Len(y) /\ Len(x) >= 1 /\ Len(x) \in Nat /\ \A i \in 2..Len(x) : x[i] = y[i]
  BY SeqIsFunction DEF Agree
<1>1. CASE Len(y) <= 1
  <2>1. PoolPass(x) = x /\ NodePass(y) = y /\ ~ (Len(y) > 1)
    BY <1>0, <1>1 DEF PoolPass, NodePass
  <2> QED
    BY <1>1, <2>1, Zenon
<1>2. CASE Len(y) > 1
  <2> DEFINE u == Pairs(Padded(x))
             w == Pairs(Padded(y))
             h == (Len(y) + 1) \div 2
  <2>0. Len(x) >= 2 /\ Len(y) >= 2 /\ ~ (Len(x) <= 1) /\ ~ (Len(y) <= 1) /\ h \in Nat /\ h >= 1 /\ Len(y) \in Nat
    BY <1>0, <1>2
  <2>1. PoolPass(x) = [u EXCEPT ![1] = Null] /\ NodePass(y) = w
    BY <2>0, Zenon DEF PoolPass, NodePass
  <2>2. /\ IsSeq(w) /\ Len(w) = h /\ Len(w) < Len(y)
        /\ \A i \in 1..h : w[i] = <<Padded(y)[2 * i - 1], Padded(y)[2 * i]>>
    BY <1>0, <2>0, PairsIs
  <2>3. /\ IsSeq(u) /\ Len(u) = h
        /\ \A i \in 1..h : u[i] = <<Padded(x)[2 * i - 1], Padded(x)[2 * i]>>
    BY <1>0, <2>0, PairsIs
  <2>4. ASSUME NEW j \in 1..(2 * h), j > 1 PROVE Padded(x)[j] = Padded(y)[j]
    <3>1. Len(Padded(x)) = 2 * h /\ Len(Padded(y)) = 2 * h
      BY <1>0, <2>0, PaddedIs
    <3>2. CASE j <= Len(y)
      <4>1. j \in 1..Len(x) /\ j \in 2..Len(x) /\ j \in 1..Len(y)
        BY <1>0, <2>4, <2>0, <3>2
      <4>2. Padded(x)[j] = x[j] /\ Padded(y)[j] = y[j]
        BY <1>0, <2>0, <4>1, PaddedIs
      <4> QED
        BY <1>0, <4>1, <4>2, Zenon
    <3>3. CASE j > Len(y)
      <4>1. Padded(x)[j] = x[Len(x)] /\ Padded(y)[j] = y[Len(y)]
        BY <1>0, <2>0, <3>1, <3>3, PaddedIs
      <4>2. Len(x) \in 2..Len(x)
        BY <1>0, <2>0
      <4> QED
        BY <1>0, <4>1, <4>2, Zenon
    <3> QED
      BY <2>0, <3>2, <3>3
  <2> HIDE DEF u, w, h
  <2> DEFINE v == [u EXCEPT ![1] = Null]
  <2>5. v = [i \in 1..h |-> v[i]] /\ \A i \in 2..h : v[i] = u[i]
    <3>1. DOMAIN u = 1..h /\ u = [i \in 1..h |-> u[i]]
      BY <2>3, SeqIsFunction
    <3>2. DOMAIN v = 1..h /\ v = [i \in DOMAIN u |-> v[i]]
      BY <3>1, Zenon
    <3>3. \A i \in 1..h : v[i] = IF i = 1 THEN Null ELSE u[i]
      BY <3>1
    <3>4. \A i \in 2..h : i \in 1..h /\ i # 1
      BY <2>0
    <3> HIDE DEF v
    <3> QED
      BY <3>1, <3>2, <3>3, <3>4, Zenon
  <2> HIDE DEF v
  <2>6. IsSeq(v) /\ Len(v) = h
    BY <2>0, <2>5, FunctionIsSeq
  <2>7. ASSUME NEW i \in 2..h PROVE v[i] = w[i]
    <3>1. i \in 1..h /\ 2 * i - 1 \in 1..(2 * h) /\ 2 * i - 1 > 1 /\ 2 * i \in 1..(2 * h) /\ 2 * i > 1
      BY <2>0
    <3> QED
      BY <2>2, <2>3, <2>4, <2>5, <3>1, Zenon
  <2>8. Agree(v, w)
    BY <2>0, <2>2, <2>6, <2>7, Zenon DEF Agree
  <2>9. w[1] = <<y[1], Padded(x)[2]>>
    <3>1. 1 \in 1..h /\ 2 * 1 - 1 = 1 /\ 2 * 1 = 2 /\ 2 \in 1..(2 * h) /\ 2 > 1 /\ 1 \in 1..Len(y)
      BY <2>0
    <3>2. Padded(y)[1] = y[1]
      BY <1>0, <3>1, PaddedIs
    <3>3. w[1] = <<Padded(y)[2 * 1 - 1], Padded(y)[2 * 1]>>
      BY <2>2, <3>1, Zenon
    <3>4. Padded(x)[2] = Padded(y)[2]
      BY <2>4, <3>1, Zenon
    <3> QED
      BY <3>1, <3>2, <3>3, <3>4, Zenon
  <2> QED
    BY <2>0, <2>1, <2>2, <2>8, <2>9, Zenon DEF v
<1> QED
  BY <1>0, <1>1, <1>2

\* The loops that a merkle tree is computed with.
LEMMA LevelsAre ==
    ASSUME NEW s, Len(s) \in Nat
    PROVE  IsLoop(PoolLevels(s), Len(s), s, "pool", <<>>) /\ IsLoop(NodeLevels(s), Len(s), s, "node", <<>>)
<1> DEFINE N == Len(s)
           Pool(f) == f = [k \in 0..N |-> IF k = 0 THEN s ELSE PoolPass(f[k - 1])]
           Node(f) == f = [k \in 0..N |-> IF k = 0 THEN s ELSE NodePass(f[k - 1])]
<1>1. \A f : (IsLoop(f, N, s, "pool", <<>>) <=> Pool(f)) /\ (IsLoop(f, N, s, "node", <<>>) <=> Node(f))
  <2>1. "pool" # "weight" /\ "node" # "weight" /\ "node" # "pool"
    OBVIOUS
  <2> QED
    BY <2>1, Zenon DEF IsLoop, Pass
<1>2. (\E f : Pool(f)) /\ (\E f : Node(f))
  <2>1. (\E f : IsLoop(f, N, s, "pool", <<>>)) /\ (\E f : IsLoop(f, N, s, "node", <<>>))
    BY LoopExists, Zenon
  <2> HIDE DEF Pool, Node
  <2> QED
    BY <1>1, <2>1, Zenon
<1>3. PoolLevels(s) = CHOOSE f : Pool(f)
  BY DEF PoolLevels, PoolPass
<1>4. NodeLevels(s) = CHOOSE f : Node(f)
  BY DEF NodeLevels, NodePass
<1> HIDE DEF Pool, Node
<1>5. Pool(PoolLevels(s)) /\ Node(NodeLevels(s))
  BY <1>2, <1>3, <1>4, Zenon
<1> QED
  BY <1>1, <1>5, Zenon

LEMMA FoldIs ==
    ASSUME NEW c, NEW branch, Len(branch) \in Nat
    PROVE  \E f : IsLoop(f, Len(branch), c, "fold", branch) /\ RootFromBranch(c, branch) = f[Len(branch)]
<1> DEFINE N == Len(branch)
           Fold(f) == f = [k \in 0..N |-> IF k = 0 THEN c ELSE Hash(f[k - 1], branch[k])]
<1>1. \A f : IsLoop(f, N, c, "fold", branch) <=> Fold(f)
  <2>1. "fold" # "weight" /\ "fold" # "pool" /\ "fold" # "node"
    OBVIOUS
  <2> QED
    BY <2>1, Zenon DEF IsLoop, Pass
<1>2. \E f : Fold(f)
  <2>1. \E f : IsLoop(f, N, c, "fold", branch)
    BY LoopExists, Zenon
  <2> HIDE DEF Fold
  <2> QED
    BY <1>1, <2>1, Zenon
<1>3. RootFromBranch(c, branch) = (CHOOSE f : Fold(f))[N]
  BY DEF RootFromBranch
<1> HIDE DEF Fold
<1>4. Fold(CHOOSE f : Fold(f))
  BY <1>2, Zenon
<1> QED
  BY <1>1, <1>3, <1>4, Zenon

\* Folding a coinbase up the branch that the pool makes of the hashes of a
\* template's transactions (pool.js 1079-1097, 787-791) gives the root that the
\* node computes over the coinbase and those hashes, for every number of them.
THEOREM RootAgrees ==
    ASSUME NEW txs, IsSeq(txs), NEW coinbase
    PROVE  RootFromBranch(coinbase, MerkleBranch(<<Null>> \o txs)) = NodeMerkleRoot(<<coinbase>> \o txs)
<1> DEFINE x == <<Null>> \o txs
           y == <<coinbase>> \o txs
           N == Len(txs) + 1
           L == PoolLevels(x)
           M == NodeLevels(y)
<1>1. N \in Nat /\ N >= 1 /\ Len(x) = N /\ Len(y) = N /\ Agree(x, y) /\ y[1] = coinbase
  <2>1. N \in Nat /\ N >= 1
    BY SeqIsFunction
  <2>2. IsSeq(x) /\ Len(x) = N /\ \A i \in 2..N : x[i] = txs[i - 1]
    BY PutBefore
  <2>3. IsSeq(y) /\ Len(y) = N /\ y[1] = coinbase /\ \A i \in 2..N : y[i] = txs[i - 1]
    BY PutBefore
  <2> HIDE DEF x, y, N
  <2> QED
    BY <2>1, <2>2, <2>3, Zenon DEF Agree
<1> HIDE DEF x, y, N
<1>2. IsLoop(L, N, x, "pool", <<>>) /\ IsLoop(M, N, y, "node", <<>>)
  BY <1>1, LevelsAre, Zenon
<1> HIDE DEF L, M
<1>3. /\ DOMAIN L = 0..N /\ L[0] = x /\ \A k \in 0..N : k # 0 => L[k] = PoolPass(L[k - 1])
      /\ DOMAIN M = 0..N /\ M[0] = y /\ \A k \in 0..N : k # 0 => M[k] = NodePass(M[k - 1])
  <2>1. /\ DOMAIN L = 0..N /\ L[0] = x /\ \A k \in 0..N : k # 0 => L[k] = Pass("pool", <<>>, k, L[k - 1])
        /\ DOMAIN M = 0..N /\ M[0] = y /\ \A k \in 0..N : k # 0 => M[k] = Pass("node", <<>>, k, M[k - 1])
    BY <1>1, <1>2, LoopIs
  <2>2. \A k, z : Pass("pool", <<>>, k, z) = PoolPass(z) /\ Pass("node", <<>>, k, z) = NodePass(z)
    BY DEF Pass
  <2> QED
    BY <2>1, <2>2
\* Level by level the two agree, and get shorter until one hash is left.
<1>4. \A k \in 0..N : Agree(L[k], M[k]) /\ (Len(M[k]) <= 1 \/ Len(M[k]) <= N - k)
  <2> DEFINE Good(k) == Agree(L[k], M[k]) /\ (Len(M[k]) <= 1 \/ Len(M[k]) <= N - k)
             Bad == {k \in 0..N : ~ Good(k)}
  <2>1. Good(0)
    BY <1>1, <1>3
  <2>2. ASSUME NEW k \in 0..N, k # 0, Good(k - 1) PROVE Good(k)
    <3>1. L[k] = PoolPass(L[k - 1]) /\ M[k] = NodePass(M[k - 1]) /\ Agree(L[k - 1], M[k - 1])
      BY <1>3, <2>2
    <3>2. Agree(L[k], M[k])
      BY <3>1, PassAgrees, Zenon
    <3>3. Len(M[k - 1]) \in Nat /\ Len(M[k]) \in Nat
      BY <3>1, <3>2, SeqIsFunction, Zenon DEF Agree
    <3>4. (Len(M[k - 1]) <= 1 => Len(M[k]) <= 1) /\ (Len(M[k - 1]) > 1 => Len(M[k]) < Len(M[k - 1]))
      BY <3>1, PassAgrees, Zenon
    <3>5. Len(M[k]) <= 1 \/ Len(M[k]) <= N - k
      BY <1>1, <2>2, <3>3, <3>4
    <3> QED
      BY <3>2, <3>5
  <2> HIDE DEF Good
  <2>3. ASSUME Bad # {} PROVE FALSE
    <3>1. PICK k \in Bad : \A l \in Bad : k <= l
      <4>1. Bad \in SUBSET Nat
        BY <1>1
      <4> HIDE DEF Bad
      <4> QED
        BY <2>3, <4>1, SmallestNat
    <3>2. k \in 0..N /\ ~ Good(k)
      BY <3>1
    <3>3. k # 0
      BY <2>1, <3>2
    <3>4. k - 1 \in 0..N /\ k - 1 \notin Bad
      BY <1>1, <3>1, <3>2, <3>3
    <3> QED
      BY <2>2, <3>2, <3>3, <3>4
  <2> QED
    BY <2>3 DEF Good
\* Both loops stop at the same level.
<1> DEFINE Stop(level, d) == Len(level[d]) <= 1 /\ \A k \in 0..(d - 1) : Len(level[k]) > 1
<1>5. PICK d \in 0..N : Stop(M, d)
  <2> DEFINE Short == {k \in 0..N : Len(M[k]) <= 1}
  <2>0. \A k \in 0..N : Len(M[k]) \in Nat
    BY <1>4, SeqIsFunction, Zenon DEF Agree
  <2>1. N \in Short
    <3>1. N \in 0..N /\ N - N = 0
      BY <1>1
    <3>2. Len(M[N]) \in Nat /\ (Len(M[N]) <= 1 \/ Len(M[N]) <= 0)
      BY <1>4, <2>0, <3>1
    <3> QED
      BY <3>1, <3>2
  <2>2. PICK d \in Short : \A l \in Short : d <= l
    <3>1. Short \in SUBSET Nat
      BY <1>1
    <3> HIDE DEF Short
    <3> QED
      BY <2>1, <3>1, SmallestNat
  <2>3. ASSUME NEW k \in 0..(d - 1) PROVE Len(M[k]) > 1
    <3>1. k \in 0..N /\ ~ (d <= k)
      BY <1>1, <2>2
    <3>2. k \notin Short
      BY <2>2, <3>1
    <3> QED
      BY <2>0, <3>1, <3>2
  <2>4. d \in 0..N /\ Len(M[d]) <= 1
    BY <2>2
  <2> QED
    BY <2>3, <2>4
<1>6. Stop(L, d)
  <2>1. \A k \in 0..(d - 1) : k \in 0..N
    BY <1>1
  <2> QED
    BY <1>4, <1>5, <2>1, Zenon DEF Agree
<1>7. ASSUME NEW level, DOMAIN level = 0..N, Stop(level, d), \A k \in 0..N : Len(level[k]) \in Nat
      PROVE  Depth(level) = d
  <2>1. ASSUME NEW e \in 0..N, Stop(level, e) PROVE e = d
    <3>1. ~ (e < d)
      <4> SUFFICES ASSUME e < d PROVE FALSE
        OBVIOUS
      <4>1. e \in 0..(d - 1)
        BY <1>1
      <4>2. Len(level[e]) > 1 /\ Len(level[e]) <= 1 /\ Len(level[e]) \in Nat
        BY <1>7, <2>1, <4>1, Zenon
      <4> QED
        BY <4>2
    <3>2. ~ (d < e)
      <4> SUFFICES ASSUME d < e PROVE FALSE
        OBVIOUS
      <4>1. d \in 0..(e - 1)
        BY <1>1
      <4>2. Len(level[d]) > 1 /\ Len(level[d]) <= 1 /\ Len(level[d]) \in Nat
        BY <1>7, <2>1, <4>1, Zenon
      <4> QED
        BY <4>2
    <3> QED
      BY <1>1, <3>1, <3>2
  <2>2. Depth(level) = CHOOSE e \in 0..N : Stop(level, e)
    BY <1>7, Zenon DEF Depth
  <2> HIDE DEF Stop
  <2> QED
    BY <1>7, <2>1, <2>2, Zenon
<1>8. Depth(L) = d /\ Depth(M) = d
  <2>1. \A k \in 0..N : Len(L[k]) \in Nat /\ Len(M[k]) \in Nat
    BY <1>4, SeqIsFunction, Zenon DEF Agree
  <2> HIDE DEF Stop
  <2> QED
    BY <1>3, <1>5, <1>6, <1>7, <2>1, Zenon
<1> DEFINE branch == MerkleBranch(x)
<1>9. branch = [k \in 1..d |-> branch[k]] /\ \A k \in 1..d : branch[k] = Padded(L[k - 1])[2]
  <2>1. branch = [k \in 1..d |-> Padded(L[k - 1])[2]]
    BY <1>8, Zenon DEF MerkleBranch, L
  <2> HIDE DEF branch
  <2> QED
    BY <2>1
<1> HIDE DEF branch
<1>10. Len(branch) = d /\ d \in Nat
  BY <1>1, <1>9, FunctionIsSeq
<1>11. PICK f : IsLoop(f, d, coinbase, "fold", branch) /\ RootFromBranch(coinbase, branch) = f[d]
  BY <1>10, FoldIs, Zenon
<1>12. f[0] = coinbase /\ \A k \in 0..d : k # 0 => f[k] = <<f[k - 1], branch[k]>>
  <2>1. f[0] = coinbase /\ \A k \in 0..d : k # 0 => f[k] = Pass("fold", branch, k, f[k - 1])
    BY <1>10, <1>11, LoopIs
  <2>2. \A k, z : Pass("fold", branch, k, z) = <<z, branch[k]>>
    BY DEF Pass, Hash
  <2> QED
    BY <2>1, <2>2, Zenon
\* The coinbase folded up to a level is the node's first hash there.
<1>13. \A k \in 0..d : f[k] = M[k][1]
  <2> DEFINE Bad == {k \in 0..d : f[k] # M[k][1]}
  <2>1. ASSUME Bad # {} PROVE FALSE
    <3>1. PICK k \in Bad : \A l \in Bad : k <= l
      <4>1. Bad \in SUBSET Nat
        BY <1>10
      <4> HIDE DEF Bad
      <4> QED
        BY <2>1, <4>1, SmallestNat
    <3>2. k \in 0..d /\ f[k] # M[k][1]
      BY <3>1
    <3>3. k # 0
      BY <1>1, <1>3, <1>12, <3>2, Zenon
    <3>4. k - 1 \in 0..d /\ k - 1 \notin Bad /\ k \in 1..d /\ k - 1 \in 0..(d - 1) /\ k \in 0..N /\ k - 1 \in 0..N
      BY <1>1, <1>10, <3>1, <3>2, <3>3
    <3>5. f[k - 1] = M[k - 1][1]
      BY <3>4
    <3>6. Len(M[k - 1]) > 1 /\ Agree(L[k - 1], M[k - 1]) /\ M[k] = NodePass(M[k - 1])
      BY <1>3, <1>4, <1>5, <3>3, <3>4, Zenon
    <3>7. M[k][1] = <<M[k - 1][1], Padded(L[k - 1])[2]>>
      BY <3>6, PassAgrees, Zenon
    <3>8. f[k] = <<f[k - 1], Padded(L[k - 1])[2]>>
      BY <1>9, <1>12, <3>2, <3>3, <3>4, Zenon
    <3> QED
      BY <3>2, <3>5, <3>7, <3>8, Zenon
  <2> QED
    BY <2>1
<1>14. d \in 0..d
  BY <1>10
<1>15. NodeMerkleRoot(y) = M[d][1]
  BY <1>8, Zenon DEF NodeMerkleRoot, M
<1> QED
  BY <1>11, <1>13, <1>14, <1>15, Zenon DEF x, y, branch

-----------------------------------------------------------------------------
\* The inputs that are counted through.
InputInv == input \in Nat /\ input <= High
LEMMA InputIn == JobSpec => []InputInv
<1>1. CountInit => InputInv
  BY JobDataAssumption DEF CountInit, InputInv
<1>2. InputInv /\ [Count]_input => InputInv'
  BY JobDataAssumption DEF Count, InputInv
<1> QED
  BY <1>1, <1>2, PTL DEF JobSpec

\* The push of the height (pool.js 1050-1061) is what the node wants at every
\* height below 2^15; HeightsRefused says what happens from there on.
THEOREM HeightAcceptedThm == ASSUME High < 128 * 256 PROVE JobSpec => []HeightAccepted
<1>1. ASSUME InputInv PROVE HeightAccepted
  <2>0. input \in Nat /\ input <= High
    BY <1>1 DEF InputInv
  <2> SUFFICES ASSUME input >= BIP34Height PROVE HeightScript(input) = NodeHeightScript(input)
    BY Zenon DEF HeightAccepted
  <2> DEFINE h == input
  <2>1. Place[1] = 1 /\ Place[2] = 256 /\ Place[3] = 65536 /\ Place[4] = 16777216
    BY DEF Place
  <2>2. h \div Place[4] < 128 /\ h \div Place[2] < 128 /\ h \div Place[2] < 256 /\ h \div Place[2] >= 1
        /\ h \div Place[2] \in Nat
    BY <2>0, <2>1, JobDataAssumption DEF BIP34Height
  <2>3. Trimmed(h) = LittleEndian(h, 2) /\ Len(Trimmed(h)) = 2
    BY <2>0, <2>2, TrimmedIs, 2 \in 1..4
  <2>4. LittleEndian(h, 2)[2] = (h \div Place[2]) % 256
    BY DEF LittleEndian
  <2>5. Top(h) < 128
    BY <2>2, <2>3, <2>4 DEF Top
  <2> QED
    BY <2>0, <2>2, <2>5, HeightsRefused, Zenon
<1> QED
  BY <1>1, InputIn, PTL

\* The number of transactions that handleBlockFound writes (pool.js 202-208, 869)
\* is the number that the node reads, as long as it has two bytes.
LEMMA CountReadsBack ==
    ASSUME NEW v \in Nat, v < 256 * 256 PROVE ReadCompactSize(encodeVarInt(v)) = v
<1>1. CASE v < 253
  <2>1. encodeVarInt(v) = <<v>>
    BY <1>1 DEF encodeVarInt
  <2>2. Len(<<v>>) = 1 /\ <<v>>[1] = v
    OBVIOUS
  <2> QED
    BY <1>1, <2>1, <2>2 DEF ReadCompactSize
<1>2. CASE v >= 253
  <2> DEFINE s == <<253>> \o LittleEndian(v, 2)
  <2>1. encodeVarInt(v) = s
    BY <1>2 DEF encodeVarInt
  <2>2. Place[1] = 1 /\ Place[2] = 256
    BY DEF Place
  <2>3. LittleEndian(v, 2) = [i \in 1..2 |-> (v \div Place[i]) % 256]
    BY DEF LittleEndian
  <2>4. s[1] = 253 /\ s[2] = (v \div Place[1]) % 256 /\ s[3] = (v \div Place[2]) % 256 /\ Len(s) = 3
    <3> DEFINE t == LittleEndian(v, 2)
    <3>1. t = [i \in 1..2 |-> t[i]]
      BY <2>3
    <3>2. t[1] = (v \div Place[1]) % 256 /\ t[2] = (v \div Place[2]) % 256
      BY <2>3
    <3> HIDE DEF t
    <3>3. IsSeq(t) /\ Len(t) = 2
      BY <3>1, FunctionIsSeq, 2 \in Nat, Zenon
    <3>4. Len(s) = Len(t) + 1 /\ s[1] = 253 /\ \A i \in 2..(Len(t) + 1) : s[i] = t[i - 1]
      BY <3>3, PutBefore DEF t
    <3> HIDE DEF s
    <3>5. Len(s) = 3 /\ s[2] = t[1] /\ s[3] = t[2]
      BY <3>3, <3>4
    <3> QED
      BY <3>2, <3>4, <3>5, Zenon
  <2> HIDE DEF s
  <2>5. s[2] + 256 * s[3] = v
    BY <2>2, <2>4
  <2>6. Len(s) # 1 /\ s[2] + 256 * s[3] >= 253
    BY <1>2, <2>4, <2>5
  <2> QED
    BY <2>1, <2>4, <2>5, <2>6 DEF ReadCompactSize
<1> QED
  BY <1>1, <1>2

\* The block that is put together reads back, whatever bound MaxTx is put on the
\* transactions of a template.
THEOREM BlockReadsBackThm == ASSUME High < 256 * 256 - 1 PROVE JobSpec => []BlockReadsBack
<1>1. ASSUME InputInv PROVE BlockReadsBack
  <2>0. input \in Nat /\ input <= High
    BY <1>1 DEF InputInv
  <2> DEFINE txs == [i \in 1..input |-> <<i>>]
  <2>1. 1 + input \in Nat /\ 1 + input < 256 * 256
    BY <2>0, JobDataAssumption
  <2>2. ReadCompactSize(encodeVarInt(1 + input)) = 1 + input
    BY <2>1, CountReadsBack, Zenon
  <2>3. txs = [i \in 1..input |-> txs[i]]
    OBVIOUS
  <2> HIDE DEF txs
  <2>4. IsSeq(txs)
    BY <2>0, <2>3, FunctionIsSeq, Zenon
  <2>5. RootFromBranch(<<0>>, MerkleBranch(<<Null>> \o txs)) = NodeMerkleRoot(<<<<0>>>> \o txs)
    BY <2>4, RootAgrees, Zenon
  <2> QED
    BY <2>2, <2>5, Zenon DEF BlockReadsBack, txs
<1> QED
  BY <1>1, InputIn, PTL

\* A share is taken for a block exactly when the node takes it for one (pool.js
\* 175-187 and 242-250), for every base and width of the digits, 256 and 32 among
\* them.
THEOREM BlockAsNodeThm == JobSpec => []BlockAsNode
<1>1. ASSUME InputInv PROVE BlockAsNode
  <2> DEFINE e == input \div Weight[3]
             m == input % Weight[3]
  <2>0. Width \in Nat /\ 3 \in 0..Width /\ Width \in 0..Width
    BY JobDataAssumption
  <2>1. Weight[3] \in Nat \ {0} /\ Weight[Width] \in Nat \ {0}
    BY <2>0, WeightPos, Zenon
  <2>2. e \in Nat /\ m \in Nat /\ m < Weight[3]
    <3> DEFINE w == Weight[3]
    <3>1. w \in Nat \ {0}
      BY <2>1
    <3> HIDE DEF w
    <3>2. input \div w \in Nat /\ input % w \in Nat /\ input % w < w
      BY <1>1, <3>1, Divide DEF InputInv
    <3> QED
      BY <3>2 DEF w
  <2> HIDE DEF e, m
  <2>3. ASSUME e <= Width, NEW v \in 0..(Weight[Width] - 1)
        PROVE  hashMeetsTarget(HashBytes(v), nBitsToTarget(e, m)) <=> v <= Expanded(e, m)
    <3>1. e \in 0..Width /\ v \in Nat /\ v < Weight[Width]
      BY <2>0, <2>1, <2>2, <2>3
    <3> QED
      BY <2>2, <3>1, MeetsIs, Zenon
  <2> QED
    BY <2>3, Zenon DEF BlockAsNode, e, m
<1> QED
  BY <1>1, InputIn, PTL
=============================================================================
