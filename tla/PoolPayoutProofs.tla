-------------------------- MODULE PoolPayoutProofs --------------------------
(* What the payouts add up to, what the wallet covers and what the payout  *)
(* history says of the chain, for any number of runs, miners and amounts.  *)
EXTENDS PoolPayout, NumberProofs, TLAPS

\* The first of the recent transactions, and what is left when it has aged.
LEMMA HeadTail == ASSUME NEW S, NEW s \in Seq(S), s # <<>>
                  PROVE  /\ Head(s) = s[1] /\ 1 \in 1..Len(s) /\ Tail(s) \in Seq(S)
                         /\ \A i \in 1..Len(Tail(s)) : i + 1 \in 1..Len(s) /\ Tail(s)[i] = s[i + 1]
OBVIOUS

\* A broadcast adds one recent transaction at the end.
LEMMA Appended == ASSUME NEW S, NEW s \in Seq(S), NEW e \in S
                  PROVE  /\ Append(s, e) \in Seq(S)
                         /\ \A i \in 1..Len(Append(s, e)) : Append(s, e)[i] = e \/ (i \in 1..Len(s) /\ Append(s, e)[i] = s[i])
OBVIOUS

\* Nothing is recorded at first.
LEMMA TxInit == Init => TxInv
BY DEF Init, TxInv, RecordNamesTx, Labels

\* Whatever a run takes for its transaction was broadcast.
LEMMA TxNext == TxInv /\ [Next]_vars => TxInv'
<1> SUFFICES ASSUME TxInv, [Next]_vars PROVE TxInv'
  OBVIOUS
<1> USE DEF TxInv, RecordNamesTx, Labels, Step, chainVars, redisVars, runVars
<1>1. CASE Mature
  BY <1>1 DEF Mature
<1>2. CASE Age
  BY <1>2, HeadTail DEF Age
<1>3. ASSUME NEW r \in Runs, Start(r) \/ Shares(r) \/ Validate(r) \/ Intent(r) \/ Record(r) \/ Clear(r)
      PROVE  TxInv'
  <2>1. CASE Start(r)
    BY <2>1 DEF Start
  <2>2. CASE Shares(r)
    <3>1. Step(r, "shares", "done") \/ Step(r, "shares", "validate")
      BY <2>2 DEF Shares
    <3>2. UNCHANGED <<tx, recent, sent, history>>
      BY <2>2 DEF Shares
    <3> QED
      BY <3>1, <3>2
  <2>3. CASE Validate(r)
    BY <2>3 DEF Validate
  <2>4. CASE Intent(r) \/ Clear(r)
    BY <2>4 DEF Intent, Clear
  <2>5. CASE Record(r)
    BY <2>5 DEF Record
  <2> QED
    BY <1>3, <2>1, <2>2, <2>3, <2>4, <2>5
<1>4. ASSUME NEW r \in Runs, Broadcast(r)
      PROVE  /\ sent' = sent \cup {r} /\ recent' \in Seq(Runs)
             /\ \A i \in 1..Len(recent') : recent'[i] \in sent'
  BY <1>4, Appended DEF Broadcast
<1>5. ASSUME NEW r \in Runs, Send(r) PROVE TxInv'
  <2>1. CASE Step(r, "send", "record") /\ tx' = [tx EXCEPT ![r] = r] /\ Broadcast(r)
    BY <1>4, <1>5, <2>1 DEF Send
  <2>2. CASE Step(r, "send", "list") /\ Broadcast(r) /\ UNCHANGED tx
    BY <1>4, <1>5, <2>2 DEF Send
  <2>3. CASE Step(r, "send", "list") /\ UNCHANGED <<sent, recent, tx>>
    BY <1>5, <2>3 DEF Send
  <2> QED
    BY <1>5, <2>1, <2>2, <2>3 DEF Send
<1>6. ASSUME NEW r \in Runs, LateSend(r) PROVE TxInv'
  <2>1. UNCHANGED <<pc, tx, history>>
    BY <1>6 DEF LateSend
  <2>2. CASE Broadcast(r)
    BY <1>4, <2>1, <2>2
  <2>3. CASE UNCHANGED <<sent, recent>>
    BY <2>1, <2>3
  <2> QED
    BY <1>6, <2>2, <2>3 DEF LateSend
<1>7. ASSUME NEW r \in Runs, List(r) PROVE TxInv'
  <2>1. CASE recent # <<>> /\ Step(r, "list", "record") /\ tx' = [tx EXCEPT ![r] = Head(recent)]
    <3>1. Head(recent) \in Runs /\ Head(recent) \in sent
      BY <2>1, HeadTail
    <3> QED
      BY <1>7, <2>1, <3>1 DEF List
  <2>2. CASE Step(r, "list", "done") /\ UNCHANGED tx
    BY <1>7, <2>2 DEF List
  <2> QED
    BY <1>7, <2>1, <2>2 DEF List
<1>8. ASSUME NEW r \in Runs, Aborts(r) PROVE TxInv'
  BY <1>4, <1>8 DEF Aborts
<1>9. CASE UNCHANGED vars
  BY <1>9 DEF vars
<1> HIDE DEF TxInv
<1> QED
  BY <1>1, <1>2, <1>3, <1>5, <1>6, <1>7, <1>8, <1>9 DEF Next, Process

(* Every record of the payout history names a broadcast transaction        *)
(* (pool.js:1246-1275), however runs overlap, fail and are restarted.      *)
THEOREM RecordNamesTxThm == Spec => []RecordNamesTx
<1>1. TxInv => RecordNamesTx
  BY DEF TxInv
<1> QED
  BY <1>1, TxInit, TxNext, PTL DEF Spec

\* No run is under way, so none is beside another.
LEMMA AloneInit == Init => AloneInv
<1>1. Init => overlap \in BOOLEAN /\ OwnRecord
  BY Zenon DEF Init, OwnRecord
<1> QED
  BY <1>1 DEF Init, AloneInv, Labels, Active

\* Steps keep a run that is alone the only source of recent transactions.
LEMMA AloneNext == AloneInv /\ [Next]_vars => AloneInv'
<1> SUFFICES ASSUME AloneInv, [Next]_vars PROVE AloneInv'
  OBVIOUS
\* A run that is alone stays so when only its own sends are added.
<1>c. ASSUME NEW r \in Runs, Alone(r), \A q \in Runs : Active(q)' => Active(q), flight' \subseteq flight \cup {r},
             \A i \in 1..Len(recent') : recent'[i] = r \/ \E j \in 1..Len(recent) : recent'[i] = recent[j]
      PROVE  Alone(r)'
  BY <1>c DEF Alone
<1> USE DEF Labels, Active, Step, chainVars, redisVars, runVars
<1>0. /\ pc \in [Runs -> Labels] /\ tx \in [Runs -> Runs \cup {NoRun}]
      /\ recent \in Seq(Runs) /\ flight \subseteq Runs
  BY DEF AloneInv
\* Steps that leave overlap alone: the types, and the rest if it is FALSE.
<1>a. ASSUME UNCHANGED overlap, pc' \in [Runs -> Labels], tx' \in [Runs -> Runs \cup {NoRun}],
             recent' \in Seq(Runs), flight' \subseteq Runs,
             ~overlap => /\ \A r \in Runs : (Active(r)' => Alone(r)') /\ (pc'[r] = "record" => tx'[r] = r)
                         /\ \A h \in history' : h.tx = h.run
      PROVE  AloneInv'
  BY <1>a, Zenon DEF AloneInv, OwnRecord
<1>b. ~overlap => /\ \A r \in Runs : (Active(r) => Alone(r)) /\ (pc[r] = "record" => tx[r] = r)
                  /\ \A h \in history : h.tx = h.run
  BY Zenon DEF AloneInv, OwnRecord
<1>1. CASE Mature
  <2>1. UNCHANGED <<pc, tx, recent, flight, history, overlap>>
    BY <1>1 DEF Mature
  <2> QED
    BY <1>0, <1>a, <1>b, <2>1 DEF Alone
<1>2. CASE Age
  <2>1. UNCHANGED <<pc, tx, flight, history, overlap>>
    BY <1>2 DEF Age
  <2>2. recent' \in Seq(Runs) /\ \A i \in 1..Len(recent') : i + 1 \in 1..Len(recent) /\ recent'[i] = recent[i + 1]
    BY <1>0, <1>2, HeadTail DEF Age
  <2>3. ASSUME NEW r \in Runs, Active(r)', ~overlap PROVE Alone(r)'
    <3>1. Alone(r) /\ \A q \in Runs : Active(q)' => Active(q)
      BY <1>b, <2>1, <2>3
    <3>2. \A i \in 1..Len(recent') : \E j \in 1..Len(recent) : recent'[i] = recent[j]
      BY <2>2
    <3> HIDE DEF Active
    <3> QED
      BY <1>c, <2>1, <3>1, <3>2
  <2>4. \A r \in Runs : ~overlap /\ pc'[r] = "record" => tx'[r] = r
    BY <1>b, <2>1
  <2> HIDE DEF Active, Labels
  <2> QED
    BY <1>0, <1>a, <1>b, <2>1, <2>2, <2>3, <2>4
<1>3. ASSUME NEW r \in Runs, Start(r) PROVE AloneInv'
  <2>1. /\ pc' \in [Runs -> Labels] /\ \A q \in Runs \ {r} : pc'[q] = pc[q]
        /\ pc'[r] # "record" /\ UNCHANGED <<tx, recent, flight, history>>
    BY <1>0, <1>3 DEF Start
  <2>2. overlap' \in BOOLEAN
    BY <1>3, Zenon DEF Start
  <2>3. ASSUME ~overlap' PROVE ~overlap /\ recent = <<>> /\ flight = {} /\ \A q \in Runs : ~Active(q)
    BY <1>3, <2>3, Zenon DEF Start
  <2>4. ASSUME ~overlap'
        PROVE  /\ \A q \in Runs : (Active(q)' => Alone(q)') /\ (pc'[q] = "record" => tx'[q] = q)
               /\ \A h \in history' : h.tx = h.run
    BY <1>b, <2>1, <2>3, <2>4 DEF Alone
  <2> QED
    BY <1>0, <2>1, <2>2, <2>4, Zenon DEF AloneInv, OwnRecord
\* A step of a run that is under way and broadcasts nothing.
<1>4. ASSUME NEW r \in Runs, Active(r), pc' \in [Runs -> Labels], \A q \in Runs \ {r} : pc'[q] = pc[q],
             ~overlap => pc'[r] # "record" \/ tx'[r] = r, UNCHANGED <<recent, history, overlap>>,
             flight' = flight \/ flight' = flight \cup {r},
             tx' \in [Runs -> Runs \cup {NoRun}]
      PROVE  AloneInv'
  BY <1>0, <1>a, <1>b, <1>4 DEF Alone
<1>5. ASSUME NEW r \in Runs, Shares(r) PROVE AloneInv'
  <2>1. Step(r, "shares", "done") \/ Step(r, "shares", "validate")
    BY <1>5 DEF Shares
  <2>2. UNCHANGED <<tx, recent, history, flight, overlap>>
    BY <1>5 DEF Shares
  <2> QED
    BY <1>0, <1>4, <2>1, <2>2
<1>6. ASSUME NEW r \in Runs, Validate(r) \/ Intent(r) \/ Clear(r) PROVE AloneInv'
  <2>1. Step(r, "validate", "intent") \/ Step(r, "intent", "send") \/ Step(r, "clear", "done")
    BY <1>6 DEF Validate, Intent, Clear
  <2>2. UNCHANGED <<tx, recent, history, flight, overlap>>
    BY <1>6 DEF Validate, Intent, Clear
  <2> QED
    BY <1>0, <1>4, <2>1, <2>2
<1>7. ASSUME NEW r \in Runs, Record(r) PROVE AloneInv'
  <2>1. /\ pc[r] = "record" /\ pc' = [pc EXCEPT ![r] = "clear"] /\ UNCHANGED <<tx, recent, flight, overlap>>
        /\ history' = history \cup {[run |-> r, tx |-> tx[r]]}
    BY <1>7 DEF Record
  <2> QED
    BY <1>0, <1>a, <1>b, <2>1 DEF Alone
<1>8. ASSUME NEW r \in Runs, Broadcast(r)
      PROVE  recent' \in Seq(Runs) /\ \A i \in 1..Len(recent') : recent'[i] = r \/ (i \in 1..Len(recent) /\ recent'[i] = recent[i])
  BY <1>0, <1>8, Appended DEF Broadcast
<1>9. ASSUME NEW r \in Runs, Send(r) PROVE AloneInv'
  <2>0. pc[r] = "send" /\ UNCHANGED <<history, overlap>>
    BY <1>9 DEF Send
  <2>1. CASE Broadcast(r) /\ UNCHANGED flight
    <3>1. /\ pc' \in [Runs -> Labels] /\ \A q \in Runs \ {r} : pc'[q] = pc[q]
          /\ tx' \in [Runs -> Runs \cup {NoRun}] /\ \A q \in Runs \ {r} : tx'[q] = tx[q]
          /\ pc'[r] = "record" => tx'[r] = r
      BY <1>0, <1>9 DEF Send
    <3>2. recent' \in Seq(Runs)
      BY <1>8, <2>1
    <3>3. ASSUME NEW q \in Runs, Active(q)', ~overlap PROVE Alone(q)'
      <4>1. Active(r) /\ Alone(r) /\ \A p \in Runs : Active(p)' => Active(p)
        BY <1>b, <2>0, <3>1, <3>3
      <4>2. q = r
        BY <3>3, <4>1 DEF Alone
      <4>3. \A i \in 1..Len(recent') : recent'[i] = r \/ \E j \in 1..Len(recent) : recent'[i] = recent[j]
        BY <1>8, <2>1
      <4> HIDE DEF Active
      <4> QED
        BY <1>c, <2>1, <4>1, <4>2, <4>3
    <3>4. \A q \in Runs : ~overlap /\ pc'[q] = "record" => tx'[q] = q
      BY <1>b, <3>1
    <3> HIDE DEF Active, Labels
    <3> QED
      BY <1>0, <1>a, <1>b, <2>0, <2>1, <3>1, <3>2, <3>3, <3>4
  <2>2. CASE Step(r, "send", "list") /\ UNCHANGED <<recent, tx>> /\ (flight' = flight \/ flight' = flight \cup {r})
    BY <1>0, <1>4, <2>0, <2>2
  <2> QED
    BY <1>9, <2>1, <2>2 DEF Send
<1>10. ASSUME NEW r \in Runs, LateSend(r) PROVE AloneInv'
  <2>0. r \in flight /\ flight' = flight \ {r} /\ UNCHANGED <<pc, tx, history, overlap>>
    BY <1>10 DEF LateSend
  <2>1. recent' \in Seq(Runs) /\ \A i \in 1..Len(recent') : recent'[i] = r \/ (i \in 1..Len(recent) /\ recent'[i] = recent[i])
    BY <1>0, <1>8, <1>10 DEF LateSend
  <2>2. ASSUME NEW q \in Runs, Active(q)', ~overlap PROVE Alone(q)'
    <3>1. Alone(q) /\ \A p \in Runs : Active(p)' => Active(p)
      BY <1>b, <2>0, <2>2
    <3>2. q = r
      BY <2>0, <3>1 DEF Alone
    <3>3. \A i \in 1..Len(recent') : recent'[i] = q \/ \E j \in 1..Len(recent) : recent'[i] = recent[j]
      BY <2>1, <3>2
    <3> HIDE DEF Active
    <3> QED
      BY <1>c, <2>0, <3>1, <3>3
  <2> HIDE DEF Active, Labels
  <2> QED
    BY <1>0, <1>a, <1>b, <2>0, <2>1, <2>2
<1>11. ASSUME NEW r \in Runs, List(r) PROVE AloneInv'
  <2>0. UNCHANGED <<recent, history, flight, overlap>>
    BY <1>11 DEF List
  <2>1. CASE recent # <<>> /\ Step(r, "list", "record") /\ tx' = [tx EXCEPT ![r] = Head(recent)]
    <3>1. Head(recent) \in Runs /\ (~overlap => Head(recent) = r)
      BY <1>0, <1>b, <2>1, HeadTail DEF Alone
    <3> QED
      BY <1>0, <1>4, <2>0, <2>1, <3>1
  <2>2. CASE Step(r, "list", "done") /\ UNCHANGED tx
    BY <1>0, <1>4, <2>0, <2>2
  <2> QED
    BY <1>11, <2>1, <2>2 DEF List
<1>12. ASSUME NEW r \in Runs, Aborts(r) PROVE AloneInv'
  BY <1>0, <1>4, <1>12 DEF Aborts
<1>13. CASE UNCHANGED vars
  <2>1. UNCHANGED <<pc, tx, recent, flight, history, overlap>>
    BY <1>13 DEF vars
  <2> QED
    BY <1>0, <1>a, <1>b, <2>1 DEF Alone
<1> QED
  BY <1>1, <1>2, <1>3, <1>5, <1>6, <1>7, <1>9, <1>10, <1>11, <1>12, <1>13 DEF Next, Process

(* As long as no run of the hourly job has begun beside another one or its *)
(* send, the transaction recorded for a run is the run's own               *)
(* (pool.js:1246-1275), although listtransactions is searched by age only. *)
THEOREM OwnRecordThm == Spec => []OwnRecord
<1>1. AloneInv => OwnRecord
  BY DEF AloneInv
<1> QED
  BY <1>1, AloneInit, AloneNext, PTL DEF Spec

\* The payouts object has finitely many keys.
LEMMA KeysFinite == IsFiniteSet(Keys)
<1>1. IsFiniteSet(Miners \cup {Domain})
  BY PayoutAssumption, FS_AddElement
<1>2. IsFiniteSet((Miners \cup {Domain}) \cup {FeeWallet})
  BY <1>1, FS_AddElement
<1>3. Keys = (Miners \cup {Domain}) \cup {FeeWallet}
  BY DEF Keys
<1> QED
  BY <1>2, <1>3

\* The quotient of a rounding, times the divisor, is at most the dividend.
LEMMA DivUpper == ASSUME NEW x \in Nat, NEW y \in Nat, y > 0
                  PROVE x \div y \in Nat /\ y * (x \div y) <= x
OBVIOUS

\* A reward that is paid, rounded up as it may be, is no more than the miner's
\* share of the whole sendable balance: what rounding adds is less than the fee
\* taken from a reward of at least MinPayout.
LEMMA RewardShare ==
    ASSUME NEW A \in Nat, NEW W \in Nat, W > 0, NEW v \in Nat, NEW R,
           R = Round(A * (100 - FeePercent) * v, 100 * W), R >= MinPayout
    PROVE  R \in Nat /\ R * W <= v * A
<1> DEFINE N == A * (100 - FeePercent) * v
           D == 100 - FeePercent
<1>1. /\ D \in Nat /\ MinPayout \in Nat \ {0} /\ FeePercent \in 1..100 /\ MinPayout * FeePercent >= 50
  BY PayoutAssumption
<1>2. A * v \in Nat /\ N = D * (A * v) /\ N \in Nat
  BY <1>1
<1>3. 2 * N + 100 * W \in Nat /\ 2 * (100 * W) \in Nat /\ 2 * (100 * W) > 0
  BY <1>2
<1>4. R \in Nat /\ 2 * (100 * W) * R <= 2 * N + 100 * W
  BY <1>3, DivUpper DEF Round
<1> HIDE DEF N, D
<1>5. R * FeePercent >= 50
  <2>1. R * FeePercent >= MinPayout * FeePercent
    BY <1>1, <1>4
  <2> QED
    BY <1>1, <1>4, <2>1
<1>6. R * W \in Nat
  BY <1>4
<1>7. D * (R * W) <= D * (A * v)
  <2>1. D * (R * W) = 100 * (R * W) - FeePercent * (R * W)
    BY <1>1, <1>6 DEF D
  <2>2. FeePercent * (R * W) = (R * FeePercent) * W
    BY <1>1, <1>4
  <2>3. (R * FeePercent) * W >= 50 * W
    BY <1>1, <1>4, <1>5
  <2>4. 2 * (100 * W) * R = 200 * (R * W)
    BY <1>4
  <2> QED
    BY <1>1, <1>2, <1>4, <1>6, <2>1, <2>2, <2>3, <2>4
<1>8. D > 0
  <2>1. ASSUME D = 0 PROVE FALSE
    <3>1. N = 0
      BY <1>2, <2>1
    <3>2. 200 * (W * R) <= 100 * W
      BY <1>4, <3>1
    <3>3. R >= 1
      BY <1>1, <1>4
    <3>4. W * R >= W
      BY <1>4, <3>3
    <3>5. W * R \in Nat
      BY <1>4
    <3> QED
      BY <3>2, <3>4, <3>5
  <2> QED
    BY <1>1, <2>1
<1> QED
  <2>1. R * W <= A * v
    BY <1>2, <1>1, <1>6, <1>7, <1>8
  <2>2. A * v = v * A
    OBVIOUS
  <2> QED
    BY <1>4, <2>1, <2>2

\* The total of a payouts object.
LEMMA TotalNat == ASSUME NEW f \in [Keys -> Nat] PROVE Total(f) \in Nat
BY KeysFinite, SumNat DEF Total

\* One entry of a payouts object is changed.
LEMMA TotalChange ==
    ASSUME NEW f \in [Keys -> Nat], NEW g \in [Keys -> Nat], NEW x \in Keys, \A k \in Keys : k # x => g[k] = f[k]
    PROVE  Total(g) = Total(f) - f[x] + g[x]
<1>1. \A k \in Keys : f[k] \in Nat /\ g[k] \in Nat
  OBVIOUS
<1> QED
  BY <1>1, KeysFinite, SumChange DEF Total

\* The division of a balance gives out exactly the balance less the reserve:
\* the rewards never exceed it, so that the rest is not negative and the fee
\* wallet takes it all.
LEMMA AllotIs ==
    ASSUME NEW b \in Nat, b >= MinBalance, NEW w \in Windows, Total(w) # 0
    PROVE  Allot(b, w) \in [Keys -> Nat] /\ Total(Allot(b, w)) = b - Reserve
<1> DEFINE A == b - Reserve
           W == Total(w)
           due == [k \in Keys |-> IF Reward(b, w, k) >= MinPayout THEN Reward(b, w, k) ELSE 0]
           all == [due EXCEPT ![FeeWallet] = @ + (A - Total(due))]
<1>1. A \in Nat /\ W \in Nat /\ W > 0 /\ \A k \in Keys : w[k] \in Nat
  BY PayoutAssumption, TotalNat
<1>2. ASSUME NEW k \in Keys PROVE due[k] \in Nat /\ due[k] * W <= w[k] * A
  <2>1. CASE Reward(b, w, k) >= MinPayout
    <3>1. Reward(b, w, k) = Round(A * (100 - FeePercent) * w[k], 100 * W)
      BY DEF Reward
    <3>2. Reward(b, w, k) \in Nat /\ Reward(b, w, k) * W <= w[k] * A
      BY <1>1, <2>1, <3>1, RewardShare
    <3> QED
      BY <2>1, <3>2
  <2>2. CASE ~(Reward(b, w, k) >= MinPayout)
    <3>1. due[k] = 0
      BY <2>2
    <3>2. w[k] * A \in Nat /\ 0 * W = 0
      BY <1>1
    <3> QED
      BY <3>1, <3>2
  <2> QED
    BY <2>1, <2>2
<1>3. Total(due) * W <= W * A
  <2> HIDE DEF due, A
  <2>1. SumFunctionOnSet(due, Keys) * W <= SumFunctionOnSet(w, Keys) * A
    BY <1>1, <1>2, KeysFinite, SumScaled
  <2> QED
    BY <2>1 DEF Total
<1>4. due \in [Keys -> Nat]
  BY <1>2
<1> HIDE DEF due
<1>5. Total(due) \in Nat
  BY <1>4, TotalNat
<1>6. Total(due) <= A
  <2> DEFINE T == Total(due)
  <2> HIDE DEF T, A, W
  <2>1. T \in Nat /\ T * W <= W * A
    BY <1>3, <1>5 DEF T
  <2>2. ~(T >= A + 1)
    <3> SUFFICES ASSUME T >= A + 1 PROVE FALSE
      OBVIOUS
    <3>1. T * W >= (A + 1) * W
      BY <1>1, <2>1
    <3>2. (A + 1) * W = W * A + W
      BY <1>1
    <3>3. W * A \in Nat /\ T * W \in Nat
      BY <1>1, <2>1
    <3> QED
      BY <1>1, <2>1, <3>1, <3>2, <3>3
  <2> QED
    BY <1>1, <2>1, <2>2 DEF T
<1>7. FeeWallet \in Keys
  BY DEF Keys
<1>8. CASE A - Total(due) > 0
  <2>1. Allot(b, w) = all
    BY <1>8 DEF Allot, due
  <2>2. /\ \A k \in Keys : due[k] \in Nat /\ all[k] \in Nat /\ (k # FeeWallet => all[k] = due[k])
        /\ all[FeeWallet] = due[FeeWallet] + (A - Total(due)) /\ all \in [Keys -> Nat]
    BY <1>1, <1>4, <1>5, <1>6, <1>7, <1>8
  <2> HIDE DEF all, A
  <2>3. Total(all) = Total(due) - due[FeeWallet] + all[FeeWallet]
    BY <1>4, <1>7, <2>2, TotalChange
  <2>4. Total(all) = A
    BY <1>1, <1>4, <1>5, <1>7, <2>2, <2>3
  <2> QED
    BY <2>1, <2>2, <2>4 DEF A
<1>9. CASE ~(A - Total(due) > 0)
  <2>1. Allot(b, w) = due
    BY <1>9 DEF Allot, due
  <2> QED
    BY <1>1, <1>4, <1>5, <1>6, <1>9, <2>1
<1> QED
  BY <1>8, <1>9

\* Moving an invalid address's reward to the fee wallet keeps the total.
LEMMA ValidatedIs ==
    ASSUME NEW p \in [Keys -> Nat], NEW q, q = [p EXCEPT ![FeeWallet] = @ + p[Domain], ![Domain] = 0]
    PROVE  q \in [Keys -> Nat] /\ Total(q) = Total(p) /\ q[Domain] = 0
<1> DEFINE m == [p EXCEPT ![FeeWallet] = @ + p[Domain]]
<1>1. FeeWallet \in Keys /\ Domain \in Keys /\ FeeWallet # Domain
  BY PayoutAssumption DEF Keys
<1>2. /\ m \in [Keys -> Nat] /\ m[FeeWallet] = p[FeeWallet] + p[Domain] /\ m[Domain] = p[Domain]
      /\ \A k \in Keys : k # FeeWallet => m[k] = p[k]
  BY <1>1
<1>3. q \in [Keys -> Nat] /\ q[Domain] = 0 /\ \A k \in Keys : k # Domain => q[k] = m[k]
  BY <1>1
<1> HIDE DEF m
<1>4. Total(m) = Total(p) - p[FeeWallet] + m[FeeWallet]
  BY <1>1, <1>2, TotalChange, Zenon
<1>5. Total(q) = Total(m) - m[Domain] + q[Domain]
  BY <1>1, <1>2, <1>3, TotalChange, Zenon
<1>6. Total(p) \in Nat /\ p[FeeWallet] \in Nat /\ p[Domain] \in Nat
  BY <1>1, TotalNat
<1> QED
  BY <1>2, <1>3, <1>4, <1>5, <1>6

\* No run has divided anything yet.
LEMMA PayInit == Init => PayInv
<1> SUFFICES ASSUME Init PROVE PayInv
  OBVIOUS
<1>1. overlap \in BOOLEAN
  BY Zenon DEF Init
<1>2. MaxBlocks \in Nat
  BY PayoutAssumption
<1>3. TypeOK
  BY <1>1, <1>2 DEF Init, TypeOK, Labels, Nothing
<1> QED
  BY <1>3 DEF Init, PayInv, Funded, Active, Divided

\* Every step of every run keeps the payouts equal to what the run read.
LEMMA PayNext == PayInv /\ [Next]_vars => PayInv'
<1> SUFFICES ASSUME PayInv, [Next]_vars PROVE PayInv'
  OBVIOUS
<1>t. /\ wallet \in Nat /\ mined \in 0..MaxBlocks
      /\ pc \in [Runs -> Labels] /\ bal \in [Runs -> Nat]
      /\ pay \in [Runs -> [Keys -> Nat]] /\ tx \in [Runs -> Runs \cup {NoRun}]
      /\ flight \subseteq Runs /\ sent \subseteq Runs /\ recent \in Seq(Runs)
      /\ pending \in Runs \cup {NoRun} /\ history \subseteq [run : Runs, tx : Runs]
  BY DEF PayInv, TypeOK
<1>o. overlap \in BOOLEAN
  BY DEF PayInv, TypeOK
<1>f. \A r \in Runs : Funded(r)
  BY DEF PayInv
<1>k. ASSUME NEW r \in Runs, TypeOK', Funded(r)',
             \A q \in Runs \ {r} : /\ pc'[q] = pc[q] /\ bal'[q] = bal[q] /\ pay'[q] = pay[q] /\ tx'[q] = tx[q]
                                   /\ (q \in flight' <=> q \in flight) /\ (q \in sent' <=> q \in sent)
      PROVE  PayInv'
  <2> SUFFICES ASSUME NEW q \in Runs \ {r} PROVE Funded(q)'
    BY <1>k DEF PayInv
  <2>1. Funded(q)
    BY <1>f
  <2> QED
    BY <1>k, <2>1 DEF Funded, Active
<1> USE DEF Labels, Step, chainVars, redisVars, runVars
<1>0. overlap' = overlap => overlap' \in BOOLEAN
  BY <1>o
<1>1. CASE Mature \/ Age \/ UNCHANGED vars
  <2>1. UNCHANGED <<pc, bal, pay, tx, flight, sent>>
    BY <1>1 DEF Mature, Age, vars
  <2>2. TypeOK'
    <3>1. overlap' \in BOOLEAN
      BY <1>0, <1>1 DEF Mature, Age, vars
    <3>2. CASE Mature
      <4>1. wallet' \in Nat /\ mined' \in 0..MaxBlocks
        <5>1. Income \in Nat /\ MaxBlocks \in Nat
          BY PayoutAssumption
        <5> QED
          BY <1>t, <3>2, <5>1 DEF Mature
      <4> QED
        BY <1>t, <3>1, <3>2, <4>1 DEF Mature, TypeOK
    <3>3. CASE Age
      <4>1. recent' \in Seq(Runs)
        BY <1>t, <3>3, HeadTail DEF Age
      <4> QED
        BY <1>t, <3>1, <3>3, <4>1 DEF Age, TypeOK
    <3>4. CASE UNCHANGED vars
      BY <1>t, <3>1, <3>4 DEF vars, TypeOK
    <3> QED
      BY <1>1, <3>2, <3>3, <3>4
  <2> QED
    BY <1>f, <2>1, <2>2 DEF PayInv, Funded, Active
<1>2. ASSUME NEW r \in Runs, Start(r) PROVE PayInv'
  <2>1. overlap' \in BOOLEAN
    BY <1>2, Zenon DEF Start
  <2>2. TypeOK'
    BY <1>t, <1>2, <2>1 DEF Start, TypeOK
  <2>3. r \notin flight \cup sent
    BY <1>2, <1>f DEF Start, Funded, Handed
  <2>4. Funded(r)'
    <3>1. /\ pc' = [pc EXCEPT ![r] = IF wallet < MinBalance THEN "done" ELSE "shares"]
          /\ bal' = [bal EXCEPT ![r] = wallet] /\ UNCHANGED <<flight, sent>>
      BY <1>2 DEF Start
    <3>2. bal'[r] = wallet /\ pc'[r] \in {"done", "shares"} /\ (pc'[r] = "shares" => wallet >= MinBalance)
      BY <1>t, <3>1, PayoutAssumption, SMTT(15)
    <3> QED
      BY <2>3, <3>1, <3>2 DEF Funded, Active, Divided
  <2> QED
    BY <1>t, <1>2, <1>k, <2>2, <2>4 DEF Start
<1>3. ASSUME NEW r \in Runs, Shares(r) PROVE PayInv'
  <2>a. PICK w \in Windows :
            IF Total(w) = 0
            THEN Step(r, "shares", "done") /\ UNCHANGED <<mined, chainVars, runVars, redisVars, overlap>>
            ELSE /\ Step(r, "shares", "validate")
                 /\ pay' = [pay EXCEPT ![r] = Allot(bal[r], w)]
                 /\ UNCHANGED <<mined, chainVars, bal, tx, redisVars, overlap>>
    <3> HIDE DEF Labels, Step, chainVars, redisVars, runVars
    <3> QED
      BY <1>3, Zenon DEF Shares
  <2>0. \/ /\ pc[r] = "shares" /\ pc' = [pc EXCEPT ![r] = "done"] /\ UNCHANGED pay
        \/ /\ pc[r] = "shares" /\ pc' = [pc EXCEPT ![r] = "validate"] /\ Total(w) # 0
           /\ pay' = [pay EXCEPT ![r] = Allot(bal[r], w)]
    BY <2>a
  <2>1. UNCHANGED <<wallet, mined, bal, tx, flight, sent, recent, pending, history, overlap>>
    BY <2>a
  <2>2. r \notin flight \cup sent /\ bal[r] >= MinBalance
    BY <1>f, <2>0 DEF Funded, Handed, Active
  <2>3. Total(w) # 0 => Allot(bal[r], w) \in [Keys -> Nat] /\ Total(Allot(bal[r], w)) = bal[r] - Reserve
    BY <1>t, <2>2, AllotIs
  <2>4. overlap' \in BOOLEAN
    BY <1>0, <2>1
  <2>5. TypeOK'
    BY <1>t, <2>0, <2>1, <2>3, <2>4, Zenon DEF TypeOK
  <2>6. Funded(r)'
    BY <1>t, <2>0, <2>1, <2>2, <2>3 DEF Funded, Active, Divided
  <2>7. \A p \in Runs \ {r} : pc'[p] = pc[p] /\ pay'[p] = pay[p]
    BY <1>t, <2>0, SMTT(15)
  <2> QED
    BY <1>k, <2>1, <2>5, <2>6, <2>7, Zenon
<1>4. ASSUME NEW r \in Runs, Validate(r) PROVE PayInv'
  <2> DEFINE q == [pay[r] EXCEPT ![FeeWallet] = @ + pay[r][Domain], ![Domain] = 0]
  <2>0. /\ pc[r] = "validate" /\ pc' = [pc EXCEPT ![r] = "intent"]
        /\ UNCHANGED <<wallet, mined, bal, tx, flight, sent, recent, pending, history, overlap>>
    BY <1>4 DEF Validate
  <2>1. pay' = [pay EXCEPT ![r] = q] \/ pay' = pay
    BY <1>t, <1>4 DEF Validate, Keys
  <2>2. q \in [Keys -> Nat] /\ Total(q) = Total(pay[r])
    BY <1>t, ValidatedIs, Zenon
  <2> HIDE DEF q
  <2>3. r \notin flight \cup sent /\ bal[r] >= MinBalance /\ Total(pay[r]) = bal[r] - Reserve
    BY <1>f, <2>0 DEF Funded, Handed, Active, Divided
  <2>4. overlap' \in BOOLEAN
    BY <1>0, <2>0
  <2>5. TypeOK'
    BY <1>t, <2>0, <2>1, <2>2, <2>4, Zenon DEF TypeOK
  <2>6. Funded(r)'
    BY <1>t, <2>0, <2>1, <2>2, <2>3 DEF Funded, Active, Divided
  <2>7. \A p \in Runs \ {r} : pc'[p] = pc[p] /\ pay'[p] = pay[p]
    BY <1>t, <2>0, <2>1
  <2> QED
    BY <1>k, <2>0, <2>5, <2>6, <2>7, Zenon
\* The steps of a run after its division that hand nothing to the node.
<1>5. ASSUME NEW r \in Runs, Intent(r) \/ List(r) \/ Record(r) \/ Clear(r) PROVE PayInv'
  <2>0. UNCHANGED <<wallet, mined, bal, pay, flight, sent, recent, overlap>>
    BY <1>5 DEF Intent, List, Record, Clear
  <2>1. /\ pc[r] \in Divided \ {"validate"} /\ pc' \in [Runs -> Labels]
        /\ pc[r] \in Handed => pc'[r] \in Handed
        /\ \A p \in Runs \ {r} : pc'[p] = pc[p] /\ tx'[p] = tx[p]
    BY <1>t, <1>5, Zenon DEF Intent, List, Record, Clear, Divided, Handed
  <2>2. tx' \in [Runs -> Runs \cup {NoRun}] /\ (pc'[r] = "record" => tx'[r] \in Runs)
    <3>1. CASE List(r)
      <4>1. recent # <<>> => Head(recent) \in Runs
        BY <1>t, HeadTail
      <4>2. CASE recent # <<>> /\ tx' = [tx EXCEPT ![r] = Head(recent)]
        BY <1>t, <4>1, <4>2
      <4>3. CASE UNCHANGED tx /\ pc' = [pc EXCEPT ![r] = "done"]
        BY <1>t, <4>3
      <4> QED
        BY <3>1, <4>2, <4>3 DEF List
    <3>2. CASE Intent(r) \/ Record(r) \/ Clear(r)
      <4>1. UNCHANGED tx
        BY <3>2 DEF Intent, Record, Clear
      <4>2. pc' \in {[pc EXCEPT ![r] = "send"], [pc EXCEPT ![r] = "clear"], [pc EXCEPT ![r] = "done"]}
        BY <3>2 DEF Intent, Record, Clear
      <4> QED
        BY <1>t, <4>1, <4>2, SMTT(15)
    <3> QED
      BY <1>5, <3>1, <3>2
  <2>3. pending' \in Runs \cup {NoRun} /\ history' \subseteq [run : Runs, tx : Runs]
    <3>1. pc[r] = "record" => tx[r] \in Runs
      BY <1>f DEF Funded
    <3> QED
      BY <1>t, <1>5, <3>1 DEF Intent, List, Record, Clear
  <2>4. overlap' \in BOOLEAN
    BY <1>0, <2>0
  <2>5. TypeOK'
    BY <1>t, <2>0, <2>1, <2>2, <2>3, <2>4 DEF TypeOK
  <2>6. Funded(r)
    BY <1>f
  <2>7. Funded(r)'
    BY <2>0, <2>1, <2>2, <2>6 DEF Funded, Active, Divided
  <2> QED
    BY <1>k, <2>0, <2>1, <2>5, <2>7
<1>6. ASSUME NEW r \in Runs, Broadcast(r)
      PROVE  /\ wallet' \in Nat /\ sent' = sent \cup {r} /\ recent' \in Seq(Runs) /\ pay[r][Domain] = 0
  <2>1. Total(pay[r]) \in Nat
    BY <1>t, TotalNat
  <2> QED
    <3>1. wallet' \in Nat
      <4>1. wallet' = wallet - Total(pay[r]) - TxFee /\ Total(pay[r]) + TxFee <= wallet
        BY <1>6 DEF Broadcast
      <4>2. TxFee \in Nat
        BY PayoutAssumption
      <4> QED
        BY <1>t, <2>1, <4>1, <4>2
    <3>2. recent' \in Seq(Runs)
      BY <1>t, <1>6, Appended DEF Broadcast
    <3> QED
      BY <1>6, <3>1, <3>2 DEF Broadcast
<1>7. ASSUME NEW r \in Runs, Send(r) PROVE PayInv'
  <2>0. pc[r] = "send" /\ UNCHANGED <<mined, bal, pay, pending, history, overlap>>
    BY <1>7 DEF Send
  <2>1. \/ pc' = [pc EXCEPT ![r] = "record"] /\ tx' = [tx EXCEPT ![r] = r]
        \/ pc' = [pc EXCEPT ![r] = "list"] /\ UNCHANGED tx
    BY <1>7 DEF Send
  <2>2. /\ wallet' \in Nat /\ recent' \in Seq(Runs) /\ flight' \in {flight, flight \cup {r}}
        /\ sent' = sent \/ (sent' = sent \cup {r} /\ pay[r][Domain] = 0)
    BY <1>t, <1>6, <1>7 DEF Send
  <2>3. overlap' \in BOOLEAN
    BY <1>0, <2>0
  <2>4. TypeOK'
    <3>1. pc' \in [Runs -> Labels]
      BY <1>t, <2>1, Zenon
    <3>2. tx' \in [Runs -> Runs \cup {NoRun}]
      BY <1>t, <2>1, Zenon
    <3>3. flight' \subseteq Runs /\ sent' \subseteq Runs
      BY <1>t, <2>2
    <3> QED
      BY <1>t, <2>0, <2>2, <2>3, <3>1, <3>2, <3>3 DEF TypeOK
  <2>5. bal[r] >= MinBalance /\ Total(pay[r]) = bal[r] - Reserve /\ r \notin flight \cup sent
    BY <1>f, <2>0 DEF Funded, Active, Divided, Handed
  <2>6. Funded(r)'
    BY <1>t, <2>0, <2>1, <2>2, <2>5 DEF Funded, Active, Divided, Handed
  <2> QED
    BY <1>t, <1>k, <2>0, <2>1, <2>2, <2>4, <2>6, Zenon
<1>8. ASSUME NEW r \in Runs, LateSend(r) PROVE PayInv'
  <2>0. r \in flight /\ flight' = flight \ {r} /\ UNCHANGED <<mined, pc, bal, pay, tx, pending, history, overlap>>
    BY <1>8 DEF LateSend
  <2>1. /\ wallet' \in Nat /\ recent' \in Seq(Runs)
        /\ sent' = sent \/ (sent' = sent \cup {r} /\ pay[r][Domain] = 0)
    BY <1>t, <1>6, <1>8 DEF LateSend
  <2>2. overlap' \in BOOLEAN
    BY <1>0, <2>0
  <2>3. TypeOK'
    BY <1>t, <2>0, <2>1, <2>2 DEF TypeOK
  <2>4. Funded(r)
    BY <1>f
  <2>5. Funded(r)'
    BY <2>0, <2>1, <2>4 DEF Funded, Active
  <2> QED
    BY <1>k, <2>0, <2>1, <2>3, <2>5
<1>9. ASSUME NEW r \in Runs, Aborts(r) PROVE PayInv'
  <2>0. /\ pc[r] \notin {"idle", "done"} /\ pc' = [pc EXCEPT ![r] = "done"]
        /\ flight' = flight \/ (pc[r] = "send" /\ flight' = flight \cup {r})
        /\ UNCHANGED <<wallet, sent, recent, mined, bal, pay, tx, pending, history, overlap>>
    BY <1>9 DEF Aborts
  <2>1. overlap' \in BOOLEAN
    BY <1>0, <2>0
  <2>2. TypeOK'
    BY <1>t, <2>0, <2>1 DEF TypeOK
  <2>3. Funded(r)
    BY <1>f
  <2>4. Funded(r)'
    BY <1>t, <2>0, <2>3, SMTT(15) DEF Funded, Active, Divided, Handed
  <2> QED
    BY <1>t, <1>k, <2>0, <2>2, <2>4, Zenon
<1> QED
  BY <1>1, <1>2, <1>3, <1>4, <1>5, <1>7, <1>8, <1>9 DEF Next, Process

\* Only a run's own send takes money out of the wallet while it is alone.
LEMMA FundsNext == PayInv /\ AloneInv /\ FundsInv /\ [Next]_vars => FundsInv'
<1> DEFINE Early == {"shares", "validate", "intent", "send"}
<1> SUFFICES ASSUME PayInv, AloneInv, FundsInv, [Next]_vars, ~overlap', NEW q \in Runs, pc'[q] \in Early
             PROVE  bal'[q] <= wallet'
  BY Zenon DEF FundsInv
<1>t. wallet \in Nat /\ pc \in [Runs -> Labels] /\ bal \in [Runs -> Nat] /\ Income \in Nat
  BY PayoutAssumption DEF PayInv, TypeOK
<1>f. \A r \in Runs : r \in flight => pc[r] \in Handed
  BY DEF PayInv, Funded
<1>k. ASSUME ~overlap, pc[q] \in Early PROVE bal[q] <= wallet /\ Alone(q)
  <2>1. bal[q] <= wallet
    BY <1>k, Zenon DEF FundsInv
  <2>2. Alone(q)
    BY <1>k, Zenon DEF AloneInv, Active
  <2> QED
    BY <2>1, <2>2
<1> USE DEF Step, chainVars, redisVars, runVars
<1>1. CASE Mature \/ Age \/ UNCHANGED vars
  <2>1. UNCHANGED <<pc, bal, overlap>> /\ wallet' \in {wallet, wallet + Income}
    BY <1>1 DEF Mature, Age, vars
  <2>2. bal[q] <= wallet
    BY <1>k, <2>1
  <2> QED
    BY <1>t, <2>1, <2>2
<1>2. ASSUME NEW r \in Runs, Start(r) PROVE bal'[q] <= wallet'
  <2>1. ~Active(q)
    BY <1>2, Zenon DEF Start
  <2>2. q = r
    BY <1>t, <1>2, <2>1 DEF Start, Active
  <2> QED
    BY <1>t, <1>2, <2>2 DEF Start
<1>3. ASSUME NEW r \in Runs, Shares(r) \/ Validate(r) \/ Intent(r) \/ List(r) \/ Record(r) \/ Clear(r) \/ Aborts(r)
      PROVE  bal'[q] <= wallet'
  <2>1. UNCHANGED <<wallet, bal, overlap>>
    <3>1. CASE Shares(r) \/ Validate(r) \/ Intent(r)
      BY <3>1 DEF Shares, Validate, Intent
    <3>2. CASE List(r) \/ Record(r)
      BY <3>2 DEF List, Record
    <3>3. CASE Clear(r) \/ Aborts(r)
      BY <3>3 DEF Clear, Aborts
    <3> QED
      BY <1>3, <3>1, <3>2, <3>3, Zenon
  <2>2. pc[q] \in Early
    <3>1. CASE Shares(r)
      <4>1. Step(r, "shares", "done") \/ Step(r, "shares", "validate")
        BY <3>1 DEF Shares
      <4> QED
        BY <1>t, <4>1
    <3>2. CASE Validate(r) \/ Intent(r)
      BY <1>t, <3>2 DEF Validate, Intent
    <3>3. CASE List(r) \/ Record(r) \/ Clear(r) \/ Aborts(r)
      <4>1. pc' \in {[pc EXCEPT ![r] = "record"], [pc EXCEPT ![r] = "clear"], [pc EXCEPT ![r] = "done"]}
        BY <3>3 DEF List, Record, Clear, Aborts
      <4> QED
        BY <1>t, <4>1
    <3> QED
      BY <1>3, <3>1, <3>2, <3>3, Zenon
  <2> QED
    BY <1>k, <2>1, <2>2
\* A send leaves no other run before its own.
<1>4. ASSUME NEW r \in Runs, Send(r) PROVE bal'[q] <= wallet'
  <2>1. pc[r] = "send" /\ UNCHANGED <<bal, overlap>> /\ pc' \in {[pc EXCEPT ![r] = "record"], [pc EXCEPT ![r] = "list"]}
    BY <1>4 DEF Send
  <2>2. pc[q] \in Early /\ q # r
    BY <1>t, <2>1
  <2>3. Alone(q) /\ Active(r)
    BY <1>k, <2>1, <2>2 DEF Active
  <2> QED
    BY <2>2, <2>3 DEF Alone
<1>5. ASSUME NEW r \in Runs, LateSend(r) PROVE bal'[q] <= wallet'
  <2>1. r \in flight /\ UNCHANGED <<pc, bal, overlap>>
    BY <1>5 DEF LateSend
  <2>2. Alone(q)
    BY <1>k, <2>1
  <2> QED
    BY <1>f, <2>1, <2>2 DEF Alone, Handed
<1> HIDE DEF Early
<1> QED
  BY <1>1, <1>2, <1>3, <1>4, <1>5, Zenon DEF Next, Process

(* Every amount of a run and of the wallet is a natural number, and every  *)
(* record names runs: no reward, rest or transfer is ever negative         *)
(* (pool.js:1183-1275).                                                    *)
THEOREM TypeThm == Spec => []TypeOK
<1>1. PayInv => TypeOK
  BY DEF PayInv
<1> QED
  BY <1>1, PayInit, PayNext, PTL DEF Spec

(* What a run sends is exactly the balance it read less the reserve        *)
(* (pool.js:1183-1234), for any window of shares, any balance and any      *)
(* interleaving of runs and failures.                                      *)
THEOREM ConservedThm == Spec => []Conserved
<1>1. PayInv => Conserved
  BY DEF PayInv, TypeOK, Funded, Conserved
<1> QED
  BY <1>1, PayInit, PayNext, PTL DEF Spec

(* A run that has had no other beside it finds its payment and the network *)
(* fee covered when it sends (pool.js:1151-1246).                          *)
THEOREM AffordableThm == Spec => []Affordable
<1>1. Init => AloneInv /\ FundsInv
  BY AloneInit DEF Init, FundsInv
<1>2. PayInv /\ FundsInv => Affordable
  <2> SUFFICES ASSUME PayInv, FundsInv, ~overlap, NEW r \in Runs, pc[r] = "send"
               PROVE  Total(pay[r]) + TxFee <= wallet
    BY Zenon DEF Affordable
  <2>1. bal[r] <= wallet
    <3>1. pc[r] \in {"shares", "validate", "intent", "send"}
      OBVIOUS
    <3> QED
      BY <3>1, Zenon DEF FundsInv
  <2>2. Total(pay[r]) = bal[r] - Reserve /\ bal[r] \in Nat /\ wallet \in Nat
    BY DEF PayInv, TypeOK, Funded, Divided
  <2>3. TxFee \in Nat /\ Reserve \in Nat /\ TxFee <= Reserve
    BY PayoutAssumption
  <2> QED
    BY <2>1, <2>2, <2>3
<1> QED
  BY <1>1, <1>2, PayInit, PayNext, AloneNext, FundsNext, PTL DEF Spec
=============================================================================
