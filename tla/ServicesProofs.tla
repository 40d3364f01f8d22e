--------------------------- MODULE ServicesProofs ---------------------------
(***************************************************************************)
(* Services that answer a caller after some awaits, for any number of      *)
(* callers: the faucet's coins (Faucet), the address that a name stands    *)
(* for (TnsCache), whatever the lifetimes and the order of the answers,    *)
(* and the retried calls of the REST API (RpcRetry).                       *)
(***************************************************************************)
EXTENDS Faucet, TnsCache, RpcRetry, TLAPS

USE FaucetAssumption

\* IInv holds when the pool starts.
LEMMA InitInv == Init => IInv
<1> SUFFICES ASSUME Init PROVE IInv
  OBVIOUS
<1>1. TypeOK
  BY DEF Init, TypeOK, Awaiting, Answered
<1>2. /\ day = 1 /\ sent = {}
      /\ \A r \in Requests : pc[r] = "idle" /\ rec[r] = 0 /\ before[r] = {}
  BY DEF Init
<1> QED
  BY <1>1, <1>2 DEF IInv, PastIp, PastAddr

\* Every step of a request, and every crash and passing of time, keeps it.
LEMMA NextInv == IInv /\ [Next]_vars => IInv'
<1> SUFFICES ASSUME IInv, [Next]_vars PROVE IInv'
  OBVIOUS
<1> USE DEF IInv, TypeOK, Awaiting, Answered, PastIp, PastAddr, Goto, Unmoved, Store, Live
<1>1. ASSUME NEW r \in Requests, Arrive(r) PROVE IInv'
  BY <1>1 DEF Arrive
<1>2. ASSUME NEW r \in Requests, Screen(r) PROVE IInv'
  BY <1>2 DEF Screen
<1>3. ASSUME NEW r \in Requests, IpCheck(r) PROVE IInv'
  BY <1>3 DEF IpCheck
<1>4. ASSUME NEW r \in Requests, AddrCheck(r) PROVE IInv'
  BY <1>4 DEF AddrCheck
<1>5. ASSUME NEW r \in Requests, BalanceCheck(r) PROVE IInv'
  BY <1>5 DEF BalanceCheck
<1>6. ASSUME NEW r \in Requests, SetIp(r) PROVE IInv'
  BY <1>6 DEF SetIp
<1>7. ASSUME NEW r \in Requests, SetAddr(r) PROVE IInv'
  BY <1>7 DEF SetAddr
<1>8. ASSUME NEW r \in Requests, Send(r) PROVE IInv'
  BY <1>8 DEF Send
<1>9. ASSUME NEW r \in Requests, Fails(r) PROVE IInv'
  BY <1>9 DEF Fails
<1>10. CASE Crash
  BY <1>10 DEF Crash
<1>11. CASE NextDay
  BY <1>11 DEF NextDay
<1>12. ASSUME NEW i \in IPs, WindowEnds(i) PROVE IInv'
  BY <1>12 DEF WindowEnds
<1>13. CASE UNCHANGED vars
  BY <1>13 DEF vars
<1> QED
  BY <1>1, <1>2, <1>3, <1>4, <1>5, <1>6, <1>7, <1>8, <1>9, <1>10, <1>11, <1>12, <1>13, Zenon
  DEF Next, Handle

\* IInv is an invariant.
LEMMA Invariance == Spec => []IInv
BY InitInv, NextInv, PTL DEF Spec

(* The faucet's state keeps its types: in particular the limiter's         *)
(* counters and the wallet's balance keep their bounds (pool.js:37, 1876). *)
THEOREM TypeCorrect == Spec => []TypeOK
<1>1. IInv => TypeOK
  BY DEF IInv
<1> QED
  BY <1>1, Invariance, PTL

(* Whatever fails or restarts, what has been paid is on record: the order  *)
(* of steps 5 and 6 of the handler (pool.js:1880-1887).                    *)
THEOREM PaidIsRecordedThm == Spec => []PaidIsRecorded
<1>1. IInv => PaidIsRecorded
  BY DEF IInv, TypeOK, PaidIsRecorded
<1> QED
  BY <1>1, Invariance, PTL

(* No request arriving after a payment is paid again within the lifetime   *)
(* of the keys, for the same IP or address (pool.js:1860-1865).            *)
THEOREM NoRepeatClaimThm == Spec => []NoRepeatClaim
<1>1. IInv => NoRepeatClaim
  BY DEF IInv, TypeOK, NoRepeatClaim, Same
<1> QED
  BY <1>1, Invariance, PTL

HIDE FaucetAssumption

-----------------------------------------------------------------------------

\* A transfer leaves true what was true of a time up to now.
LEMMA HeldKept ==
    ASSUME TnsTypeOK, NEW d \in Domains, NEW a \in Targets, Transfer(d, a),
           NEW e \in Domains, NEW x \in Targets, NEW t \in Int, t <= clock, HeldSince(e, x, t)
    PROVE  HeldSince(e, x, t)'
<1>1. /\ registry \in [Domains -> Targets] /\ lost \in [Domains -> [Targets -> Nat \cup {Never}]]
      /\ registry' = [registry EXCEPT ![d] = a]
      /\ lost' = [lost EXCEPT ![d] = [@ EXCEPT ![registry[d]] = clock]]
      /\ clock \in Nat /\ clock # Never
  BY TnsAssumption DEF TnsTypeOK, Transfer
<1>2. CASE e # d
  <2>1. registry'[e] = registry[e] /\ lost'[e] = lost[e]
    BY <1>1, <1>2
  <2> QED
    BY <2>1 DEF HeldSince
<1>3. CASE e = d /\ x = registry[d]
  <2>1. lost'[e][x] = clock
    BY <1>1, <1>3
  <2> QED
    BY <1>1, <2>1 DEF HeldSince
<1>4. CASE e = d /\ x # registry[d]
  <2>1. lost'[e][x] = lost[e][x]
    BY <1>1, <1>4
  <2>2. lost[e][x] # Never /\ lost[e][x] >= t
    BY <1>4 DEF HeldSince
  <2> QED
    BY <2>1, <2>2 DEF HeldSince
<1> QED
  BY <1>2, <1>3, <1>4

\* What was held since a time was held since an earlier one.
LEMMA HeldEarlier ==
    ASSUME TnsTypeOK, NEW d \in Domains, NEW x \in Targets, NEW t \in Int, NEW u \in Int, u <= t, HeldSince(d, x, t)
    PROVE  HeldSince(d, x, u)
<1>1. CASE registry[d] = x
  BY <1>1 DEF HeldSince
<1>2. CASE registry[d] # x
  <2>1. lost[d][x] # Never /\ lost[d][x] >= t
    BY <1>2 DEF HeldSince
  <2>2. lost[d][x] \in Int
    BY <2>1 DEF TnsTypeOK
  <2>3. lost[d][x] >= u
    BY <2>1, <2>2
  <2> QED
    BY <2>1, <2>3 DEF HeldSince
<1> QED
  BY <1>1, <1>2

\* Every step of the lookups and of the registry keeps the types.
LEMMA TnsType == TnsInv /\ [TnsNext]_tnsVars => TnsTypeOK'
<1> SUFFICES ASSUME TnsTypeOK, [TnsNext]_tnsVars,
                    \A l \in Lookups : lookAt[l] = "served" => reply[l] \in Targets
             PROVE  TnsTypeOK'
  BY DEF TnsInv
<1>1. CASE Tick
  BY <1>1 DEF Tick, TnsTypeOK
<1>2. ASSUME NEW d \in Domains, NEW a \in Targets, Transfer(d, a) PROVE TnsTypeOK'
  <2>1. registry' \in [Domains -> Targets]
    BY <1>2 DEF Transfer, TnsTypeOK
  <2>2. lost' \in [Domains -> [Targets -> Nat \cup {Never}]]
    <3>1. [lost[d] EXCEPT ![registry[d]] = clock] \in [Targets -> Nat \cup {Never}]
      BY DEF TnsTypeOK
    <3> QED
      BY <1>2, <3>1 DEF Transfer, TnsTypeOK
  <2> QED
    BY <1>2, <2>1, <2>2 DEF Transfer, TnsTypeOK
<1>3. ASSUME NEW l \in Lookups, NextCall(l) PROVE TnsTypeOK'
  BY <1>3 DEF NextCall, TnsTypeOK, world
<1>4. ASSUME NEW l \in Lookups, Hit(l) PROVE TnsTypeOK'
  <2>1. cached[domain[l]].address \in Targets
    BY <1>4 DEF Hit, TnsTypeOK, Entries
  <2> QED
    BY <1>4, <2>1 DEF Hit, Return, TnsTypeOK, world
<1>5. ASSUME NEW l \in Lookups, Query(l) PROVE TnsTypeOK'
  BY <1>5 DEF Query, TnsTypeOK, world
<1>6. ASSUME NEW l \in Lookups, Serve(l) PROVE TnsTypeOK'
  BY <1>6 DEF Serve, TnsTypeOK, world
<1>7. ASSUME NEW l \in Lookups, Keep(l) PROVE TnsTypeOK'
  <2>1. [address |-> reply[l], expiresAt |-> now[l] + KeptFor] \in Entries
    BY <1>7, TnsAssumption DEF Keep, TnsTypeOK, Entries
  <2>2. cached' \in [Domains -> Entries \cup {Empty}]
    BY <1>7, <2>1 DEF Keep, TnsTypeOK
  <2> QED
    BY <1>7, <2>2 DEF Keep, Return, TnsTypeOK, world
<1>8. ASSUME NEW l \in Lookups, LookupFails(l) PROVE TnsTypeOK'
  BY <1>8 DEF LookupFails, Return, TnsTypeOK, world
<1>9. CASE UNCHANGED tnsVars
  BY <1>9 DEF tnsVars, TnsTypeOK
<1> QED
  BY <1>1, <1>2, <1>3, <1>4, <1>5, <1>6, <1>7, <1>8, <1>9 DEF TnsNext

\* What is in the cache after a step was true when its lookup began.
LEMMA KeptEntry ==
    ASSUME TnsInv, [TnsNext]_tnsVars, NEW d \in Domains, cached'[d] # Empty
    PROVE  /\ cached'[d] \in Entries /\ cached'[d].expiresAt <= clock' + KeptFor
           /\ HeldSince(d, cached[d].address, cached[d].expiresAt - KeptFor)'
<1> DEFINE G == /\ cached'[d] \in Entries /\ cached'[d].expiresAt <= clock' + KeptFor
                /\ HeldSince(d, cached[d].address, cached[d].expiresAt - KeptFor)'
<1> SUFFICES G
  OBVIOUS
<1>t. TnsTypeOK /\ clock \in Nat /\ cached \in [Domains -> Entries \cup {Empty}] /\ KeptFor \in Nat
  BY TnsAssumption DEF TnsInv, TnsTypeOK
<1>o. ASSUME cached[d] # Empty
      PROVE  /\ cached[d] \in Entries /\ cached[d].expiresAt \in Int /\ cached[d].address \in Targets
             /\ cached[d].expiresAt <= clock + KeptFor
             /\ HeldSince(d, cached[d].address, cached[d].expiresAt - KeptFor)
  BY <1>o DEF TnsInv, CacheWasTrue, Entries
<1>1. CASE Tick
  <2>1. cached' = cached /\ registry' = registry /\ lost' = lost /\ clock' = clock + 1
    BY <1>1 DEF Tick
  <2>2. cached[d].expiresAt <= clock' + KeptFor
    BY <1>o, <1>t, <2>1
  <2> QED
    BY <1>o, <2>1, <2>2 DEF HeldSince
<1>2. ASSUME NEW e \in Domains, NEW a \in Targets, Transfer(e, a) PROVE G
  <2>1. cached' = cached /\ clock' = clock
    BY <1>2 DEF Transfer
  <2>2. cached[d].expiresAt - KeptFor \in Int /\ cached[d].expiresAt - KeptFor <= clock
    BY <1>o, <1>t, <2>1
  <2> DEFINE x == cached[d].address
             u == cached[d].expiresAt - KeptFor
  <2>3. x \in Targets /\ u \in Int /\ u <= clock /\ HeldSince(d, x, u)
    BY <1>o, <2>1, <2>2
  <2>4. x' = x /\ u' = u
    BY <2>1
  <2> HIDE DEF x, u
  <2>5. registry'[d] = x \/ (lost'[d][x] # Never /\ lost'[d][x] >= u)
    BY <1>t, <1>2, <2>3, <2>4, HeldKept DEF HeldSince
  <2>6. registry'[d] = cached'[d].address \/ (lost'[d][cached'[d].address] # Never /\ lost'[d][cached'[d].address] >= cached'[d].expiresAt - KeptFor)
    BY <2>1, <2>5 DEF x, u
  <2> QED
    BY <1>o, <2>1, <2>6 DEF HeldSince
<1>3. ASSUME cached' = cached, UNCHANGED world PROVE G
  BY <1>o, <1>3 DEF HeldSince, world
<1>4. ASSUME NEW l \in Lookups, Keep(l) PROVE G
  <2>1. UNCHANGED <<clock, registry, lost>>
    BY <1>4 DEF Keep, world
  <2>2. CASE domain[l] # d
    <3>1. cached'[d] = cached[d]
      BY <1>4, <1>t, <2>2 DEF Keep
    <3> QED
      BY <1>o, <2>1, <3>1 DEF HeldSince
  <2>3. CASE domain[l] = d
    <3>1. cached'[d] = [address |-> reply[l], expiresAt |-> now[l] + KeptFor]
      BY <1>4, <1>t, <2>3 DEF Keep
    <3>2. reply[l] \in Targets /\ now[l] \in Nat /\ now[l] <= clock /\ HeldSince(d, reply[l], now[l])
      BY <1>4, <2>3 DEF Keep, TnsInv, TnsTypeOK
    <3>3. now[l] + KeptFor \in Int /\ now[l] + KeptFor <= clock + KeptFor /\ (now[l] + KeptFor) - KeptFor = now[l]
      BY <1>t, <3>2
    <3>4. cached'[d] \in Entries
      BY <3>1, <3>2, <3>3 DEF Entries
    <3>5. cached'[d].expiresAt = now[l] + KeptFor /\ cached'[d].address = reply[l]
      BY <3>1
    <3>6. registry'[d] = reply[l] \/ (lost'[d][reply[l]] # Never /\ lost'[d][reply[l]] >= now[l])
      BY <2>1, <3>2 DEF HeldSince
    <3>7. HeldSince(d, cached[d].address, cached[d].expiresAt - KeptFor)'
      BY <3>3, <3>5, <3>6 DEF HeldSince
    <3> QED
      BY <2>1, <3>3, <3>4, <3>5, <3>7
  <2> QED
    BY <2>2, <2>3
<1>5. ASSUME NEW l \in Lookups, NextCall(l) \/ Hit(l) \/ Query(l) \/ Serve(l) \/ LookupFails(l) PROVE G
  BY <1>3, <1>5 DEF NextCall, Hit, Query, Serve, LookupFails
<1>6. CASE UNCHANGED tnsVars
  BY <1>3, <1>6 DEF tnsVars, world
<1> HIDE DEF G
<1> QED
  BY <1>1, <1>2, <1>4, <1>5, <1>6 DEF TnsNext

\* A lookup under way is within its time-out, and its answer was true after it began.
LEMMA UnderWay ==
    ASSUME TnsInv, [TnsNext]_tnsVars, NEW l \in Lookups
    PROVE  /\ lookAt'[l] \in {"asked", "served"} => now'[l] <= clock' /\ clock' <= now'[l] + Patience
           /\ lookAt'[l] = "served" => reply'[l] \in Targets /\ HeldSince(domain[l], reply[l], now[l])'
<1> DEFINE G == /\ lookAt'[l] \in {"asked", "served"} => now'[l] <= clock' /\ clock' <= now'[l] + Patience
                /\ lookAt'[l] = "served" => reply'[l] \in Targets /\ HeldSince(domain[l], reply[l], now[l])'
<1> SUFFICES G
  OBVIOUS
<1>t. /\ TnsTypeOK /\ clock \in Nat /\ now[l] \in Nat /\ domain[l] \in Domains
      /\ lookAt \in [Lookups -> {"new", "asked", "served", "done"}] /\ now \in [Lookups -> Nat]
      /\ reply \in [Lookups -> Targets \cup {Unresolved}] /\ registry \in [Domains -> Targets]
  BY DEF TnsInv, TnsTypeOK
<1>p. Patience \in Nat
  BY TnsAssumption
<1>o. /\ lookAt[l] \in {"asked", "served"} => now[l] <= clock /\ clock <= now[l] + Patience
      /\ lookAt[l] = "served" => reply[l] \in Targets /\ HeldSince(domain[l], reply[l], now[l])
  BY DEF TnsInv
<1>1. CASE Tick
  <2>1. UNCHANGED <<registry, lost, lookAt, domain, now, reply>> /\ clock' = clock + 1
    BY <1>1 DEF Tick
  <2>2. lookAt[l] \in {"asked", "served"} => clock < now[l] + Patience
    BY <1>1 DEF Tick
  <2>3. lookAt[l] \in {"asked", "served"} => now[l] <= clock + 1 /\ clock + 1 <= now[l] + Patience
    BY <1>o, <1>p, <1>t, <2>2
  <2> QED
    BY <1>o, <2>1, <2>3 DEF HeldSince
<1>2. ASSUME NEW e \in Domains, NEW a \in Targets, Transfer(e, a) PROVE G
  <2>1. UNCHANGED <<clock, lookAt, domain, now, reply>>
    BY <1>2 DEF Transfer
  <2>2. ASSUME lookAt[l] = "served" PROVE HeldSince(domain[l], reply[l], now[l])'
    <3> DEFINE e2 == domain[l]
               x == reply[l]
               u == now[l]
    <3>1. e2 \in Domains /\ x \in Targets /\ u \in Int /\ u <= clock /\ HeldSince(e2, x, u)
      BY <1>o, <1>t, <2>2
    <3>2. e2' = e2 /\ x' = x /\ u' = u
      BY <2>1
    <3> HIDE DEF e2, x, u
    <3>3. registry'[e2] = x \/ (lost'[e2][x] # Never /\ lost'[e2][x] >= u)
      BY <1>t, <1>2, <3>1, <3>2, HeldKept DEF HeldSince
    <3>4. registry'[domain'[l]] = reply'[l] \/ (lost'[domain'[l]][reply'[l]] # Never /\ lost'[domain'[l]][reply'[l]] >= now'[l])
      BY <2>1, <3>3 DEF e2, x, u
    <3> QED
      BY <3>4 DEF HeldSince
  <2> QED
    BY <1>o, <2>1, <2>2
<1>3. ASSUME lookAt'[l] \in {"new", "done"} PROVE G
  BY <1>3
<1>4. ASSUME UNCHANGED world, lookAt'[l] = lookAt[l], domain'[l] = domain[l], now'[l] = now[l], reply'[l] = reply[l] PROVE G
  BY <1>o, <1>4 DEF HeldSince, world
<1>5. ASSUME NEW k \in Lookups, NextCall(k) \/ Hit(k) \/ Query(k) \/ Serve(k) \/ Keep(k) \/ LookupFails(k), k # l PROVE G
  <2>1. /\ UNCHANGED world /\ lookAt'[l] = lookAt[l] /\ domain'[l] = domain[l]
        /\ now'[l] = now[l] /\ reply'[l] = reply[l]
    BY <1>5, <1>t DEF NextCall, Hit, Query, Serve, Keep, LookupFails, Return, TnsTypeOK
  <2> QED
    BY <1>4, <2>1
<1>6. CASE NextCall(l) \/ Hit(l) \/ Keep(l) \/ LookupFails(l)
  <2>1. lookAt'[l] \in {"new", "done"}
    BY <1>6, <1>t DEF NextCall, Hit, Keep, LookupFails, Return
  <2> QED
    BY <1>3, <2>1
<1>7. CASE Query(l)
  <2>1. lookAt'[l] = "asked" /\ now'[l] = clock /\ clock' = clock
    BY <1>7, <1>t DEF Query, world
  <2> QED
    BY <1>p, <1>t, <2>1
<1>8. CASE Serve(l)
  <2>1. /\ UNCHANGED <<clock, registry, lost, domain, now>> /\ reply'[l] = registry[domain[l]]
        /\ lookAt[l] = "asked"
    BY <1>8, <1>t DEF Serve, world
  <2>2. reply'[l] \in Targets /\ registry'[domain'[l]] = reply'[l]
    BY <1>t, <2>1
  <2> QED
    BY <1>o, <2>1, <2>2 DEF HeldSince
<1>9. CASE UNCHANGED tnsVars
  BY <1>4, <1>9 DEF tnsVars, world
<1> HIDE DEF G
<1> QED
  BY <1>1, <1>2, <1>5, <1>6, <1>7, <1>8, <1>9 DEF TnsNext

\* TnsInv is inductive.
LEMMA TnsInvariance == TnsSpec => []TnsInv
<1>1. TnsInit => TnsInv
  <2> SUFFICES ASSUME TnsInit PROVE TnsInv
    OBVIOUS
  <2>1. TnsTypeOK
    BY DEF TnsInit, TnsTypeOK
  <2>2. \A d \in Domains : cached[d] = Empty
    BY DEF TnsInit
  <2>3. \A l \in Lookups : lookAt[l] = "new"
    BY SMTT(15) DEF TnsInit
  <2> QED
    BY <2>1, <2>2, <2>3 DEF TnsInv, CacheWasTrue
<1>2. TnsInv /\ [TnsNext]_tnsVars => TnsInv'
  BY TnsType, KeptEntry, UnderWay DEF TnsInv, CacheWasTrue
<1> QED
  BY <1>1, <1>2, PTL DEF TnsSpec

(* What the pool keeps for a name was that name's within five minutes of   *)
(* the end of its entry (pool.js:144, 157), whatever the order of answers. *)
THEOREM CacheWasTrueThm == TnsSpec => []CacheWasTrue
<1>1. TnsInv => CacheWasTrue
  BY DEF TnsInv
<1> QED
  BY <1>1, TnsInvariance, PTL

(* Nothing older than five minutes is given out (pool.js:144-158), for any *)
(* number of lookups, names and transfers.                                 *)
THEOREM NeverStaleThm == TnsSpec => NeverStale
<1>1. ASSUME TnsInv, [TnsNext]_tnsVars, NEW l \in Lookups, resolved'[l] \notin {resolved[l], Unresolved}
      PROVE  HeldSince(domain[l], resolved'[l], clock - KeptFor)
  <2>t. /\ TnsTypeOK /\ clock \in Nat /\ now[l] \in Nat /\ domain[l] \in Domains /\ KeptFor \in Nat /\ Patience \in Nat /\ Patience < KeptFor
        /\ resolved \in [Lookups -> Targets \cup {Unresolved}]
    <3>1. TnsTypeOK
      BY <1>1 DEF TnsInv
    <3>2. KeptFor \in Nat /\ Patience \in Nat /\ Patience < KeptFor
      BY TnsAssumption
    <3> QED
      BY <3>1, <3>2 DEF TnsTypeOK
  <2>1. Hit(l) \/ Keep(l)
    <3>1. UNCHANGED resolved => FALSE
      BY <1>1
    <3>2. ~Tick /\ ~UNCHANGED tnsVars /\ \A d \in Domains, a \in Targets : ~Transfer(d, a)
      BY <3>1 DEF Tick, tnsVars, Transfer
    <3>3. \A k \in Lookups : ~Query(k) /\ ~Serve(k) /\ ~LookupFails(k)
      BY <3>1 DEF Query, Serve, LookupFails
    <3>4. \A k \in Lookups : ~NextCall(k)
      BY <1>1, <2>t DEF NextCall
    <3>5. \A k \in Lookups : Hit(k) \/ Keep(k) => k = l
      BY <1>1, <2>t DEF Hit, Keep
    <3> QED
      BY <1>1, <3>2, <3>3, <3>4, <3>5, Zenon DEF TnsNext
  <2>2. CASE Hit(l)
    <3> DEFINE c == cached[domain[l]]
    <3>1. resolved'[l] = c.address /\ c # Empty /\ clock < c.expiresAt
      BY <2>2, <2>t, SMTT(15) DEF Hit
    <3>2. c \in Entries /\ HeldSince(domain[l], c.address, c.expiresAt - KeptFor)
      BY <1>1, <2>t, <3>1 DEF TnsInv, CacheWasTrue
    <3>3. c.address \in Targets /\ c.expiresAt \in Int
      BY <3>2 DEF Entries
    <3> HIDE DEF c
    <3>4. clock - KeptFor \in Int /\ c.expiresAt - KeptFor \in Int /\ clock - KeptFor <= c.expiresAt - KeptFor
      BY <2>t, <3>1, <3>3
    <3>5. HeldSince(domain[l], c.address, clock - KeptFor)
      BY <2>t, <3>2, <3>3, <3>4, HeldEarlier
    <3> QED
      BY <3>1, <3>5
  <2>3. CASE Keep(l)
    <3>1. resolved'[l] = reply[l] /\ lookAt[l] = "served"
      BY <2>3, <2>t DEF Keep
    <3>2. reply[l] \in Targets /\ clock <= now[l] + Patience /\ HeldSince(domain[l], reply[l], now[l])
      BY <1>1, <3>1 DEF TnsInv
    <3>3. clock - KeptFor \in Int /\ now[l] \in Int /\ clock - KeptFor <= now[l]
      BY <2>t, <3>2
    <3>4. HeldSince(domain[l], reply[l], clock - KeptFor)
      BY <2>t, <3>2, <3>3, HeldEarlier
    <3> QED
      BY <3>1, <3>4
  <2> QED
    BY <2>1, <2>2, <2>3
<1>2. TnsInv /\ [TnsNext]_tnsVars =>
        [\A l \in Lookups : resolved'[l] \notin {resolved[l], Unresolved} => HeldSince(domain[l], resolved'[l], clock - KeptFor)]_tnsVars
  BY <1>1
<1> QED
  BY <1>2, TnsInvariance, PTL DEF TnsSpec, NeverStale

-----------------------------------------------------------------------------

\* What a failed try makes of its call: another try after a pause, or an error.
LEMMA AgainType ==
    ASSUME RetryTypeOK, NEW c \in Calls, Again(c)
    PROVE  /\ callAt' \in [Calls -> {"new", "waiting", "backoff", "ok", "error"}]
           /\ attempt' \in [Calls -> 0..maxRetries - 1]
           /\ (callAt'[c] = "backoff" /\ attempt'[c] = attempt[c] + 1) \/ (callAt'[c] = "error" /\ attempt'[c] = attempt[c])
           /\ \A d \in Calls : d # c => callAt'[d] = callAt[d] /\ attempt'[d] = attempt[d]
BY RetryAssumption DEF RetryTypeOK, Again

\* Every step of the calls and of the node keeps the types.
LEMMA RetryType == RetryTypeOK /\ [RetryNext]_retryVars => RetryTypeOK'
<1> SUFFICES ASSUME RetryTypeOK, [RetryNext]_retryVars PROVE RetryTypeOK'
  OBVIOUS
<1>a. maxRetries \in Nat \ {0}
  BY RetryAssumption
<1>b. \A c \in Calls : This(c) \in Tries
  BY DEF RetryTypeOK, This, Tries
<1>1. ASSUME NEW c \in Calls, Post(c) PROVE RetryTypeOK'
  <2>1. wire' \subseteq Tries
    BY <1>1, <1>b DEF Post, RetryTypeOK
  <2> QED
    BY <1>1, <2>1 DEF Post, RetryTypeOK
<1>2. ASSUME NEW c \in Calls, GiveUp(c) PROVE RetryTypeOK'
  <2>1. wire' \subseteq Tries /\ replies' \subseteq Tries \X Verdicts /\ doubtful' \subseteq Calls
        /\ UNCHANGED <<transaction, taken>> /\ Again(c)
    BY <1>2 DEF GiveUp, RetryTypeOK
  <2> QED
    BY <2>1, AgainType DEF RetryTypeOK
<1>3. ASSUME NEW c \in Calls, NEW v \in Verdicts, Answer(c, v) PROVE RetryTypeOK'
  <2>1. replies' \subseteq Tries \X Verdicts /\ UNCHANGED <<transaction, wire, taken, doubtful>>
    BY <1>3 DEF Answer, RetryTypeOK
  <2>2. /\ callAt' \in [Calls -> {"new", "waiting", "backoff", "ok", "error"}]
        /\ attempt' \in [Calls -> 0..maxRetries - 1]
    BY <1>3, AgainType DEF Answer, RetryTypeOK
  <2> QED
    BY <2>1, <2>2 DEF RetryTypeOK
<1>4. ASSUME NEW t \in Tries, NEW v \in Verdicts, NodeRuns(t, v) PROVE RetryTypeOK'
  <2>1. wire' \subseteq Tries /\ UNCHANGED <<callAt, attempt, doubtful>>
    BY <1>4 DEF NodeRuns, RetryTypeOK
  <2>2. replies' \subseteq Tries \X Verdicts
    BY <1>4 DEF NodeRuns, RetryTypeOK
  <2>3. t[1] \in Calls
    BY DEF Tries
  <2>4. transaction' \in {"unknown", "pool", "chain"} /\ taken' \subseteq Calls
    BY <1>4, <2>3 DEF NodeRuns, RetryTypeOK
  <2> QED
    BY <2>1, <2>2, <2>4 DEF RetryTypeOK
<1>5. CASE Mined \/ UNCHANGED retryVars
  BY <1>5 DEF Mined, retryVars, RetryTypeOK
<1> QED
  BY <1>1, <1>2, <1>3, <1>4, <1>5 DEF RetryNext, Awaited

\* Every step keeps what is known of a call: see Honest.
LEMMA RetryStep == RetryInv /\ [RetryNext]_retryVars => RetryInv'
<1> SUFFICES ASSUME RetryInv, [RetryNext]_retryVars PROVE RetryInv'
  OBVIOUS
<1> DEFINE Tr == 0..maxRetries - 1
<1>t. RetryTypeOK /\ RetryTypeOK'
  BY RetryType DEF RetryInv
<1>y. /\ callAt \in [Calls -> {"new", "waiting", "backoff", "ok", "error"}]
      /\ attempt \in [Calls -> Tr]
      /\ \A c \in Calls : attempt[c] \in Tr /\ attempt[c] \in Int
  BY <1>t, RetryAssumption DEF RetryTypeOK
<1>h. \A c \in Calls : Honest(c)
  BY DEF RetryInv
<1>k. ASSUME NEW c \in Calls, Honest(c)',
             \A d \in Calls : d # c =>
                /\ callAt'[d] = callAt[d] /\ attempt'[d] = attempt[d]
                /\ d \in taken' <=> d \in taken
                /\ d \in doubtful' <=> d \in doubtful
                /\ \A k \in Tr : <<d, k>> \in wire' <=> <<d, k>> \in wire
                /\ \A k \in Tr, v \in Verdicts : << <<d, k>>, v>> \in replies' <=> << <<d, k>>, v>> \in replies
      PROVE  RetryInv'
  <2> SUFFICES ASSUME NEW d \in Calls, d # c PROVE Honest(d)'
    BY <1>k, <1>t, Zenon DEF RetryInv
  <2>1. Honest(d)
    BY <1>h
  <2>2. attempt[d] \in Tr /\ "accepted" \in Verdicts
    BY <1>y DEF Verdicts
  <2> QED
    BY <1>k, <2>1, <2>2, Zenon DEF Honest, This
<1>1. ASSUME NEW c \in Calls, Post(c) PROVE RetryInv'
  <2>1. /\ callAt[c] \in {"new", "backoff"} /\ callAt'[c] = "waiting"
        /\ \A d \in Calls : d # c => callAt'[d] = callAt[d]
        /\ wire' = wire \cup {<<c, attempt[c]>>} /\ UNCHANGED <<attempt, replies, taken, doubtful>>
    BY <1>1, <1>y DEF Post, This
  <2>2. Honest(c)
    BY <1>h
  <2>3. Honest(c)'
    <3>1. \A k \in Tr, v \in Verdicts : << <<c, k>>, v>> \notin replies
      BY <2>1, <2>2 DEF Honest
    <3>2. \A k \in Tr : <<c, k>> \in wire => k <= attempt[c] /\ c \in doubtful
      BY <2>1, <2>2 DEF Honest
    <3>3. c \in taken => c \in doubtful
      BY <2>1, <2>2 DEF Honest
    <3>4. \A k \in Tr : <<c, k>> \in wire' => k = attempt[c] \/ <<c, k>> \in wire
      BY <2>1
    <3>5. attempt[c] \in Int /\ attempt[c] <= attempt[c]
      BY <1>y
    <3> QED
      BY <2>1, <3>1, <3>2, <3>3, <3>4, <3>5 DEF Honest
  <2> QED
    BY <1>k, <2>1, <2>3
<1>2. ASSUME NEW c \in Calls, GiveUp(c) PROVE RetryInv'
  <2>1. /\ callAt[c] = "waiting" /\ wire' \in {wire, wire \ {<<c, attempt[c]>>}}
        /\ replies' = {m \in replies : m[1] # <<c, attempt[c]>>}
        /\ doubtful' = doubtful \cup {c} /\ taken' = taken /\ Again(c)
    BY <1>2 DEF GiveUp, This
  <2>2. /\ (callAt'[c] = "backoff" /\ attempt'[c] = attempt[c] + 1) \/ (callAt'[c] = "error" /\ attempt'[c] = attempt[c])
        /\ \A d \in Calls : d # c => callAt'[d] = callAt[d] /\ attempt'[d] = attempt[d]
    BY <1>t, <2>1, AgainType
  <2>3. Honest(c)
    BY <1>h
  <2>4. \A k \in Tr, v \in Verdicts : << <<c, k>>, v>> \notin replies'
    BY <2>1, <2>3 DEF Honest
  <2>5. Honest(c)'
    <3>1. \A k \in Tr : <<c, k>> \in wire => k <= attempt[c]
      BY <2>3 DEF Honest
    <3>2. \A k \in Tr : k <= attempt[c] => k <= attempt'[c] /\ (callAt'[c] = "backoff" => k # attempt'[c])
      <4>1. attempt[c] \in Int /\ Tr \subseteq Int
        BY <1>y
      <4>2. attempt'[c] = attempt[c] + 1 \/ (attempt'[c] = attempt[c] /\ callAt'[c] # "backoff")
        BY <2>2
      <4> SUFFICES ASSUME NEW k \in Tr, k <= attempt[c]
                   PROVE  k <= attempt'[c] /\ (callAt'[c] = "backoff" => k # attempt'[c])
        OBVIOUS
      <4>3. k \in Int
        BY <4>1
      <4>4. CASE attempt'[c] = attempt[c] + 1
        <5> HIDE DEF Tr
        <5>1. k <= attempt[c] + 1 /\ k # attempt[c] + 1
          BY <4>1, <4>3
        <5> QED
          BY <4>4, <5>1
      <4>5. CASE attempt'[c] = attempt[c] /\ callAt'[c] # "backoff"
        BY <4>5, Zenon
      <4> QED
        BY <4>2, <4>4, <4>5, Zenon
    <3>3. \A k \in Tr : <<c, k>> \in wire' => <<c, k>> \in wire
      BY <2>1
    <3>4. callAt'[c] \in {"backoff", "error"} /\ c \in doubtful'
      BY <2>1, <2>2
    <3> QED
      BY <2>4, <3>1, <3>2, <3>3, <3>4 DEF Honest
  <2>6. \A d \in Calls : d # c =>
           /\ \A k \in Tr : <<d, k>> \in wire' <=> <<d, k>> \in wire
           /\ \A k \in Tr, v \in Verdicts : << <<d, k>>, v>> \in replies' <=> << <<d, k>>, v>> \in replies
    BY <2>1, Zenon
  <2>7. \A d \in Calls : d # c => (d \in taken' <=> d \in taken) /\ (d \in doubtful' <=> d \in doubtful)
    BY <2>1, SMTT(15)
  <2> QED
    BY <1>k, <2>2, <2>5, <2>6, <2>7
<1>3. ASSUME NEW c \in Calls, NEW v \in Verdicts, Answer(c, v) PROVE RetryInv'
  <2>1. /\ callAt[c] = "waiting" /\ << <<c, attempt[c]>>, v>> \in replies
        /\ replies' = replies \ {<< <<c, attempt[c]>>, v>>}
        /\ UNCHANGED <<wire, taken, doubtful>>
    BY <1>3 DEF Answer, This
  <2>2. /\ \/ v = "accepted" /\ callAt'[c] = "ok" /\ attempt'[c] = attempt[c]
           \/ v # "accepted" /\ callAt'[c] = "error" /\ attempt'[c] = attempt[c]
           \/ v # "accepted" /\ callAt'[c] = "backoff" /\ attempt'[c] = attempt[c] + 1
        /\ \A d \in Calls : d # c => callAt'[d] = callAt[d] /\ attempt'[d] = attempt[d]
    BY <1>3, <1>t, <1>y, AgainType DEF Answer
  <2>3. Honest(c)
    BY <1>h
  <2>4. /\ \A k \in Tr, u \in Verdicts : << <<c, k>>, u>> \notin replies'
        /\ <<c, attempt[c]>> \notin wire
        /\ v # "accepted" => << <<c, attempt[c]>>, "accepted">> \notin replies
    BY <1>y, <2>1, <2>3, Zenon DEF Honest, Verdicts
  <2>5. Honest(c)'
    <3>1. \A k \in Tr : <<c, k>> \in wire => k < attempt[c] /\ c \in doubtful
      BY <1>y, <2>3, <2>4 DEF Honest
    <3>2. callAt'[c] = "ok" => c \in taken
      BY <1>y, <2>1, <2>2, <2>3, Zenon DEF Honest
    <3>3. c \in taken /\ c \notin doubtful => callAt'[c] = "ok"
      BY <2>1, <2>2, <2>3, <2>4, SMTT(15) DEF Honest, This
    <3>4. \A k \in Tr : k < attempt[c] => k <= attempt'[c] /\ k # attempt'[c]
      <4>1. attempt[c] \in Int /\ Tr \subseteq Int
        BY <1>y
      <4>2. attempt'[c] \in {attempt[c], attempt[c] + 1}
        BY <2>2
      <4> HIDE DEF Tr
      <4>3. ASSUME NEW k \in Int, k < attempt[c] PROVE k <= attempt'[c] /\ k # attempt'[c]
        BY <4>1, <4>2, <4>3, SMTT(15)
      <4> QED
        BY <4>1, <4>3, Zenon
    <3> QED
      BY <2>1, <2>2, <2>4, <3>1, <3>2, <3>3, <3>4, Zenon DEF Honest
  <2>6. \A d \in Calls : d # c => /\ \A k \in Tr : <<d, k>> \in wire' <=> <<d, k>> \in wire
                                  /\ \A k \in Tr, u \in Verdicts : << <<d, k>>, u>> \in replies' <=> << <<d, k>>, u>> \in replies
    BY <2>1
  <2> QED
    BY <1>k, <2>1, <2>2, <2>5, <2>6
<1>4. ASSUME NEW t \in Tries, NEW v \in Verdicts, NodeRuns(t, v) PROVE RetryInv'
  <2>0. PICK c \in Calls, n \in Tr : t = <<c, n>>
    BY DEF Tries
  <2>1. /\ <<c, n>> \in wire /\ wire' = wire \ {<<c, n>>} /\ UNCHANGED <<callAt, attempt, doubtful>>
        /\ replies' = replies \cup IF callAt[c] = "waiting" /\ attempt[c] = n THEN {<< <<c, n>>, v>>} ELSE {}
        /\ \/ v = "accepted" /\ taken' = taken \cup {c}
           \/ v # "accepted" /\ taken' = taken
    BY <1>4, <2>0 DEF NodeRuns, This
  <2>2. Honest(c)
    BY <1>h
  <2>3. CASE callAt[c] = "waiting" /\ attempt[c] = n
    <3>1. replies' = replies \cup {<< <<c, n>>, v>>}
      BY <2>1, <2>3
    <3>2. \A k \in Tr, u \in Verdicts : << <<c, k>>, u>> \notin replies
      BY <2>1, <2>2, <2>3 DEF Honest
    <3>3. Honest(c)'
      BY <2>1, <2>2, <2>3, <3>1, <3>2 DEF Honest, This
    <3> QED
      BY <1>k, <2>1, <3>1, <3>3
  <2>4. CASE ~(callAt[c] = "waiting" /\ attempt[c] = n)
    <3>1. replies' = replies /\ c \in doubtful
      BY <2>1, <2>2, <2>4 DEF Honest
    <3>2. Honest(c)'
      BY <2>1, <2>2, <3>1 DEF Honest, This
    <3> QED
      BY <1>k, <2>1, <3>1, <3>2, Zenon
  <2> QED
    BY <2>3, <2>4
<1>5. CASE Mined \/ UNCHANGED retryVars
  <2>1. UNCHANGED <<callAt, attempt, wire, replies, taken, doubtful>>
    BY <1>5 DEF Mined, retryVars
  <2> QED
    BY <1>h, <1>t, <2>1 DEF RetryInv, Honest, This
<1> QED
  BY <1>1, <1>2, <1>3, <1>4, <1>5 DEF RetryNext, Awaited

(* What a caller of the API is told (rpc.ts:45-58,                         *)
(* transactions.ts:62) is what its own call did on the node: success only  *)
(* when the node took the transaction from it, and failure although it did *)
(* only when a try was given up unanswered.  For any number of calls and   *)
(* tries, late and lost answers and whatever else happens to the           *)
(* transaction meanwhile.                                                  *)
THEOREM ToldTruthThm == RetrySpec => [](RetryTypeOK /\ ToldTruth)
<1>1. RetryInit => RetryInv
  BY RetryAssumption DEF RetryInit, RetryInv, RetryTypeOK, Honest
<1>2. RetryInv => RetryTypeOK /\ ToldTruth
  BY Zenon DEF RetryInv, Honest, ToldTruth
<1> QED
  BY <1>1, <1>2, RetryStep, PTL DEF RetrySpec
=============================================================================
