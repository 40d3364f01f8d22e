--------------------------- MODULE ExplorerProofs ---------------------------
(***************************************************************************)
(* The explorer backend, for every number of requests, addresses, polls    *)
(* and readers.  First the address pages: the lock map implements a map of *)
(* calls in progress (Flights), and pages come from the node's wallet only *)
(* when something went wrong.  Then the polling: no height is broadcast    *)
(* twice, they are in order without overlap, and the list is fresh.        *)
(***************************************************************************)
EXTENDS AddressScan, BlockPolling, TLAPS

LEMMA ScanType == ScanTypeOK /\ [ScanNext]_scanVars => ScanTypeOK'
<1> SUFFICES ASSUME ScanTypeOK, [ScanNext]_scanVars PROVE ScanTypeOK'
  OBVIOUS
<1> USE DEF ScanTypeOK, Awaits, Running, Sources, At, Fly, Addr, Page, caches
<1>1. ASSUME NEW r \in Requests, Ask(r) PROVE ScanTypeOK'
  BY <1>1 DEF Ask
<1>2. ASSUME NEW r \in Requests, PageHit(r) PROVE ScanTypeOK'
  <2>1. pageCache[Page(r)] \in Sources \cup {"none"}
    OBVIOUS
  <2> QED
    BY <1>2, <2>1 DEF PageHit
<1>3. ASSUME NEW r \in Requests, PageMiss(r) PROVE ScanTypeOK'
  BY <1>3 DEF PageMiss
<1>4. ASSUME NEW r \in Requests, Validate(r) PROVE ScanTypeOK'
  BY <1>4 DEF Validate
<1>5. ASSUME NEW r \in Requests, ScanHit(r) PROVE ScanTypeOK'
  BY <1>5 DEF ScanHit
<1>6. ASSUME NEW r \in Requests, ScanMiss(r) PROVE ScanTypeOK'
  <2>1. CASE activeScans[Addr(r)] # Nobody
    BY <1>6, <2>1 DEF ScanMiss
  <2>2. CASE activeScans[Addr(r)] = Nobody
    <3>1. stage' \in [Requests -> {"new", "done", "error"} \cup Awaits]
      BY <1>6 DEF ScanMiss
    <3>2. joined' \in [Requests -> Requests \cup {Nobody}]
      BY <1>6, <2>2 DEF ScanMiss
    <3>3. flight' \in [Requests -> {"none", "ok", "failed"} \cup Running]
      BY <1>6, <2>2 DEF ScanMiss
    <3>4. activeScans' \in [Addresses -> Requests \cup {Nobody}]
      BY <1>6, <2>2 DEF ScanMiss
    <3>5. UNCHANGED <<req, made, nodeScan, scanCache, pageCache, mishaps>>
      BY <1>6 DEF ScanMiss
    <3> QED
      BY <3>1, <3>2, <3>3, <3>4, <3>5
  <2> QED
    BY <2>1, <2>2
<1>7. ASSUME NEW r \in Requests, Resume(r) PROVE ScanTypeOK'
  <2>1. stage' \in [Requests -> {"new", "done", "error"} \cup Awaits]
    BY <1>7 DEF Resume
  <2>2. made' \in [Requests -> Sources \cup {"none"}]
    BY <1>7 DEF Resume
  <2> QED
    BY <1>7, <2>1, <2>2 DEF Resume
<1>8. ASSUME NEW r \in Requests, Wallet(r) PROVE ScanTypeOK'
  BY <1>8 DEF Wallet
<1>9. ASSUME NEW r \in Requests, Store(r) PROVE ScanTypeOK'
  <2>0. Page(r) \in Addresses \X Kinds /\ made[r] \in Sources \cup {"none"}
    OBVIOUS
  <2>1. pageCache' \in [Addresses \X Kinds -> Sources \cup {"none"}]
    BY <1>9, <2>0, Zenon DEF Store
  <2>2. stage' \in [Requests -> {"new", "done", "error"} \cup Awaits]
    BY <1>9 DEF Store
  <2>3. UNCHANGED <<req, joined, made, flight, activeScans, nodeScan, scanCache, mishaps>>
    BY <1>9 DEF Store
  <2> QED
    BY <2>1, <2>2, <2>3
<1>10. ASSUME NEW f \in Requests, FlightInfo(f) \/ NodeTakes(f) \/ NodeAnswers(f) PROVE ScanTypeOK'
  <2>1. CASE FlightInfo(f)
    BY <2>1 DEF FlightInfo
  <2>2. CASE NodeTakes(f)
    BY <2>2 DEF NodeTakes
  <2>3. CASE NodeAnswers(f)
    BY <2>3 DEF NodeAnswers
  <2> QED
    BY <1>10, <2>1, <2>2, <2>3
<1>11. ASSUME NEW f \in Requests, NodeRefuses(f) PROVE ScanTypeOK'
  BY <1>11 DEF NodeRefuses, Settle
<1>12. ASSUME NEW f \in Requests, CallFails(f) PROVE ScanTypeOK'
  <2>1. flight' \in [Requests -> {"none", "ok", "failed"} \cup Running] /\ activeScans' \in [Addresses -> Requests \cup {Nobody}]
    BY <1>12 DEF CallFails, Settle
  <2> QED
    BY <1>12, <2>1 DEF CallFails
<1>13. ASSUME NEW f \in Requests, FlightEnds(f) PROVE ScanTypeOK'
  BY <1>13 DEF FlightEnds, Settle
<1>14. CASE NodeIdle
  BY <1>14 DEF NodeIdle
<1>15. CASE Expire
  <2>1. scanCache' \subseteq Addresses
    BY <1>15 DEF Expire
  <2>2. pageCache' \in [Addresses \X Kinds -> Sources \cup {"none"}]
    BY <1>15, Zenon DEF Expire
  <2> QED
    BY <1>15, <2>1, <2>2 DEF Expire
<1>16. CASE UNCHANGED scanVars
  BY <1>16 DEF scanVars
<1> QED
  BY <1>1, <1>2, <1>3, <1>4, <1>5, <1>6, <1>7, <1>8, <1>9, <1>10, <1>11, <1>12, <1>13, <1>14, <1>15, <1>16, Zenon
  DEF ScanNext, Handler, Scan

-----------------------------------------------------------------------------
\* What a step does to the scans: nothing, or one of four things.
Shared == <<req, joined, activeScans>>
Apart == UNCHANGED <<Shared, flight>> /\ \A r \in Requests : stage'[r] \in Early => stage[r] \in Early
GoesOn(f) ==
    /\ flight[f] \in Running /\ UNCHANGED <<Shared, stage>>
    /\ \E s \in Running : flight' = [flight EXCEPT ![f] = s]
Settled(f, o) ==
    /\ flight[f] \in Running /\ UNCHANGED <<req, joined, stage>>
    /\ flight' = [flight EXCEPT ![f] = o]
    /\ activeScans' = [activeScans EXCEPT ![Addr(f)] = Nobody]
Joins(r) ==
    /\ activeScans[Addr(r)] # Nobody /\ stage[r] = "scan" /\ stage' = [stage EXCEPT ![r] = "join"]
    /\ joined' = [joined EXCEPT ![r] = activeScans[Addr(r)]]
    /\ UNCHANGED <<req, flight, activeScans>>
Begins(r) ==
    /\ activeScans[Addr(r)] = Nobody /\ stage[r] = "scan" /\ stage' = [stage EXCEPT ![r] = "join"]
    /\ flight' = [flight EXCEPT ![r] = "info"] /\ joined' = [joined EXCEPT ![r] = r]
    /\ activeScans' = [activeScans EXCEPT ![Addr(r)] = r]
    /\ UNCHANGED req

LEMMA FiveKinds ==
    ASSUME ScanTypeOK, [ScanNext]_scanVars
    PROVE  \/ Apart
           \/ \E f \in Requests : GoesOn(f) \/ (\E o \in {"ok", "failed"} : Settled(f, o)) \/ Joins(f) \/ Begins(f)
<1> DEFINE G == \/ Apart
                \/ \E f \in Requests : GoesOn(f) \/ (\E o \in {"ok", "failed"} : Settled(f, o)) \/ Joins(f) \/ Begins(f)
<1> SUFFICES G
  OBVIOUS
<1>t. stage \in [Requests -> {"new", "done", "error"} \cup Awaits]
  BY DEF ScanTypeOK
<1>1. ASSUME NEW r \in Requests, NEW from, NEW to, At(r, from, to), from \in Early \/ to \notin Early,
             UNCHANGED <<req, joined, flight, activeScans>>
      PROVE  Apart
  BY <1>1, <1>t DEF At, Apart, Shared
<1>2. ASSUME NEW r \in Requests, Ask(r) PROVE Apart
  BY <1>1, <1>2 DEF Ask, Early
<1>3. ASSUME NEW r \in Requests, PageHit(r) PROVE Apart
  BY <1>1, <1>3 DEF PageHit, Early
<1>4. ASSUME NEW r \in Requests, PageMiss(r) PROVE Apart
  BY <1>1, <1>4 DEF PageMiss, Early
<1>5. ASSUME NEW r \in Requests, Validate(r) PROVE Apart
  BY <1>1, <1>5 DEF Validate, Early
<1>6. ASSUME NEW r \in Requests, ScanHit(r) PROVE Apart
  BY <1>1, <1>6 DEF ScanHit, Early
<1>7. ASSUME NEW r \in Requests, Resume(r) PROVE Apart
  BY <1>1, <1>7 DEF Resume, Early
<1>8. ASSUME NEW r \in Requests, Wallet(r) PROVE Apart
  BY <1>1, <1>8 DEF Wallet, Early
<1>9. ASSUME NEW r \in Requests, Store(r) PROVE Apart
  BY <1>1, <1>9 DEF Store, Early
<1>10. CASE NodeIdle \/ Expire \/ UNCHANGED scanVars
  BY <1>10 DEF NodeIdle, Expire, scanVars, Apart, Shared
<1>11. ASSUME NEW f \in Requests, FlightInfo(f) \/ NodeTakes(f) \/ NodeAnswers(f) PROVE GoesOn(f)
  BY <1>11 DEF FlightInfo, NodeTakes, NodeAnswers, Fly, GoesOn, Shared, Running
<1>12. ASSUME NEW f \in Requests, NodeRefuses(f) \/ CallFails(f) PROVE Settled(f, "failed")
  BY <1>12 DEF NodeRefuses, CallFails, Settle, Fly, Settled, Running
<1>13. ASSUME NEW f \in Requests, FlightEnds(f) PROVE Settled(f, "ok")
  BY <1>13 DEF FlightEnds, Settle, Fly, Settled, Running
<1>14. ASSUME NEW r \in Requests, ScanMiss(r) PROVE Joins(r) \/ Begins(r)
  BY <1>14 DEF ScanMiss, At, Joins, Begins
<1> QED
  BY <1>2, <1>3, <1>4, <1>5, <1>6, <1>7, <1>8, <1>9, <1>10, <1>11, <1>12, <1>13, <1>14
  DEF ScanNext, Handler, Scan

LEMMA ScanStep == ScanInv /\ [ScanNext]_scanVars => ScanInv'
<1> SUFFICES ASSUME ScanInv, [ScanNext]_scanVars PROVE ScanInv'
  OBVIOUS
<1>t. ScanTypeOK /\ ScanTypeOK'
  BY ScanType DEF ScanInv
<1>f. /\ stage \in [Requests -> {"new", "done", "error"} \cup Awaits]
      /\ joined \in [Requests -> Requests \cup {Nobody}]
      /\ flight \in [Requests -> {"none", "ok", "failed"} \cup Running]
      /\ activeScans \in [Addresses -> Requests \cup {Nobody}]
      /\ \A r \in Requests : Addr(r) \in Addresses
      /\ Nobody \notin Requests
  BY <1>t, ScanAssumption DEF ScanTypeOK, Addr
<1>i. /\ \A f \in Requests : flight[f] \in Running <=> activeScans[Addr(f)] = f
      /\ \A a \in Addresses : activeScans[a] # Nobody => Addr(activeScans[a]) = a
      /\ \A r \in Requests : joined[r] # Nobody => flight[joined[r]] # "none" /\ Addr(joined[r]) = Addr(r)
      /\ \A r \in Requests : stage[r] \in Early => joined[r] = Nobody /\ flight[r] = "none"
  BY DEF ScanInv
<1>r. "none" \notin Running /\ "ok" \notin Running /\ "failed" \notin Running /\ "info" \in Running /\ "scan" \in Early /\ "join" \notin Early
  BY DEF Running, Early
<1>a. ASSUME req' = req PROVE \A r : Addr(r)' = Addr(r)
  BY <1>a DEF Addr
<1>1. CASE Apart
  <2>1. req' = req /\ joined' = joined /\ flight' = flight /\ activeScans' = activeScans
    BY <1>1 DEF Apart, Shared
  <2>2. \A r \in Requests : stage'[r] \in Early => stage[r] \in Early
    BY <1>1 DEF Apart
  <2>3. \A r : Addr(r)' = Addr(r)
    BY <1>a, <2>1
  <2> QED
    BY <1>i, <1>t, <2>1, <2>2, <2>3 DEF ScanInv
<1>2. ASSUME NEW f \in Requests, GoesOn(f) PROVE ScanInv'
  <2>1. req' = req /\ joined' = joined /\ activeScans' = activeScans /\ stage' = stage /\ flight[f] \in Running
    BY <1>2 DEF GoesOn, Shared
  <2>2. flight'[f] \in Running /\ \A g \in Requests : g # f => flight'[g] = flight[g]
    BY <1>2, <1>f DEF GoesOn
  <2>3. \A r : Addr(r)' = Addr(r)
    BY <1>a, <2>1
  <2>4. \A g \in Requests : (flight'[g] \in Running <=> flight[g] \in Running) /\ (flight'[g] = "none" <=> flight[g] = "none")
    BY <1>r, <2>1, <2>2
  <2> QED
    BY <1>f, <1>i, <1>t, <2>1, <2>3, <2>4 DEF ScanInv
<1>3. ASSUME NEW f \in Requests, NEW o \in {"ok", "failed"}, Settled(f, o) PROVE ScanInv'
  <2>1. req' = req /\ joined' = joined /\ stage' = stage /\ flight[f] \in Running
    BY <1>3 DEF Settled
  <2>2. flight'[f] = o /\ \A g \in Requests : g # f => flight'[g] = flight[g]
    BY <1>3, <1>f DEF Settled
  <2>3. \A r : Addr(r)' = Addr(r)
    BY <1>a, <2>1
  <2>4. activeScans'[Addr(f)] = Nobody /\ \A a \in Addresses : a # Addr(f) => activeScans'[a] = activeScans[a]
    BY <1>3, <1>f DEF Settled
  <2>5. activeScans[Addr(f)] = f
    BY <1>i, <2>1
  <2>6. ASSUME NEW g \in Requests PROVE flight'[g] \in Running <=> activeScans'[Addr(g)] = g
    BY <1>f, <1>i, <1>r, <2>2, <2>4, <2>5
  <2>7. ASSUME NEW a \in Addresses, activeScans'[a] # Nobody PROVE Addr(activeScans'[a]) = a
    BY <1>i, <2>4, <2>7
  <2>8. ASSUME NEW r \in Requests, joined[r] # Nobody PROVE flight'[joined[r]] # "none" /\ Addr(joined[r]) = Addr(r)
    BY <1>f, <1>i, <2>2, <2>8
  <2>9. ASSUME NEW r \in Requests, stage[r] \in Early PROVE joined[r] = Nobody /\ flight'[r] = "none"
    BY <1>i, <1>r, <2>1, <2>2, <2>9
  <2>10. \A a \in Addresses : activeScans'[a] # Nobody => Addr(activeScans[a])' = a
    BY <2>1, <2>7 DEF Addr
  <2>11. \A r \in Requests : joined'[r] # Nobody => flight'[joined'[r]] # "none" /\ Addr(joined[r])' = Addr(r)'
    BY <2>1, <2>8 DEF Addr
  <2> QED
    BY <1>t, <2>1, <2>3, <2>6, <2>9, <2>10, <2>11 DEF ScanInv
<1>4. ASSUME NEW r \in Requests, Joins(r) PROVE ScanInv'
  <2>1. req' = req /\ flight' = flight /\ activeScans' = activeScans /\ activeScans[Addr(r)] # Nobody
    BY <1>4 DEF Joins
  <2>2. /\ joined'[r] = activeScans[Addr(r)] /\ stage'[r] = "join"
        /\ \A q \in Requests : q # r => joined'[q] = joined[q] /\ stage'[q] = stage[q]
    BY <1>4, <1>f DEF Joins
  <2> DEFINE g == activeScans[Addr(r)]
  <2>3. g \in Requests /\ Addr(g) = Addr(r) /\ flight[g] # "none"
    BY <1>f, <1>i, <1>r, <2>1
  <2>4. ASSUME NEW q \in Requests, joined'[q] # Nobody PROVE flight[joined'[q]] # "none" /\ Addr(joined'[q]) = Addr(q)
    BY <1>i, <2>2, <2>3, <2>4
  <2>5. ASSUME NEW q \in Requests, stage'[q] \in Early PROVE joined'[q] = Nobody /\ flight[q] = "none"
    BY <1>i, <1>r, <2>2, <2>5
  <2>6. \A q \in Requests : joined'[q] # Nobody => flight'[joined'[q]] # "none" /\ Addr(joined[q])' = Addr(q)'
    BY <2>1, <2>4 DEF Addr
  <2>7. /\ \A f \in Requests : flight'[f] \in Running <=> activeScans'[Addr(f)'] = f
        /\ \A a \in Addresses : activeScans'[a] # Nobody => Addr(activeScans[a])' = a
    BY <1>i, <2>1 DEF Addr
  <2> QED
    BY <1>t, <2>1, <2>5, <2>6, <2>7 DEF ScanInv
<1>5. ASSUME NEW r \in Requests, Begins(r) PROVE ScanInv'
  <2>1. req' = req /\ activeScans[Addr(r)] = Nobody /\ stage[r] = "scan"
    BY <1>5 DEF Begins
  <2>2. /\ joined'[r] = r /\ stage'[r] = "join" /\ flight'[r] = "info"
        /\ \A q \in Requests : q # r => joined'[q] = joined[q] /\ stage'[q] = stage[q] /\ flight'[q] = flight[q]
    BY <1>5, <1>f DEF Begins
  <2>3. activeScans'[Addr(r)] = r /\ \A a \in Addresses : a # Addr(r) => activeScans'[a] = activeScans[a]
    BY <1>5, <1>f DEF Begins
  <2>4. ASSUME NEW g \in Requests PROVE flight'[g] \in Running <=> activeScans'[Addr(g)] = g
    BY <1>f, <1>i, <1>r, <2>1, <2>2, <2>3
  <2>5. ASSUME NEW a \in Addresses, activeScans'[a] # Nobody PROVE Addr(activeScans'[a]) = a
    BY <1>i, <2>3, <2>5
  <2>6. ASSUME NEW q \in Requests, joined'[q] # Nobody PROVE flight'[joined'[q]] # "none" /\ Addr(joined'[q]) = Addr(q)
    BY <1>f, <1>i, <2>2, <2>6
  <2>7. ASSUME NEW q \in Requests, stage'[q] \in Early PROVE joined'[q] = Nobody /\ flight'[q] = "none"
    BY <1>i, <1>r, <2>2, <2>7
  <2>8. \A a \in Addresses : activeScans'[a] # Nobody => Addr(activeScans[a])' = a
    BY <2>1, <2>5 DEF Addr
  <2>9. \A q \in Requests : joined'[q] # Nobody => flight'[joined'[q]] # "none" /\ Addr(joined[q])' = Addr(q)'
    BY <2>1, <2>6 DEF Addr
  <2>10. \A f \in Requests : flight'[f] \in Running <=> activeScans'[Addr(f)'] = f
    BY <2>1, <2>4 DEF Addr
  <2> QED
    BY <1>t, <2>7, <2>8, <2>9, <2>10 DEF ScanInv
<1> QED
  BY <1>1, <1>2, <1>3, <1>4, <1>5, <1>t, FiveKinds

LEMMA ScanInvariance == ScanSpec => []ScanInv
<1>1. ScanInit => ScanInv
  <2> SUFFICES ASSUME ScanInit PROVE ScanInv
    OBVIOUS
  <2>1. ScanTypeOK
    BY DEF ScanInit, ScanTypeOK, Awaits, Running, Sources
  <2>2. /\ \A r \in Requests : joined[r] = Nobody /\ flight[r] = "none"
        /\ \A a \in Addresses : activeScans[a] = Nobody
    BY DEF ScanInit
  <2>3. \A r \in Requests : Addr(r) \in Addresses /\ r # Nobody
    BY <2>1, ScanAssumption DEF Addr, ScanTypeOK
  <2> QED
    BY <2>1, <2>2, <2>3 DEF ScanInv, Running
<1> QED
  BY <1>1, ScanStep, PTL DEF ScanSpec

-----------------------------------------------------------------------------
LEMMA Simulation == ScanInv /\ [ScanNext]_scanVars => [Promise!FlightNext]_(Promise!flightVars)
<1> SUFFICES ASSUME ScanInv, [ScanNext]_scanVars PROVE [Promise!FlightNext]_(Promise!flightVars)
  OBVIOUS
<1> DEFINE Open == {a \in Addresses : activeScans[a] # Nobody}
           Key == [r \in Requests |-> Addr(r)]
           Stand == [r \in Requests |-> Standing(r)]
<1>t. ScanTypeOK
  BY DEF ScanInv
<1>f. /\ joined \in [Requests -> Requests \cup {Nobody}]
      /\ flight \in [Requests -> {"none", "ok", "failed"} \cup Running]
      /\ activeScans \in [Addresses -> Requests \cup {Nobody}]
      /\ \A r \in Requests : Addr(r) \in Addresses
      /\ Nobody \notin Requests
  BY <1>t, ScanAssumption DEF ScanTypeOK, Addr
<1>i. /\ \A f \in Requests : flight[f] \in Running <=> activeScans[Addr(f)] = f
      /\ \A a \in Addresses : activeScans[a] # Nobody => Addr(activeScans[a]) = a
      /\ \A r \in Requests : joined[r] # Nobody => flight[joined[r]] # "none" /\ Addr(joined[r]) = Addr(r)
      /\ \A r \in Requests : stage[r] \in Early => joined[r] = Nobody /\ flight[r] = "none"
  BY DEF ScanInv
<1>r. "none" \notin Running /\ "ok" \notin Running /\ "failed" \notin Running /\ "info" \in Running /\ "scan" \in Early
  BY DEF Running, Early
<1>k. ASSUME req' = req PROVE Key' = Key
  BY <1>k DEF Addr
<1>1. CASE Apart
  <2>1. req' = req /\ joined' = joined /\ flight' = flight /\ activeScans' = activeScans
    BY <1>1 DEF Apart, Shared
  <2>2. Open' = Open /\ Key' = Key /\ Stand' = Stand
    BY <2>1 DEF Standing, Addr
  <2> QED
    BY <2>2 DEF Promise!flightVars
<1>2. ASSUME NEW f \in Requests, GoesOn(f) PROVE UNCHANGED Promise!flightVars
  <2>1. req' = req /\ joined' = joined /\ activeScans' = activeScans /\ flight[f] \in Running
    BY <1>2 DEF GoesOn, Shared
  <2>2. flight'[f] \in Running /\ \A g \in Requests : g # f => flight'[g] = flight[g]
    BY <1>2, <1>f DEF GoesOn
  <2>3. ASSUME NEW r \in Requests PROVE Standing(r)' = Standing(r)
    BY <1>f, <2>1, <2>2 DEF Standing
  <2>4. Open' = Open /\ Key' = Key /\ Stand' = Stand
    BY <1>k, <2>1, <2>3
  <2> QED
    BY <2>4 DEF Promise!flightVars
<1>3. ASSUME NEW f \in Requests, NEW o \in {"ok", "failed"}, Settled(f, o) PROVE Promise!End(Addr(f), o)
  <2>1. req' = req /\ joined' = joined /\ flight[f] \in Running
    BY <1>3 DEF Settled
  <2>2. flight'[f] = o /\ \A g \in Requests : g # f => flight'[g] = flight[g]
    BY <1>3, <1>f DEF Settled
  <2>3. activeScans'[Addr(f)] = Nobody /\ \A a \in Addresses : a # Addr(f) => activeScans'[a] = activeScans[a]
    BY <1>3, <1>f DEF Settled
  <2>4. activeScans[Addr(f)] = f
    BY <1>i, <2>1
  <2>5. Addr(f) \in Open /\ Open' = Open \ {Addr(f)}
    BY <1>f, <2>3, <2>4
  <2>6. ASSUME NEW c \in Requests
        PROVE  Standing(c)' = IF Standing(c) = "in" /\ Addr(c) = Addr(f) THEN o ELSE Standing(c)
    <3>1. CASE joined[c] = Nobody
      BY <2>1, <3>1 DEF Standing
    <3>2. CASE joined[c] = f
      <4>1. Standing(c) = "in" /\ Addr(c) = Addr(f)
        BY <1>f, <1>i, <2>1, <3>2 DEF Standing
      <4>2. Standing(c)' = o
        BY <1>f, <1>r, <2>1, <2>2, <3>2 DEF Standing
      <4> QED
        BY <4>1, <4>2
    <3>3. CASE joined[c] # Nobody /\ joined[c] # f
      <4>1. joined[c] \in Requests /\ flight'[joined[c]] = flight[joined[c]]
        BY <1>f, <2>2, <3>3
      <4>2. Standing(c)' = Standing(c)
        BY <2>1, <4>1 DEF Standing
      <4>3. Standing(c) = "in" => flight[joined[c]] \in Running
        BY <1>f, <3>3, <4>1 DEF Standing, Running
      <4>4. ~(Standing(c) = "in" /\ Addr(c) = Addr(f))
        BY <1>i, <2>4, <3>3, <4>1, <4>3
      <4> QED
        BY <4>2, <4>4
    <3> QED
      BY <3>1, <3>2, <3>3
  <2>7. Stand' = [c \in Requests |-> IF Stand[c] = "in" /\ Key[c] = Addr(f) THEN o ELSE Stand[c]]
    BY <2>6
  <2> QED
    BY <1>k, <2>1, <2>5, <2>7 DEF Promise!End
<1>4. ASSUME NEW r \in Requests, Joins(r) PROVE Promise!Join(r)
  <2>1. req' = req /\ flight' = flight /\ activeScans' = activeScans /\ activeScans[Addr(r)] # Nobody /\ stage[r] = "scan"
    BY <1>4 DEF Joins
  <2>2. /\ joined'[r] = activeScans[Addr(r)]
        /\ \A q \in Requests : q # r => joined'[q] = joined[q]
    BY <1>4, <1>f DEF Joins
  <2>3. Standing(r) = "out"
    BY <1>i, <1>r, <2>1 DEF Standing
  <2>4. activeScans[Addr(r)] \in Requests /\ flight[activeScans[Addr(r)]] \in Running
    BY <1>f, <1>i, <2>1
  <2>5. Standing(r)' = "in" /\ \A q \in Requests : q # r => Standing(q)' = Standing(q)
    BY <2>1, <2>2, <2>4 DEF Standing
  <2>6. Stand' = [Stand EXCEPT ![r] = "in"]
    BY <2>5, Zenon
  <2>7. Open' = Open /\ Key[r] \in Open /\ Stand[r] = "out"
    BY <1>f, <2>1, <2>3
  <2> QED
    BY <1>k, <2>1, <2>6, <2>7 DEF Promise!Join
<1>5. ASSUME NEW r \in Requests, Begins(r) PROVE Promise!Begin(r)
  <2>1. req' = req /\ activeScans[Addr(r)] = Nobody /\ stage[r] = "scan"
    BY <1>5 DEF Begins
  <2>2. /\ joined'[r] = r /\ flight'[r] = "info"
        /\ \A q \in Requests : q # r => joined'[q] = joined[q] /\ flight'[q] = flight[q]
    BY <1>5, <1>f DEF Begins
  <2>3. activeScans'[Addr(r)] = r /\ \A a \in Addresses : a # Addr(r) => activeScans'[a] = activeScans[a]
    BY <1>5, <1>f DEF Begins
  <2>4. Standing(r) = "out" /\ flight[r] = "none"
    BY <1>i, <1>r, <2>1 DEF Standing
  <2>5. Standing(r)' = "in"
    BY <1>f, <1>r, <2>2 DEF Standing
  <2>6. ASSUME NEW q \in Requests, q # r PROVE Standing(q)' = Standing(q)
    <3>1. joined[q] # Nobody => joined[q] # r
      BY <1>i, <2>4
    <3> QED
      BY <1>f, <2>2, <2>6, <3>1 DEF Standing
  <2>7. Stand' = [Stand EXCEPT ![r] = "in"]
    BY <2>5, <2>6, Zenon
  <2>8. Open' = Open \cup {Key[r]} /\ Key[r] \notin Open /\ Stand[r] = "out"
    BY <1>f, <2>1, <2>3, <2>4
  <2> QED
    BY <1>k, <2>1, <2>7, <2>8 DEF Promise!Begin
<1>6. \A r \in Requests : Addr(r) \in Addresses
  BY <1>f
<1> QED
  BY <1>1, <1>2, <1>3, <1>4, <1>5, <1>6, <1>t, FiveKinds DEF Promise!FlightNext, Promise!Outcomes

(* The lock map keeps what a map of calls in progress promises             *)
(* (AddressController.ts:7-14, 35-58), for any number of requests and      *)
(* addresses, whatever fails, expires or is answered out of order.         *)
THEOREM ScansArePromisesThm == ScanSpec => ScansArePromises
<1>1. ScanInit => Promise!FlightInit
  <2> SUFFICES ASSUME ScanInit PROVE Promise!FlightInit
    OBVIOUS
  <2>1. {a \in Addresses : activeScans[a] # Nobody} = {}
    BY DEF ScanInit
  <2>2. [r \in Requests |-> Addr(r)] \in [Requests -> Addresses]
    BY DEF ScanInit, Addr
  <2>3. [r \in Requests |-> Standing(r)] = [r \in Requests |-> "out"]
    BY DEF ScanInit, Standing
  <2> QED
    BY <2>1, <2>2, <2>3 DEF Promise!FlightInit
<1> QED
  BY <1>1, ScanInvariance, Simulation, PTL DEF ScanSpec, ScansArePromises, Promise!FlightSpec

-----------------------------------------------------------------------------
(* A scan fails only with a mishap: the node refuses one only while it     *)
(* runs another, and two scans of one address never run together (ScanInv).*)
LEMMA WalletStep == ScanInv /\ WalletInv /\ [ScanNext]_scanVars => WalletInv'
<1> SUFFICES ASSUME ScanInv, WalletInv, [ScanNext]_scanVars PROVE WalletInv'
  OBVIOUS
<1>f. /\ stage \in [Requests -> {"new", "done", "error"} \cup Awaits]
      /\ joined \in [Requests -> Requests \cup {Nobody}]
      /\ made \in [Requests -> Sources \cup {"none"}]
      /\ flight \in [Requests -> {"none", "ok", "failed"} \cup Running]
      /\ pageCache \in [Addresses \X Kinds -> Sources \cup {"none"}]
      /\ nodeScan \in Requests \cup {Nobody} /\ Nobody \notin Requests
      /\ \A r \in Requests : Page(r) \in Addresses \X Kinds
  BY ScanAssumption DEF ScanInv, ScanTypeOK, Page
<1>j. \A r \in Requests : stage[r] = "join" => joined[r] # Nobody
  BY DEF WalletInv
<1>u. mishaps = {} => Untroubled
  BY DEF WalletInv
<1>1. ASSUME NEW r \in Requests, NEW to, stage' = [stage EXCEPT ![r] = to], to \notin {"join", "wallet"},
             \A q \in Requests : q # r => made'[q] = made[q],
             mishaps = {} => made'[r] # "wallet" /\ \A p \in Addresses \X Kinds : pageCache'[p] # "wallet",
             UNCHANGED <<joined, flight, nodeScan, mishaps>>
      PROVE  WalletInv'
  <2>1. stage'[r] = to /\ \A q \in Requests : q # r => stage'[q] = stage[q]
    BY <1>f, <1>1
  <2>2. \A q \in Requests : stage'[q] = "join" => joined'[q] # Nobody
    BY <1>j, <1>1, <2>1
  <2>3. ASSUME mishaps = {} PROVE Untroubled'
    BY <1>1, <1>u, <2>1, <2>3 DEF Untroubled
  <2> QED
    BY <1>1, <2>2, <2>3 DEF WalletInv
<1> USE DEF At
<1>2. ASSUME NEW r \in Requests, Ask(r) \/ PageMiss(r) \/ Validate(r) PROVE WalletInv'
  <2>1. PICK to : stage' = [stage EXCEPT ![r] = to] /\ to \notin {"join", "wallet"}
    BY <1>2 DEF Ask, PageMiss, Validate
  <2>2. UNCHANGED <<made, pageCache, joined, flight, nodeScan, mishaps>>
    BY <1>2 DEF Ask, PageMiss, Validate, caches
  <2>3. mishaps = {} => made'[r] # "wallet" /\ \A p \in Addresses \X Kinds : pageCache'[p] # "wallet"
    BY <1>u, <2>2 DEF Untroubled
  <2> QED
    BY <1>1, <2>1, <2>2, <2>3, Zenon
<1>3. ASSUME NEW r \in Requests, PageHit(r) PROVE WalletInv'
  <2>1. /\ stage' = [stage EXCEPT ![r] = "done"] /\ made' = [made EXCEPT ![r] = pageCache[Page(r)]]
        /\ UNCHANGED <<pageCache, joined, flight, nodeScan, mishaps>>
    BY <1>3 DEF PageHit, caches
  <2>2. made'[r] = pageCache[Page(r)] /\ \A q \in Requests : q # r => made'[q] = made[q]
    BY <1>f, <2>1
  <2>3. mishaps = {} => made'[r] # "wallet" /\ \A p \in Addresses \X Kinds : pageCache'[p] # "wallet"
    BY <1>f, <1>u, <2>1, <2>2 DEF Untroubled
  <2>4. stage' = [stage EXCEPT ![r] = "done"] /\ UNCHANGED <<joined, flight, nodeScan, mishaps>>
    BY <2>1
  <2>5. \A q \in Requests : q # r => made'[q] = made[q]
    BY <2>2
  <2> QED
    BY <1>1, <2>3, <2>4, <2>5, Zenon
<1>4. ASSUME NEW r \in Requests, ScanHit(r) PROVE WalletInv'
  <2>1. /\ stage' = [stage EXCEPT ![r] = "store"] /\ made' = [made EXCEPT ![r] = "scan"]
        /\ UNCHANGED <<pageCache, joined, flight, nodeScan, mishaps>>
    BY <1>4 DEF ScanHit, caches
  <2>2. made'[r] = "scan" /\ \A q \in Requests : q # r => made'[q] = made[q]
    BY <1>f, <2>1
  <2>3. mishaps = {} => made'[r] # "wallet" /\ \A p \in Addresses \X Kinds : pageCache'[p] # "wallet"
    BY <1>u, <2>1, <2>2 DEF Untroubled
  <2> QED
    BY <1>1, <2>1, <2>2, <2>3, Zenon
<1>5. ASSUME NEW r \in Requests, Resume(r) PROVE WalletInv'
  <2>1. /\ stage[r] = "join" /\ UNCHANGED <<pageCache, joined, flight, nodeScan, mishaps>>
        /\ \/ stage' = [stage EXCEPT ![r] = "store"] /\ made' = [made EXCEPT ![r] = "scan"]
           \/ flight[joined[r]] = "failed" /\ stage' = [stage EXCEPT ![r] = "wallet"] /\ made' = made
    BY <1>5 DEF Resume, caches
  <2>2. CASE made' = [made EXCEPT ![r] = "scan"] /\ stage' = [stage EXCEPT ![r] = "store"]
    <3>1. made'[r] = "scan" /\ \A q \in Requests : q # r => made'[q] = made[q]
      BY <1>f, <2>2
    <3>2. mishaps = {} => made'[r] # "wallet" /\ \A p \in Addresses \X Kinds : pageCache'[p] # "wallet"
      BY <1>u, <2>1, <3>1 DEF Untroubled
    <3> QED
      BY <1>1, <2>1, <2>2, <3>1, <3>2, Zenon
  <2>3. CASE flight[joined[r]] = "failed" /\ stage' = [stage EXCEPT ![r] = "wallet"] /\ made' = made
    <3>1. joined[r] \in Requests
      BY <1>f, <1>j, <2>1
    <3>2. mishaps # {}
      BY <1>u, <2>3, <3>1 DEF Untroubled
    <3>3. \A q \in Requests : stage'[q] = "join" => stage[q] = "join"
      BY <1>f, <2>3
    <3> QED
      BY <1>j, <2>1, <3>2, <3>3 DEF WalletInv
  <2> QED
    BY <2>1, <2>2, <2>3
<1>6. ASSUME NEW r \in Requests, Wallet(r) PROVE WalletInv'
  <2>1. /\ stage[r] = "wallet" /\ stage' = [stage EXCEPT ![r] = "store"]
        /\ UNCHANGED <<joined, mishaps>>
    BY <1>6 DEF Wallet
  <2>2. mishaps # {}
    BY <1>u, <2>1 DEF Untroubled
  <2>3. \A q \in Requests : stage'[q] = "join" => stage[q] = "join"
    BY <1>f, <2>1
  <2> QED
    BY <1>j, <2>1, <2>2, <2>3 DEF WalletInv
<1>7. ASSUME NEW r \in Requests, Store(r) PROVE WalletInv'
  <2>1. /\ stage' = [stage EXCEPT ![r] = "done"] /\ UNCHANGED <<made, joined, flight, nodeScan, mishaps>>
        /\ pageCache' = [pageCache EXCEPT ![Page(r)] = made[r]] \/ pageCache' = pageCache
    BY <1>7 DEF Store
  <2>2. \A p \in Addresses \X Kinds : pageCache'[p] = made[r] \/ pageCache'[p] = pageCache[p]
    BY <1>f, <2>1
  <2>3. mishaps = {} => made'[r] # "wallet" /\ \A p \in Addresses \X Kinds : pageCache'[p] # "wallet"
    BY <1>u, <2>1, <2>2 DEF Untroubled
  <2> QED
    BY <1>1, <2>1, <2>3, Zenon
<1>8. ASSUME NEW r \in Requests, ScanMiss(r) PROVE WalletInv'
  <2>1. /\ stage' = [stage EXCEPT ![r] = "join"] /\ UNCHANGED <<made, pageCache, nodeScan, mishaps>>
        /\ \/ /\ activeScans[Addr(r)] # Nobody /\ flight' = flight
              /\ joined' = [joined EXCEPT ![r] = activeScans[Addr(r)]]
           \/ /\ flight[r] = "none" /\ flight' = [flight EXCEPT ![r] = "info"]
              /\ joined' = [joined EXCEPT ![r] = r]
    BY <1>8 DEF ScanMiss, caches
  <2>2. joined'[r] # Nobody /\ \A q \in Requests : q # r => joined'[q] = joined[q]
    BY <1>f, <2>1
  <2>3. stage'[r] = "join" /\ \A q \in Requests : q # r => stage'[q] = stage[q]
    BY <1>f, <2>1
  <2>4. \A q \in Requests : flight'[q] = flight[q] \/ (flight[q] = "none" /\ flight'[q] = "info")
    BY <1>f, <2>1
  <2>5. ASSUME mishaps = {} PROVE Untroubled'
    <3>1. /\ \A q \in Requests : flight[q] # "failed" /\ stage[q] # "wallet" /\ made[q] # "wallet"
          /\ \A p \in Addresses \X Kinds : pageCache[p] # "wallet"
          /\ nodeScan # Nobody => flight[nodeScan] = "scan"
      BY <1>u, <2>5, Zenon DEF Untroubled
    <3>2. \A q \in Requests : flight'[q] # "failed" /\ stage'[q] # "wallet" /\ made'[q] # "wallet"
      BY <2>1, <2>3, <2>4, <3>1
    <3>3. nodeScan' # Nobody => flight'[nodeScan'] = "scan"
      BY <1>f, <2>1, <2>4, <3>1
    <3> QED
      BY <2>1, <3>1, <3>2, <3>3 DEF Untroubled
  <2> QED
    BY <1>j, <2>1, <2>2, <2>3, <2>5 DEF WalletInv
<1>9. ASSUME NEW f \in Requests, Scan(f) PROVE WalletInv'
  <2>1. UNCHANGED <<stage, joined, made, pageCache>>
    BY <1>9 DEF Scan, FlightInfo, NodeTakes, NodeRefuses, NodeAnswers, CallFails, FlightEnds, caches
  <2>2. ASSUME mishaps' = {} PROVE Untroubled'
    <3>1. CASE FlightInfo(f) \/ FlightEnds(f)
      <4>1. /\ mishaps' = mishaps /\ nodeScan' = nodeScan /\ flight[f] # "scan"
            /\ flight' = [flight EXCEPT ![f] = "send"] \/ flight' = [flight EXCEPT ![f] = "ok"]
        BY <3>1 DEF FlightInfo, FlightEnds, Settle, Fly
      <4>2. flight'[f] # "failed" /\ \A g \in Requests : g # f => flight'[g] = flight[g]
        BY <1>f, <4>1
      <4> QED
        BY <1>f, <1>u, <2>1, <2>2, <4>1, <4>2 DEF Untroubled
    <3>2. CASE NodeTakes(f)
      <4>1. mishaps' = mishaps /\ nodeScan' = f /\ flight' = [flight EXCEPT ![f] = "scan"]
        BY <3>2 DEF NodeTakes, Fly
      <4>2. flight'[f] = "scan" /\ \A g \in Requests : g # f => flight'[g] = flight[g]
        BY <1>f, <4>1
      <4> QED
        BY <1>f, <1>u, <2>1, <2>2, <4>1, <4>2 DEF Untroubled
    <3>3. CASE NodeAnswers(f)
      <4>1. mishaps' = mishaps /\ nodeScan' = Nobody /\ flight' = [flight EXCEPT ![f] = "cache"]
        BY <3>3 DEF NodeAnswers, Fly
      <4>2. flight'[f] = "cache" /\ \A g \in Requests : g # f => flight'[g] = flight[g]
        BY <1>f, <4>1
      <4> QED
        BY <1>f, <1>u, <2>1, <2>2, <4>1, <4>2 DEF Untroubled
    <3>4. CASE CallFails(f)
      BY <2>2, <3>4 DEF CallFails
    <3>5. CASE NodeRefuses(f)
      <4>1. nodeScan # Nobody /\ flight[f] = "send" /\ mishaps = {} /\ Addr(nodeScan) = Addr(f)
        BY <2>2, <3>5 DEF NodeRefuses, Settle, Fly
      <4>2. flight[nodeScan] = "scan" /\ nodeScan \in Requests
        BY <1>f, <1>u, <4>1 DEF Untroubled
      <4>3. activeScans[Addr(f)] = f /\ activeScans[Addr(nodeScan)] = nodeScan
        BY <4>1, <4>2 DEF ScanInv, Running
      <4> QED
        BY <4>1, <4>2, <4>3
    <3> QED
      BY <1>9, <3>1, <3>2, <3>3, <3>4, <3>5 DEF Scan
  <2> QED
    BY <1>j, <2>1, <2>2 DEF WalletInv
<1>10. CASE NodeIdle \/ Expire \/ UNCHANGED scanVars
  <2>1. /\ UNCHANGED <<stage, joined, made, flight, mishaps>> /\ nodeScan' \in {nodeScan, Nobody}
        /\ \A p \in Addresses \X Kinds : pageCache'[p] \in {pageCache[p], "none"}
    BY <1>f, <1>10 DEF NodeIdle, Expire, scanVars, caches
  <2>2. ASSUME mishaps = {} PROVE Untroubled'
    BY <1>u, <2>1, <2>2, Zenon DEF Untroubled
  <2> QED
    BY <1>j, <2>1, <2>2 DEF WalletInv
<1> QED
  BY <1>2, <1>3, <1>4, <1>5, <1>6, <1>7, <1>8, <1>9, <1>10 DEF ScanNext, Handler

(* Requests for one address never make each other fall back to the node's  *)
(* wallet (AddressController.ts:15, 35-58): a page is made from it only    *)
(* after a call has failed or timed out, or the node was scanning for      *)
(* another address, for any number of requests, addresses and endpoints.   *)
THEOREM WalletPagesThm == ScanSpec => []WalletPagesExplained
<1>1. ScanInit => WalletInv
  BY DEF ScanInit, WalletInv, Untroubled
<1>2. WalletInv => WalletPagesExplained
  BY DEF WalletInv, Untroubled, WalletPagesExplained
<1> QED
  BY <1>1, <1>2, ScanInvariance, WalletStep, PTL DEF ScanSpec

-----------------------------------------------------------------------------
LEMMA PollType == PollTypeOK /\ [PollNext]_pollVars => PollTypeOK'
<1> SUFFICES ASSUME PollTypeOK, [PollNext]_pollVars PROVE PollTypeOK'
  OBVIOUS
<1> USE DEF PollTypeOK, Heights, Upset, Goto, reading
<1>a. MaxHeight \in Nat
  BY PollAssumption
<1>1. CASE NewBlock
  BY <1>1, <1>a DEF NewBlock
<1>2. CASE Reorg
  BY <1>2, <1>a DEF Reorg
<1>3. CASE ListExpires
  BY <1>3 DEF ListExpires
<1>4. ASSUME NEW p \in Polls, PollCount(p) PROVE PollTypeOK'
  BY <1>4 DEF PollCount
<1>5. ASSUME NEW p \in Polls, PollSees(p) PROVE PollTypeOK'
  BY <1>5 DEF PollSees
<1>6. ASSUME NEW p \in Polls, PollBlock(p) PROVE PollTypeOK'
  BY <1>6 DEF PollBlock
<1>7. ASSUME NEW p \in Polls, PollAnnounces(p) PROVE PollTypeOK'
  <2>1. announced' \in Seq(Heights)
    BY <1>7 DEF PollAnnounces
  <2>2. recent' \in Heights \cup {-1}
    BY <1>7 DEF PollAnnounces
  <2>3. upsets' \subseteq {"overlap", "reader", "cache", "failed", "reorg"}
    BY <1>7, Zenon DEF PollAnnounces, ReadersAtWork
  <2>4. pollAt' \in [Polls -> {"idle", "count", "block", "drop", "stats"}]
    BY <1>7 DEF PollAnnounces
  <2>5. UNCHANGED <<tip, height, lastKnownHeight, readAt, listTop>>
    BY <1>7 DEF PollAnnounces
  <2> QED
    BY <2>1, <2>2, <2>3, <2>4, <2>5
<1>8. ASSUME NEW p \in Polls, PollStats(p) PROVE PollTypeOK'
  BY <1>8 DEF PollStats
<1>9. ASSUME NEW p \in Polls, PollFails(p) PROVE PollTypeOK'
  BY <1>9 DEF PollFails
<1>10. ASSUME NEW r \in Readers, Read(r) PROVE PollTypeOK'
  <2>1. CASE ReadHit(r)
    BY <2>1 DEF ReadHit
  <2>2. CASE ReadCount(r)
    BY <2>2 DEF ReadCount
  <2>3. CASE ReadBlocks(r)
    BY <2>3, Zenon DEF ReadBlocks
  <2>4. CASE ReadStore(r)
    BY <2>4 DEF ReadStore
  <2> QED
    BY <1>10, <2>1, <2>2, <2>3, <2>4 DEF Read
<1>11. CASE UNCHANGED pollVars
  BY <1>11 DEF pollVars
<1> QED
  BY <1>1, <1>2, <1>3, <1>4, <1>5, <1>6, <1>7, <1>8, <1>9, <1>10, <1>11, Zenon DEF PollNext, Poll

\* Steps that broadcast nothing and claim nothing.
LEMMA Quiet ==
    ASSUME PollInv, PollTypeOK', UNCHANGED <<announced, lastKnownHeight>>, upsets \subseteq upsets',
           \A p \in Polls : Claimed(p)' => Claimed(p) /\ height'[p] = height[p],
           "overlap" \notin upsets' => \A p, q \in Polls : pollAt'[p] # "idle" /\ pollAt'[q] # "idle" => p = q
    PROVE  PollInv'
<1>1. AnnouncedOnce' /\ \A i \in 1..Len(announced') : announced'[i] <= lastKnownHeight'
  BY Zenon DEF PollInv, AnnouncedOnce
<1>2. AnnouncedInOrder'
  BY DEF PollInv, AnnouncedInOrder
<1>3. \A p \in Polls : Claimed(p)' => /\ height'[p] <= lastKnownHeight'
                                      /\ \A i \in 1..Len(announced') : announced'[i] # height'[p]
                                      /\ \A q \in Polls : Claimed(q)' /\ height'[q] = height'[p] => q = p
  BY DEF PollInv
<1>4. ASSUME "overlap" \notin upsets'
      PROVE  \A p \in Polls : Claimed(p)' => \A i \in 1..Len(announced') : announced'[i] < height'[p]
  <2>1. \A p \in Polls : Claimed(p) => \A i \in 1..Len(announced) : announced[i] < height[p]
    BY <1>4 DEF PollInv
  <2> QED
    BY <2>1
<1> QED
  BY <1>1, <1>2, <1>3, <1>4, Zenon DEF PollInv

LEMMA PollStep == PollInv /\ [PollNext]_pollVars => PollInv'
<1> SUFFICES ASSUME PollInv, [PollNext]_pollVars PROVE PollInv'
  OBVIOUS
<1>t. PollTypeOK /\ PollTypeOK'
  BY PollType DEF PollInv
<1>s. pollAt \in [Polls -> {"idle", "count", "block", "drop", "stats"}] /\ height \in [Polls -> Heights]
  BY <1>t DEF PollTypeOK
<1>i. /\ lastKnownHeight \in Int /\ announced \in Seq(Heights) /\ Len(announced) \in Nat
      /\ \A p \in Polls : height[p] \in Int
      /\ \A i \in 1..Len(announced) : announced[i] \in Int
  BY <1>t, PollAssumption DEF PollTypeOK, Heights
<1>k. /\ AnnouncedOnce /\ AnnouncedInOrder
      /\ \A i \in 1..Len(announced) : announced[i] <= lastKnownHeight
      /\ \A p \in Polls : Claimed(p) => /\ height[p] <= lastKnownHeight
                                        /\ \A i \in 1..Len(announced) : announced[i] # height[p]
                                        /\ \A q \in Polls : Claimed(q) /\ height[q] = height[p] => q = p
  BY DEF PollInv
<1>o. "overlap" \notin upsets =>
          /\ \A p, q \in Polls : pollAt[p] # "idle" /\ pollAt[q] # "idle" => p = q
          /\ \A p \in Polls : Claimed(p) => \A i \in 1..Len(announced) : announced[i] < height[p]
  BY DEF PollInv
<1>n. ASSUME UNCHANGED <<announced, lastKnownHeight, pollAt, height>>, upsets \subseteq upsets' PROVE PollInv'
  <2>1. \A p \in Polls : Claimed(p)' => Claimed(p) /\ height'[p] = height[p]
    BY <1>n DEF Claimed
  <2>2. "overlap" \notin upsets' => \A p, q \in Polls : pollAt'[p] # "idle" /\ pollAt'[q] # "idle" => p = q
    BY <1>n, <1>o
  <2> QED
    BY <1>n, <1>t, <2>1, <2>2, Quiet
<1>1. CASE NewBlock \/ Reorg \/ ListExpires \/ UNCHANGED pollVars
  BY <1>1, <1>n DEF NewBlock, Reorg, ListExpires, pollVars, Upset
<1>2. ASSUME NEW r \in Readers, Read(r) PROVE PollInv'
  BY <1>2, <1>n DEF Read, ReadHit, ReadCount, ReadBlocks, ReadStore
<1>3. ASSUME NEW p \in Polls, PollBlock(p) \/ PollStats(p) \/ PollFails(p) PROVE PollInv'
  <2>1. UNCHANGED <<announced, lastKnownHeight, height>> /\ upsets \subseteq upsets'
    BY <1>3 DEF PollBlock, PollStats, PollFails, Upset
  <2>2. /\ pollAt[p] # "idle"
        /\ pollAt'[p] \in {"block", "drop"} => pollAt[p] = "block"
        /\ \A q \in Polls \ {p} : pollAt'[q] = pollAt[q]
    BY <1>3, <1>s DEF PollBlock, PollStats, PollFails, Goto
  <2>3. \A q \in Polls : Claimed(q)' => Claimed(q) /\ height'[q] = height[q]
    BY <2>1, <2>2 DEF Claimed
  <2>4. \A q \in Polls : pollAt'[q] # "idle" => pollAt[q] # "idle"
    BY <2>2
  <2>5. "overlap" \notin upsets' => \A q, r \in Polls : pollAt'[q] # "idle" /\ pollAt'[r] # "idle" => q = r
    BY <1>o, <2>1, <2>4
  <2> QED
    BY <1>t, <2>1, <2>3, <2>5, Quiet
<1>4. ASSUME NEW p \in Polls, PollCount(p) PROVE PollInv'
  <2>1. UNCHANGED <<announced, lastKnownHeight>> /\ upsets \subseteq upsets'
    BY <1>4 DEF PollCount, Upset
  <2>2. /\ pollAt'[p] = "count"
        /\ \A q \in Polls \ {p} : pollAt'[q] = pollAt[q] /\ height'[q] = height[q]
    BY <1>4, <1>s DEF PollCount, Goto
  <2>3. \A q \in Polls : Claimed(q)' => Claimed(q) /\ height'[q] = height[q]
    BY <2>2 DEF Claimed
  <2>4. "overlap" \notin upsets' => \A q \in Polls : pollAt[q] = "idle"
    BY <1>4 DEF PollCount, Upset
  <2>5. "overlap" \notin upsets' => \A q, r \in Polls : pollAt'[q] # "idle" /\ pollAt'[r] # "idle" => q = r
    BY <2>2, <2>4
  <2> QED
    BY <1>t, <2>1, <2>3, <2>5, Quiet, Zenon
<1>5. ASSUME NEW p \in Polls, PollSees(p), height[p] <= lastKnownHeight PROVE PollInv'
  <2>0. ~(height[p] > lastKnownHeight)
    BY <1>5, <1>i
  <2>1. UNCHANGED <<announced, lastKnownHeight, height, upsets>> /\ pollAt[p] = "count" /\ pollAt' = [pollAt EXCEPT ![p] = "idle"]
    BY <1>5, <2>0, Zenon DEF PollSees, Goto
  <2>2. \A q \in Polls : pollAt'[q] = "idle" \/ pollAt'[q] = pollAt[q]
    BY <1>s, <2>1
  <2>3. \A q \in Polls : Claimed(q)' => Claimed(q) /\ height'[q] = height[q]
    BY <2>1, <2>2 DEF Claimed
  <2>5. "overlap" \notin upsets' => \A q, r \in Polls : pollAt'[q] # "idle" /\ pollAt'[r] # "idle" => q = r
    BY <1>o, <2>1, <2>2
  <2>6. upsets \subseteq upsets'
    BY <2>1
  <2> QED
    BY <1>t, <2>1, <2>3, <2>5, <2>6, Quiet
<1>6. ASSUME NEW p \in Polls, PollSees(p), height[p] > lastKnownHeight PROVE PollInv'
  <2>1. /\ UNCHANGED <<announced, height, upsets>> /\ lastKnownHeight' = height[p]
        /\ pollAt[p] = "count" /\ pollAt' = [pollAt EXCEPT ![p] = "block"]
    BY <1>6, Zenon DEF PollSees, Goto
  <2>2. /\ pollAt'[p] = "block" /\ ~Claimed(p)
        /\ \A q \in Polls \ {p} : pollAt'[q] = pollAt[q]
    BY <1>s, <2>1 DEF Claimed
  <2>3. \A i \in 1..Len(announced) : announced[i] < height[p]
    BY <1>6, <1>i, <1>k
  <2>4. \A q \in Polls : Claimed(q) => height[q] < height[p]
    BY <1>6, <1>i, <1>k
  <2>5. \A q \in Polls : Claimed(q)' => q = p \/ Claimed(q)
    BY <2>2 DEF Claimed
  <2>6. AnnouncedOnce' /\ AnnouncedInOrder'
    BY <1>k, <2>1 DEF AnnouncedOnce, AnnouncedInOrder
  <2>7. \A i \in 1..Len(announced') : announced'[i] <= lastKnownHeight'
    BY <1>i, <2>1, <2>3
  <2>8. ASSUME NEW r \in Polls, Claimed(r)'
        PROVE  /\ height'[r] <= lastKnownHeight'
               /\ \A i \in 1..Len(announced') : announced'[i] # height'[r]
               /\ \A q \in Polls : Claimed(q)' /\ height'[q] = height'[r] => q = r
    <3>1. height[r] <= height[p]
      BY <1>i, <2>4, <2>5, <2>8
    <3>2. \A i \in 1..Len(announced) : announced[i] # height[r]
      BY <1>i, <1>k, <2>3, <2>5, <2>8
    <3>3. ASSUME NEW q \in Polls, Claimed(q)', height[q] = height[r] PROVE q = r
      BY <1>i, <1>k, <2>4, <2>5, <2>8, <3>3
    <3> QED
      BY <2>1, <3>1, <3>2, <3>3
  <2>9. ASSUME "overlap" \notin upsets'
        PROVE  /\ \A q, r \in Polls : pollAt'[q] # "idle" /\ pollAt'[r] # "idle" => q = r
               /\ \A r \in Polls : Claimed(r)' => \A i \in 1..Len(announced') : announced'[i] < height'[r]
    <3>1. \A q \in Polls : pollAt'[q] # "idle" => pollAt[q] # "idle"
      BY <2>1, <2>2
    <3>2. "overlap" \notin upsets
      BY <2>1, <2>9
    <3> QED
      BY <1>o, <2>1, <2>3, <2>5, <3>1, <3>2
  <2> QED
    BY <1>t, <2>6, <2>7, <2>8, <2>9, Zenon DEF PollInv
<1>7. ASSUME NEW p \in Polls, PollAnnounces(p) PROVE PollInv'
  <2>1. /\ UNCHANGED <<height, lastKnownHeight>> /\ announced' = Append(announced, height[p])
        /\ pollAt[p] = "drop" /\ pollAt' = [pollAt EXCEPT ![p] = "stats"] /\ upsets \subseteq upsets'
    BY <1>7 DEF PollAnnounces, Goto, Upset
  <2>2. Claimed(p) /\ \A q \in Polls : Claimed(q)' => q # p /\ Claimed(q)
    BY <1>s, <2>1 DEF Claimed
  <2> DEFINE m == Len(announced)
  <2>3. /\ m \in Nat /\ Len(announced') = m + 1 /\ announced'[m + 1] = height[p]
        /\ \A i \in 1..m : announced'[i] = announced[i]
    BY <1>i, <1>s, <2>1
  <2>4. height[p] <= lastKnownHeight /\ \A i \in 1..m : announced[i] # height[p]
    BY <1>k, <2>2
  <2>i. \A i \in 1..Len(announced') : i \in 1..m \/ i = m + 1
    BY <2>3
  <2> HIDE DEF m
  <2>5. AnnouncedOnce'
    <3>1. \A i, k \in 1..m : announced[i] = announced[k] => i = k
      BY <1>k DEF AnnouncedOnce, m
    <3> QED
      BY <2>3, <2>4, <2>i, <3>1 DEF AnnouncedOnce
  <2>6. \A i \in 1..Len(announced') : announced'[i] <= lastKnownHeight'
    BY <1>k, <2>1, <2>3, <2>4, <2>i DEF m
  <2>7. ASSUME NEW r \in Polls, Claimed(r)'
        PROVE  /\ height'[r] <= lastKnownHeight'
               /\ \A i \in 1..Len(announced') : announced'[i] # height'[r]
               /\ \A q \in Polls : Claimed(q)' /\ height'[q] = height'[r] => q = r
    <3>1. Claimed(r) /\ r # p /\ height[r] # height[p]
      BY <1>k, <2>2, <2>7
    <3>2. \A i \in 1..m : announced[i] # height[r]
      BY <1>k, <3>1 DEF m
    <3> QED
      BY <1>k, <2>1, <2>2, <2>3, <2>i, <3>1, <3>2
  <2>8. ASSUME "overlap" \notin upsets'
        PROVE  /\ \A q, r \in Polls : pollAt'[q] # "idle" /\ pollAt'[r] # "idle" => q = r
               /\ \A r \in Polls : ~Claimed(r)'
               /\ \A i \in 1..m : announced[i] < height[p]
               /\ \A i, k \in 1..m : i < k => announced[i] < announced[k]
    <3>1. "overlap" \notin upsets
      BY <2>1, <2>8
    <3>2. \A q \in Polls : pollAt'[q] # "idle" => pollAt[q] # "idle"
      BY <1>s, <2>1
    <3>3. \A q \in Polls : Claimed(q) => pollAt[q] # "idle"
      BY DEF Claimed
    <3>4. \A q, r \in Polls : pollAt[q] # "idle" /\ pollAt[r] # "idle" => q = r
      BY <1>o, <3>1, Zenon
    <3>5. \A i, k \in 1..m : i < k => announced[i] < announced[k]
      BY <1>k, <3>1 DEF AnnouncedInOrder, m
    <3> QED
      BY <1>o, <2>2, <3>1, <3>2, <3>3, <3>4, <3>5, Zenon DEF m
  <2>9. AnnouncedInOrder'
    <3> SUFFICES ASSUME "overlap" \notin upsets', NEW i \in 1..Len(announced'), NEW k \in 1..Len(announced'), i < k
                 PROVE  announced'[i] < announced'[k]
      BY DEF AnnouncedInOrder
    <3>1. i \in 1..m
      BY <2>3, <2>i
    <3> QED
      BY <2>3, <2>8, <2>i, <3>1
  <2> QED
    BY <1>t, <2>5, <2>6, <2>7, <2>8, <2>9, Zenon DEF PollInv
<1> QED
  BY <1>1, <1>2, <1>3, <1>4, <1>5, <1>6, <1>7, <1>i DEF PollNext, Poll

LEMMA PollInvariance == PollSpec => []PollInv
<1>1. PollInit => PollInv
  <2> SUFFICES ASSUME PollInit PROVE PollInv
    OBVIOUS
  <2>1. PollTypeOK
    BY PollAssumption DEF PollInit, PollTypeOK, Heights
  <2>2. Len(announced) = 0 /\ \A p \in Polls : pollAt[p] = "idle"
    BY DEF PollInit
  <2>3. \A p \in Polls : ~Claimed(p)
    BY <2>2 DEF Claimed
  <2> QED
    BY <2>1, <2>2, <2>3 DEF PollInv, AnnouncedOnce, AnnouncedInOrder
<1> QED
  BY <1>1, PollStep, PTL DEF PollSpec

(* Whatever polls overlap, no height is broadcast twice, and blocks are    *)
(* broadcast in the order of their heights as long as none do              *)
(* (server.ts:201-206), reorganisations and failures included.             *)
THEOREM AnnouncementsThm == PollSpec => []Announcements
<1>1. PollInv => Announcements
  BY Zenon DEF PollInv, Announcements
<1> QED
  BY <1>1, PollInvariance, PTL

-----------------------------------------------------------------------------
(* Without a reorganisation the tip never falls below a height given out;  *)
(* a broadcast either finds no list and no reader at work, or is an upset. *)
LEMMA FreshStep == PollTypeOK /\ FreshInv /\ [PollNext]_pollVars => FreshInv'
<1> SUFFICES ASSUME PollTypeOK, FreshInv, [PollNext]_pollVars, upsets' \cap {"reader", "cache", "reorg"} = {}
             PROVE  /\ \A p \in Polls : height'[p] <= tip'
                    /\ Holds(tip)'
                    /\ \A r \in Readers : readAt'[r] \in {"blocks", "store"} => Holds(listTop[r])'
                    /\ recent' # -1 => Holds(recent)'
  BY DEF FreshInv
<1> DEFINE Goal == /\ \A p \in Polls : height'[p] <= tip'
                   /\ Holds(tip)'
                   /\ \A r \in Readers : readAt'[r] \in {"blocks", "store"} => Holds(listTop[r])'
                   /\ recent' # -1 => Holds(recent)'
<1>t. /\ tip \in Int /\ recent \in Int /\ announced \in Seq(Heights) /\ Len(announced) \in Nat
      /\ \A p \in Polls : height[p] \in Int
      /\ \A r \in Readers : listTop[r] \in Int
      /\ \A i \in 1..Len(announced) : announced[i] \in Int
  BY PollAssumption DEF PollTypeOK, Heights
<1>y. /\ pollAt \in [Polls -> {"idle", "count", "block", "drop", "stats"}] /\ height \in [Polls -> Heights]
      /\ readAt \in [Readers -> {"new", "blocks", "store", "done"}] /\ listTop \in [Readers -> Heights]
  BY DEF PollTypeOK
<1>u. upsets \subseteq upsets'
  BY Zenon DEF PollNext, Poll, Read, NewBlock, Reorg, ListExpires, PollCount, PollSees, PollBlock, PollAnnounces, PollStats,
         PollFails, ReadHit, ReadCount, ReadBlocks, ReadStore, pollVars, Upset
<1>i. /\ \A p \in Polls : height[p] <= tip
      /\ Holds(tip)
      /\ \A r \in Readers : readAt[r] \in {"blocks", "store"} => Holds(listTop[r])
      /\ recent # -1 => Holds(recent)
  <2>1. upsets \cap {"reader", "cache", "reorg"} = {}
    BY <1>u
  <2> QED
    BY <2>1 DEF FreshInv
<1>1. CASE NewBlock
  <2>1. tip' = tip + 1 /\ UNCHANGED <<height, announced, recent, readAt, listTop>>
    BY <1>1 DEF NewBlock, reading
  <2>2. \A p \in Polls : height'[p] <= tip'
    BY <1>t, <1>i, <2>1
  <2>3. Holds(tip)'
    BY <1>t, <1>i, <2>1 DEF Holds
  <2>4. \A n \in Int : Holds(n) => \A i \in 1..Len(announced') : announced'[i] <= n
    BY <2>1 DEF Holds
  <2>5. \A r \in Readers : readAt'[r] \in {"blocks", "store"} => Holds(listTop[r])'
    BY <1>t, <1>i, <2>1, <2>4 DEF Holds
  <2>6. recent' # -1 => Holds(recent)'
    BY <1>t, <1>i, <2>1, <2>4 DEF Holds
  <2> QED
    BY <2>2, <2>3, <2>5, <2>6
<1>2. CASE Reorg
  BY <1>2 DEF Reorg, Upset
<1>3. CASE ListExpires \/ UNCHANGED pollVars \/ \E p \in Polls : PollSees(p) \/ PollBlock(p) \/ PollStats(p) \/ PollFails(p)
  <2>1. UNCHANGED <<tip, height, announced, readAt, listTop>> /\ recent' \in {recent, -1}
    BY <1>3 DEF ListExpires, pollVars, PollSees, PollBlock, PollStats, PollFails, reading
  <2> QED
    BY <1>i, <2>1 DEF Holds
<1>4. ASSUME NEW p \in Polls, PollCount(p) PROVE Goal
  <2>1. UNCHANGED <<tip, announced, recent, readAt, listTop>> /\ height' = [height EXCEPT ![p] = tip]
    BY <1>4 DEF PollCount, reading
  <2>2. \A q \in Polls : height'[q] <= tip
    BY <1>t, <1>y, <1>i, <2>1
  <2> QED
    BY <1>i, <2>1, <2>2 DEF Holds
<1>5. ASSUME NEW p \in Polls, PollAnnounces(p) PROVE Goal
  <2>1. UNCHANGED <<tip, height, readAt, listTop>> /\ announced' = Append(announced, height[p])
    BY <1>5 DEF PollAnnounces, reading
  <2>2. recent' = -1 /\ ReadersAtWork \subseteq upsets'
    BY <1>5 DEF PollAnnounces, Upset
  <2>3. \A r \in Readers : readAt[r] \notin {"blocks", "store"}
    BY <2>2 DEF ReadersAtWork
  <2>4. \A i \in 1..Len(announced') : announced'[i] <= tip
    BY <1>t, <1>y, <1>i, <2>1 DEF Holds
  <2> QED
    BY <1>i, <2>1, <2>2, <2>3, <2>4 DEF Holds
<1>6. ASSUME NEW r \in Readers, Read(r) PROVE Goal
  <2>1. UNCHANGED <<tip, height, announced>>
    BY <1>6 DEF Read, ReadHit, ReadCount, ReadBlocks, ReadStore
  <2>2. CASE ReadCount(r)
    <3>1. recent' = recent /\ listTop' = [listTop EXCEPT ![r] = tip] /\ readAt' = [readAt EXCEPT ![r] = "blocks"]
      BY <2>2 DEF ReadCount
    <3>2. listTop'[r] = tip /\ \A q \in Readers : q # r => listTop'[q] = listTop[q] /\ readAt'[q] = readAt[q]
      BY <1>y, <3>1
    <3> QED
      BY <1>i, <2>1, <3>1, <3>2 DEF Holds
  <2>3. CASE ReadHit(r) \/ ReadBlocks(r) \/ ReadStore(r)
    <3>1. listTop' = listTop /\ (recent' = recent \/ (recent' = listTop[r] /\ readAt[r] = "store"))
      BY <2>3 DEF ReadHit, ReadBlocks, ReadStore
    <3>2. \A q \in Readers : readAt'[q] \in {"blocks", "store"} => readAt[q] \in {"blocks", "store"}
      BY <1>y, <2>3 DEF ReadHit, ReadBlocks, ReadStore
    <3> QED
      BY <1>i, <2>1, <3>1, <3>2 DEF Holds
  <2> QED
    BY <1>6, <2>2, <2>3, Zenon DEF Read
<1> QED
  BY <1>1, <1>2, <1>3, <1>4, <1>5, <1>6, Zenon DEF PollNext, Poll

(* Whoever reloads the list of recent blocks on hearing of a block finds   *)
(* it there (server.ts:205), for any number of polls and readers, unless   *)
(* the list was being made meanwhile, Redis kept it or the node went back. *)
THEOREM ListIsFreshThm == PollSpec => []ListIsFresh
<1>1. PollInit => FreshInv
  BY DEF PollInit, FreshInv, Holds
<1>2. FreshInv => ListIsFresh
  BY DEF FreshInv, ListIsFresh, Holds
<1>3. PollInv => PollTypeOK
  BY DEF PollInv
<1> QED
  BY <1>1, <1>2, <1>3, PollInvariance, FreshStep, PTL DEF PollSpec
=============================================================================
