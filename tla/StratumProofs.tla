--------------------------- MODULE StratumProofs ----------------------------
(* What the duplicate check, the PPLNS window and the block handler of the *)
(* shared stratum server guarantee for any number of connections, names,   *)
(* shares and templates.                                                   *)
EXTENDS Stratum, SequenceTheorems, FiniteSetTheorems, TLAPS

(* What the proofs about shares need of the constants.                    *)
LEMMA Constants == NoName \notin Names /\ MaxJob \in Nat /\ Window \in Nat
BY StratumAssumption

USE Constants

LEMMA InitCredit == Init => CreditInv
<1> SUFFICES ASSUME Init PROVE CreditInv
  OBVIOUS
<1> USE DEF Init
<1>1. strayed \subseteq {"name", "job"}
  BY DEF Init
<1>2. TypeOK
  BY <1>1 DEF TypeOK, Handling, Rejected, Entry, Absent
<1>3. \A h \in Submissions : ~Accepted(h)
  BY DEF Accepted, Handling
<1>4. NoDoubleCredit
  BY <1>3 DEF NoDoubleCredit, CreditedOnce
<1>5. OwnNames /\ \A s \in Sockets : EntryFollows(s)
  BY DEF OwnNames, EntryFollows, Owner
<1> QED
  BY <1>2, <1>3, <1>4, <1>5 DEF CreditInv

LEMMA NextType == TypeOK /\ [Next]_vars => TypeOK'
<1> SUFFICES ASSUME TypeOK, [Next]_vars PROVE TypeOK'
  OBVIOUS
<1> USE DEF TypeOK, Entry, Fresh, Absent, Submission, Rejected, Handling, Step,
            sockVars, blockVars, listVars, tmplVars
<1>1. CASE Refresh
  <2>1. job' \in 0..MaxJob /\ txs' \in Seq(TxSets) /\ Len(txs') = job'
    BY <1>1 DEF Refresh
  <2>2. built \in [Submissions -> 0..MaxJob]
    OBVIOUS
  <2>3. UNCHANGED <<sockVars, miners, pc, sub, blockVars, listVars, strayed>>
    BY <1>1 DEF Refresh
  <2> HIDE DEF Submission, Entry, Rejected, Handling
  <2> QED
    BY <2>1, <2>2, <2>3
<1>2. ASSUME NEW s \in Sockets, Connect(s) PROVE TypeOK'
  BY <1>2 DEF Connect
<1>3. ASSUME NEW s \in Sockets, Close(s) PROVE TypeOK'
  BY <1>3 DEF Close
<1>4. ASSUME NEW s \in Sockets, NEW n \in Names, Authorize(s, n) PROVE TypeOK'
  <2>1. strayed' \subseteq {"name", "job"}
    BY <1>4 DEF Authorize, Stray
  <2> QED
    BY <1>4, <2>1 DEF Authorize
<1>5. ASSUME NEW h \in Submissions, NEW s \in Sockets, NEW n \in Names, NEW j \in 1..job,
             NEW x \in Nonces, NEW w \in BOOLEAN, Submit(h, s, n, j, x, w)
      PROVE  TypeOK'
  <2>1. sub' \in [Submissions -> Submission \cup {<<>>}] /\ sub'[h] \in Submission
    <3> DEFINE m == [sock |-> s, name |-> n, job |-> j, nonce |-> x, wins |-> w]
    <3>1. sub' = [sub EXCEPT ![h] = m]
      BY <1>5 DEF Submit
    <3>2. m \in Submission
      OBVIOUS
    <3>3. sub \in [Submissions -> Submission \cup {<<>>}]
      OBVIOUS
    <3> HIDE DEF m, Submission, TypeOK
    <3> QED
      BY <3>1, <3>2, <3>3
  <2>2. miners' \in [Names -> Entry]
    <3> DEFINE k == IF name[s] # NoName /\ miners[name[s]].in THEN name[s] ELSE n
               seen == IF miners[k].last = j THEN miners[k].seen ELSE {}
    <3>1. miners' = [miners EXCEPT ![k] = [in |-> TRUE, last |-> j, seen |-> seen \cup {x}]]
      BY <1>5 DEF Submit
    <3>2. k \in Names
      OBVIOUS
    <3>3. miners \in [Names -> Entry] /\ j \in Nat
      OBVIOUS
    <3> HIDE DEF k, TypeOK
    <3>4. miners[k].seen \subseteq Nonces
      BY <3>2, <3>3
    <3>5. [in |-> TRUE, last |-> j, seen |-> seen \cup {x}] \in Entry
      BY <3>3, <3>4
    <3> HIDE DEF seen, Entry
    <3> QED
      BY <3>1, <3>2, <3>3, <3>5
  <2>3. \A g \in Submissions : g # h => pc'[g] = pc[g] /\ sub'[g] = sub[g]
    BY <1>5 DEF Submit
  <2>4. pc'[h] # "record" /\ chain' = chain
    BY <1>5 DEF Submit, blockVars
  <2>5. pc' \in [Submissions -> {"idle", "done", "error"} \cup Rejected \cup Handling]
    BY <1>5 DEF Submit
  <2>6. lastSub' \in [Sockets -> Nat]
    <3>1. lastSub' = [lastSub EXCEPT ![s] = j]
      BY <1>5 DEF Submit
    <3>2. lastSub \in [Sockets -> Nat] /\ j \in Nat
      OBVIOUS
    <3> HIDE DEF TypeOK
    <3> QED
      BY <3>1, <3>2
  <2>7. UNCHANGED <<conn, name, since, tmplVars, blockVars, listVars>>
    BY <1>5 DEF Submit
  <2>9. strayed' \subseteq {"name", "job"}
    BY <1>5 DEF Submit, Stray
  <2>8. \A g \in Submissions : (pc'[g] # "idle" => sub'[g] \in Submission) /\ (pc'[g] = "record" => g \in chain')
    <3> HIDE DEF Submission
    <3> QED BY <2>1, <2>3, <2>4, Zenon
  <2> HIDE DEF Submission, Entry, Rejected, Handling
  <2> QED
    BY <2>1, <2>2, <2>5, <2>6, <2>7, <2>8, <2>9
<1>6. ASSUME NEW h \in Submissions, Push(h) PROVE TypeOK'
  <2>1. sub[h].name \in Names /\ <<sub[h].name>> \in Seq(Names)
    BY <1>6 DEF Push
  <2>2. shares' \in Seq(Names) /\ pushed' \in Seq(Names)
    BY <1>6, <2>1, ConcatProperties DEF Push
  <2>3. /\ pc' = [pc EXCEPT ![h] = "trim"] \/ pc' = [pc EXCEPT ![h] = "error"]
        /\ pc[h] = "push" /\ UNCHANGED <<tmplVars, sockVars, miners, sub, blockVars, strayed>>
    BY <1>6 DEF Push
  <2> HIDE DEF Submission, Entry
  <2> QED
    BY <2>2, <2>3, Zenon
<1>7. ASSUME NEW h \in Submissions, Trim(h) PROVE TypeOK'
  <2>1. shares' \in Seq(Names)
    BY <1>7, SubSeqProperties DEF Trim
  <2>2. /\ pc' = [pc EXCEPT ![h] = "account"] /\ pc[h] = "trim"
        /\ UNCHANGED <<tmplVars, sockVars, miners, sub, blockVars, pushed, strayed>>
    BY <1>7 DEF Trim
  <2> HIDE DEF Submission, Entry
  <2> QED
    BY <2>1, <2>2
<1>8. ASSUME NEW h \in Submissions, Account(h) PROVE TypeOK'
  BY <1>8 DEF Account
<1>9. ASSUME NEW h \in Submissions, SubmitBlock(h) PROVE TypeOK'
  <2>0. UNCHANGED <<tmplVars, sockVars, miners, sub, built, blocks, listVars, strayed>>
    BY <1>9, Zenon DEF SubmitBlock
  <2>1. /\ pc[h] = "submit" /\ (chain' = chain \/ chain' = chain \cup {h})
        /\ \/ pc' = [pc EXCEPT ![h] = "done"]
           \/ pc' = [pc EXCEPT ![h] = "record"] /\ chain' = chain \cup {h}
    BY <1>9, Zenon DEF SubmitBlock
  <2>2. pc' \in [Submissions -> {"idle", "done", "error"} \cup Rejected \cup Handling]
    <3>1. pc \in [Submissions -> {"idle", "done", "error"} \cup Rejected \cup Handling]
      OBVIOUS
    <3> HIDE DEF TypeOK
    <3> QED
      BY <2>1, <3>1
  <2> HIDE DEF Submission, Entry, Handling, Rejected
  <2>3. \A g \in Submissions : (pc'[g] # "idle" => sub[g] \in Submission) /\ (pc'[g] = "record" => g \in chain')
    BY <2>1
  <2> QED
    BY <2>0, <2>1, <2>2, <2>3
<1>10. ASSUME NEW h \in Submissions, RecordBlock(h) PROVE TypeOK'
  BY <1>10 DEF RecordBlock
<1>11. ASSUME NEW h \in Submissions, RedisThrows(h) PROVE TypeOK'
  BY <1>11 DEF RedisThrows
<1>12. CASE UNCHANGED vars
  BY <1>12 DEF vars
<1> HIDE DEF TypeOK
<1> QED
  BY <1>1, <1>2, <1>3, <1>4, <1>5, <1>6, <1>7, <1>8, <1>9, <1>10, <1>11, <1>12 DEF Next, Handle

LEMMA NextCredit == CreditInv /\ [Next]_vars => CreditInv'
<1> SUFFICES ASSUME CreditInv, [Next]_vars, strayed' = {} PROVE CreditInv'
  <2>1. ASSUME CreditInv, [Next]_vars, strayed' # {} PROVE CreditInv'
    <3>1. TypeOK'
      BY <2>1, NextType DEF CreditInv
    <3> QED
      BY <2>1, <3>1, Zenon DEF CreditInv, NoDoubleCredit, CreditedOnce
  <2> QED
    BY <2>1, Zenon
<1>0. TypeOK /\ TypeOK'
  BY NextType DEF CreditInv
<1>s. strayed = {}
  <2>1. ASSUME NEW s \in Sockets, NEW n \in Names, Authorize(s, n) PROVE strayed = {}
    BY <2>1 DEF Authorize, Stray
  <2>2. ASSUME NEW h \in Submissions, NEW s \in Sockets, NEW n \in Names, NEW j \in 1..job,
               NEW x \in Nonces, NEW w \in BOOLEAN, Submit(h, s, n, j, x, w)
        PROVE  strayed = {}
    BY <2>2, Zenon DEF Submit, Stray
  <2>3. ASSUME NEW s \in Sockets, Connect(s) \/ Close(s) PROVE strayed' = strayed
    BY <2>3 DEF Connect, Close
  <2>4. ASSUME NEW h \in Submissions, Handle(h) PROVE strayed' = strayed
    BY <2>4 DEF Handle, Push, Trim, Account, SubmitBlock, RecordBlock, RedisThrows
  <2>5. Refresh \/ UNCHANGED vars => strayed' = strayed
    BY DEF Refresh, vars
  <2> QED
    BY <2>1, <2>2, <2>3, <2>4, <2>5, Zenon DEF Next
<1>t. /\ \A s \in Sockets : name[s] \in Names \cup {NoName} /\ lastSub[s] \in Nat
      /\ \A h \in Submissions : Accepted(h) => sub[h] \in Submission
      /\ miners \in [Names -> Entry]
  BY <1>0 DEF TypeOK, Accepted, Handling
<1>i. CreditedOnce /\ OwnNames
  BY <1>s DEF CreditInv, NoDoubleCredit
<1>e. \A s \in Sockets : EntryFollows(s)
  BY <1>s DEF CreditInv
<1>c. \A h \in Submissions : Accepted(h) => CreditSeen(h)
  BY <1>s DEF CreditInv
<1>q. ASSUME CreditedOnce', OwnNames', \A s \in Sockets : EntryFollows(s)',
             \A h \in Submissions : Accepted(h)' => CreditSeen(h)'
      PROVE  CreditInv'
  BY <1>0, <1>q, Zenon DEF CreditInv, NoDoubleCredit
<1>u. ASSUME UNCHANGED <<sockVars, miners, sub>>, \A g \in Submissions : Accepted(g)' <=> Accepted(g)
      PROVE  CreditInv'
  <2>1. UNCHANGED <<conn, name, lastSub, miners, sub>>
    BY <1>u DEF sockVars
  <2>2. \A s \in Sockets : Owner(s)' <=> Owner(s)
    BY <2>1 DEF Owner
  <2>3. CreditedOnce'
    BY <1>i, <1>u, <2>1 DEF CreditedOnce
  <2>4. OwnNames'
    BY <1>i, <2>1, <2>2 DEF OwnNames
  <2>5. \A s \in Sockets : EntryFollows(s)'
    BY <1>e, <2>1, <2>2 DEF EntryFollows
  <2>6. \A h \in Submissions : CreditSeen(h)' <=> CreditSeen(h)
    BY <2>1 DEF CreditSeen, Owner
  <2>7. \A h \in Submissions : Accepted(h)' => CreditSeen(h)'
    BY <1>c, <1>u, <2>6
  <2> QED
    BY <2>3, <2>4, <2>5, <2>7, <1>q
<1>1. CASE Refresh
  <2>1. UNCHANGED <<sockVars, miners, sub>> /\ pc' = pc
    BY <1>1 DEF Refresh
  <2> QED
    BY <2>1, <1>u DEF Accepted
<1>2. ASSUME NEW s \in Sockets, Connect(s) PROVE CreditInv'
  <2>1. UNCHANGED <<name, lastSub, miners, pc, sub>> /\ conn[s] = "new" /\ conn' = [conn EXCEPT ![s] = "open"]
    BY <1>2 DEF Connect
  <2>2. \A z \in Sockets : conn'[z] = IF z = s THEN "open" ELSE conn[z]
    BY <1>0, <2>1 DEF TypeOK
  <2>3. \A z \in Sockets : Owner(z)' <=> Owner(z)
    BY <1>e, <2>1, <2>2 DEF Owner, EntryFollows
  <2>4. CreditedOnce'
    BY <1>i, <2>1 DEF CreditedOnce, Accepted
  <2>5. OwnNames'
    BY <1>i, <2>1, <2>3 DEF OwnNames
  <2>6. \A z \in Sockets : EntryFollows(z)'
    BY <1>e, <2>1, <2>2, <2>3 DEF EntryFollows
  <2>7. ASSUME NEW h \in Submissions, Accepted(h)' PROVE CreditSeen(h)'
    <3>1. Accepted(h) /\ CreditSeen(h) /\ sub[h].sock \in Sockets
      BY <1>c, <1>t, <2>1, <2>7 DEF Accepted, Submission
    <3> QED
      BY <3>1, <2>1, <2>3 DEF CreditSeen
  <2> QED
    BY <2>4, <2>5, <2>6, <2>7, <1>q
<1>3. ASSUME NEW s \in Sockets, Close(s) PROVE CreditInv'
  <2>1. /\ UNCHANGED <<name, lastSub, pc, sub>> /\ conn[s] = "open" /\ conn' = [conn EXCEPT ![s] = "closed"]
        /\ miners' = [n \in Names |-> IF n = name[s] THEN Absent ELSE miners[n]]
    BY <1>3 DEF Close
  <2>2. \A z \in Sockets : conn'[z] = IF z = s THEN "closed" ELSE conn[z]
    BY <1>0, <2>1 DEF TypeOK
  <2>3. \A z \in Sockets : Owner(z)' => Owner(z) /\ z # s
    BY <2>1, <2>2 DEF Owner
  <2>4. \A z \in Sockets : Owner(z)' => miners'[name[z]] = miners[name[z]]
    <3> SUFFICES ASSUME NEW z \in Sockets, Owner(z)' PROVE miners'[name[z]] = miners[name[z]]
      OBVIOUS
    <3>1. Owner(z) /\ z # s /\ name[z] \in Names
      BY <1>t, <2>3 DEF Owner
    <3>2. name[z] # name[s]
      BY <1>i, <2>1, <3>1 DEF OwnNames, Owner
    <3> QED
      BY <2>1, <3>1, <3>2
  <2>5. CreditedOnce'
    BY <1>i, <2>1 DEF CreditedOnce, Accepted
  <2>6. OwnNames'
    BY <1>i, <2>1, <2>3 DEF OwnNames
  <2>7. \A z \in Sockets : EntryFollows(z)'
    BY <1>e, <2>1, <2>2, <2>3, <2>4 DEF EntryFollows
  <2>8. ASSUME NEW h \in Submissions, Accepted(h)' PROVE CreditSeen(h)'
    <3>1. Accepted(h) /\ CreditSeen(h) /\ sub[h].sock \in Sockets
      BY <1>c, <1>t, <2>1, <2>8 DEF Accepted, Submission
    <3> QED
      BY <3>1, <2>1, <2>3, <2>4 DEF CreditSeen
  <2> QED
    BY <2>5, <2>6, <2>7, <2>8, <1>q
<1>4. ASSUME NEW s \in Sockets, NEW n \in Names, Authorize(s, n) PROVE CreditInv'
  <2>0. name[s] = NoName /\ \A z \in Sockets : conn[z] = "open" => name[z] # n
    BY <1>4 DEF Authorize, Stray
  <2>1. /\ conn[s] = "open" /\ UNCHANGED <<conn, lastSub, pc, sub>>
        /\ name' = [name EXCEPT ![s] = n] /\ miners' = [miners EXCEPT ![n] = Fresh]
    BY <1>4 DEF Authorize
  <2>2. lastSub[s] = 0 /\ ~Owner(s)
    BY <1>e, <2>0 DEF EntryFollows, Owner
  <2>3. \A z \in Sockets : name'[z] = IF z = s THEN n ELSE name[z]
    BY <1>0, <2>1 DEF TypeOK
  <2>4. \A z \in Sockets : z # s => (Owner(z)' <=> Owner(z))
    BY <2>1, <2>3 DEF Owner
  <2>5. miners'[n].in /\ miners'[n].last = 0
    BY <1>t, <2>1 DEF Fresh
  <2>6. \A z \in Sockets : Owner(z) => name[z] # n /\ miners'[name[z]] = miners[name[z]]
    BY <1>t, <2>0, <2>1 DEF Owner
  <2>7. CreditedOnce'
    BY <1>i, <2>1 DEF CreditedOnce, Accepted
  <2>8. OwnNames'
    BY <1>i, <2>3, <2>4, <2>6 DEF OwnNames
  <2>9. ASSUME NEW z \in Sockets PROVE EntryFollows(z)'
    <3>1. CASE z = s
      BY <3>1, <2>1, <2>2, <2>3, <2>5 DEF EntryFollows, Owner, StratumAssumption
    <3>2. CASE z # s
      BY <3>2, <1>e, <2>1, <2>3, <2>4, <2>6 DEF EntryFollows
    <3> QED
      BY <3>1, <3>2
  <2>10. ASSUME NEW h \in Submissions, Accepted(h)' PROVE CreditSeen(h)'
    <3>1. Accepted(h) /\ CreditSeen(h) /\ sub[h].sock \in Sockets /\ sub[h].job \in Nat
      BY <1>c, <1>t, <2>1, <2>10 DEF Accepted, Submission
    <3>2. sub[h].sock # s
      BY <2>2, <3>1 DEF CreditSeen
    <3> QED
      BY <3>1, <3>2, <2>1, <2>3, <2>4, <2>6 DEF CreditSeen
  <2> QED
    BY <2>7, <2>8, <2>9, <2>10, <1>q
<1>5. ASSUME NEW h \in Submissions, NEW s \in Sockets, NEW n \in Names, NEW j \in 1..job,
             NEW x \in Nonces, NEW w \in BOOLEAN, Submit(h, s, n, j, x, w)
      PROVE  CreditInv'
  <2> DEFINE e == miners[name[s]]
             seen == IF e.last = j THEN e.seen ELSE {}
             m == [sock |-> s, name |-> n, job |-> j, nonce |-> x, wins |-> w]
  <2>0. name[s] # NoName /\ ~(j < lastSub[s])
    BY <1>5, Zenon DEF Submit, Stray
  <2>1. Owner(s) /\ name[s] \in Names /\ e.in /\ e.last = lastSub[s] /\ j >= lastSub[s] /\ j \in Nat /\ 1 <= j
    <3>1. conn[s] = "open"
      BY <1>5, Zenon DEF Submit
    <3>2. Owner(s) /\ name[s] \in Names
      BY <1>t, <2>0, <3>1 DEF Owner
    <3>3. e.in /\ e.last = lastSub[s]
      BY <1>e, <3>2 DEF EntryFollows
    <3>4. j \in Nat /\ 1 <= j /\ lastSub[s] \in Nat
      BY <1>0, <1>t DEF TypeOK
    <3> QED
      BY <2>0, <3>2, <3>3, <3>4
  <2>2. /\ pc[h] = "idle" /\ UNCHANGED <<conn, name>>
        /\ pc' = [pc EXCEPT ![h] = IF x \in seen THEN "duplicate" ELSE IF j # job THEN "stale" ELSE "push"]
        /\ miners' = [miners EXCEPT ![name[s]] = [in |-> TRUE, last |-> j, seen |-> seen \cup {x}]]
        /\ sub' = [sub EXCEPT ![h] = m]
        /\ lastSub' = [lastSub EXCEPT ![s] = j]
    BY <1>5, <2>0, <2>1, Zenon DEF Submit, Step
  <2>2a. conn' = conn /\ name' = name
    BY <2>2
  <2>2b. DOMAIN pc = Submissions /\ DOMAIN sub = Submissions /\ DOMAIN lastSub = Sockets
    BY <1>0 DEF TypeOK
  <2> HIDE DEF seen, m
  <2>3. miners'[name[s]] = [in |-> TRUE, last |-> j, seen |-> seen \cup {x}]
    BY <1>t, <2>1, <2>2, Zenon
  <2>3a. \A z \in Sockets : lastSub'[z] = IF z = s THEN j ELSE lastSub[z]
    BY <2>2, <2>2b, Zenon
  <2>4. ASSUME NEW z \in Sockets, z # s, Owner(z) PROVE miners'[name[z]] = miners[name[z]]
    <3>1. name[z] \in Names /\ name[z] # name[s]
      BY <1>i, <1>t, <2>1, <2>4 DEF OwnNames, Owner
    <3> QED
      BY <1>t, <2>2, <3>1
  <2>5. \A z \in Sockets : Owner(z)' <=> Owner(z)
    BY <2>2a DEF Owner
  <2>6. \A g \in Submissions : g # h => sub'[g] = sub[g] /\ pc'[g] = pc[g]
    BY <2>2, <2>2b, Zenon
  <2>6a. ASSUME NEW g \in Submissions, g # h PROVE Accepted(g)' <=> Accepted(g)
    <3>1. pc'[g] = pc[g]
      BY <2>6, <2>6a
    <3> QED
      BY <3>1 DEF Accepted
  <2>7. sub'[h] = m
    BY <2>2, <2>2b, Zenon
  <2>7a. Accepted(h)' => x \notin seen
    <3>1. pc'[h] = IF x \in seen THEN "duplicate" ELSE IF j # job THEN "stale" ELSE "push"
      BY <2>2, <2>2b, Zenon
    <3> QED
      BY <3>1 DEF Accepted, Handling
  <2>8. ASSUME NEW g \in Submissions, Accepted(g), sub[g].sock = s, sub[g].job = j PROVE sub[g].nonce \in seen
    <3>1. j <= lastSub[s] /\ (j = lastSub[s] => sub[g].nonce \in e.seen)
      BY <1>c, <2>1, <2>8 DEF CreditSeen
    <3>2. lastSub[s] \in Nat
      BY <1>t
    <3> QED
      BY <2>1, <3>1, <3>2 DEF seen
  <2> HIDE DEF e
  <2>9. CreditedOnce'
    <3>1. ASSUME NEW g \in Submissions, g # h, Accepted(g)', Accepted(h)',
                 sub[g].sock = s, sub[g].job = j, sub[g].nonce = x
          PROVE  FALSE
      BY <3>1, <2>6a, <2>7a, <2>8
    <3>2. ASSUME NEW g \in Submissions, NEW f \in Submissions, g # h, f # h, Accepted(g)', Accepted(f)',
                 sub'[g].sock = sub'[f].sock, sub'[g].job = sub'[f].job, sub'[g].nonce = sub'[f].nonce
          PROVE  g = f
      <4>1. Accepted(g) /\ Accepted(f) /\ sub'[g] = sub[g] /\ sub'[f] = sub[f]
        BY <2>6, <2>6a, <3>2
      <4> QED
        BY <1>i, <3>2, <4>1 DEF CreditedOnce
    <3>3. \A g \in Submissions : g # h /\ Accepted(g)' /\ Accepted(h)' =>
             ~(sub'[g].sock = sub'[h].sock /\ sub'[g].job = sub'[h].job /\ sub'[g].nonce = sub'[h].nonce)
      BY <3>1, <2>6, <2>7 DEF m
    <3> QED
      BY <3>2, <3>3 DEF CreditedOnce
  <2>10. OwnNames'
    BY <1>i, <2>2a, <2>5 DEF OwnNames
  <2>11. ASSUME NEW z \in Sockets PROVE EntryFollows(z)'
    <3>1. CASE z = s
      BY <3>1, <2>1, <2>2a, <2>3, <2>3a DEF EntryFollows, Owner
    <3>2. CASE z # s
      BY <3>2, <1>e, <2>2a, <2>3a, <2>4, <2>5, Zenon DEF EntryFollows
    <3> QED
      BY <3>1, <3>2
  <2>12. ASSUME NEW g \in Submissions, Accepted(g)' PROVE CreditSeen(g)'
    <3>1. CASE g = h
      <4>1. sub'[h].sock = s /\ sub'[h].job = j /\ sub'[h].nonce = x /\ lastSub'[s] = j /\ name'[s] = name[s]
        BY <2>2a, <2>3a, <2>7 DEF m
      <4>2. x \in miners'[name[s]].seen
        BY <2>3
      <4> QED
        BY <3>1, <4>1, <4>2, <2>1 DEF CreditSeen
    <3>2. CASE g # h
      <4>1. Accepted(g) /\ CreditSeen(g) /\ sub'[g] = sub[g]
        BY <1>c, <2>6, <2>6a, <2>12, <3>2
      <4>2. sub[g].sock \in Sockets /\ sub[g].job \in Nat
        BY <1>t, <4>1 DEF Submission
      <4>3. CASE sub[g].sock = s
        <5>1. 1 <= sub[g].job /\ sub[g].job <= j
          BY <1>t, <2>1, <4>1, <4>2, <4>3 DEF CreditSeen
        <5>2. sub[g].job = j => sub[g].nonce \in seen
          BY <2>8, <4>1, <4>3
        <5> QED
          <6>1. sub'[g] = sub[g] /\ lastSub'[s] = j /\ name'[s] = name[s]
            BY <4>1, <2>2a, <2>3a
          <6>a. miners'[name[s]].seen = seen \cup {x}
            BY <2>3
          <6>2. sub[g].job = j => sub[g].nonce \in miners'[name[s]].seen
            BY <5>2, <6>a
          <6> QED
            BY <5>1, <6>1, <6>2, <4>3 DEF CreditSeen
      <4>4. CASE sub[g].sock # s
        BY <4>1, <4>2, <4>4, <2>2a, <2>3a, <2>4, <2>5, Zenon DEF CreditSeen
      <4> QED
        BY <4>3, <4>4
    <3> QED
      BY <3>1, <3>2
  <2> QED
    BY <2>9, <2>10, <2>11, <2>12, <1>q
<1>6. ASSUME NEW h \in Submissions, Handle(h) PROVE CreditInv'
  <2>1. UNCHANGED <<sockVars, miners, sub>>
    BY <1>6 DEF Handle, Push, Trim, Account, SubmitBlock, RecordBlock, RedisThrows
  <2>2. /\ pc[h] \in Handling
        /\ \E l \in Handling \cup {"done", "error"} : pc' = [pc EXCEPT ![h] = l]
    <3>1. CASE Push(h) \/ Trim(h) \/ Account(h)
      BY <3>1, Zenon DEF Push, Trim, Account, Handling, Step
    <3>2. CASE SubmitBlock(h) \/ RecordBlock(h) \/ RedisThrows(h)
      BY <3>2, Zenon DEF SubmitBlock, RecordBlock, RedisThrows, Handling, Step
    <3> QED
      BY <1>6, <3>1, <3>2 DEF Handle
  <2>3. PICK l \in Handling \cup {"done", "error"} : pc' = [pc EXCEPT ![h] = l]
    BY <2>2, Zenon
  <2>4. \A g \in Submissions : pc'[g] = IF g = h THEN l ELSE pc[g]
    BY <1>0, <2>3, Zenon DEF TypeOK
  <2>5. ASSUME NEW g \in Submissions PROVE Accepted(g)' <=> Accepted(g)
    <3>1. CASE g = h
      BY <2>2, <2>3, <2>4, <3>1, Zenon DEF Accepted
    <3>2. CASE g # h
      BY <2>4, <3>2 DEF Accepted
    <3> QED
      BY <3>1, <3>2
  <2> QED
    BY <2>1, <2>5, <1>u, SMTT(15)
<1>7. CASE UNCHANGED vars
  <2>1. UNCHANGED <<sockVars, miners, sub>> /\ pc' = pc
    BY <1>7 DEF vars, sockVars
  <2> QED
    BY <2>1, <1>u DEF Accepted
<1> QED
  BY <1>1, <1>2, <1>3, <1>4, <1>5, <1>6, <1>7 DEF Next

(* The state of the shared stratum server keeps its types, with pool:blocks *)
(* among the blocks the node took (pool.js:878), in every configuration.   *)
THEOREM TypeCorrect == Spec => []TypeOK
<1>1. Init => TypeOK
  BY InitCredit DEF CreditInv
<1> QED
  BY <1>1, NextType, PTL DEF Spec

(* While every connection has a worker name of its own, authorises once    *)
(* and does not go back to an older job, no share is credited twice        *)
(* (pool.js:760-772): retransmissions, late shares, other names in the     *)
(* message, template refreshes and closing connections included.           *)
THEOREM NoDoubleCreditThm == Spec => []NoDoubleCredit
<1>1. CreditInv => NoDoubleCredit
  BY DEF CreditInv
<1> QED
  BY <1>1, InitCredit, NextCredit, PTL DEF Spec

(* The types hold at the start.                                          *)
LEMMA TypeInit == Init => TypeOK
BY InitCredit DEF CreditInv

(* Per action: a step of one handler leaves what the others carry alone;  *)
(* Submit accepts shares of the current job only, Account reads the       *)
(* template that is current then, SubmitBlock alone adds to the chain.    *)
LEMMA BlockNext == TypeOK /\ TypeOK' /\ BlockInv /\ [Next]_vars => BlockInv'
<1> SUFFICES ASSUME TypeOK, TypeOK', BlockInv, [Next]_vars PROVE BlockInv'
  OBVIOUS
<1>t. /\ job \in Nat /\ job' \in Nat /\ pc \in [Submissions -> {"idle", "done", "error"} \cup Rejected \cup Handling]
      /\ sub \in [Submissions -> Submission \cup {<<>>}] /\ built \in [Submissions -> 0..MaxJob]
      /\ \A h \in Submissions : pc[h] # "idle" => sub[h].job \in Nat
  <2>1. \A h \in Submissions : pc[h] # "idle" => sub[h].job \in Nat
    BY DEF TypeOK, Submission
  <2> QED
    BY <2>1 DEF TypeOK
<1>c. \A h \in Submissions : Carried(h)
  BY DEF BlockInv
<1>k. ASSUME NEW h \in Submissions, Carried(h)', UNCHANGED job,
             \A g \in Submissions : g # h => /\ pc'[g] = pc[g] /\ sub'[g] = sub[g] /\ built'[g] = built[g]
                                             /\ g \in chain' <=> g \in chain
      PROVE  BlockInv'
  <2> SUFFICES ASSUME NEW g \in Submissions, g # h PROVE Carried(g)'
    BY <1>k DEF BlockInv
  <2>1. Carried(g)
    BY <1>c
  <2> QED
    BY <1>k, <2>1 DEF Carried
<1> USE DEF Step, sockVars, blockVars, listVars, tmplVars
<1>1. CASE Refresh
  <2>1. job' = job + 1 /\ UNCHANGED <<pc, sub, built, chain>>
    BY <1>1 DEF Refresh
  <2>2. ASSUME NEW h \in Submissions PROVE Carried(h)'
    <3>1. Carried(h) /\ (pc[h] \in Handling => sub[h].job \in Nat)
      BY <1>c, <1>t DEF Handling
    <3> QED
      BY <1>t, <2>1, <3>1 DEF Carried
  <2> QED
    BY <2>2 DEF BlockInv
<1>2. CASE UNCHANGED vars \/ \E s \in Sockets : Connect(s) \/ Close(s) \/ \E n \in Names : Authorize(s, n)
  <2>1. UNCHANGED <<job, pc, sub, built, chain>>
    BY <1>2, Zenon DEF Connect, Close, Authorize, vars
  <2> QED
    BY <1>c, <2>1 DEF BlockInv, Carried
<1>3. ASSUME NEW h \in Submissions, NEW s \in Sockets, NEW n \in Names, NEW j \in 1..job,
             NEW x \in Nonces, NEW w \in BOOLEAN, Submit(h, s, n, j, x, w)
      PROVE  BlockInv'
  <2>1. /\ pc[h] = "idle" /\ UNCHANGED <<job, built, chain>>
        /\ \/ pc' = [pc EXCEPT ![h] = "duplicate"] \/ pc' = [pc EXCEPT ![h] = "stale"]
           \/ pc' = [pc EXCEPT ![h] = "push"]
        /\ sub' = [sub EXCEPT ![h] = [sock |-> s, name |-> n, job |-> j, nonce |-> x, wins |-> w]]
    BY <1>3, Zenon DEF Submit
  <2>2. h \notin chain
    BY <1>c, <2>1 DEF Carried
  <2>3. sub'[h].job = j /\ pc'[h] \in {"duplicate", "stale", "push"}
    BY <1>t, <2>1, Zenon
  <2>4. Carried(h)'
    BY <1>t, <2>1, <2>2, <2>3 DEF Carried
  <2>5. \A g \in Submissions : g # h => pc'[g] = pc[g] /\ sub'[g] = sub[g]
    BY <1>t, <2>1
  <2> QED
    BY <1>k, <2>1, <2>4, <2>5
<1>4. ASSUME NEW h \in Submissions, Push(h) \/ Trim(h) \/ RedisThrows(h) PROVE BlockInv'
  <2>1. UNCHANGED <<job, sub, built, chain>>
    BY <1>4 DEF Push, Trim, RedisThrows
  <2>2. /\ pc[h] \in Handling \ {"submit"}
        /\ \/ pc[h] \in {"push", "trim"} /\ pc' = [pc EXCEPT ![h] = "trim"]
           \/ pc[h] \in {"push", "trim"} /\ pc' = [pc EXCEPT ![h] = "account"]
           \/ pc' = [pc EXCEPT ![h] = "error"]
    BY <1>4 DEF Push, Trim, RedisThrows, Handling
  <2>3. Carried(h)
    BY <1>c
  <2>4. Carried(h)'
    BY <1>t, <2>1, <2>2, <2>3 DEF Carried, Handling
  <2> QED
    BY <1>t, <1>k, <2>1, <2>2, <2>4
<1>5. ASSUME NEW h \in Submissions, Account(h) PROVE BlockInv'
  <2>1. /\ pc[h] = "account" /\ UNCHANGED <<job, sub, chain>>
        /\ pc' = [pc EXCEPT ![h] = IF sub[h].wins THEN "submit" ELSE "done"]
        /\ built' = [built EXCEPT ![h] = IF sub[h].wins THEN job ELSE 0]
    BY <1>5, Zenon DEF Account
  <2>2. Carried(h) /\ sub[h].job \in Nat
    BY <1>c, <1>t, <2>1
  <2>3. Carried(h)'
    BY <1>t, <2>1, <2>2 DEF Carried, Handling
  <2> QED
    BY <1>t, <1>k, <2>1, <2>3
<1>6. ASSUME NEW h \in Submissions, SubmitBlock(h) \/ RecordBlock(h) PROVE BlockInv'
  <2>1. /\ pc[h] \in {"submit", "record"} /\ UNCHANGED <<job, sub, built>>
        /\ pc' = [pc EXCEPT ![h] = "record"] \/ pc' = [pc EXCEPT ![h] = "done"]
        /\ chain' = chain \/ chain' = chain \cup {h}
    BY <1>6 DEF SubmitBlock, RecordBlock
  <2>2. Carried(h) /\ sub[h].job \in Nat /\ built[h] \in 0..MaxJob
    BY <1>c, <1>t, <2>1
  <2>3. Carried(h)'
    BY <1>t, <2>1, <2>2 DEF Carried, Handling
  <2> QED
    BY <1>t, <1>k, <2>1, <2>3
<1> QED
  BY <1>1, <1>2, <1>3, <1>4, <1>5, <1>6 DEF Next, Handle

(* BlockInv and the types hold always.                                    *)
LEMMA BlockInvariance == Spec => [](TypeOK /\ BlockInv)
<1>1. Init => BlockInv
  BY DEF Init, BlockInv, Carried, Handling
<1> QED
  BY <1>1, TypeInit, NextType, BlockNext, PTL DEF Spec

(* pool:blocks lists only blocks the node took, of accepted winning       *)
(* shares, built on the share's template or a newer one                   *)
(* (pool.js:843-889), for any number of submissions and templates.        *)
THEOREM BlocksAreRealThm == Spec => []BlocksAreReal
<1>1. TypeOK /\ BlockInv => BlocksAreReal
  BY DEF TypeOK, BlockInv, Carried, BlocksAreReal
<1> QED
  BY <1>1, BlockInvariance, PTL

(* An accepted winning share has gone to submitblock when its handler is  *)
(* done without an error of Redis (pool.js:775-866), whatever the other   *)
(* handlers and the templates do meanwhile.                               *)
THEOREM WinsSubmittedThm == Spec => []WinsSubmitted
<1>1. TypeOK /\ BlockInv => WinsSubmitted
  BY DEF TypeOK, BlockInv, Carried, WinsSubmitted
<1> QED
  BY <1>1, BlockInvariance, PTL

(* Only finitely many handlers are between their push and their trim.    *)
LEMMA UntrimmedFinite == IsFiniteSet(Untrimmed) /\ Cardinality(Untrimmed) \in Nat
<1>1. Untrimmed \in SUBSET Submissions
  BY DEF Untrimmed
<1>2. IsFiniteSet(Submissions)
  BY StratumAssumption
<1>3. IsFiniteSet(Untrimmed)
  BY <1>1, <1>2, FS_Subset
<1> QED
  BY <1>3, FS_CardinalityType

(* lPush on the list and on its history: what was the newest part of the  *)
(* history still is.                                                      *)
LEMMA PrefixPush ==
  ASSUME NEW S, NEW s \in Seq(S), NEW p \in Seq(S), NEW x \in S,
         Len(s) <= Len(p), s = SubSeq(p, 1, Len(s))
  PROVE  /\ Len(<<x>> \o s) = Len(s) + 1 /\ Len(<<x>> \o p) = Len(p) + 1
         /\ <<x>> \o s = SubSeq(<<x>> \o p, 1, Len(s) + 1)
<1> DEFINE t == <<x>> \o s
           q == <<x>> \o p
           u == SubSeq(q, 1, Len(s) + 1)
<1>0. Len(s) \in Nat /\ Len(p) \in Nat /\ <<x>> \in Seq(S) /\ Len(<<x>>) = 1 /\ <<x>>[1] = x
  OBVIOUS
<1>1. /\ t \in Seq(S) /\ Len(t) = Len(s) + 1
      /\ \A i \in 1..Len(s) + 1 : t[i] = IF i <= 1 THEN x ELSE s[i - 1]
  BY <1>0, ConcatProperties
<1>2. /\ q \in Seq(S) /\ Len(q) = Len(p) + 1
      /\ \A i \in 1..Len(p) + 1 : q[i] = IF i <= 1 THEN x ELSE p[i - 1]
  BY <1>0, ConcatProperties
<1>3. \A i \in 1..Len(s) : s[i] = p[i]
  <2>1. \A i \in 1..Len(s) : p[i] \in S
    BY <1>0, ElementOfSeq
  <2>2. \A i \in 1..Len(s) : SubSeq(p, 1, Len(s))[i] = p[i]
    BY <1>0, <2>1
  <2> QED
    BY <2>2
<1>4. u \in Seq(S) /\ Len(u) = Len(s) + 1 /\ \A i \in 1..Len(s) + 1 : u[i] = q[i]
  <2> HIDE DEF q
  <2>1. \A i \in 1..Len(s) + 1 : q[i] \in S
    BY <1>0, <1>2, ElementOfSeq
  <2> QED
    BY <1>0, <1>2, <2>1
<1> HIDE DEF t, q, u
<1>5. ASSUME NEW i \in 1..Len(s) + 1 PROVE t[i] = u[i]
  <2>1. CASE i = 1
    BY <1>0, <1>1, <1>2, <1>4, <2>1
  <2>2. CASE i # 1
    <3>1. i - 1 \in 1..Len(s) /\ i \in 1..Len(p) + 1 /\ ~(i <= 1)
      BY <1>0, <2>2
    <3>2. t[i] = s[i - 1] /\ q[i] = p[i - 1] /\ u[i] = q[i]
      BY <1>1, <1>2, <1>4, <3>1
    <3> QED
      BY <1>3, <3>1, <3>2
  <2> QED
    BY <2>1, <2>2
<1>6. t = u
  BY <1>1, <1>4, <1>5, SeqEqual
<1> QED
  BY <1>1, <1>2, <1>6 DEF t, q, u

(* lTrim keeps the newest part of the history.                           *)
LEMMA PrefixTrim ==
  ASSUME NEW S, NEW s \in Seq(S), NEW p \in Seq(S), NEW n \in 0..Len(s),
         Len(s) <= Len(p), s = SubSeq(p, 1, Len(s))
  PROVE  Len(SubSeq(s, 1, n)) = n /\ SubSeq(s, 1, n) = SubSeq(p, 1, n)
<1>0. Len(s) \in Nat /\ Len(p) \in Nat
  OBVIOUS
<1>1. /\ SubSeq(s, 1, n) \in Seq(S) /\ Len(SubSeq(s, 1, n)) = n
      /\ \A i \in 1..n : SubSeq(s, 1, n)[i] = s[i]
  BY <1>0, ElementOfSeq
<1>2. /\ SubSeq(p, 1, n) \in Seq(S) /\ Len(SubSeq(p, 1, n)) = n
      /\ \A i \in 1..n : SubSeq(p, 1, n)[i] = p[i]
  BY <1>0, ElementOfSeq
<1>3. \A i \in 1..Len(s) : s[i] = p[i]
  <2>1. \A i \in 1..Len(s) : SubSeq(p, 1, Len(s))[i] = p[i]
    BY <1>0, ElementOfSeq
  <2> QED
    BY <2>1
<1> QED
  BY <1>0, <1>1, <1>2, <1>3, SeqEqual

(* A push that is not trimmed yet is paid for by its own handler, which   *)
(* joins Untrimmed; a trim restores the bound whatever the others do; no  *)
(* other step takes a handler out of Untrimmed.                           *)
LEMMA WindowNext == TypeOK /\ PPLNSWindow /\ [Next]_vars => PPLNSWindow'
<1> SUFFICES ASSUME TypeOK, PPLNSWindow, [Next]_vars PROVE PPLNSWindow'
  OBVIOUS
<1>t. /\ shares \in Seq(Names) /\ pushed \in Seq(Names) /\ Len(shares) \in Nat /\ Len(pushed) \in Nat
      /\ \A h \in Submissions : pc[h] # "idle" => sub[h].name \in Names
      /\ pc \in [Submissions -> {"idle", "done", "error"} \cup Rejected \cup Handling]
  <2>1. \A h \in Submissions : pc[h] # "idle" => sub[h].name \in Names
    BY DEF TypeOK, Submission
  <2> QED
    BY <2>1 DEF TypeOK
<1>n. Window \in Nat \ {0} /\ IsFiniteSet(Submissions)
  BY StratumAssumption
<1>u. /\ IsFiniteSet(Untrimmed) /\ Cardinality(Untrimmed) \in Nat
      /\ IsFiniteSet(Untrimmed') /\ Cardinality(Untrimmed') \in Nat
  BY UntrimmedFinite, FS_Subset, FS_CardinalityType, <1>n DEF Untrimmed
<1>k. ASSUME UNCHANGED <<shares, pushed>>, Untrimmed \subseteq Untrimmed' PROVE PPLNSWindow'
  <2>1. Cardinality(Untrimmed) <= Cardinality(Untrimmed')
    BY <1>u, <1>k, FS_Subset
  <2> QED
    BY <1>t, <1>n, <1>u, <1>k, <2>1 DEF PPLNSWindow
<1> USE DEF Step, sockVars, blockVars, listVars, tmplVars
<1>1. CASE \/ Refresh \/ UNCHANGED vars
           \/ \E s \in Sockets : Connect(s) \/ Close(s) \/ \E n \in Names : Authorize(s, n)
  <2>1. UNCHANGED <<shares, pushed, pc>>
    BY <1>1, Zenon DEF Refresh, Connect, Close, Authorize, vars
  <2> QED
    BY <1>k, <2>1 DEF Untrimmed
<1>2. ASSUME NEW h \in Submissions, NEW s \in Sockets, NEW n \in Names, NEW j \in 1..job,
             NEW x \in Nonces, NEW w \in BOOLEAN, Submit(h, s, n, j, x, w)
      PROVE  PPLNSWindow'
  <2>1. UNCHANGED <<shares, pushed>> /\ pc[h] = "idle" /\ \A g \in Submissions : g # h => pc'[g] = pc[g]
    BY <1>t, <1>2, Zenon DEF Submit
  <2> QED
    BY <1>k, <2>1 DEF Untrimmed
<1>3. ASSUME NEW h \in Submissions, Push(h) PROVE PPLNSWindow'
  <2>1. /\ pc[h] = "push" /\ pc'[h] \in {"trim", "error"}
        /\ \A g \in Submissions : g # h => pc'[g] = pc[g]
        /\ shares' = <<sub[h].name>> \o shares /\ pushed' = <<sub[h].name>> \o pushed
    BY <1>3, <1>t DEF Push
  <2>2. Untrimmed' = Untrimmed \cup {h} /\ h \notin Untrimmed
    BY <2>1 DEF Untrimmed
  <2>3. Cardinality(Untrimmed') = Cardinality(Untrimmed) + 1
    BY <1>u, <2>2, FS_AddElement
  <2>4. sub[h].name \in Names
    BY <1>t, <2>1
  <2>5. /\ Len(shares') = Len(shares) + 1 /\ Len(pushed') = Len(pushed) + 1
        /\ shares' = SubSeq(pushed', 1, Len(shares) + 1)
    BY <1>t, <2>1, <2>4, PrefixPush DEF PPLNSWindow
  <2> QED
    BY <1>t, <1>n, <1>u, <2>3, <2>5 DEF PPLNSWindow
<1>4. ASSUME NEW h \in Submissions, Trim(h) PROVE PPLNSWindow'
  <2> DEFINE n == IF Len(shares) < Window THEN Len(shares) ELSE Window
  <2>1. shares' = SubSeq(shares, 1, n) /\ pushed' = pushed /\ n \in 0..Len(shares)
    BY <1>4, <1>t, <1>n DEF Trim
  <2>2. Len(shares') = n /\ shares' = SubSeq(pushed, 1, n)
    <3> HIDE DEF n
    <3> QED
      BY <1>t, <2>1, PrefixTrim DEF PPLNSWindow
  <2> QED
    BY <1>t, <1>n, <1>u, <2>1, <2>2 DEF PPLNSWindow
<1>5. ASSUME NEW h \in Submissions, Account(h) \/ SubmitBlock(h) \/ RecordBlock(h) \/ RedisThrows(h)
      PROVE  PPLNSWindow'
  <2>1. /\ UNCHANGED <<shares, pushed>> /\ \A g \in Submissions : g # h => pc'[g] = pc[g]
        /\ pc[h] \in {"trim", "error"} => pc'[h] = "error"
    BY <1>t, <1>5, Zenon DEF Account, SubmitBlock, RecordBlock, RedisThrows
  <2> QED
    BY <1>k, <2>1 DEF Untrimmed
<1> QED
  BY <1>1, <1>2, <1>3, <1>4, <1>5 DEF Next, Handle

(* pool:shares is the newest Window shares, in order, plus at most one    *)
(* per handler that has pushed and not trimmed (pool.js:823-825), however *)
(* many handlers interleave their two commands.                           *)
THEOREM PPLNSWindowThm == Spec => []PPLNSWindow
<1>1. Init => PPLNSWindow
  <2> SUFFICES ASSUME Init PROVE PPLNSWindow
    OBVIOUS
  <2>1. shares = <<>> /\ pushed = <<>> /\ Len(shares) = 0 /\ Len(pushed) = 0
    BY DEF Init
  <2>2. SubSeq(pushed, 1, 0) = <<>>
    BY SubSeqEmpty
  <2> QED
    BY <2>1, <2>2, UntrimmedFinite, StratumAssumption DEF PPLNSWindow
<1> QED
  BY <1>1, TypeInit, NextType, WindowNext, PTL DEF Spec
=============================================================================
