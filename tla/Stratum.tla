------------------------------ MODULE Stratum -------------------------------
(***************************************************************************)
(* The shared (PPLNS) stratum server of mining_pool/src/pool.js, port      *)
(* 3333: connections, authorisation, share submission with its duplicate   *)
(* check, the Redis bookkeeping of an accepted share, the block handler    *)
(* and the template refresh.  A submission is one message; its handler     *)
(* runs to the first await at once and then step by step, interleaved with *)
(* everything else.                                                        *)
(***************************************************************************)
EXTENDS Integers, Sequences, FiniteSets

CONSTANTS Sockets, Names, NoName,
          Nonces,      \* what a share consists of: extraNonce2, nTime, nonce
          Submissions, \* bound: one handler per mining.submit message
          TxSets,      \* transactions a template may carry
          MaxJob,      \* bound on template refreshes
          Window       \* pool:shares keeps this many shares

ASSUME StratumAssumption ==
    IsFiniteSet(Submissions) /\ NoName \notin Names /\ MaxJob \in Nat /\ Window \in Nat \ {0}

VARIABLES job,     \* number of the current template, 0 before the first one
          txs,     \* transactions of each template
          conn, name, \* per socket: life cycle and authorised worker name
          since,   \* first job notified to the socket, 0 if it is not open
          lastSub, \* last job the miner behind the socket has worked on
          miners,  \* poolState.miners: the duplicate filter of each entry
          pc, sub, \* per submission: where its handler is, what it carries
          built,   \* template whose transactions the submitted block got, 0 if none
          shares,  \* pool:shares, newest first
          pushed,  \* history: everything ever pushed to pool:shares
          chain,   \* submissions whose block the node took
          blocks,  \* submissions recorded in pool:blocks
          strayed  \* history: "name" once a connection has taken a name in use,
                   \* authorised again or submitted unauthorised, "job" once one
                   \* has gone back to an older job

vars == <<job, txs, conn, name, since, lastSub, miners, pc, sub, built, shares, pushed, chain, blocks, strayed>>
sockVars == <<conn, name, since, lastSub>>
blockVars == <<built, chain, blocks>>
listVars == <<shares, pushed>>
tmplVars == <<job, txs>>

Absent == [in |-> FALSE, last |-> 0, seen |-> {}]
Fresh == [in |-> TRUE, last |-> 0, seen |-> {}]
Entry == [in : BOOLEAN, last : Nat, seen : SUBSET Nonces]
Submission == [sock : Sockets, name : Names, job : Nat, nonce : Nonces, wins : BOOLEAN]
Rejected == {"duplicate", "stale"}
Handling == {"push", "trim", "account", "submit", "record"}

TypeOK ==
    /\ job \in 0..MaxJob /\ txs \in Seq(TxSets) /\ Len(txs) = job
    /\ conn \in [Sockets -> {"new", "open", "closed"}]
    /\ name \in [Sockets -> Names \cup {NoName}]
    /\ since \in [Sockets -> Nat] /\ lastSub \in [Sockets -> Nat]
    /\ miners \in [Names -> Entry]
    /\ pc \in [Submissions -> {"idle", "done", "error"} \cup Rejected \cup Handling]
    /\ sub \in [Submissions -> Submission \cup {<<>>}]
    /\ \A h \in Submissions : (pc[h] # "idle" => sub[h] \in Submission) /\ (pc[h] = "record" => h \in chain)
    /\ built \in [Submissions -> 0..MaxJob]
    /\ shares \in Seq(Names) /\ pushed \in Seq(Names)
    /\ chain \subseteq Submissions /\ blocks \subseteq chain /\ strayed \subseteq {"name", "job"}

Init ==
    /\ job = 0 /\ txs = <<>>
    /\ conn = [s \in Sockets |-> "new"] /\ name = [s \in Sockets |-> NoName]
    /\ since = [s \in Sockets |-> 0] /\ lastSub = [s \in Sockets |-> 0]
    /\ miners = [n \in Names |-> Absent]
    /\ pc = [h \in Submissions |-> "idle"]
    /\ sub = [h \in Submissions |-> <<>>]
    /\ built = [h \in Submissions |-> 0]
    /\ shares = <<>> /\ pushed = <<>> /\ chain = {} /\ blocks = {} /\ strayed = {}

Stray(byName, byJob) ==
    strayed' = strayed \cup (IF byName THEN {"name"} ELSE {}) \cup (IF byJob THEN {"job"} ELSE {})
Step(h, from, to) == pc[h] = from /\ pc' = [pc EXCEPT ![h] = to]

\* refreshBlockTemplate: a new job for every live connection.
Refresh ==
    /\ job < MaxJob
    /\ job' = job + 1
    /\ \E t \in TxSets : txs' = Append(txs, t)
    /\ UNCHANGED <<sockVars, miners, pc, sub, blockVars, listVars, strayed>>

\* A connection that subscribes; it is sent the current job, if there is one.
Connect(s) ==
    /\ conn[s] = "new"
    /\ conn' = [conn EXCEPT ![s] = "open"]
    /\ since' = [since EXCEPT ![s] = IF job = 0 THEN 1 ELSE job]
    /\ UNCHANGED <<name, lastSub, tmplVars, miners, pc, sub, blockVars, listVars, strayed>>

\* mining.authorize puts a fresh entry under the name, whoever held it.
Authorize(s, n) ==
    /\ conn[s] = "open"
    /\ Stray(name[s] # NoName \/ \E z \in Sockets : conn[z] = "open" /\ name[z] = n, FALSE)
    /\ name' = [name EXCEPT ![s] = n]
    /\ miners' = [miners EXCEPT ![n] = Fresh]
    /\ UNCHANGED <<conn, since, lastSub, tmplVars, pc, sub, blockVars, listVars>>

\* Mutant: the filter is looked up under the name in the message.
SubmitByMessage(h, s, n, j, x, w) ==
    LET seen == IF miners[n].last = j THEN miners[n].seen ELSE {}
    IN  /\ conn[s] = "open" /\ j >= since[s]
        /\ Stray(name[s] = NoName, j < lastSub[s])
        /\ Step(h, "idle", IF x \in seen THEN "duplicate" ELSE IF j # job THEN "stale" ELSE "push")
        /\ miners' = [miners EXCEPT ![n] = [in |-> TRUE, last |-> j, seen |-> seen \cup {x}]]
        /\ sub' = [sub EXCEPT ![h] = [sock |-> s, name |-> n, job |-> j, nonce |-> x, wins |-> w]]
        /\ lastSub' = [lastSub EXCEPT ![s] = j]
        /\ UNCHANGED <<conn, name, since, tmplVars, blockVars, listVars>>

\* handleSubmit up to its first await.  The filter is the one of the entry the
\* connection authorised, else of the name in the message, created if missing.
\* It is emptied whenever the job differs from the last one submitted under it.
\* A miner works on jobs it was sent; a late share may be of an older one.
Submit(h, s, n, j, x, w) ==
    LET k == IF name[s] # NoName /\ miners[name[s]].in THEN name[s] ELSE n
        seen == IF miners[k].last = j THEN miners[k].seen ELSE {}
    IN  /\ conn[s] = "open" /\ j >= since[s]
        /\ Stray(name[s] = NoName, j < lastSub[s])
        /\ Step(h, "idle", IF x \in seen THEN "duplicate" ELSE IF j # job THEN "stale" ELSE "push")
        /\ miners' = [miners EXCEPT ![k] = [in |-> TRUE, last |-> j, seen |-> seen \cup {x}]]
        /\ sub' = [sub EXCEPT ![h] = [sock |-> s, name |-> n, job |-> j, nonce |-> x, wins |-> w]]
        /\ lastSub' = [lastSub EXCEPT ![s] = j]
        /\ UNCHANGED <<conn, name, since, tmplVars, blockVars, listVars>>

\* lPush pool:shares, then lTrim 0..Window-1.
Push(h) ==
    /\ Step(h, "push", "trim") \/ Step(h, "push", "error")
    /\ shares' = <<sub[h].name>> \o shares
    /\ pushed' = <<sub[h].name>> \o pushed
    /\ UNCHANGED <<tmplVars, sockVars, miners, sub, blockVars, strayed>>

\* Mutant: the last index of lTrim taken for a length.
TrimShort(h) ==
    /\ Step(h, "trim", "account")
    /\ shares' = SubSeq(shares, 1, IF Len(shares) < Window - 1 THEN Len(shares) ELSE Window - 1)
    /\ UNCHANGED <<tmplVars, sockVars, miners, sub, blockVars, pushed, strayed>>

Trim(h) ==
    /\ Step(h, "trim", "account")
    /\ shares' = SubSeq(shares, 1, IF Len(shares) < Window THEN Len(shares) ELSE Window)
    /\ UNCHANGED <<tmplVars, sockVars, miners, sub, blockVars, pushed, strayed>>

\* Mutant: a winning share is only counted.
AccountIdle(h) ==
    /\ Step(h, "account", "done")
    /\ UNCHANGED <<tmplVars, sockVars, miners, sub, blockVars, listVars, strayed>>

\* Mutant: every accepted share goes to the block handler.
AccountAll(h) ==
    /\ Step(h, "account", "submit")
    /\ built' = [built EXCEPT ![h] = job]
    /\ UNCHANGED <<tmplVars, sockVars, miners, sub, chain, blocks, listVars, strayed>>

\* Hashrate history and uptime are written; when the last of these awaits
\* returns, a winning share goes to handleBlockFound, which reads the template
\* that is current by then.
Account(h) ==
    /\ Step(h, "account", IF sub[h].wins THEN "submit" ELSE "done")
    /\ built' = [built EXCEPT ![h] = IF sub[h].wins THEN job ELSE 0]
    /\ UNCHANGED <<tmplVars, sockVars, miners, sub, chain, blocks, listVars, strayed>>

\* Mutant: the block is recorded as found when it is submitted.
SubmitBlockEarly(h) ==
    /\ Step(h, "submit", "record")
    /\ blocks' = blocks \cup {h}
    /\ UNCHANGED <<tmplVars, sockVars, miners, sub, built, chain, listVars, strayed>>

\* submitblock: the node takes a block only if its transactions are the ones
\* the header commits to; the answer may be lost; a rejection is recorded apart.
SubmitBlock(h) ==
    /\ \/ /\ Step(h, "submit", "record") \/ Step(h, "submit", "done")
          /\ txs[built[h]] = txs[sub[h].job]
          /\ chain' = chain \cup {h}
       \/ Step(h, "submit", "done") /\ UNCHANGED chain
    /\ UNCHANGED <<tmplVars, sockVars, miners, sub, built, blocks, listVars, strayed>>

RecordBlock(h) ==
    /\ Step(h, "record", "done")
    /\ blocks' = blocks \cup {h}
    /\ UNCHANGED <<tmplVars, sockVars, miners, sub, built, chain, listVars, strayed>>

\* A Redis command throws: the catch of handleSubmit (or of the block handler)
\* answers an error and drops what was left to do.
RedisThrows(h) ==
    /\ \E l \in {"push", "trim", "account", "record"} : Step(h, l, "error")
    /\ UNCHANGED <<tmplVars, sockVars, miners, sub, blockVars, listVars, strayed>>

\* The close event removes the entry under the socket's name, whoever owns it.
\* The socket, and with it what it was sent, is gone.
Close(s) ==
    /\ conn[s] = "open"
    /\ conn' = [conn EXCEPT ![s] = "closed"]
    /\ miners' = [n \in Names |-> IF n = name[s] THEN Absent ELSE miners[n]]
    /\ since' = [since EXCEPT ![s] = 0]
    /\ UNCHANGED <<name, lastSub, tmplVars, pc, sub, blockVars, listVars, strayed>>

Handle(h) == Push(h) \/ Trim(h) \/ Account(h) \/ SubmitBlock(h) \/ RecordBlock(h) \/ RedisThrows(h)

Next ==
    \/ Refresh
    \/ \E s \in Sockets : Connect(s) \/ Close(s) \/ \E n \in Names : Authorize(s, n)
    \/ \E h \in Submissions, s \in Sockets, n \in Names, j \in 1..job, x \in Nonces, w \in BOOLEAN :
          Submit(h, s, n, j, x, w)
    \/ \E h \in Submissions : Handle(h)

Spec == Init /\ [][Next]_vars

-----------------------------------------------------------------------------
Accepted(h) == pc[h] \in Handling \cup {"done", "error"}

(***************************************************************************)
(* The duplicate check (pool.js:760-772): of all messages that carry the   *)
(* same share of the same connection, one at most is credited, whatever    *)
(* worker name they give, however the connections, the refreshes and the   *)
(* handlers interleave, as long as every connection has authorised once,   *)
(* under a name no other one is using, and has not gone back to an older   *)
(* job (any other job than the last one empties the filter, 763-766).      *)
(***************************************************************************)
CreditedOnce ==
    \A g, h \in Submissions :
        /\ Accepted(g) /\ Accepted(h)
        /\ sub[g].sock = sub[h].sock /\ sub[g].job = sub[h].job /\ sub[g].nonce = sub[h].nonce
        => g = h
NoDoubleCredit == strayed = {} => CreditedOnce

(***************************************************************************)
(* "new block template - reset the seen-set" (765): a late share of an     *)
(* older job is no new template, so a share of the current one is still    *)
(* known after it, and credited once.                                      *)
(***************************************************************************)
FilterPerTemplate == strayed \subseteq {"job"} => CreditedOnce

Untrimmed == {h \in Submissions : pc[h] \in {"trim", "error"}}

(***************************************************************************)
(* The PPLNS window (pool.js:823-825): push and trim are two commands that *)
(* handlers interleave and either may fail, yet pool:shares always holds   *)
(* the newest Window shares in order, and no more than Window plus what is *)
(* between its push and its trim.                                          *)
(***************************************************************************)
PPLNSWindow ==
    /\ Len(shares) <= Len(pushed) /\ shares = SubSeq(pushed, 1, Len(shares))
    /\ Len(shares) >= IF Len(pushed) < Window THEN Len(pushed) ELSE Window
    /\ Len(shares) <= Window + Cardinality(Untrimmed)

(***************************************************************************)
(* pool:blocks lists a block only when the node has taken it: a handler    *)
(* that fails half way, or whose block the node turned down, adds nothing  *)
(* (pool.js:878-889), and only accepted winning shares get that far.       *)
(***************************************************************************)
BlocksAreReal ==
    \A h \in blocks : h \in chain /\ sub[h].wins /\ built[h] >= sub[h].job

(***************************************************************************)
(* A share that is accepted and meets the network target is never just     *)
(* counted: it has gone to submitblock when its handler ends (843-848),    *)
(* unless a Redis command threw before that (the catch at 851).            *)
(***************************************************************************)
WinsSubmitted ==
    \A h \in Submissions : pc[h] = "done" /\ sub[h].wins => built[h] # 0

(***************************************************************************)
(* "Construct full serialized block (Header + TxCount + Coinbase + Txs)"   *)
(* (pool.js:866): the transactions are the ones the header commits to.     *)
(***************************************************************************)
BlockOfOneTemplate ==
    \A h \in Submissions : built[h] # 0 => txs[built[h]] = txs[sub[h].job]

(***************************************************************************)
(* The inductive strengthening of NoDoubleCredit while nobody has strayed: *)
(* an authorised connection owns its entry, the entry's last job is the    *)
(* last one of the connection, and its filter holds every credited share   *)
(* of that job.                                                            *)
(***************************************************************************)
Owner(s) == conn[s] = "open" /\ name[s] # NoName
OwnNames == \A s, z \in Sockets : Owner(s) /\ Owner(z) /\ name[s] = name[z] => s = z
EntryFollows(s) ==
    /\ conn[s] = "new" => name[s] = NoName
    /\ name[s] = NoName => lastSub[s] = 0
    /\ Owner(s) => miners[name[s]].in /\ miners[name[s]].last = lastSub[s]
CreditSeen(h) ==
    LET s == sub[h].sock
    IN  /\ 1 <= sub[h].job /\ sub[h].job <= lastSub[s]
        /\ Owner(s) /\ sub[h].job = lastSub[s] => sub[h].nonce \in miners[name[s]].seen
CreditInv ==
    /\ TypeOK /\ NoDoubleCredit
    /\ strayed = {} => /\ OwnNames
                       /\ \A s \in Sockets : EntryFollows(s)
                       /\ \A h \in Submissions : Accepted(h) => CreditSeen(h)

(***************************************************************************)
(* Why BlocksAreReal and WinsSubmitted hold: an accepted share is of a job *)
(* that was current, and templates only grow, so that the template read    *)
(* awaits later is that one or a newer one; a block the node has taken is  *)
(* of such a share.                                                        *)
(***************************************************************************)
Carried(h) ==
    /\ pc[h] \in Handling => 1 <= sub[h].job /\ sub[h].job <= job
    /\ pc[h] \in {"submit", "record"} \/ h \in chain =>
          /\ pc[h] \in {"submit", "record", "done", "error"}
          /\ sub[h].wins /\ 1 <= sub[h].job /\ sub[h].job <= built[h]
    /\ pc[h] = "done" /\ sub[h].wins => built[h] # 0
BlockInv == \A h \in Submissions : Carried(h)
=============================================================================
