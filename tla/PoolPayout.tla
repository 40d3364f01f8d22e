----------------------------- MODULE PoolPayout -----------------------------
(***************************************************************************)
(* processPayouts of mining_pool/src/pool.js up to the payout history: the *)
(* hourly job that divides the mature pool balance over the PPLNS window   *)
(* and sends it with one sendmany.  A run is one firing of the cron        *)
(* schedule; each awaited call is a step that may throw, and sendmany may  *)
(* also take effect and lose its answer, or take effect only later.        *)
(* Amounts are whole numbers of the smallest unit.                         *)
(***************************************************************************)
EXTENDS Integers, Sequences, FiniteSets, Functions

CONSTANTS Runs, NoRun,
          Miners,      \* addresses the node finds valid
          Domain,      \* a .tar name that could not be resolved: not an address
          FeeWallet,
          Windows,     \* share counts the PPLNS window may hold, by address
          Income,      \* what a matured block adds to the wallet
          MaxBlocks,   \* bound on matured blocks
          MinBalance, Reserve, TxFee, FeePercent, MinPayout

Keys == Miners \cup {Domain, FeeWallet}

ASSUME PayoutAssumption ==
    /\ IsFiniteSet(Miners) /\ NoRun \notin Runs /\ Domain \notin Miners /\ FeeWallet \notin Miners \cup {Domain}
    /\ Windows \subseteq [Keys -> Nat]
    /\ {Income, MaxBlocks, Reserve, TxFee, FeePercent} \subseteq Nat
    /\ {MinBalance, MinPayout} \subseteq Nat \ {0}
    /\ TxFee <= Reserve /\ Reserve < MinBalance /\ FeePercent \in 1..100
    /\ MinPayout * FeePercent >= 50   \* the fee on a payout covers its rounding; the code has 10^8 * 1

VARIABLES wallet, mined, \* spendable balance; blocks matured so far
          pc, bal, pay,  \* per run: next call, balance read, payouts object
          tx,            \* per run: the transaction its txid names
          flight,        \* runs whose send is still being processed by the node
          sent, recent,  \* broadcast; and the ones listtransactions shows as recent
          pending, history, \* pool:payout:pending, pool:payout:history
          overlap        \* history: has a run begun while another one, or its send,
                         \* was still under way?

vars == <<wallet, mined, pc, bal, pay, tx, flight, sent, recent, pending, history, overlap>>
chainVars == <<wallet, flight, sent, recent>>
redisVars == <<pending, history>>
runVars == <<bal, pay, tx>>

Labels == {"idle", "shares", "validate", "intent", "send", "list", "record", "clear", "done"}
Total(f) == SumFunctionOnSet(f, Keys)

TypeOK ==
    /\ wallet \in Nat /\ mined \in 0..MaxBlocks
    /\ pc \in [Runs -> Labels] /\ bal \in [Runs -> Nat]
    /\ pay \in [Runs -> [Keys -> Nat]] /\ tx \in [Runs -> Runs \cup {NoRun}]
    /\ flight \subseteq Runs /\ sent \subseteq Runs /\ recent \in Seq(Runs)
    /\ pending \in Runs \cup {NoRun} /\ history \subseteq [run : Runs, tx : Runs]
    /\ overlap \in BOOLEAN

Nothing == [k \in Keys |-> 0]

Init ==
    /\ wallet = 0 /\ mined = 0
    /\ pc = [r \in Runs |-> "idle"] /\ bal = [r \in Runs |-> 0]
    /\ pay = [r \in Runs |-> Nothing] /\ tx = [r \in Runs |-> NoRun]
    /\ flight = {} /\ sent = {} /\ recent = <<>>
    /\ pending = NoRun /\ history = {} /\ overlap = FALSE

Active(r) == pc[r] \notin {"idle", "done"}
Step(r, from, to) == pc[r] = from /\ pc' = [pc EXCEPT ![r] = to]

\* A block of the pool becomes spendable.
Mature ==
    /\ mined < MaxBlocks
    /\ mined' = mined + 1 /\ wallet' = wallet + Income
    /\ UNCHANGED <<pc, runVars, flight, sent, recent, redisVars, overlap>>

\* The cron job fires: getbalance, and the early return on a low balance.
Start(r) ==
    /\ overlap' = (overlap \/ recent # <<>> \/ flight # {} \/ \E q \in Runs : Active(q))
    /\ Step(r, "idle", IF wallet < MinBalance THEN "done" ELSE "shares")
    /\ bal' = [bal EXCEPT ![r] = wallet]
    /\ UNCHANGED <<mined, chainVars, pay, tx, redisVars>>

\* toFixed(8): to the nearest unit.
Round(a, b) == (2 * a + b) \div (2 * b)
Reward(b, w, k) == Round((b - Reserve) * (100 - FeePercent) * w[k], 100 * Total(w))

\* Mutant: nothing is set aside for the network fee.
AllotAll(b, w) ==
    LET due == [k \in Keys |-> IF Reward(b, w, k) >= MinPayout THEN Reward(b, w, k) ELSE 0]
        rest == b - Total(due)
    IN  IF rest > 0 THEN [due EXCEPT ![FeeWallet] = @ + rest] ELSE due

\* The payouts object: every reward of at least MinPayout, and the rest to the
\* fee wallet if it is positive.
Allot(b, w) ==
    LET due == [k \in Keys |-> IF Reward(b, w, k) >= MinPayout THEN Reward(b, w, k) ELSE 0]
        rest == b - Reserve - Total(due)
    IN  IF rest > 0 THEN [due EXCEPT ![FeeWallet] = @ + rest] ELSE due

\* lRange pool:shares and the division of the balance.
Shares(r) ==
    \E w \in Windows :
        IF Total(w) = 0
        THEN Step(r, "shares", "done") /\ UNCHANGED <<mined, chainVars, runVars, redisVars, overlap>>
        ELSE /\ Step(r, "shares", "validate")
             /\ pay' = [pay EXCEPT ![r] = Allot(bal[r], w)]
             /\ UNCHANGED <<mined, chainVars, bal, tx, redisVars, overlap>>

\* Mutant: the entry is deleted before its amount is read.
ValidateLosing(r) ==
    /\ Step(r, "validate", "intent")
    /\ pay' = [pay EXCEPT ![r][Domain] = 0]
    /\ UNCHANGED <<mined, chainVars, bal, tx, redisVars, overlap>>

\* validateaddress for each key: what was due to an invalid one goes to the
\* fee wallet; a call that throws leaves the entry in place.
Validate(r) ==
    /\ Step(r, "validate", "intent")
    /\ \/ pay' = [pay EXCEPT ![r][FeeWallet] = @ + pay[r][Domain], ![r][Domain] = 0]
       \/ UNCHANGED pay
    /\ UNCHANGED <<mined, chainVars, bal, tx, redisVars, overlap>>

\* The intent is written before the send.
Intent(r) ==
    /\ Step(r, "intent", "send")
    /\ pending' = r
    /\ UNCHANGED <<mined, chainVars, runVars, history, overlap>>

\* What sendmany does to the wallet: it refuses an invalid address and an
\* amount the wallet does not cover.
Broadcast(r) ==
    /\ pay[r][Domain] = 0 /\ Total(pay[r]) + TxFee <= wallet
    /\ wallet' = wallet - Total(pay[r]) - TxFee
    /\ sent' = sent \cup {r} /\ recent' = Append(recent, r)

\* Mutant: an error of sendmany is swallowed.
SendUnchecked(r) ==
    /\ Step(r, "send", "record") /\ tx' = [tx EXCEPT ![r] = r]
    /\ (Broadcast(r) /\ UNCHANGED flight) \/ UNCHANGED chainVars
    /\ UNCHANGED <<mined, bal, pay, redisVars, overlap>>

\* sendmany: done and answered; done but the answer is lost; not done; or still
\* being processed when the call times out.
Send(r) ==
    /\ \/ Step(r, "send", "record") /\ tx' = [tx EXCEPT ![r] = r] /\ Broadcast(r) /\ UNCHANGED flight
       \/ Step(r, "send", "list") /\ Broadcast(r) /\ UNCHANGED <<flight, tx>>
       \/ Step(r, "send", "list") /\ UNCHANGED <<chainVars, tx>>
       \/ Step(r, "send", "list") /\ flight' = flight \cup {r} /\ UNCHANGED <<wallet, sent, recent, tx>>
    /\ UNCHANGED <<mined, bal, pay, redisVars, overlap>>

LateSend(r) ==
    /\ r \in flight /\ flight' = flight \ {r}
    /\ Broadcast(r) \/ UNCHANGED <<wallet, sent, recent>>
    /\ UNCHANGED <<mined, pc, runVars, redisVars, overlap>>

\* Mutant: without a match the run carries on as if the payment were made.
ListUnmatched(r) ==
    /\ Step(r, "list", "record")
    /\ IF recent # <<>> THEN tx' = [tx EXCEPT ![r] = Head(recent)] ELSE UNCHANGED tx
    /\ UNCHANGED <<mined, chainVars, bal, pay, redisVars, overlap>>

\* Mutant: the age of the transaction is not looked at.
ListAnyAge(r) ==
    /\ \/ \E q \in sent : Step(r, "list", "record") /\ tx' = [tx EXCEPT ![r] = q] /\ UNCHANGED pending
       \/ Step(r, "list", "done") /\ pending' = NoRun /\ UNCHANGED tx
    /\ UNCHANGED <<mined, chainVars, bal, pay, history, overlap>>

\* After an error of sendmany: the first recent send that listtransactions
\* shows is taken for this run's; with none, or if the call throws, the intent
\* is deleted and the run ends.
List(r) ==
    /\ \/ /\ recent # <<>> /\ Step(r, "list", "record")
          /\ tx' = [tx EXCEPT ![r] = Head(recent)] /\ UNCHANGED pending
       \/ Step(r, "list", "done") /\ pending' = NoRun /\ UNCHANGED tx
    /\ UNCHANGED <<mined, chainVars, bal, pay, history, overlap>>

Record(r) ==
    /\ Step(r, "record", "clear")
    /\ history' = history \cup {[run |-> r, tx |-> tx[r]]}
    /\ UNCHANGED <<mined, chainVars, runVars, pending, overlap>>

Clear(r) ==
    /\ Step(r, "clear", "done")
    /\ pending' = NoRun
    /\ UNCHANGED <<mined, chainVars, runVars, history, overlap>>

\* A call throws, or the process is restarted: the run is over as it stands,
\* and the node may still make a send under way.
Aborts(r) ==
    /\ pc[r] \notin {"idle", "done"} /\ pc' = [pc EXCEPT ![r] = "done"]
    /\ flight' = flight \/ (pc[r] = "send" /\ flight' = flight \cup {r})
    /\ UNCHANGED <<wallet, sent, recent, mined, runVars, redisVars, overlap>>

\* 120 seconds after a send it no longer counts as recent.
Age ==
    /\ recent # <<>> /\ recent' = Tail(recent)
    /\ UNCHANGED <<wallet, mined, pc, runVars, flight, sent, redisVars, overlap>>

Process(r) ==
    \/ Start(r) \/ Shares(r) \/ Validate(r) \/ Intent(r) \/ Send(r) \/ List(r)
    \/ Record(r) \/ Clear(r) \/ Aborts(r) \/ LateSend(r)

Next == Mature \/ Age \/ \E r \in Runs : Process(r)
Spec == Init /\ [][Next]_vars

-----------------------------------------------------------------------------
(***************************************************************************)
(* What a run sends is exactly the balance it read less the reserve: the   *)
(* rounding of the rewards, the rewards too small to pay and those of      *)
(* addresses found invalid neither lose nor create money (1191-1234),      *)
(* whatever runs overlap and whatever calls fail.                          *)
(***************************************************************************)
Conserved == \A r \in sent : Total(pay[r]) = bal[r] - Reserve /\ pay[r][Domain] = 0

(***************************************************************************)
(* Every record of the payout history names a transaction that was         *)
(* broadcast (1243-1275), also after an error of sendmany.                 *)
(***************************************************************************)
RecordNamesTx == \A h \in history : h.tx \in sent

(***************************************************************************)
(* As long as no run has begun beside another one or its send, the balance *)
(* read at the start still covers the payment and its network fee when it  *)
(* is sent, many awaits later (1151-1185).                                 *)
(***************************************************************************)
Affordable == ~overlap => \A r \in Runs : pc[r] = "send" => Total(pay[r]) + TxFee <= wallet

(***************************************************************************)
(* "If the daemon crashes mid-send and throws an error, we use             *)
(* listtransactions to check whether the tx was actually broadcast"        *)
(* (1240-1242): the transaction a run records is its own, as long as no    *)
(* run has begun beside another one or its send.                           *)
(***************************************************************************)
OwnRecord == ~overlap => \A h \in history : h.tx = h.run

(***************************************************************************)
(* Why RecordNamesTx holds: what listtransactions shows was broadcast, and *)
(* so was what a run is about to record.                                   *)
(***************************************************************************)
TxInv ==
    /\ pc \in [Runs -> Labels] /\ tx \in [Runs -> Runs \cup {NoRun}]
    /\ recent \in Seq(Runs) /\ \A i \in 1..Len(recent) : recent[i] \in sent
    /\ \A r \in Runs : pc[r] = "record" => tx[r] \in sent
    /\ RecordNamesTx

(***************************************************************************)
(* Why OwnRecord holds of runs that do not overlap: one is under way at a  *)
(* time, and all recent transactions, and a send that is still to take     *)
(* effect, are its own.                                                    *)
(***************************************************************************)
Alone(r) ==
    /\ \A q \in Runs : Active(q) => r = q
    /\ flight \subseteq {r} /\ \A i \in 1..Len(recent) : recent[i] = r
AloneInv ==
    /\ pc \in [Runs -> Labels] /\ tx \in [Runs -> Runs \cup {NoRun}]
    /\ recent \in Seq(Runs) /\ flight \subseteq Runs /\ overlap \in BOOLEAN
    /\ ~overlap => \A r \in Runs : (Active(r) => Alone(r)) /\ (pc[r] = "record" => tx[r] = r)
    /\ OwnRecord

(***************************************************************************)
(* Why Conserved holds: from the division of the balance to the broadcast, *)
(* the payouts of a run add up to what it read less the reserve, and they  *)
(* change no more once the node has them.                                  *)
(***************************************************************************)
Divided == {"validate", "intent", "send", "list", "record", "clear"}
Handed == {"list", "record", "clear", "done"}
Funded(r) ==
    /\ Active(r) => bal[r] >= MinBalance
    /\ pc[r] = "record" => tx[r] \in Runs
    /\ pc[r] \in Divided \/ r \in flight \cup sent => Total(pay[r]) = bal[r] - Reserve
    /\ r \in flight \cup sent => pc[r] \in Handed
    /\ r \in sent => pay[r][Domain] = 0
PayInv == TypeOK /\ \A r \in Runs : Funded(r)

(***************************************************************************)
(* Why Affordable holds: a run that is alone finds all it has read still   *)
(* in the wallet until it sends.                                           *)
(***************************************************************************)
FundsInv ==
    ~overlap => \A r \in Runs : pc[r] \in {"shares", "validate", "intent", "send"} => bal[r] <= wallet
=============================================================================
