------------------------------- MODULE Faucet -------------------------------
(***************************************************************************)
(* POST /api/faucet of mining_pool/src/pool.js.  A request is a chain of   *)
(* awaited calls; the other requests, the clock, a failing call and a      *)
(* restart of the process may come between any two of them.                *)
(***************************************************************************)
EXTENDS Integers, FiniteSets

CONSTANTS Requests, IPs, Addrs,
          TTL,        \* lifetime of the two claim keys, in days
          Reward,     \* what one claim pays
          Funds,      \* the most the faucet wallet may hold at first
          MaxHits,    \* requests the limiter lets through per IP and window
          MaxDay      \* bound on the clock

ASSUME FaucetAssumption == /\ TTL \in Nat \ {0} /\ Reward \in Nat \ {0}
                           /\ Funds \in Nat /\ MaxHits \in Nat /\ MaxDay \in Nat

VARIABLES pc,       \* where each request is
          ip, addr, \* what each request carries
          ipKey,    \* faucet:ip:* in Redis, the day the key expires, 0 when absent
          addrKey,  \* faucet:address:* likewise
          hits,     \* counters of faucetLimiter
          balance, day,
          sent,     \* requests whose transaction the wallet has broadcast
          rec,      \* history: day a request recorded its first key, 0 before
          before    \* history: requests already paid when this one arrived

vars == <<pc, ip, addr, ipKey, addrKey, hits, balance, day, sent, rec, before>>

Awaiting == {"verify", "ipCheck", "addrCheck", "validate", "balance", "setIp", "setAddr", "send"}
Answered == {"paid", "refused", "limited", "failed", "lost"}

TypeOK ==
    /\ pc \in [Requests -> Awaiting \cup Answered \cup {"idle"}]
    /\ ip \in [Requests -> IPs] /\ addr \in [Requests -> Addrs]
    /\ ipKey \in [IPs -> Nat] /\ addrKey \in [Addrs -> Nat]
    /\ hits \in [IPs -> 0..MaxHits]
    /\ balance \in 0..Funds /\ day \in Nat
    /\ sent \subseteq Requests
    /\ rec \in [Requests -> Nat] /\ before \in [Requests -> SUBSET Requests]

Init ==
    /\ pc = [r \in Requests |-> "idle"]
    /\ ip \in [Requests -> IPs] /\ addr \in [Requests -> Addrs]
    /\ ipKey = [i \in IPs |-> 0] /\ addrKey = [a \in Addrs |-> 0]
    /\ hits = [i \in IPs |-> 0]
    /\ balance \in 0..Funds /\ day = 1 /\ sent = {}
    /\ rec = [r \in Requests |-> 0] /\ before = [r \in Requests |-> {}]

Goto(r, from, to) == pc[r] = from /\ pc' = [pc EXCEPT ![r] = to]
Live(key) == day < key
Unmoved == UNCHANGED <<ip, addr, day>>
Store == <<ipKey, addrKey, rec>>

\* Mutant: the limiter never says no.
ArriveUnlimited(r) ==
    /\ Goto(r, "idle", "verify")
    /\ hits' = [hits EXCEPT ![ip[r]] = @ + 1]
    /\ before' = [before EXCEPT ![r] = sent]
    /\ Unmoved /\ UNCHANGED <<Store, balance, sent>>

\* The limiter admits the request and the handler starts.
Arrive(r) ==
    /\ Goto(r, "idle", "verify")
    /\ hits[ip[r]] < MaxHits
    /\ hits' = [hits EXCEPT ![ip[r]] = @ + 1]
    /\ before' = [before EXCEPT ![r] = sent]
    /\ Unmoved /\ UNCHANGED <<Store, balance, sent>>

\* Missing fields, the Turnstile answer and the address format, then the
\* wallet's own validation: each lets the request through or refuses it.
Screen(r) ==
    /\ \/ Goto(r, "verify", "ipCheck") \/ Goto(r, "verify", "refused")
       \/ Goto(r, "validate", "balance") \/ Goto(r, "validate", "refused")
    /\ Unmoved /\ UNCHANGED <<Store, hits, balance, sent, before>>

IpCheck(r) ==
    /\ Goto(r, "ipCheck", IF Live(ipKey[ip[r]]) THEN "limited" ELSE "addrCheck")
    /\ Unmoved /\ UNCHANGED <<Store, hits, balance, sent, before>>

\* Mutant: the address is recorded but never looked up.
AddrUnchecked(r) ==
    /\ Goto(r, "addrCheck", "validate")
    /\ Unmoved /\ UNCHANGED <<Store, hits, balance, sent, before>>

AddrCheck(r) ==
    /\ Goto(r, "addrCheck", IF Live(addrKey[addr[r]]) THEN "limited" ELSE "validate")
    /\ Unmoved /\ UNCHANGED <<Store, hits, balance, sent, before>>

\* Mutant: the payment is made before the limits are recorded.
PayFirst(r) ==
    /\ Goto(r, "balance", IF balance < Reward THEN "refused" ELSE "send")
    /\ Unmoved /\ UNCHANGED <<Store, hits, balance, sent, before>>

BalanceCheck(r) ==
    /\ Goto(r, "balance", IF balance < Reward THEN "refused" ELSE "setIp")
    /\ Unmoved /\ UNCHANGED <<Store, hits, balance, sent, before>>

\* A setEx takes effect; its reply may still be lost, which fails the request.
SetIp(r) ==
    /\ Goto(r, "setIp", "setAddr") \/ Goto(r, "setIp", "failed")
    /\ ipKey' = [ipKey EXCEPT ![ip[r]] = day + TTL]
    /\ rec' = [rec EXCEPT ![r] = day]
    /\ Unmoved /\ UNCHANGED <<addrKey, hits, balance, sent, before>>

SetAddr(r) ==
    /\ Goto(r, "setAddr", "send") \/ Goto(r, "setAddr", "failed")
    /\ addrKey' = [addrKey EXCEPT ![addr[r]] = day + TTL]
    /\ Unmoved /\ UNCHANGED <<ipKey, rec, hits, balance, sent, before>>

\* sendtoaddress: broadcast, with the reply delivered or lost.  The wallet
\* refuses when the balance has gone since it was checked (see Fails).
Send(r) ==
    /\ Goto(r, "send", "paid") \/ Goto(r, "send", "failed")
    /\ balance >= Reward
    /\ balance' = balance - Reward
    /\ sent' = sent \cup {r}
    /\ Unmoved /\ UNCHANGED <<Store, hits, before>>

\* Mutant: a throwing sendtoaddress is not caught.
FailsUncaught(r) ==
    /\ \E l \in Awaiting \ {"send"} : Goto(r, l, "failed")
    /\ Unmoved /\ UNCHANGED <<Store, hits, balance, sent, before>>

\* Any awaited call may throw without having had an effect: 500.
Fails(r) ==
    /\ \E l \in Awaiting : Goto(r, l, "failed")
    /\ Unmoved /\ UNCHANGED <<Store, hits, balance, sent, before>>

\* The process restarts: handlers in flight die and the limiter forgets.
Crash ==
    /\ \E r \in Requests : pc[r] \in Awaiting
    /\ pc' = [r \in Requests |-> IF pc[r] \in Awaiting THEN "lost" ELSE pc[r]]
    /\ hits' = [i \in IPs |-> 0]
    /\ Unmoved /\ UNCHANGED <<Store, balance, sent, before>>

\* A limiter window of one IP ends.
WindowEnds(i) ==
    /\ hits[i] > 0
    /\ hits' = [hits EXCEPT ![i] = 0]
    /\ Unmoved /\ UNCHANGED <<pc, Store, balance, sent, before>>

NextDay ==
    /\ day < MaxDay
    /\ day' = day + 1
    /\ UNCHANGED <<pc, ip, addr, Store, hits, balance, sent, before>>

Handle(r) == \/ Screen(r) \/ IpCheck(r) \/ AddrCheck(r) \/ BalanceCheck(r)
             \/ SetIp(r) \/ SetAddr(r) \/ Send(r) \/ Fails(r)

Next == \/ \E r \in Requests : Arrive(r) \/ Handle(r)
        \/ Crash \/ NextDay
        \/ \E i \in IPs : WindowEnds(i)

Spec == Init /\ [][Next]_vars
FairSpec == Spec /\ \A r \in Requests : WF_vars(Handle(r))

Same(q, r) == ip[q] = ip[r] \/ addr[q] = addr[r]

(***************************************************************************)
(* The order in pool.js:1880, limits first and payment second, and what it *)
(* buys: whatever call fails or is cut off by a restart, nothing has been  *)
(* paid whose IP and address are not both recorded for TTL days.           *)
(***************************************************************************)
PaidIsRecorded ==
    \A r \in sent : /\ rec[r] # 0
                    /\ ipKey[ip[r]] >= rec[r] + TTL
                    /\ addrKey[addr[r]] >= rec[r] + TTL

(***************************************************************************)
(* A request that arrives once another one of the same IP or address has   *)
(* been paid is itself paid only when TTL days have passed since that one  *)
(* was recorded, however handlers, failures and restarts interleave.       *)
(***************************************************************************)
NoRepeatClaim ==
    \A r \in sent : \A q \in before[r] : Same(q, r) => day >= rec[q] + TTL

(***************************************************************************)
(* The 429 answers (pool.js:1862, 1865) promise one claim per address and  *)
(* period.  The check and the record are four awaits apart, so two         *)
(* requests in flight together can both pass the check.                    *)
(***************************************************************************)
OneClaimPerPeriod ==
    \A q, r \in sent : q # r /\ addr[q] = addr[r] => rec[q] >= rec[r] + TTL \/ rec[r] >= rec[q] + TTL

(***************************************************************************)
(* Every admitted request is answered, or dies with the process: whichever *)
(* of its eight awaited calls throws, the catch at pool.js:1892 is reached.*)
(***************************************************************************)
AlwaysAnswered == \A r \in Requests : (pc[r] = "verify") ~> (pc[r] \in Answered)

PastIp == {"addrCheck", "validate", "balance", "setIp", "setAddr", "send"}
PastAddr == PastIp \ {"addrCheck"}

(***************************************************************************)
(* The inductive strengthening of the two properties the handler keeps: a  *)
(* request past a check was not stopped by anything paid before it         *)
(* arrived, and records outlive the handler that wrote them.               *)
(***************************************************************************)
IInv ==
    /\ TypeOK /\ day >= 1
    /\ \A r \in Requests :
        /\ r \in sent => pc[r] \in {"paid", "failed"}
        /\ pc[r] \in {"setAddr", "send"} \/ r \in sent => rec[r] # 0
        /\ rec[r] # 0 => rec[r] <= day /\ ipKey[ip[r]] >= rec[r] + TTL
        /\ pc[r] = "send" \/ r \in sent => addrKey[addr[r]] >= rec[r] + TTL
        /\ before[r] \subseteq sent
        /\ \A q \in before[r] :
            /\ (pc[r] \in PastIp \/ r \in sent) /\ ip[q] = ip[r] => day >= rec[q] + TTL
            /\ (pc[r] \in PastAddr \/ r \in sent) /\ addr[q] = addr[r] => day >= rec[q] + TTL
=============================================================================
