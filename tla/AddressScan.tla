---------------------------- MODULE AddressScan -----------------------------
(***************************************************************************)
(* The address pages of the explorer (AddressController.ts).  A request    *)
(* looks for its page in the cache, then asks getScanResult for the        *)
(* outputs of the address: from the cache, from the scan of that address   *)
(* that is under way (activeScans), or by a scan of its own.  When that    *)
(* fails the page is made from the wallet of the node, which knows nothing *)
(* of other people's addresses.  The node runs one scantxoutset at a time, *)
(* and goes on with it when the explorer has stopped waiting.              *)
(***************************************************************************)
EXTENDS FiniteSets

CONSTANTS Addresses, Kinds, \* the endpoints: /address, /txs, /utxo
          Requests,         \* bound: one per HTTP request
          Nobody

ASSUME ScanAssumption == Nobody \notin Requests

VARIABLES stage,       \* per request: the await its handler is at
          req,         \* per request: address and endpoint, fixed from the start
          joined,      \* per request: the one whose scan it awaits
          made,        \* per request: what its page is made from
          flight,      \* per request: the scan it has started
          activeScans, \* the lock map
          nodeScan,    \* the scan the node is running
          scanCache, pageCache, \* Redis: scan results and finished pages
          mishaps      \* history: "call" once a call of the node has failed or timed
                       \* out, "crowd" once the node was scanning another address

scanVars == <<stage, req, joined, made, flight, activeScans, nodeScan, scanCache, pageCache, mishaps>>
caches == <<scanCache, pageCache>>

Awaits == {"page", "validate", "scan", "join", "wallet", "store"}
Running == {"info", "send", "scan", "cache"}
Sources == {"scan", "wallet"}

ScanTypeOK ==
    /\ stage \in [Requests -> {"new", "done", "error"} \cup Awaits]
    /\ req \in [Requests -> [addr : Addresses, kind : Kinds]]
    /\ joined \in [Requests -> Requests \cup {Nobody}]
    /\ made \in [Requests -> Sources \cup {"none"}]
    /\ flight \in [Requests -> {"none", "ok", "failed"} \cup Running]
    /\ activeScans \in [Addresses -> Requests \cup {Nobody}]
    /\ nodeScan \in Requests \cup {Nobody}
    /\ scanCache \subseteq Addresses
    /\ pageCache \in [Addresses \X Kinds -> Sources \cup {"none"}]
    /\ mishaps \subseteq {"call", "crowd"}

ScanInit ==
    /\ stage = [r \in Requests |-> "new"]
    /\ req \in [Requests -> [addr : Addresses, kind : Kinds]]
    /\ joined = [r \in Requests |-> Nobody]
    /\ made = [r \in Requests |-> "none"]
    /\ flight = [r \in Requests |-> "none"]
    /\ activeScans = [a \in Addresses |-> Nobody]
    /\ nodeScan = Nobody
    /\ scanCache = {}
    /\ pageCache = [p \in Addresses \X Kinds |-> "none"]
    /\ mishaps = {}

Addr(r) == req[r].addr
Page(r) == <<req[r].addr, req[r].kind>>
At(r, from, to) == stage[r] = from /\ stage' = [stage EXCEPT ![r] = to]
Fly(f, from, to) == flight[f] = from /\ flight' = [flight EXCEPT ![f] = to]

\* A name in place of an address is resolved first; /address answers 404 when it
\* is not, the others go on with the name.
Ask(r) ==
    /\ At(r, "new", "page") \/ (req[r].kind = "addr" /\ At(r, "new", "error"))
    /\ UNCHANGED <<req, joined, made, flight, activeScans, nodeScan, caches, mishaps>>

\* The page from the cache; a failing cache is an empty one.
PageHit(r) ==
    /\ pageCache[Page(r)] # "none"
    /\ At(r, "page", "done")
    /\ made' = [made EXCEPT ![r] = pageCache[Page(r)]]
    /\ UNCHANGED <<req, joined, flight, activeScans, nodeScan, caches, mishaps>>

PageMiss(r) ==
    /\ At(r, "page", IF req[r].kind = "addr" THEN "validate" ELSE "scan")
    /\ UNCHANGED <<req, joined, made, flight, activeScans, nodeScan, caches, mishaps>>

\* getByAddress asks the node whether the address is one; a failure is a 404.
Validate(r) ==
    /\ At(r, "validate", "scan") \/ At(r, "validate", "error")
    /\ UNCHANGED <<req, joined, made, flight, activeScans, nodeScan, caches, mishaps>>

ScanHit(r) ==
    /\ Addr(r) \in scanCache
    /\ At(r, "scan", "store")
    /\ made' = [made EXCEPT ![r] = "scan"]
    /\ UNCHANGED <<req, joined, flight, activeScans, nodeScan, caches, mishaps>>

\* Mutant: the scan is put into the map when it has been sent.
ScanMissUnlocked(r) ==
    /\ At(r, "scan", "join")
    /\ flight' = [flight EXCEPT ![r] = "info"] /\ joined' = [joined EXCEPT ![r] = r]
    /\ activeScans' = [activeScans EXCEPT ![Addr(r)] = r]
    /\ UNCHANGED <<req, made, nodeScan, caches, mishaps>>

\* Nothing in the cache: join the scan of the address, or start one.  Between
\* the answer of the cache and the entry in the map nothing is awaited.
ScanMiss(r) ==
    /\ At(r, "scan", "join")
    /\ IF activeScans[Addr(r)] # Nobody
       THEN joined' = [joined EXCEPT ![r] = activeScans[Addr(r)]] /\ UNCHANGED <<flight, activeScans>>
       ELSE /\ flight[r] = "none"
            /\ flight' = [flight EXCEPT ![r] = "info"]
            /\ joined' = [joined EXCEPT ![r] = r]
            /\ activeScans' = [activeScans EXCEPT ![Addr(r)] = r]
    /\ UNCHANGED <<req, made, nodeScan, caches, mishaps>>

\* getaddressinfo, whose failure is ignored.
FlightInfo(f) ==
    /\ Fly(f, "info", "send")
    /\ UNCHANGED <<stage, req, joined, made, activeScans, nodeScan, caches, mishaps>>

\* The finally of the scan: it leaves the map, and its promise is settled.
Settle(f, from, outcome) ==
    /\ Fly(f, from, outcome)
    /\ activeScans' = [activeScans EXCEPT ![Addr(f)] = Nobody]

NodeTakes(f) ==
    /\ nodeScan = Nobody
    /\ Fly(f, "send", "scan")
    /\ nodeScan' = f
    /\ UNCHANGED <<stage, req, joined, made, activeScans, caches, mishaps>>

\* "Scan already in progress": of another address, or one given up.
NodeRefuses(f) ==
    /\ nodeScan # Nobody
    /\ Settle(f, "send", "failed")
    /\ mishaps' = mishaps \cup IF Addr(nodeScan) # Addr(f) THEN {"crowd"} ELSE {}
    /\ UNCHANGED <<stage, req, joined, made, nodeScan, caches>>

NodeAnswers(f) ==
    /\ nodeScan = f
    /\ Fly(f, "scan", "cache")
    /\ nodeScan' = Nobody
    /\ UNCHANGED <<stage, req, joined, made, activeScans, caches, mishaps>>

\* The call fails or times out after 120 s; the node may still be scanning.
CallFails(f) ==
    /\ Settle(f, "send", "failed") \/ Settle(f, "scan", "failed")
    /\ mishaps' = mishaps \cup {"call"}
    /\ UNCHANGED <<stage, req, joined, made, nodeScan, caches>>

NodeIdle ==
    /\ nodeScan # Nobody /\ flight[nodeScan] = "failed"
    /\ nodeScan' = Nobody
    /\ UNCHANGED <<stage, req, joined, made, flight, activeScans, caches, mishaps>>

\* Mutant: the map keeps the scan that is over.
FlightEndsLocked(f) ==
    /\ Fly(f, "cache", "ok")
    /\ scanCache' = scanCache \cup {Addr(f)}
    /\ UNCHANGED <<stage, req, joined, made, activeScans, nodeScan, pageCache, mishaps>>

\* The result is cached (or not, when the cache fails) and the scan is over.
FlightEnds(f) ==
    /\ Settle(f, "cache", "ok")
    /\ scanCache' = scanCache \cup {Addr(f)} \/ UNCHANGED scanCache
    /\ UNCHANGED <<stage, req, joined, made, nodeScan, pageCache, mishaps>>

\* Mutant: nobody catches the rejection.
ResumeFulfilled(r) ==
    /\ stage[r] = "join" /\ flight[joined[r]] = "ok"
    /\ At(r, "join", "store") /\ made' = [made EXCEPT ![r] = "scan"]
    /\ UNCHANGED <<req, joined, flight, activeScans, nodeScan, caches, mishaps>>

\* The promise a request waits for is fulfilled or rejected.
Resume(r) ==
    /\ stage[r] = "join"
    /\ \/ flight[joined[r]] = "ok" /\ At(r, "join", "store") /\ made' = [made EXCEPT ![r] = "scan"]
       \/ flight[joined[r]] = "failed" /\ At(r, "join", "wallet") /\ UNCHANGED made
    /\ UNCHANGED <<req, joined, flight, activeScans, nodeScan, caches, mishaps>>

\* listtransactions or listunspent; a failure there leaves an empty page.
Wallet(r) ==
    /\ At(r, "wallet", "store")
    /\ made' = [made EXCEPT ![r] = "wallet"]
    /\ UNCHANGED <<req, joined, flight, activeScans, nodeScan, caches, mishaps>>

Store(r) ==
    /\ At(r, "store", "done")
    /\ pageCache' = [pageCache EXCEPT ![Page(r)] = made[r]] \/ UNCHANGED pageCache
    /\ UNCHANGED <<req, joined, made, flight, activeScans, nodeScan, scanCache, mishaps>>

\* The 60 seconds of a cache entry are over.
Expire ==
    /\ \/ \E a \in scanCache : scanCache' = scanCache \ {a} /\ UNCHANGED pageCache
       \/ \E p \in Addresses \X Kinds : /\ pageCache[p] # "none"
                                        /\ pageCache' = [pageCache EXCEPT ![p] = "none"]
                                        /\ UNCHANGED scanCache
    /\ UNCHANGED <<stage, req, joined, made, flight, activeScans, nodeScan, mishaps>>

Handler(r) == PageHit(r) \/ PageMiss(r) \/ Validate(r) \/ ScanHit(r) \/ ScanMiss(r) \/ Resume(r) \/ Wallet(r) \/ Store(r)
Scan(f) == FlightInfo(f) \/ NodeTakes(f) \/ NodeRefuses(f) \/ NodeAnswers(f) \/ CallFails(f) \/ FlightEnds(f)

ScanNext == (\E r \in Requests : Ask(r) \/ Handler(r) \/ Scan(r)) \/ NodeIdle \/ Expire
ScanSpec == ScanInit /\ [][ScanNext]_scanVars

-----------------------------------------------------------------------------
\* What getScanResult has given to a request.
Standing(r) ==
    IF joined[r] = Nobody THEN "out"
    ELSE IF flight[joined[r]] \in Running THEN "in" ELSE flight[joined[r]]

(***************************************************************************)
(* "A lock map to prevent overlapping scantxoutset calls for the same      *)
(* address" (AddressController.ts:7): seen from the requests, getScanResult *)
(* is a map of calls in progress: no scan of an address begins while one   *)
(* lasts, everybody who comes meanwhile gets its outcome, and the map      *)
(* forgets a scan in the step that settles it, whatever fails or expires.  *)
(***************************************************************************)
Promise == INSTANCE Flights WITH
    Keys <- Addresses, Callers <- Requests,
    open <- {a \in Addresses : activeScans[a] # Nobody},
    key <- [r \in Requests |-> Addr(r)],
    stand <- [r \in Requests |-> Standing(r)]
ScansArePromises == Promise!FlightSpec

(***************************************************************************)
(* "fixes balance dropping to 0" (AddressController.ts:15): a page is made *)
(* from the node's wallet only after a call of the node has failed, or     *)
(* after the node was found scanning another address or a scan that was    *)
(* given up; requests for one address never get into each other's way.     *)
(***************************************************************************)
WalletPagesExplained == "wallet" \in {made[r] : r \in Requests} => mishaps # {}

(***************************************************************************)
(* Every request is answered: waiting for another request's scan leads     *)
(* nobody into a dead end (35-37, 49-51), as every call of the node ends,  *)
(* with an answer, an error or the time-out of the client.                 *)
(***************************************************************************)
PageAnswered == \A r \in Requests : stage[r] = "page" ~> stage[r] \in {"done", "error"}

(***************************************************************************)
(* The inductive invariant behind the promise: the map holds exactly the   *)
(* scan that is running, and whoever joined a scan asked for its address.  *)
(***************************************************************************)
Early == {"new", "page", "validate", "scan"}
ScanInv ==
    /\ ScanTypeOK
    /\ \A f \in Requests : flight[f] \in Running <=> activeScans[Addr(f)] = f
    /\ \A a \in Addresses : activeScans[a] # Nobody => Addr(activeScans[a]) = a
    /\ \A r \in Requests : joined[r] # Nobody =>
          flight[joined[r]] # "none" /\ Addr(joined[r]) = Addr(r)
    /\ \A r \in Requests : stage[r] \in Early => joined[r] = Nobody /\ flight[r] = "none"

(***************************************************************************)
(* Why WalletPagesExplained holds: until something goes wrong no scan      *)
(* fails, and what the node is scanning is the scan of somebody who waits  *)
(* for it, so that a second scan it would refuse is of another address.    *)
(***************************************************************************)
Untroubled ==
    /\ \A r \in Requests : flight[r] # "failed" /\ stage[r] # "wallet" /\ made[r] # "wallet"
    /\ \A p \in Addresses \X Kinds : pageCache[p] # "wallet"
    /\ nodeScan # Nobody => flight[nodeScan] = "scan"
WalletInv ==
    /\ \A r \in Requests : stage[r] = "join" => joined[r] # Nobody
    /\ mishaps = {} => Untroubled
=============================================================================
