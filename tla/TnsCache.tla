------------------------------ MODULE TnsCache ------------------------------
(***************************************************************************)
(* Name resolution in the pool (resolveTnsToAddress): a name is looked up  *)
(* at the name service, which may hand it to another address at any time,  *)
(* and the answer is kept for five minutes.  Lookups of one name run side  *)
(* by side and answer in any order; a failing one resolves to the name.    *)
(***************************************************************************)
EXTENDS Integers

CONSTANTS Domains, Targets,
          Lookups,   \* bound on calls of resolveTnsToAddress at the same time
          Unresolved, Never,
          KeptFor,       \* 300000 ms
          Patience,  \* 3500 ms, the time-out of a lookup
          MaxTime    \* bound on the clock

ASSUME TnsAssumption ==
    /\ Unresolved \notin Targets /\ Never \notin Int
    /\ KeptFor \in Nat /\ Patience \in Nat /\ Patience < KeptFor

VARIABLES clock,
          registry, \* the name service: whom a name belongs to
          lost,     \* history: when a name last ceased to be an address's
          cached,   \* tnsResolutionCache
          lookAt,   \* per lookup: "new", "asked", "served", "done"
          domain, now, reply, \* per lookup: its name, its clock reading, what the service said
          resolved  \* per lookup: its result

tnsVars == <<clock, registry, lost, cached, lookAt, domain, now, reply, resolved>>
world == <<clock, registry, lost>>

Entries == [address : Targets, expiresAt : Int]
Empty == [address |-> Unresolved, expiresAt |-> 0]

TnsTypeOK ==
    /\ clock \in Nat
    /\ registry \in [Domains -> Targets]
    /\ lost \in [Domains -> [Targets -> Nat \cup {Never}]]
    /\ cached \in [Domains -> Entries \cup {Empty}]
    /\ lookAt \in [Lookups -> {"new", "asked", "served", "done"}]
    /\ domain \in [Lookups -> Domains]
    /\ now \in [Lookups -> Nat]
    /\ reply \in [Lookups -> Targets \cup {Unresolved}]
    /\ resolved \in [Lookups -> Targets \cup {Unresolved}]

TnsInit ==
    /\ clock = 0
    /\ registry \in [Domains -> Targets]
    /\ lost = [d \in Domains |-> [a \in Targets |-> Never]]
    /\ cached = [d \in Domains |-> Empty]
    /\ lookAt = [l \in Lookups |-> "new"]
    /\ domain \in [Lookups -> Domains]
    /\ now = [l \in Lookups |-> 0]
    /\ reply = [l \in Lookups |-> Unresolved]
    /\ resolved = [l \in Lookups |-> Unresolved]

\* Time passes, but not past the time-out of a lookup.
Tick ==
    /\ clock < MaxTime
    /\ \A l \in Lookups : lookAt[l] \in {"asked", "served"} => clock < now[l] + Patience
    /\ clock' = clock + 1
    /\ UNCHANGED <<registry, lost, cached, lookAt, domain, now, reply, resolved>>

Transfer(d, a) ==
    /\ a # registry[d]
    /\ registry' = [registry EXCEPT ![d] = a]
    /\ lost' = [lost EXCEPT ![d] = [@ EXCEPT ![registry[d]] = clock]]
    /\ UNCHANGED <<clock, cached, lookAt, domain, now, reply, resolved>>

\* The caller goes on, and somebody resolves another name.
NextCall(l) ==
    /\ lookAt[l] = "done"
    /\ lookAt' = [lookAt EXCEPT ![l] = "new"]
    /\ \E d \in Domains : domain' = [domain EXCEPT ![l] = d]
    /\ resolved' = [resolved EXCEPT ![l] = Unresolved]
    /\ UNCHANGED <<world, cached, now, reply>>

\* The call is over, and its variables are gone.
Return(l) ==
    /\ lookAt' = [lookAt EXCEPT ![l] = "done"]
    /\ now' = [now EXCEPT ![l] = 0]
    /\ reply' = [reply EXCEPT ![l] = Unresolved]

Hit(l) ==
    /\ lookAt[l] = "new" /\ cached[domain[l]] # Empty /\ clock < cached[domain[l]].expiresAt
    /\ resolved' = [resolved EXCEPT ![l] = cached[domain[l]].address]
    /\ Return(l)
    /\ UNCHANGED <<world, cached, domain>>

Query(l) ==
    /\ lookAt[l] = "new" /\ (cached[domain[l]] = Empty \/ clock >= cached[domain[l]].expiresAt)
    /\ lookAt' = [lookAt EXCEPT ![l] = "asked"]
    /\ now' = [now EXCEPT ![l] = clock]
    /\ UNCHANGED <<world, cached, domain, reply, resolved>>

\* The name service reads its registry; its answer travels back.
Serve(l) ==
    /\ lookAt[l] = "asked"
    /\ lookAt' = [lookAt EXCEPT ![l] = "served"]
    /\ reply' = [reply EXCEPT ![l] = registry[domain[l]]]
    /\ UNCHANGED <<world, cached, domain, now, resolved>>

\* Mutant: the five minutes start when the answer arrives.
KeepFromNow(l) ==
    /\ lookAt[l] = "served"
    /\ cached' = [cached EXCEPT ![domain[l]] = [address |-> reply[l], expiresAt |-> clock + KeptFor]]
    /\ resolved' = [resolved EXCEPT ![l] = reply[l]]
    /\ Return(l)
    /\ UNCHANGED <<world, domain>>

\* The answer arrives; it is kept, counted from before the lookup.
Keep(l) ==
    /\ lookAt[l] = "served"
    /\ cached' = [cached EXCEPT ![domain[l]] = [address |-> reply[l], expiresAt |-> now[l] + KeptFor]]
    /\ resolved' = [resolved EXCEPT ![l] = reply[l]]
    /\ Return(l)
    /\ UNCHANGED <<world, domain>>

\* No such name, no address in the answer, an error or the time-out.
LookupFails(l) ==
    /\ lookAt[l] \in {"asked", "served"}
    /\ Return(l)
    /\ UNCHANGED <<world, cached, domain, resolved>>

TnsNext ==
    \/ Tick
    \/ \E d \in Domains, a \in Targets : Transfer(d, a)
    \/ \E l \in Lookups : NextCall(l) \/ Hit(l) \/ Query(l) \/ Serve(l) \/ Keep(l) \/ LookupFails(l)
TnsSpec == TnsInit /\ [][TnsNext]_tnsVars

-----------------------------------------------------------------------------
\* The name has been the address's at time t or later.
HeldSince(d, a, t) == registry[d] = a \/ (lost[d][a] # Never /\ lost[d][a] >= t)

(***************************************************************************)
(* What a name resolves to is never older than five minutes (pool.js:144-  *)
(* 157): the address given out was the name's within the last KeptFor,     *)
(* although lookups answer out of order and an older answer may replace a  *)
(* newer one in the cache.                                                 *)
(***************************************************************************)
NeverStale ==
    [][\A l \in Lookups : resolved'[l] \notin {resolved[l], Unresolved} =>
          HeldSince(domain[l], resolved'[l], clock - KeptFor)]_tnsVars

(***************************************************************************)
(* A failed lookup leaves no trace: what is kept is an address the name    *)
(* service has given for that very name, and it is given out no longer     *)
(* than KeptFor after the service was asked (140, 157).                    *)
(***************************************************************************)
CacheWasTrue ==
    \A d \in Domains : cached[d] # Empty =>
        HeldSince(d, cached[d].address, cached[d].expiresAt - KeptFor)

(***************************************************************************)
(* The inductive invariant: an answer under way was true at some time      *)
(* after its lookup began, and a lookup under way is within its time-out.  *)
(***************************************************************************)
TnsInv ==
    /\ TnsTypeOK /\ CacheWasTrue
    /\ \A d \in Domains : cached[d] # Empty => cached[d] \in Entries /\ cached[d].expiresAt <= clock + KeptFor
    /\ \A l \in Lookups :
          /\ lookAt[l] \in {"asked", "served"} => now[l] <= clock /\ clock <= now[l] + Patience
          /\ lookAt[l] = "served" => reply[l] \in Targets /\ HeldSince(domain[l], reply[l], now[l])
=============================================================================
