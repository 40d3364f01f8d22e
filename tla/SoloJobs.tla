------------------------------ MODULE SoloJobs ------------------------------
(***************************************************************************)
(* The solo stratum server of mining_pool/src/pool.js, port 3334: each     *)
(* miner mines on a coinbase of its own, built from a template by the      *)
(* authorisation handler and again by every template refresh, across       *)
(* awaited calls.  A coinbase, a merkle branch and a header are stood for  *)
(* by the number of the template they come from.                           *)
(***************************************************************************)
EXTENDS Integers, FiniteSets

CONSTANTS Miners, NoMiner,
          MaxTemplate  \* bound on templates, and so on the refreshes that bring one

ASSUME SoloAssumption == NoMiner \notin Miners /\ MaxTemplate \in Nat

VARIABLES cur,           \* poolState.blockTemplate, 0 for none
          entry,         \* per miner: "none", "live" or "gone"
          cb, job,       \* per entry: template of its coinbase (0: null), number of its jobId
          bpc, btmpl,    \* builder started by mining.authorize
          rpc, left, hand, \* refresh, by its template: stage, miners left, miner in hand
          told,          \* mining.notify messages sent
          judged,        \* the header the last accepted share hashed, the one it was checked on
          clash,         \* history: did the template ever change while a coinbase was built?
          failed         \* history: miners whose name, address or node call failed

vars == <<cur, entry, cb, job, bpc, btmpl, rpc, left, hand, told, judged, clash, failed>>
buildVars == <<bpc, btmpl>>
loopVars == <<rpc, left, hand>>

Templates == 1..MaxTemplate
Header == [cb : Templates, tmpl : Templates]
Notify == [miner : Miners, job : Nat, head : Header]

TypeOK ==
    /\ cur \in 0..MaxTemplate /\ entry \in [Miners -> {"none", "live", "gone"}]
    /\ cb \in [Miners -> 0..MaxTemplate] /\ job \in [Miners -> Nat]
    /\ bpc \in [Miners -> {"idle", "resolve", "build", "done"}] /\ btmpl \in [Miners -> 0..MaxTemplate]
    /\ rpc \in [Templates -> {"idle", "loop", "done"}]
    /\ left \in [Templates -> SUBSET Miners] /\ hand \in [Templates -> Miners \cup {NoMiner}]
    /\ told \subseteq Notify /\ judged \in [hashed : Header, checked : Header] \cup {<<>>}
    /\ clash \in BOOLEAN /\ failed \subseteq Miners

Init ==
    /\ cur = 0 /\ entry = [m \in Miners |-> "none"]
    /\ cb = [m \in Miners |-> 0] /\ job = [m \in Miners |-> 0]
    /\ bpc = [m \in Miners |-> "idle"] /\ btmpl = [m \in Miners |-> 0]
    /\ rpc = [r \in Templates |-> "idle"]
    /\ left = [r \in Templates |-> {}] /\ hand = [r \in Templates |-> NoMiner]
    /\ told = {} /\ judged = <<>> /\ clash = FALSE /\ failed = {}

Building == \E m \in Miners : bpc[m] \in {"resolve", "build"}
Looping == \E r \in Templates : rpc[r] = "loop"

\* sendSoloWork: the entry's coinbase with the current template's branch.
Tell(m, c, j) == told \cup {[miner |-> m, job |-> j, head |-> [cb |-> c, tmpl |-> cur]]}

\* mining.authorize; the builder does nothing before the first template.
Authorize(m) ==
    /\ entry[m] = "none" /\ entry' = [entry EXCEPT ![m] = "live"]
    /\ job' = [job EXCEPT ![m] = 1]
    /\ bpc' = [bpc EXCEPT ![m] = IF cur = 0 THEN "done" ELSE "resolve"]
    /\ UNCHANGED <<cur, cb, btmpl, loopVars, told, judged, clash, failed>>

\* The name is resolved; the template handed to buildSoloCoinbase is the one
\* that is current now.
BuilderResolved(m) ==
    /\ bpc[m] = "resolve" /\ bpc' = [bpc EXCEPT ![m] = "build"]
    /\ btmpl' = [btmpl EXCEPT ![m] = cur]
    /\ UNCHANGED <<cur, entry, cb, job, loopVars, told, judged, clash, failed>>

\* The coinbase is built: stored, and the job sent if the socket is alive.
BuilderBuilt(m) ==
    /\ bpc[m] = "build" /\ bpc' = [bpc EXCEPT ![m] = "done"] /\ btmpl' = [btmpl EXCEPT ![m] = 0]
    /\ cb' = [cb EXCEPT ![m] = btmpl[m]]
    /\ told' = IF entry[m] = "live" THEN Tell(m, btmpl[m], job[m]) ELSE told
    /\ UNCHANGED <<cur, entry, job, loopVars, judged, clash, failed>>

BuilderFails(m) ==
    /\ bpc[m] \in {"resolve", "build"} /\ bpc' = [bpc EXCEPT ![m] = "done"] /\ failed' = failed \cup {m}
    /\ btmpl' = [btmpl EXCEPT ![m] = 0]
    /\ UNCHANGED <<cur, entry, cb, job, loopVars, told, judged, clash>>

\* refreshBlockTemplate: getblocktemplate has answered; the template is stored
\* and the loop over the solo miners begins.
Refresh(r) ==
    /\ r = cur + 1
    /\ clash' = (clash \/ Building \/ Looping)
    /\ cur' = r /\ rpc' = [rpc EXCEPT ![r] = "loop"]
    /\ left' = [left EXCEPT ![r] = Miners]
    /\ UNCHANGED <<entry, cb, job, buildVars, hand, told, judged, failed>>

\* The next miner whose socket is alive.
LoopTakes(r, m) ==
    /\ rpc[r] = "loop" /\ hand[r] = NoMiner /\ m \in left[r] /\ entry[m] = "live"
    /\ hand' = [hand EXCEPT ![r] = m] /\ left' = [left EXCEPT ![r] = @ \ {m}]
    /\ UNCHANGED <<cur, entry, cb, job, buildVars, rpc, told, judged, clash, failed>>

\* Mutant: the job is sent before the new coinbase is stored.
LoopBuiltLate(r) ==
    LET m == hand[r]
    IN  /\ rpc[r] = "loop" /\ m # NoMiner /\ hand' = [hand EXCEPT ![r] = NoMiner]
        /\ cb' = [cb EXCEPT ![m] = r] /\ job' = [job EXCEPT ![m] = @ + 1]
        /\ told' = IF cb[m] = 0 THEN told ELSE Tell(m, cb[m], job[m] + 1)
        /\ UNCHANGED <<cur, entry, buildVars, rpc, left, judged, clash, failed>>

\* Mutant: the job is sent with the entry's coinbase, built or not.
LoopBuiltUnset(r) ==
    LET m == hand[r]
    IN  /\ rpc[r] = "loop" /\ m # NoMiner /\ hand' = [hand EXCEPT ![r] = NoMiner]
        /\ cb' = [cb EXCEPT ![m] = r] /\ job' = [job EXCEPT ![m] = @ + 1]
        /\ told' = Tell(m, cb[m], job[m] + 1)
        /\ UNCHANGED <<cur, entry, buildVars, rpc, left, judged, clash, failed>>

\* Its coinbase is rebuilt from the refresh's template, with a new jobId.
LoopBuilt(r) ==
    LET m == hand[r]
    IN  /\ rpc[r] = "loop" /\ m # NoMiner /\ hand' = [hand EXCEPT ![r] = NoMiner]
        /\ cb' = [cb EXCEPT ![m] = r] /\ job' = [job EXCEPT ![m] = @ + 1]
        /\ told' = Tell(m, r, job[m] + 1)
        /\ UNCHANGED <<cur, entry, buildVars, rpc, left, judged, clash, failed>>

\* Mutant: the first miner that fails ends the loop.
LoopAborts(r) ==
    /\ rpc[r] = "loop" /\ hand[r] # NoMiner
    /\ rpc' = [rpc EXCEPT ![r] = "done"] /\ hand' = [hand EXCEPT ![r] = NoMiner]
    /\ failed' = failed \cup {hand[r]}
    /\ UNCHANGED <<cur, entry, cb, job, buildVars, left, told, judged, clash>>

LoopFails(r) ==
    /\ rpc[r] = "loop" /\ hand[r] # NoMiner /\ hand' = [hand EXCEPT ![r] = NoMiner]
    /\ failed' = failed \cup {hand[r]}
    /\ UNCHANGED <<cur, entry, cb, job, buildVars, rpc, left, told, judged, clash>>

LoopEnds(r) ==
    /\ rpc[r] = "loop" /\ hand[r] = NoMiner /\ \A m \in left[r] : entry[m] # "live"
    /\ rpc' = [rpc EXCEPT ![r] = "done"] /\ left' = [left EXCEPT ![r] = {}]
    /\ UNCHANGED <<cur, entry, cb, job, buildVars, hand, told, judged, clash, failed>>

\* Mutant: the pool's job is what counts, any notified job of the miner is taken.
SubmitAnyJob(n) ==
    /\ n \in told /\ entry[n.miner] = "live" /\ cb[n.miner] # 0
    /\ judged' = [hashed |-> n.head, checked |-> [cb |-> cb[n.miner], tmpl |-> cur]]
    /\ UNCHANGED <<cur, entry, cb, job, buildVars, loopVars, told, clash, failed>>

\* handleSoloSubmit: the entry's job only; the header is rebuilt from the
\* entry's coinbase and the current template.
Submit(n) ==
    /\ n \in told /\ entry[n.miner] = "live" /\ n.job = job[n.miner] /\ cb[n.miner] # 0
    /\ judged' = [hashed |-> n.head, checked |-> [cb |-> cb[n.miner], tmpl |-> cur]]
    /\ UNCHANGED <<cur, entry, cb, job, buildVars, loopVars, told, clash, failed>>

Close(m) ==
    /\ entry[m] = "live" /\ entry' = [entry EXCEPT ![m] = "gone"]
    /\ UNCHANGED <<cur, cb, job, buildVars, loopVars, told, judged, clash, failed>>

Builder(m) == BuilderResolved(m) \/ BuilderBuilt(m) \/ BuilderFails(m)
Loop(r) == (\E m \in Miners : LoopTakes(r, m)) \/ LoopBuilt(r) \/ LoopFails(r) \/ LoopEnds(r)

Next ==
    \/ \E m \in Miners : Authorize(m) \/ Builder(m) \/ Close(m)
    \/ \E r \in Templates : Refresh(r) \/ Loop(r)
    \/ \E n \in told : Submit(n)
Spec == Init /\ [][Next]_vars

-----------------------------------------------------------------------------
(***************************************************************************)
(* Every job a solo miner is given is of one template (1021-1039): the     *)
(* coinbase built across awaited calls belongs to the merkle branch, the   *)
(* previous block and the target sent with it, as long as the template has *)
(* never changed while a coinbase was being built.                         *)
(***************************************************************************)
JobOfOneTemplate == ~clash => \A n \in told : n.head.cb = n.head.tmpl

(***************************************************************************)
(* A share is only checked against a coinbase at least as new as the one   *)
(* that was hashed, and never against one of an older template than the    *)
(* job's: rebuilding (1125-1129) invalidates the earlier job ids (669), as *)
(* long as the template has never changed while a coinbase was being built.*)
(***************************************************************************)
NoOlderCoinbase ==
    ~clash /\ judged # <<>> => judged.checked.cb = judged.hashed.cb /\ judged.checked.tmpl >= judged.hashed.tmpl

(***************************************************************************)
(* The builder (599-614) and the loop of the refresh (1120-1133) leave     *)
(* nobody behind: once neither is at work, every miner that is connected   *)
(* and has not failed itself is on the current template, whoever else has  *)
(* failed, come or gone, unless there has been a clash.                    *)
(***************************************************************************)
CaughtUp ==
    ~clash /\ ~Looping =>
        \A m \in Miners : entry[m] = "live" /\ bpc[m] = "done" /\ m \notin failed => cb[m] = cur

(***************************************************************************)
(* "Use the miner's own jobId, not the pool's shared one" (669): a share   *)
(* whose job is accepted is checked on the header the miner hashed, even   *)
(* if only when the template never changed while a coinbase was being      *)
(* built.                                                                  *)
(***************************************************************************)
CheckedAsHashed ==
    ~clash /\ judged # <<>> => judged.checked = judged.hashed

(***************************************************************************)
(* Nothing is built or sent before there is a template.                    *)
(***************************************************************************)
Started ==
    /\ \A m \in Miners :
        (bpc[m] \in {"resolve", "build"} => cur # 0) /\ (bpc[m] = "build" => btmpl[m] # 0)
    /\ \A r \in Templates : rpc[r] = "loop" => cur # 0
    /\ told # {} => cur # 0

(***************************************************************************)
(* Why the safety properties hold without a clash: whoever is building     *)
(* is building from the current template; a notification under the entry's *)
(* job id carries the entry's coinbase; and a miner not yet on the current *)
(* template is still in the loop's hands.                                  *)
(***************************************************************************)
BuildsCurrent(m) ==
    /\ entry[m] = "none" <=> bpc[m] = "idle"
    /\ entry[m] = "none" => cb[m] = 0
    /\ bpc[m] \in {"resolve", "build"} => \A n \in told : n.miner = m => n.head.cb = cur
    /\ bpc[m] = "build" => btmpl[m] = cur
LoopsCurrent(r) ==
    /\ rpc[r] = "loop" => r = cur
    /\ hand[r] # NoMiner => entry[hand[r]] # "none"
JobCurrent(n) ==
    /\ entry[n.miner] # "none" /\ n.job <= job[n.miner] /\ n.head.tmpl <= cur
    /\ n.job = job[n.miner] => n.head.cb = cb[n.miner]
Served(m) ==
    entry[m] = "live" /\ bpc[m] = "done" /\ m \notin failed =>
        cb[m] = cur \/ \E r \in Templates : r = cur /\ rpc[r] = "loop" /\ (m \in left[r] \/ hand[r] = m)
SoloInv ==
    /\ TypeOK /\ Started /\ JobOfOneTemplate /\ NoOlderCoinbase
    /\ ~clash => /\ \A m \in Miners : BuildsCurrent(m) /\ Served(m)
                 /\ \A r \in Templates : LoopsCurrent(r)
                 /\ \A n \in told : JobCurrent(n)
=============================================================================
