----------------------------- MODULE MCServices -----------------------------
(***************************************************************************)
(* Parts of the system that share no state with another: the REST API's    *)
(* calls of the node, the pool's name cache, difficulty control and job    *)
(* data, the retargeting and the emission of the chain.  A behaviour       *)
(* exercises one.                                                          *)
(***************************************************************************)
EXTENDS RpcRetry, TnsCache, Vardiff, JobData, Retarget, Emission

VARIABLE part \* the part that is running

servicesVars == <<retryVars, tnsVars, diffVars, input, windowVars, supplyVars, part>>

GapSet == {-1, 2, 6, 7, 13, 50}
Shifts == [k \in 0..MaxExponent |-> Radix^k]
Doublings == [k \in 0..MaxPeriods |-> 2^k]
Halvings == [k \in 0..63 |-> IF k > 30 THEN 0 ELSE Reward \div 2^k]

Init ==
    /\ RetryInit /\ TnsInit /\ DiffInit /\ CountInit /\ RetargetInit /\ EmissionInit
    /\ part \in {"retry", "tns", "diff", "job", "retarget", "emission"}
    /\ registry = CHOOSE f \in [Domains -> Targets] : TRUE \* the targets are alike
    /\ part # "diff" => power = CHOOSE p \in Powers : TRUE

OnlyRetry == part = "retry" /\ UNCHANGED <<tnsVars, diffVars, input, windowVars, supplyVars, part>>
OnlyTns == part = "tns" /\ UNCHANGED <<retryVars, diffVars, input, windowVars, supplyVars, part>>
OnlyDiff == part = "diff" /\ UNCHANGED <<retryVars, tnsVars, input, windowVars, supplyVars, part>>
OnlyJob == part = "job" /\ UNCHANGED <<retryVars, tnsVars, diffVars, windowVars, supplyVars, part>>
OnlyRetarget == part = "retarget" /\ UNCHANGED <<retryVars, tnsVars, diffVars, input, supplyVars, part>>
OnlyEmission == part = "emission" /\ UNCHANGED <<retryVars, tnsVars, diffVars, input, windowVars, part>>

Next ==
    \/ RetryNext /\ OnlyRetry
    \/ TnsNext /\ OnlyTns
    \/ DiffNext /\ OnlyDiff
    \/ Count /\ OnlyJob
    \/ RetargetNext /\ OnlyRetarget
    \/ EmissionNext /\ OnlyEmission

\* Timers fire: the time-out and the backoff of a call, the retarget intervals.
Fairness ==
    /\ \A c \in Calls : WF_servicesVars(Awaited(c) /\ OnlyRetry)
    /\ WF_servicesVars(DiffTick /\ OnlyDiff)
    /\ \A i \in Intervals : WF_servicesVars(Fire(i) /\ OnlyDiff)

Services == Init /\ [][Next]_servicesVars /\ Fairness

\* Every part keeps to its types.
ServicesTypeOK == RetryTypeOK /\ TnsTypeOK /\ DiffTypeOK /\ RetargetTypeOK /\ EmissionTypeOK
=============================================================================
