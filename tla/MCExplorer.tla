----------------------------- MODULE MCExplorer -----------------------------
(***************************************************************************)
(* The explorer backend: its address pages and its block polling, which    *)
(* share no state.  A behaviour exercises one of them.                     *)
(***************************************************************************)
EXTENDS AddressScan, BlockPolling

VARIABLE part \* the part that is running

explorerVars == <<scanVars, pollVars, part>>

\* Two endpoints of one address and another address, and one page three times.
Mixes ==
    {[r \in Requests |-> [addr |-> m[r][1], kind |-> m[r][2]]] :
        m \in {<< <<"a", "addr">>, <<"a", "utxo">>, <<"b", "utxo">> >>,
               << <<"a", "utxo">>, <<"a", "utxo">>, <<"a", "utxo">> >>}}

Init ==
    /\ ScanInit /\ PollInit
    /\ \/ part = "scan" /\ req \in Mixes
       \/ part = "poll" /\ req = CHOOSE m \in Mixes : TRUE

OnlyScan == part = "scan" /\ UNCHANGED <<pollVars, part>>
OnlyPoll == part = "poll" /\ UNCHANGED <<scanVars, part>>

Next == (ScanNext /\ OnlyScan) \/ (PollNext /\ OnlyPoll)

\* Handlers go on when what they await is settled, every call of the node ends
\* with an answer or the client's time-out, and the interval fires.
Fairness ==
    /\ \A r \in Requests : WF_explorerVars(Handler(r) /\ OnlyScan) /\ WF_explorerVars(Scan(r) /\ OnlyScan)
    /\ \A p \in Polls : WF_explorerVars(Poll(p) /\ OnlyPoll)

Explorer == Init /\ [][Next]_explorerVars /\ Fairness
=============================================================================
