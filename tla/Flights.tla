------------------------------- MODULE Flights ------------------------------
(***************************************************************************)
(* What a map of calls in progress promises to those who use it, whatever  *)
(* the calls do: one call at a time for a key, everybody who asks while it *)
(* lasts joins it, and all who joined get its one outcome at once.         *)
(***************************************************************************)
CONSTANTS Keys, Callers

VARIABLES open,  \* keys with a call in progress
          key,   \* what each caller has asked for
          stand  \* per caller: "out", "in" a call, or the outcome it was given

flightVars == <<open, key, stand>>
Outcomes == {"ok", "failed"}

FlightInit ==
    /\ open = {}
    /\ key \in [Callers -> Keys]
    /\ stand = [c \in Callers |-> "out"]

Begin(c) ==
    /\ stand[c] = "out" /\ key[c] \notin open
    /\ open' = open \cup {key[c]}
    /\ stand' = [stand EXCEPT ![c] = "in"]
    /\ UNCHANGED key

Join(c) ==
    /\ stand[c] = "out" /\ key[c] \in open
    /\ stand' = [stand EXCEPT ![c] = "in"]
    /\ UNCHANGED <<open, key>>

End(k, o) ==
    /\ k \in open
    /\ open' = open \ {k}
    /\ stand' = [c \in Callers |-> IF stand[c] = "in" /\ key[c] = k THEN o ELSE stand[c]]
    /\ UNCHANGED key

FlightNext ==
    \/ \E c \in Callers : Begin(c) \/ Join(c)
    \/ \E k \in Keys, o \in Outcomes : End(k, o)

FlightSpec == FlightInit /\ [][FlightNext]_flightVars
=============================================================================
