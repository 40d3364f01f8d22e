------------------------------ MODULE RpcRetry ------------------------------
(***************************************************************************)
(* Broadcasting a transaction through the REST API: POST /transactions/send*)
(* and the rpcCall under it, which tries a call of the node up to three    *)
(* times.  A request that was given up may still reach the node, or its    *)
(* answer be lost; meanwhile the transaction may be mined or evicted.  All *)
(* calls carry the same transaction.                                       *)
(***************************************************************************)
EXTENDS Integers, FiniteSets

CONSTANTS Calls,     \* bound: one per request to /transactions/send
          maxRetries \* 3

ASSUME RetryAssumption == maxRetries \in Nat \ {0}

VARIABLES transaction,    \* on the node: "unknown", in the "pool", in the "chain"
          callAt,         \* per call: where its handler is
          attempt,        \* per call: the tries before this one
          wire,           \* requests the node has not dealt with
          replies,        \* answers under way to a try that is waiting
          taken,          \* history: calls the node took the transaction from
          doubtful        \* history: calls of which a try was given up unanswered

retryVars == <<transaction, callAt, attempt, wire, replies, taken, doubtful>>

Tries == Calls \X (0..maxRetries - 1)
Verdicts == {"accepted", "refused", "http"}

RetryTypeOK ==
    /\ transaction \in {"unknown", "pool", "chain"}
    /\ callAt \in [Calls -> {"new", "waiting", "backoff", "ok", "error"}]
    /\ attempt \in [Calls -> 0..maxRetries - 1]
    /\ wire \subseteq Tries /\ replies \subseteq Tries \X Verdicts
    /\ taken \subseteq Calls /\ doubtful \subseteq Calls

RetryInit ==
    /\ transaction = "unknown"
    /\ callAt = [c \in Calls |-> "new"] /\ attempt = [c \in Calls |-> 0]
    /\ wire = {} /\ replies = {} /\ taken = {} /\ doubtful = {}

This(c) == <<c, attempt[c]>>

Post(c) ==
    /\ callAt[c] \in {"new", "backoff"}
    /\ callAt' = [callAt EXCEPT ![c] = "waiting"]
    /\ wire' = wire \cup {This(c)}
    /\ UNCHANGED <<transaction, attempt, replies, taken, doubtful>>

\* external: sendrawtransaction takes a transaction it has in its pool once
\* more and refuses one that is mined; a new one it takes or refuses.  A node
\* that is busy or does not know the user answers with an HTTP error.
NodeRuns(t, v) ==
    /\ t \in wire
    /\ wire' = wire \ {t}
    /\ replies' = replies \cup IF callAt[t[1]] = "waiting" /\ This(t[1]) = t THEN {<<t, v>>} ELSE {}
    /\ \/ v = "accepted" /\ transaction # "chain" /\ transaction' = "pool" /\ taken' = taken \cup {t[1]}
       \/ v = "refused" /\ transaction # "pool" /\ UNCHANGED <<transaction, taken>>
       \/ v = "http" /\ UNCHANGED <<transaction, taken>>
    /\ UNCHANGED <<callAt, attempt, doubtful>>

\* external: a block takes the transaction, or the pool drops it.
Mined ==
    /\ transaction = "pool" /\ transaction' \in {"chain", "unknown"}
    /\ UNCHANGED <<callAt, attempt, wire, replies, taken, doubtful>>

\* Mutant: one try too many, whose number wraps.
AgainOver(c) ==
    /\ callAt' = [callAt EXCEPT ![c] = "backoff"]
    /\ attempt' = [attempt EXCEPT ![c] = (@ + 1) % maxRetries]

Again(c) ==
    IF attempt[c] < maxRetries - 1
    THEN callAt' = [callAt EXCEPT ![c] = "backoff"] /\ attempt' = [attempt EXCEPT ![c] = @ + 1]
    ELSE callAt' = [callAt EXCEPT ![c] = "error"] /\ UNCHANGED attempt

\* Mutant: the loop goes on after an answer.
AnswerDropped(c, v) ==
    /\ callAt[c] = "waiting" /\ <<This(c), v>> \in replies
    /\ replies' = replies \ {<<This(c), v>>}
    /\ Again(c)
    /\ UNCHANGED <<transaction, wire, taken, doubtful>>

\* The answer of this try.  A request of JSON-RPC 2.0 gets the node's refusal
\* with HTTP status 200, so it is no err.response and its message has no "RPC"
\* in it: it is tried again like a lost connection.
Answer(c, v) ==
    /\ callAt[c] = "waiting" /\ <<This(c), v>> \in replies
    /\ replies' = replies \ {<<This(c), v>>}
    /\ \/ v = "accepted" /\ callAt' = [callAt EXCEPT ![c] = "ok"] /\ UNCHANGED attempt
       \/ v = "http" /\ callAt' = [callAt EXCEPT ![c] = "error"] /\ UNCHANGED attempt
       \/ v = "refused" /\ Again(c)
    /\ UNCHANGED <<transaction, wire, taken, doubtful>>

\* The connection breaks or the 15 s are over.  The request is lost, or reaches
\* the node later; its answer reaches nobody.
GiveUp(c) ==
    /\ callAt[c] = "waiting"
    /\ wire' \in {wire, wire \ {This(c)}}
    /\ replies' = {m \in replies : m[1] # This(c)}
    /\ doubtful' = doubtful \cup {c}
    /\ Again(c)
    /\ UNCHANGED <<transaction, taken>>

Awaited(c) == (callAt[c] = "backoff" /\ Post(c)) \/ GiveUp(c) \/ \E v \in Verdicts : Answer(c, v)

RetryNext ==
    \/ \E c \in Calls : Post(c) \/ Awaited(c)
    \/ \E t \in Tries, v \in Verdicts : NodeRuns(t, v)
    \/ Mined
RetrySpec == RetryInit /\ [][RetryNext]_retryVars

-----------------------------------------------------------------------------
(***************************************************************************)
(* What a caller is told (rpc.ts:45-58, transactions.ts:62): success only  *)
(* when the node took the transaction from this very call, and failure     *)
(* although the node took it from this call only when a try was given up   *)
(* unanswered; other calls with the same transaction, its mining and its   *)
(* eviction between two tries change nothing about that.                   *)
(***************************************************************************)
ToldTruth ==
    \A c \in Calls :
        /\ callAt[c] = "ok" => c \in taken
        /\ callAt[c] = "error" /\ c \in taken => c \in doubtful

(***************************************************************************)
(* Every call that was sent is answered after at most three tries          *)
(* (rpc.ts:38-60), the node answering or not.                              *)
(***************************************************************************)
CallEnds == \A c \in Calls : callAt[c] = "waiting" ~> callAt[c] \in {"ok", "error"}

(***************************************************************************)
(* Why ToldTruth holds: a try is posted once, so that its number tells its *)
(* answer from any other; an answer under way is to the try that waits and *)
(* speaks for the node, and a request that nobody waits for any more has   *)
(* been given up.                                                          *)
(***************************************************************************)
Honest(c) ==
    /\ \A k \in 0..maxRetries - 1 : <<c, k>> \in wire =>
          /\ k <= attempt[c] /\ callAt[c] # "new" /\ (callAt[c] = "backoff" => k # attempt[c])
          /\ (callAt[c] = "waiting" /\ k = attempt[c]) \/ c \in doubtful
    /\ \A k \in 0..maxRetries - 1, v \in Verdicts : << <<c, k>>, v>> \in replies =>
          /\ callAt[c] = "waiting" /\ k = attempt[c] /\ <<c, k>> \notin wire
          /\ \A u \in Verdicts : << <<c, k>>, u>> \in replies => u = v
          /\ v = "accepted" => c \in taken
    /\ callAt[c] = "ok" => c \in taken
    /\ c \in taken /\ c \notin doubtful =>
          callAt[c] = "ok" \/ (callAt[c] = "waiting" /\ <<This(c), "accepted">> \in replies)
RetryInv == RetryTypeOK /\ \A c \in Calls : Honest(c)
=============================================================================
