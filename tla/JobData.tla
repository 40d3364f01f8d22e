------------------------------ MODULE JobData -------------------------------
(***************************************************************************)
(* The pure functions of mining_pool/src/pool.js that turn a template into *)
(* a job and a job into a block: height script, merkle branch, varint,     *)
(* target, comparison, byte order.  Each is checked against what the node  *)
(* does with the result, over a range of inputs that is counted through.   *)
(* A hash is the pair of what is hashed.  Base and Width are 256 and 32 in *)
(* the code; smaller ones keep the numbers in TLC's range.                 *)
(***************************************************************************)
EXTENDS Integers, Sequences

CONSTANTS Low, High,   \* the inputs
          MaxTx,       \* bound on the transactions of a template
          Base, Width  \* digits of a target

ASSUME JobDataAssumption ==
    /\ Low \in Nat /\ High \in Nat /\ Low <= High /\ MaxTx \in Nat
    /\ Base \in Nat /\ Base > 1 /\ Width \in Nat /\ Width > 2

VARIABLE input

CountInit == input = Low
Count == input < High /\ input' = input + 1
JobSpec == CountInit /\ [][Count]_input

-----------------------------------------------------------------------------
\* The k <= 4 bytes of v, least significant first.
Place == <<1, 256, 65536, 16777216>>
LittleEndian(v, k) == [i \in 1..k |-> (v \div Place[i]) % 256]

\* Mutant: leading zero bytes are cut too early.
TrimmedShort(v) == SubSeq(LittleEndian(v, 4), 1, IF v < 65536 THEN 1 ELSE 2)

\* The height without its high zero bytes.
Trimmed(v) ==
    LET b == LittleEndian(v, 4)
        end == CHOOSE e \in 1..4 : (e = 1 \/ b[e] # 0) /\ \A i \in (e + 1)..4 : b[i] = 0
    IN  SubSeq(b, 1, end)

\* The push of the block height at the start of the coinbase script.
HeightScript(h) == <<Len(Trimmed(h))>> \o Trimmed(h)

\* The height from which the node demands it.
BIP34Height == 380

\* What the node demands there, CScript() << height: a signed number in as few
\* bytes as leave the sign bit clear.
ScriptNum(h) ==
    LET Fits(k) == h \div Place[k] < 128
    IN  LittleEndian(h, CHOOSE k \in 1..4 : Fits(k) /\ (k = 1 \/ ~ Fits(k - 1)))
NodeHeightScript(h) ==
    IF h = 0 THEN <<0>> ELSE IF h <= 16 THEN <<80 + h>> ELSE <<Len(ScriptNum(h))>> \o ScriptNum(h)

encodeVarInt(v) == IF v < 253 THEN <<v>> ELSE <<253>> \o LittleEndian(v, 2)

\* The node's ReadCompactSize, for up to two bytes; -1 for a malformed one.
ReadCompactSize(s) ==
    IF Len(s) = 1 /\ s[1] < 253 THEN s[1]
    ELSE IF Len(s) = 3 /\ s[1] = 253 /\ s[2] + 256 * s[3] >= 253 THEN s[2] + 256 * s[3]
    ELSE -1

-----------------------------------------------------------------------------
Hash(l, r) == <<l, r>>
Null == <<>>   \* the place of the coinbase
Padded(s) == IF Len(s) % 2 # 0 THEN Append(s, s[Len(s)]) ELSE s
Pairs(s) == [i \in 1..(Len(s) \div 2) |-> Hash(s[2 * i - 1], s[2 * i])]

\* The level at which a loop over levels stops.
Depth(level) == CHOOSE d \in DOMAIN level : Len(level[d]) <= 1 /\ \A k \in 0..(d - 1) : Len(level[k]) > 1

\* Mutant: the last hash of an odd level is carried up as it is.
LevelsUnpadded(hashes) ==
    LET level[k \in 0..Len(hashes)] ==
            IF k = 0 THEN hashes
            ELSE LET below == level[k - 1]
                     odd == IF Len(below) % 2 # 0 THEN <<below[Len(below)]>> ELSE <<>>
                 IN  IF Len(below) <= 1 THEN below ELSE [Pairs(below) EXCEPT ![1] = Null] \o odd
    IN  level

\* The levels of merkleBranch's loop, in which the first place is the coinbase's.
PoolLevels(hashes) ==
    LET level[k \in 0..Len(hashes)] ==
            IF k = 0 THEN hashes
            ELSE LET below == level[k - 1]
                 IN  IF Len(below) <= 1 THEN below ELSE [Pairs(Padded(below)) EXCEPT ![1] = Null]
    IN  level

\* merkleBranch: the sibling of that place on each level.
MerkleBranch(hashes) == [k \in 1..Depth(PoolLevels(hashes)) |-> Padded(PoolLevels(hashes)[k - 1])[2]]

\* The root a share is checked with: the coinbase folded up the branch.
RootFromBranch(coinbase, branch) ==
    LET root[k \in 0..Len(branch)] == IF k = 0 THEN coinbase ELSE Hash(root[k - 1], branch[k])
    IN  root[Len(branch)]

\* The node's ComputeMerkleRoot.
NodeLevels(leaves) ==
    LET level[k \in 0..Len(leaves)] ==
            IF k = 0 THEN leaves
            ELSE LET below == level[k - 1]
                 IN  IF Len(below) <= 1 THEN below ELSE Pairs(Padded(below))
    IN  level
NodeMerkleRoot(leaves) == NodeLevels(leaves)[Depth(NodeLevels(leaves))][1]

-----------------------------------------------------------------------------
\* What a one is worth k digits from the end, and the k digits of v, most
\* significant first.
Weight[k \in 0..Width] == IF k = 0 THEN 1 ELSE Base * Weight[k - 1]
Digits(v, k) == [i \in 1..k |-> (v \div Weight[k - i]) % Base]

\* Mutant: the mantissa one place further down.
nBitsToTargetShifted(exponent, mantissa) ==
    LET m == Digits(mantissa, 3)
        start == Width - exponent + 2
    IN  [i \in 1..Width |-> IF i - start \in 0..2 THEN m[i - start + 1] ELSE 0]

\* The target as a buffer: the mantissa's digits from place Width - exponent on.
nBitsToTarget(exponent, mantissa) ==
    LET m == Digits(mantissa, 3)
        start == Width - exponent
    IN  [i \in 1..Width |->
            IF start >= 0 /\ start < Width /\ i - 1 - start \in 0..2 THEN m[i - start] ELSE 0]

\* The node's SetCompact.
Expanded(exponent, mantissa) ==
    IF exponent >= 3 THEN mantissa * Weight[exponent - 3] ELSE mantissa \div Weight[3 - exponent]

\* The digits of a hash, as it comes: least significant first.
HashBytes(v) == [i \in 1..Width |-> (v \div Weight[i - 1]) % Base]

\* hash is little endian, target big endian.
hashMeetsTarget(hash, target) ==
    LET hashBE == [i \in 1..Len(hash) |-> hash[Len(hash) + 1 - i]]
    IN  \/ hashBE = target
        \/ \E i \in 1..Len(hash) : hashBE[i] < target[i] /\ \A j \in 1..(i - 1) : hashBE[j] = target[j]

-----------------------------------------------------------------------------
(***************************************************************************)
(* "Build valid coinbase1 (BIP34 block height + scriptSig length)"         *)
(* (1049-1062): the coinbase starts with the height as the node wants it,  *)
(* from the height at which it looks.                                      *)
(***************************************************************************)
HeightAccepted == input >= BIP34Height => HeightScript(input) = NodeHeightScript(input)

(***************************************************************************)
(* The block that handleBlockFound puts together is the one the header     *)
(* commits to: the node reads the number of transactions that was written  *)
(* (202-208, 869), and computes over them the merkle root that a miner     *)
(* gets by folding its coinbase up the branch of the job (1080-1097,       *)
(* 787-791), for every number of transactions and whatever levels are odd. *)
(***************************************************************************)
BlockReadsBack ==
    LET txs == [i \in 1..input |-> <<i>>]
        coinbase == <<0>>
    IN  /\ ReadCompactSize(encodeVarInt(1 + input)) = 1 + input
        /\ input <= MaxTx =>
              RootFromBranch(coinbase, MerkleBranch(<<Null>> \o txs)) = NodeMerkleRoot(<<coinbase>> \o txs)

(***************************************************************************)
(* A share is taken for a block exactly when the node takes it for one:    *)
(* comparing the bytes of its hash (242-250) with the target buffer        *)
(* (175-187) is comparing it with mantissa * Base^(exponent-3), at the     *)
(* target and on both sides of it in every digit, also for small exponents *)
(* where the mantissa loses digits.                                        *)
(***************************************************************************)
BlockAsNode ==
    LET exponent == input \div Weight[3]
        mantissa == input % Weight[3]
        target == Expanded(exponent, mantissa)
        near == {target} \cup UNION {{target - Weight[k], target + Weight[k]} : k \in 0..(Width - 1)}
    IN  exponent <= Width =>
            \A hash \in near \cap 0..(Weight[Width] - 1) :
                hashMeetsTarget(HashBytes(hash), nBitsToTarget(exponent, mantissa)) <=> hash <= target
=============================================================================
