---------------------------- MODULE BlockPolling ----------------------------
(***************************************************************************)
(* How the explorer learns of blocks and tells its visitors: the poll of   *)
(* server.ts, started every 15 s whether or not the one before is through, *)
(* and the cached list of recent blocks (BlockController.getRecent) that a *)
(* poll drops before it announces a block.  Blocks are their heights, a    *)
(* list is its newest block.                                               *)
(***************************************************************************)
EXTENDS Integers, Sequences

CONSTANTS Polls,    \* bound on polls at work at the same time
          Readers,  \* bound on requests for the list
          MaxHeight \* bound on the height of the chain

ASSUME PollAssumption == MaxHeight \in Nat

VARIABLES tip,             \* height of the node's chain
          pollAt, height,  \* per poll: the await it is at, the height it was given
          lastKnownHeight,
          announced,       \* the blocks broadcast, in order
          recent,          \* the cached list, -1 if none
          readAt, listTop, \* per reader: the await it is at, the list it makes
          upsets           \* history: "overlap" of two polls, "reader" that was at
                           \* work when a block was announced, "cache" that kept the
                           \* list, "failed" poll, "reorg"

pollVars == <<tip, pollAt, height, lastKnownHeight, announced, recent, readAt, listTop, upsets>>
reading == <<readAt, listTop>>

Heights == 0..MaxHeight
PollTypeOK ==
    /\ tip \in Heights
    /\ pollAt \in [Polls -> {"idle", "count", "block", "drop", "stats"}]
    /\ height \in [Polls -> Heights]
    /\ lastKnownHeight \in Heights \cup {-1}
    /\ announced \in Seq(Heights)
    /\ recent \in Heights \cup {-1}
    /\ readAt \in [Readers -> {"new", "blocks", "store", "done"}]
    /\ listTop \in [Readers -> Heights]
    /\ upsets \subseteq {"overlap", "reader", "cache", "failed", "reorg"}

PollInit ==
    /\ tip = 0
    /\ pollAt = [p \in Polls |-> "idle"] /\ height = [p \in Polls |-> 0]
    /\ lastKnownHeight = -1 /\ announced = <<>> /\ recent = -1
    /\ readAt = [r \in Readers |-> "new"] /\ listTop = [r \in Readers |-> 0]
    /\ upsets = {}

Goto(p, from, to) == pollAt[p] = from /\ pollAt' = [pollAt EXCEPT ![p] = to]
Upset(u) == upsets' = upsets \cup u

NewBlock ==
    /\ tip < MaxHeight
    /\ tip' = tip + 1
    /\ UNCHANGED <<pollAt, height, lastKnownHeight, announced, recent, reading, upsets>>

\* The node has left its branch and is on a lower block for a while.
Reorg ==
    /\ tip > 0
    /\ tip' = tip - 1
    /\ Upset({"reorg"})
    /\ UNCHANGED <<pollAt, height, lastKnownHeight, announced, recent, reading>>

\* The interval fires; the node answers getblockcount.
PollCount(p) ==
    /\ Goto(p, "idle", "count")
    /\ height' = [height EXCEPT ![p] = tip]
    /\ Upset(IF \E q \in Polls : pollAt[q] # "idle" THEN {"overlap"} ELSE {})
    /\ UNCHANGED <<tip, lastKnownHeight, announced, recent, reading>>

\* Mutant: the height is remembered when the block has been announced.
PollSeesLate(p) ==
    /\ Goto(p, "count", IF height[p] > lastKnownHeight THEN "block" ELSE "idle")
    /\ UNCHANGED <<tip, height, lastKnownHeight, announced, recent, reading, upsets>>

\* Mutant: off by one.
PollSeesSkip(p) ==
    /\ Goto(p, "count", IF height[p] > lastKnownHeight + 1 THEN "block" ELSE "idle")
    /\ lastKnownHeight' = IF height[p] > lastKnownHeight + 1 THEN height[p] ELSE lastKnownHeight
    /\ UNCHANGED <<tip, height, announced, recent, reading, upsets>>

\* The answer arrives: compare and remember in one go, and ask for the block.
PollSees(p) ==
    /\ Goto(p, "count", IF height[p] > lastKnownHeight THEN "block" ELSE "idle")
    /\ lastKnownHeight' = IF height[p] > lastKnownHeight THEN height[p] ELSE lastKnownHeight
    /\ UNCHANGED <<tip, height, announced, recent, reading, upsets>>

\* getBlockHash and getBlock.
PollBlock(p) ==
    /\ Goto(p, "block", "drop")
    /\ UNCHANGED <<tip, height, lastKnownHeight, announced, recent, reading, upsets>>

ReadersAtWork == IF \E r \in Readers : readAt[r] \in {"blocks", "store"} THEN {"reader"} ELSE {}

\* Mutant: the list is not dropped.
PollAnnouncesOnly(p) ==
    /\ Goto(p, "drop", "stats")
    /\ announced' = Append(announced, height[p])
    /\ Upset(ReadersAtWork)
    /\ UNCHANGED <<tip, height, lastKnownHeight, recent, reading>>

\* Redis drops the list, or fails to, and the block is broadcast.
PollAnnounces(p) ==
    /\ Goto(p, "drop", "stats")
    /\ \/ recent' = -1 /\ Upset(ReadersAtWork)
       \/ recent # -1 /\ UNCHANGED recent /\ Upset({"cache"})
    /\ announced' = Append(announced, height[p])
    /\ UNCHANGED <<tip, height, lastKnownHeight, reading>>

\* getmempoolinfo and the network statistics.
PollStats(p) ==
    /\ Goto(p, "stats", "idle")
    /\ UNCHANGED <<tip, height, lastKnownHeight, announced, recent, reading, upsets>>

\* A call fails: "Silently continue if node is temporarily unreachable".
PollFails(p) ==
    /\ \E s \in {"count", "block", "stats"} : Goto(p, s, "idle")
    /\ Upset({"failed"})
    /\ UNCHANGED <<tip, height, lastKnownHeight, announced, recent, reading>>

\* getRecent: the cached list, else the height, block after block, and the cache;
\* a cache that fails is an empty one.
ReadHit(r) ==
    /\ readAt[r] = "new" /\ recent # -1
    /\ readAt' = [readAt EXCEPT ![r] = "done"]
    /\ UNCHANGED <<tip, pollAt, height, lastKnownHeight, announced, recent, listTop, upsets>>

ReadCount(r) ==
    /\ readAt[r] = "new"
    /\ readAt' = [readAt EXCEPT ![r] = "blocks"]
    /\ listTop' = [listTop EXCEPT ![r] = tip]
    /\ UNCHANGED <<tip, pollAt, height, lastKnownHeight, announced, recent, upsets>>

ReadBlocks(r) ==
    /\ readAt[r] = "blocks"
    /\ readAt' = [readAt EXCEPT ![r] = "store"] \/ readAt' = [readAt EXCEPT ![r] = "done"]
    /\ UNCHANGED <<tip, pollAt, height, lastKnownHeight, announced, recent, listTop, upsets>>

ReadStore(r) ==
    /\ readAt[r] = "store"
    /\ readAt' = [readAt EXCEPT ![r] = "done"]
    /\ recent' = listTop[r] \/ UNCHANGED recent
    /\ UNCHANGED <<tip, pollAt, height, lastKnownHeight, announced, listTop, upsets>>

\* The 15 seconds of the list are over.
ListExpires ==
    /\ recent # -1 /\ recent' = -1
    /\ UNCHANGED <<tip, pollAt, height, lastKnownHeight, announced, reading, upsets>>

Poll(p) == PollCount(p) \/ PollSees(p) \/ PollBlock(p) \/ PollAnnounces(p) \/ PollStats(p)
Read(r) == ReadHit(r) \/ ReadCount(r) \/ ReadBlocks(r) \/ ReadStore(r)

PollNext ==
    \/ NewBlock \/ Reorg \/ ListExpires
    \/ \E p \in Polls : Poll(p) \/ PollFails(p)
    \/ \E r \in Readers : Read(r)
PollSpec == PollInit /\ [][PollNext]_pollVars

-----------------------------------------------------------------------------
\* No height twice, and heights in their order until polls overlap.
AnnouncedOnce == \A i, k \in 1..Len(announced) : announced[i] = announced[k] => i = k
AnnouncedInOrder ==
    "overlap" \notin upsets => \A i, k \in 1..Len(announced) : i < k => announced[i] < announced[k]

(***************************************************************************)
(* Polls overlap and their answers arrive in any order, yet no height is   *)
(* broadcast twice (server.ts:201-206): the comparison and the assignment  *)
(* of lastKnownHeight are not separated by an await.  As long as every     *)
(* poll ends before the next one starts, blocks are also broadcast in the  *)
(* order of their heights.                                                 *)
(***************************************************************************)
Announcements == AnnouncedOnce /\ AnnouncedInOrder

(***************************************************************************)
(* A visitor who reloads the list on hearing of a block finds it there     *)
(* (205): no list older than a broadcast block is in the cache, unless it  *)
(* was being put together while the block was broadcast, Redis has failed  *)
(* to drop it, or the node has gone back to lower blocks.                  *)
(***************************************************************************)
ListIsFresh ==
    recent # -1 /\ upsets \cap {"reader", "cache", "reorg"} = {} => \A i \in 1..Len(announced) : announced[i] <= recent

(***************************************************************************)
(* Every block that stays the tip while the explorer polls is broadcast,   *)
(* polls overlapping or not, as long as no call of a poll fails (a failure *)
(* after line 202 loses the block) and the node does not go back.          *)
(***************************************************************************)
TipAnnounced ==
    \A h \in Heights : (tip = h /\ \E p \in Polls : pollAt[p] # "idle") ~>
        \/ tip # h \/ upsets \cap {"failed", "reorg"} # {}
        \/ \E i \in 1..Len(announced) : announced[i] = h

(***************************************************************************)
(* What keeps broadcasts apart: a height on its way to be broadcast, or    *)
(* broadcast, is at most lastKnownHeight and belongs to one poll; without  *)
(* overlap only one poll is at work.                                       *)
(***************************************************************************)
Claimed(p) == pollAt[p] \in {"block", "drop"}
PollInv ==
    /\ PollTypeOK /\ AnnouncedOnce /\ AnnouncedInOrder
    /\ \A i \in 1..Len(announced) : announced[i] <= lastKnownHeight
    /\ \A p \in Polls : Claimed(p) => /\ height[p] <= lastKnownHeight
                                      /\ \A i \in 1..Len(announced) : announced[i] # height[p]
                                      /\ \A q \in Polls : Claimed(q) /\ height[q] = height[p] => q = p
    /\ "overlap" \notin upsets =>
          /\ \A p, q \in Polls : pollAt[p] # "idle" /\ pollAt[q] # "idle" => p = q
          /\ \A p \in Polls : Claimed(p) => \A i \in 1..Len(announced) : announced[i] < height[p]

(***************************************************************************)
(* Why ListIsFresh holds: while the node does not go back, a height it has *)
(* given is at most its tip, so that a list begun after a broadcast has    *)
(* the block; a list begun before it is reported as "reader".              *)
(***************************************************************************)
Holds(n) == \A i \in 1..Len(announced) : announced[i] <= n
FreshInv ==
    upsets \cap {"reader", "cache", "reorg"} = {} =>
        /\ \A p \in Polls : height[p] <= tip
        /\ Holds(tip)
        /\ \A r \in Readers : readAt[r] \in {"blocks", "store"} => Holds(listTop[r])
        /\ recent # -1 => Holds(recent)
=============================================================================
