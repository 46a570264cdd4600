------------------------------ MODULE LiveSweep ------------------------------
(***************************************************************************)
(* The live-state sweep of permanode/src/indexer.rs (scan_live_state) over  *)
(* the tables of core/src/db.rs, while the node moves and the recording    *)
(* loop and the gap filling write what the sweep reads.                    *)
(*                                                                         *)
(* A coin is a UTXO with its creation id; every coin has its own slot, for *)
(* the sweep tells coins apart by creation id only.  The recording side is *)
(* reduced to what Indexer.tla shows of it: it records the next height,    *)
(* replaces a block the node has replaced, and fills in missing bodies.    *)
(*                                                                         *)
(* Of address_balance_cache there is the row of one address: no row looks  *)
(* at another.  The sweep derives it from its picture, the recording loop  *)
(* refreshes it from the node between two polls.                           *)
(***************************************************************************)
EXTENDS NodeChain, FiniteSets, FiniteSetsExt

CONSTANTS
    NoHash,       \* no block on record
    Coins,        \* UTXOs, numbered in the order of their slots
    Segments,     \* state segments
    SegmentOf,    \* [Coins -> Segments]
    Creates,      \* [Chains -> [Heights -> SUBSET Coins]]: outputs of the block (hash, height)
    Spends,       \* [Chains -> [Heights -> SUBSET Coins]]: its inputs
    Owned,        \* the address's coins
    Amount,       \* [Coins -> their amounts]
    MaxEvents     \* bound: sweeps that end early and passes over the known addresses

\* A creation id is given once: no chain creates a coin at two heights.
ASSUME SweepAssumption ==
    /\ NoHash \notin Chains
    /\ Coins \subseteq Nat /\ IsFiniteSet(Coins) /\ Segments \subseteq Nat
    /\ SegmentOf \in [Coins -> Segments]
    /\ Creates \in [Chains -> [Heights -> SUBSET Coins]]
    /\ Spends \in [Chains -> [Heights -> SUBSET Coins]]
    /\ \A x \in Chains : \A g, h \in Heights :
          Creates[HashAt(x, g)][g] \cap Creates[HashAt(x, h)][h] # {} => g = h
    /\ Owned \subseteq Coins /\ Amount \in [Coins -> Nat \ {0}]
    /\ MaxEvents \in Nat

NoHeight == -1

VARIABLES
    shown,      \* [Heights -> Chains \cup {NoHash}]: the canonical block on record
    bodies,     \* [Heights -> SUBSET Chains]: blocks with their transactions on record
    processed,  \* last_processed_height
    flagged,    \* rows of tx_outputs with spent_in_gap = 1, as <<height, hash, coin>>
    foreign,    \* coins in state_slots
    sw,         \* the sweep thread: where it is and what it holds in memory
    cached,     \* the address's live_balance_micronoid; 0 is also no row
    refresh,    \* the pass of the recording loop over the known addresses
    failures,   \* sweeps that ended early
    calm        \* history: all was recorded when sw last read the tip, and stood still since

recVars == <<shown, bodies, processed>>
balanceVars == <<cached, refresh>>
vars == <<node, shown, bodies, processed, flagged, foreign, sw, balanceVars, failures, calm>>

\* processed_height: 0 before anything is recorded.
ProcessedHeight == IF processed = NoHeight THEN 0 ELSE processed

-----------------------------------------------------------------------------
(* The node's live state.                                                  *)

CreatedUpTo(c, h) == UNION {Creates[HashAt(c, g)][g] : g \in 0..h}
SpentUpTo(c, h)   == UNION {Spends[HashAt(c, g)][g] : g \in 0..h}

Live == CreatedUpTo(node.chain, node.tip) \ SpentUpTo(node.chain, node.tip)

In(seg, coins) == {c \in coins : SegmentOf[c] = seg}

\* The slots of a segment that hold a coin at some time.
Slots(seg) == In(seg, Coins)

\* getStateMap
StateMap == [seg \in Segments |-> Cardinality(In(seg, Live))]

-----------------------------------------------------------------------------
(* The permanode's picture of it, as of height max.                        *)

Recorded(max) == {h \in Heights : h <= max /\ shown[h] # NoHash /\ shown[h] \in bodies[h]}

Outputs(h) == {<<h, shown[h], c>> : c \in Creates[shown[h]][h]}

\* not_spent_by_recorded_input
SpentOnRecord(max) == UNION {Spends[shown[h]][h] : h \in Recorded(max)}

\* unspent_recorded_outputs: unflagged output rows no recorded input has spent.
UnspentRows(max) ==
    {r \in UNION {Outputs(h) : h \in Recorded(max)} :
        r \notin flagged /\ r[3] \notin SpentOnRecord(max)}

UnspentForeign(max) == foreign \ SpentOnRecord(max)

\* live_count_per_segment: a coin that is both counts twice.
OwnCount(seg, max) ==
    Cardinality({r \in UnspentRows(max) : SegmentOf[r[3]] = seg})
        + Cardinality(In(seg, UnspentForeign(max)))

\* recorded_creation_ids: outputs on record, spent or not.
RecordedIds == {c \in Coins : \E h \in Recorded(MaxHeight) : c \in Creates[shown[h]][h]}

\* The coins of the picture.
Picture == {r[3] : r \in UnspentRows(MaxHeight)} \cup UnspentForeign(MaxHeight)

Worth(coins) == MapThenSumSet(LAMBDA c : Amount[c], coins \cap Owned)

\* live_balances, for the address: a coin that is both counts twice.
LiveBalance == Worth({r[3] : r \in UnspentRows(MaxHeight)}) + Worth(UnspentForeign(MaxHeight))

\* clear_spent_in_gap_with_recorded_spend
WithoutRecordedSpend(rows) == {r \in rows : r[3] \notin SpentOnRecord(MaxHeight)}

-----------------------------------------------------------------------------
SwType ==
    [ pc : {"idle", "tip", "wait", "map", "confirm", "compare", "segment", "pace", "read",
            "commit", "balances", "matched"},
      checking : BOOLEAN, tip : Heights, map : [Segments -> Nat], todo : SUBSET Segments,
      seg : SUBSET Segments, start : Heights, left : SUBSET Coins, live : SUBSET Coins,
      keep : BOOLEAN ]

SwAt(pc) ==
    [ pc |-> pc, checking |-> FALSE, tip |-> 0, map |-> [seg \in Segments |-> 0], todo |-> {},
      seg |-> {}, start |-> 0, left |-> {}, live |-> {}, keep |-> FALSE ]

RefreshType == [asked : BOOLEAN, balance : Nat, n : 0..MaxEvents]

TypeOK ==
    /\ node \in NodeType
    /\ shown \in [Heights -> Chains \cup {NoHash}]
    /\ bodies \in [Heights -> SUBSET Chains]
    /\ processed \in Heights \cup {NoHeight}
    /\ flagged \subseteq Heights \X Chains \X Coins
    /\ foreign \subseteq Coins
    /\ sw \in SwType
    /\ \A c \in sw.left \cup sw.live : SegmentOf[c] \in sw.seg
    /\ cached \in Nat /\ refresh \in RefreshType
    /\ failures \in 0..MaxEvents
    /\ calm \in BOOLEAN

Init ==
    /\ NodeInit
    /\ shown = [h \in Heights |-> NoHash] /\ bodies = [h \in Heights |-> {}]
    /\ processed = NoHeight
    /\ flagged = {} /\ foreign = {}
    /\ cached = 0 /\ refresh = [asked |-> FALSE, balance |-> 0, n |-> 0]
    /\ sw = SwAt("idle") /\ failures = 0 /\ calm = FALSE

\* Everything the node has is on record, and nothing the node has replaced.
Settled ==
    /\ processed = node.tip
    /\ \A h \in Heights : shown[h] # NoHash => shown[h] = NodeHash(h)

-----------------------------------------------------------------------------
(* The node and the recording side.                                        *)

Disturbs == calm' = FALSE /\ UNCHANGED <<flagged, foreign, sw, balanceVars, failures>>

NodeMoves == NodeStep /\ Disturbs /\ UNCHANGED recVars

Write(h, body) ==
    /\ shown' = [shown EXCEPT ![h] = NodeHash(h)]
    /\ bodies' = IF body THEN [bodies EXCEPT ![h] = @ \cup {NodeHash(h)}] ELSE bodies

\* The next height, with its body or as a gap; the first one is the node's tip.
RecordNext ==
    /\ Disturbs
    /\ ~refresh.asked
    /\ \E h \in Heights : \E body \in BodyAnswers(h) :
         /\ HasHeader(h)
         /\ h = IF processed = NoHeight THEN node.tip ELSE processed + 1
         /\ Write(h, body)
         /\ processed' = h
    /\ UNCHANGED node

\* The re-check finds a block replaced.
RecordReplacement ==
    /\ Disturbs
    /\ ~refresh.asked
    /\ \E h \in Heights : \E body \in BodyAnswers(h) :
         /\ HasHeader(h) /\ shown[h] # NoHash /\ shown[h] # NodeHash(h)
         /\ Write(h, body)
    /\ UNCHANGED <<node, processed>>

\* A missing body comes from the node or a peer.
FillGap ==
    /\ Disturbs
    /\ \E h \in Heights :
         /\ shown[h] # NoHash /\ shown[h] \notin bodies[h]
         /\ bodies' = [bodies EXCEPT ![h] = @ \cup {shown[h]}]
    /\ UNCHANGED <<node, shown, processed>>

\* The end of a round of fill_gaps.
ClearFlags ==
    /\ flagged' = WithoutRecordedSpend(flagged)
    /\ flagged' # flagged
    /\ UNCHANGED <<node, recVars, foreign, sw, balanceVars, failures, calm>>

-----------------------------------------------------------------------------
(* refresh_known_address_balances, in the recording loop: it records        *)
(* nothing until the pass is over.                                         *)

\* known_addresses, but for miners: an input or an output of the address is on record.
Known ==
    \E h \in Heights : \E x \in bodies[h] : (Creates[x][h] \cup Spends[x][h]) \cap Owned # {}

\* getSlotsByOwner
RefreshAsk ==
    /\ ~refresh.asked /\ failures + refresh.n < MaxEvents
    /\ Known
    /\ refresh' = [asked |-> TRUE, balance |-> Worth(Live), n |-> refresh.n + 1]
    /\ UNCHANGED <<node, recVars, flagged, foreign, sw, cached, failures, calm>>

\* The transaction at the end of the pass.
RefreshCommit ==
    /\ refresh.asked
    /\ cached' = refresh.balance
    /\ refresh' = [refresh EXCEPT !.asked = FALSE, !.balance = 0]
    /\ UNCHANGED <<node, recVars, flagged, foreign, sw, failures, calm>>

-----------------------------------------------------------------------------
(* scan_live_state.                                                        *)

Lowest(S) == {x \in S : \A y \in S : x <= y}

Unchanged == UNCHANGED <<node, recVars, flagged, foreign, balanceVars, failures>>

SwBegin ==
    /\ sw.pc = "idle"
    /\ sw' = SwAt("tip")
    /\ Unchanged /\ UNCHANGED calm

\* consistent_state_map: block_count,
SwTip ==
    /\ sw.pc = "tip"
    /\ sw' = [sw EXCEPT !.pc = "wait", !.tip = node.tip]
    /\ calm' = Settled
    /\ Unchanged

\* wait_for_indexer,
SwWait ==
    /\ sw.pc = "wait"
    /\ ProcessedHeight >= sw.tip
    /\ sw' = [sw EXCEPT !.pc = "map"]
    /\ Unchanged /\ UNCHANGED calm

\* getStateMap,
SwMap ==
    /\ sw.pc = "map"
    /\ sw' = [sw EXCEPT !.pc = "confirm", !.map = StateMap]
    /\ Unchanged /\ UNCHANGED calm

\* and block_count again: the map counts if the tip is where it was.
SwConfirm ==
    /\ sw.pc = "confirm"
    /\ sw' = [sw EXCEPT !.pc = IF node.tip = sw.tip THEN "compare" ELSE "tip"]
    /\ Unchanged /\ UNCHANGED calm

\* differing_segments
Differing(map, height) == {seg \in Segments : map[seg] # OwnCount(seg, height)}

\* The segments to read; at the end of a run, whether any is left.
SwCompare ==
    /\ sw.pc = "compare"
    /\ LET differing == Differing(sw.map, sw.tip) IN
       sw' = IF ~sw.checking THEN [SwAt("segment") EXCEPT !.todo = differing]
             ELSE IF differing = {} THEN [SwAt("matched") EXCEPT !.keep = sw.keep]
             ELSE SwAt("idle")
    /\ Unchanged /\ UNCHANGED calm

\* block_count before a segment is read; no segment left ends the reading.
SwSegment ==
    /\ sw.pc = "segment"
    /\ \/ /\ sw.todo = {}
          /\ sw' = SwAt("balances")
          /\ UNCHANGED calm
       \/ /\ \E seg \in Lowest(sw.todo) :
               sw' = [sw EXCEPT !.pc = "pace", !.todo = @ \ {seg}, !.seg = {seg},
                                !.start = node.tip, !.left = Slots(seg), !.live = {}]
          /\ calm' = Settled
    /\ Unchanged

\* tip_once_indexer_current before the first slot.
SwPace ==
    /\ sw.pc = "pace"
    /\ ProcessedHeight + 1 >= node.tip
    /\ sw' = [sw EXCEPT !.pc = "read"]
    /\ Unchanged /\ UNCHANGED calm

\* read_segment: one getSlot.
SwRead ==
    /\ sw.pc = "read"
    /\ \/ /\ \E c \in Lowest(sw.left) :
               sw' = [sw EXCEPT !.left = @ \ {c},
                                !.live = IF c \in Live THEN @ \cup {c} ELSE @]
       \/ /\ sw.left = {}
          /\ sw' = [sw EXCEPT !.pc = "commit"]
    /\ Unchanged /\ UNCHANGED calm

\* Variants the runs must reject: every live coin becomes a slot of its own; the slots of
\* the last read stay; a flag is for ever; outputs newer than the read are judged by it.
ForeignAfter_All(seg, live)  == (foreign \ Slots(seg)) \cup live
ForeignAfter_Keep(seg, live) == foreign \cup (live \ RecordedIds)
Back_Never(seg, live)        == {}
Gone_AnyHeight(seg, live, start) ==
    {r \in UnspentRows(MaxHeight) : SegmentOf[r[3]] = seg /\ r[3] \notin live}

\* replace_state_slots
ForeignAfter(seg, live) == (foreign \ Slots(seg)) \cup (live \ RecordedIds)

\* unmark_live_outputs: every flagged row of the segment that was read live.
Back(seg, live) == {r \in flagged : SegmentOf[r[3]] = seg /\ r[3] \in live}

\* unspent_recorded_outputs up to the height at which the read began, without a live coin.
Gone(seg, live, start) ==
    {u \in UnspentRows(start) : SegmentOf[u[3]] = seg /\ u[3] \notin live}

\* One transaction per segment.
SwCommit ==
    /\ sw.pc = "commit"
    /\ \E seg \in sw.seg :
         /\ foreign' = ForeignAfter(seg, sw.live)
         /\ flagged' = (flagged \ Back(seg, sw.live)) \cup Gone(seg, sw.live, sw.start)
    /\ sw' = [SwAt("segment") EXCEPT !.todo = sw.todo, !.seg = sw.seg]
    /\ UNCHANGED <<node, recVars, balanceVars, failures, calm>>

\* The transaction at the end: the balance of every address in the picture, which is
\* then kept whatever happens to it; then the map is compared once more.
SwBalances ==
    /\ sw.pc = "balances"
    /\ flagged' = WithoutRecordedSpend(flagged)
    /\ UNCHANGED <<node, recVars, foreign, refresh, failures, calm>>
    /\ LET balance == LiveBalance' IN
         /\ cached' = IF balance > 0 THEN balance ELSE cached
         /\ sw' = [SwAt("tip") EXCEPT !.checking = TRUE, !.keep = balance > 0]

\* Variant the runs must reject: no cached balance is ever set to zero.
Zeroed_Never(balance, keep) == balance

\* zero_balance_cache_except
Zeroed(balance, keep) == IF keep THEN balance ELSE 0

\* "every segment matches the node"
SwMatched ==
    /\ sw.pc = "matched"
    /\ cached' = Zeroed(cached, sw.keep)
    /\ sw' = SwAt("idle")
    /\ UNCHANGED <<node, recVars, flagged, foreign, refresh, failures, calm>>

\* A call fails, a wait runs out, or the process is restarted: nothing read so far is kept.
SwFails ==
    /\ sw.pc # "idle" /\ failures + refresh.n < MaxEvents
    /\ failures' = failures + 1
    /\ sw' = SwAt("idle")
    /\ UNCHANGED <<node, recVars, flagged, foreign, balanceVars, calm>>

Sweep ==
    \/ SwBegin \/ SwTip \/ SwWait \/ SwMap \/ SwConfirm \/ SwCompare
    \/ SwSegment \/ SwPace \/ SwRead \/ SwCommit \/ SwBalances \/ SwMatched

Recording == RecordNext \/ RecordReplacement

Loop == Recording \/ RefreshCommit

Next == NodeMoves \/ Loop \/ RefreshAsk \/ FillGap \/ ClearFlags \/ Sweep \/ SwFails

Spec == Init /\ [][Next]_vars

\* run starts a sweep again and again; the loop records what the node has, and ends a
\* pass over the addresses it has begun.
FairSpec == Spec /\ WF_vars(Sweep) /\ WF_vars(Loop)

-----------------------------------------------------------------------------
(* Properties.                                                             *)

\* A segment read while nothing moved is exact when it is committed: the picture holds
\* the coins the node holds, each of them once.
ReadSegmentIsExact ==
    sw.pc = "segment" /\ calm =>
        \A seg \in sw.seg :
            /\ In(seg, Picture) = In(seg, Live)
            /\ OwnCount(seg, MaxHeight) = Cardinality(In(seg, Live))

\* Only a coin that is spent is ever flagged as spent in a gap (as long as the node does
\* not reorganize): the blocks recorded while a segment was read are not judged by it.
FlaggedIsSpent ==
    \A r \in flagged : node.reorgs = 0 => r[3] \notin Live

\* Once everything is at rest, the sweeps bring every segment's count to the node's.
CountsSettle ==
    <>[](\A seg \in Segments : OwnCount(seg, MaxHeight) = Cardinality(In(seg, Live)))

\* Then the cached balance is that of the node or that of the picture, whatever order the
\* pass of the loop, the sweep's balances and its zeroing came in before: a balance read
\* too early, or zeroed by a set made too early, does not stay.
BalanceSettles ==
    <>[](cached \in {Worth(Live), LiveBalance})
=============================================================================
