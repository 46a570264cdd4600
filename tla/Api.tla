-------------------------------- MODULE Api --------------------------------
(***************************************************************************)
(* The read side, permanode/src/serve.rs: the answers it caches (chain     *)
(* figures, miners, period activity, balance history), the ones it marks   *)
(* as final for browsers and proxies (block, transaction, page of blocks)  *)
(* and the window of final headers it takes from the node.  The indexer is *)
(* another process: it commits between any two statements of a request.    *)
(*                                                                         *)
(* The recording loop is here one block or one replacement at a time, in   *)
(* the order of poll_once.  One endpoint is asked in a behaviour; requests *)
(* of one endpoint queue for the connection's mutex, so one is under way   *)
(* at a time.                                                              *)
(***************************************************************************)
EXTENDS NodeChain

CONSTANTS
    NoHash,
    Never,              \* no time
    RecheckDepth,       \* cfg.reorg_check_depth
    FinalConfirmations, \* FINAL_CONFIRMATIONS, CONSENSUS_FINALITY_DEPTH
    WindowSize,         \* EXPANSION_WINDOW
    PageSize,           \* blocks of a page
    MaxAge,             \* [kind of figure -> seconds]: CHAIN_STATS_MAX_AGE_SECONDS and the 60 s
    FirstBlock,         \* lowest block the archive recorded itself
    MaxFills,           \* bound: gaps filled, blocks pruned, receipts imported
    MaxClock            \* bound

Figures == {"stats", "miners", "periods"}           \* cached by tip (and lowest row) and age
Kinds   == Figures \cup {"history", "block", "page", "window"}

ASSUME ApiAssumption ==
    /\ NoHash \notin Chains
    /\ RecheckDepth \in Nat /\ MaxFills \in Nat /\ MaxClock \in Nat
    /\ Never \notin 0..MaxClock
    /\ WindowSize \in Nat \ {0} /\ PageSize \in Nat \ {0}
    /\ FinalConfirmations \in Nat /\ MaxReorgDepth < FinalConfirmations
    /\ MaxAge \in [Figures -> Nat \ {0}]
    /\ FirstBlock \in 0..StartTip

VARIABLES
    arch,    \* per height the canonical block on record
    last,    \* last_processed_height
    lowest,  \* the lowest row: the header backfill takes it down
    fills,   \* how often something else on record was changed
    loop,    \* the recording loop: where it is, and the tip it read
    unseen,  \* history: the last reorganization, until a poll begun after it has completed
    clock,
    kind,    \* the endpoint of this behaviour
    cache,   \* its cache entry
    req,     \* the request under way
    answer   \* the last answer given

vars == <<node, arch, last, lowest, fills, loop, unseen, clock, kind, cache, req, answer>>

Blocks == Heights \X Chains

\* What a request or a cache entry holds: the key it was looked up under, how far the
\* figures reach, when it was made, since when it is outdated (history), the blocks it
\* names, and (history) whether they were read and marked quietly, after how many
\* reorganizations.
Held ==
    [ pc : {"none", "read", "store", "mark", "fetch"}, tip : Heights \cup {NoHash},
      lowest : Heights, upTo : Heights, at : 0..MaxClock, outdated : 0..MaxClock \cup {Never},
      blocks : SUBSET Blocks, todo : SUBSET Heights, quiet : BOOLEAN, reorgs : 0..MaxReorgs ]

Nothing ==
    [ pc |-> "none", tip |-> NoHash, lowest |-> 0, upTo |-> 0, at |-> 0, outdated |-> Never,
      blocks |-> {}, todo |-> {}, quiet |-> FALSE, reorgs |-> 0 ]

-----------------------------------------------------------------------------
ATypeOK ==
    /\ node \in NodeType
    /\ arch \in [Heights -> Chains \cup {NoHash}]
    /\ last \in Heights /\ lowest \in Heights /\ fills \in 0..MaxFills
    /\ loop \in [pc : {"idle", "ingest", "recheck"}, tip : Heights]
    /\ unseen \in {"none", "new", "polled"} /\ clock \in 0..MaxClock /\ kind \in Kinds
    /\ cache \in Held /\ req \in Held /\ answer \in Held

Init ==
    /\ NodeInit
    /\ arch = [h \in Heights |-> IF h \in FirstBlock..StartTip THEN Main ELSE NoHash]
    /\ last = StartTip
    /\ lowest = FirstBlock
    /\ fills = 0
    /\ loop = [pc |-> "idle", tip |-> StartTip]
    /\ unseen = "none"
    /\ clock = 0
    /\ kind \in Kinds
    /\ cache = Nothing /\ req = Nothing /\ answer = Nothing

-----------------------------------------------------------------------------
(* The node, the clock and the writers.                                    *)

\* The loop keeps up: a replaced block on record is inside the window it re-checks.
StaleWithinReach ==
    \A h \in Heights :
        arch[h] # NoHash /\ h <= node.tip /\ arch[h] # NodeHash(h) =>
            node.tip <= h + RecheckDepth

NodeMoves ==
    /\ NodeStep
    /\ unseen' = IF node'.chain = node.chain THEN unseen ELSE "new"
    /\ UNCHANGED <<arch, last, lowest, fills, loop, clock, kind, cache, req, answer>>
    /\ StaleWithinReach'

\* A request is short against the ages: no second passes while one is under way.
Tick ==
    /\ clock < MaxClock /\ kind \in Figures /\ req.pc = "none"
    /\ clock' = clock + 1
    /\ UNCHANGED <<node, arch, last, lowest, fills, loop, unseen, kind, cache, req, answer>>

\* A commit outdates what was read before it.
Outdated(x) == [x EXCEPT !.outdated = IF @ = Never THEN clock ELSE @]

Committed ==
    /\ cache' = Outdated(cache)
    /\ req' = Outdated(req)
    /\ UNCHANGED <<node, clock, kind, answer>>

BeginPoll ==
    /\ loop.pc = "idle"
    /\ loop' = [pc |-> "ingest", tip |-> node.tip]
    /\ unseen' = IF unseen = "new" THEN "polled" ELSE unseen
    /\ UNCHANGED <<node, arch, last, lowest, fills, clock, kind, cache, req, answer>>

RecordBlock ==
    /\ loop.pc = "ingest" /\ last < loop.tip
    /\ arch' = [arch EXCEPT ![last + 1] = NodeHash(last + 1)]
    /\ last' = last + 1
    /\ Committed
    /\ UNCHANGED <<lowest, fills, loop, unseen>>

Replaced ==
    {h \in Monus(loop.tip, RecheckDepth)..loop.tip : arch[h] \notin {NoHash, NodeHash(h)}}

ReplaceBlock ==
    /\ loop.pc = "ingest" => loop.tip <= last
    /\ loop.pc # "idle"
    /\ \E h \in Replaced :
         /\ \A g \in Replaced : h <= g
         /\ arch' = [arch EXCEPT ![h] = NodeHash(h)]
    /\ loop' = [loop EXCEPT !.pc = "recheck"]
    /\ Committed
    /\ UNCHANGED <<last, lowest, fills, unseen>>

EndPoll ==
    /\ loop.pc = "ingest" => loop.tip <= last
    /\ loop.pc # "idle" /\ Replaced = {}
    /\ loop' = [loop EXCEPT !.pc = "idle"]
    /\ unseen' = IF unseen = "polled" THEN "none" ELSE unseen
    /\ UNCHANGED <<node, arch, last, lowest, fills, clock, kind, cache, req, answer>>

\* A call fails, or the indexer is started anew.
BreakOff ==
    /\ loop.pc # "idle"
    /\ loop' = [loop EXCEPT !.pc = "idle"]
    /\ unseen' = IF unseen = "polled" THEN "new" ELSE unseen
    /\ UNCHANGED <<node, arch, last, lowest, fills, clock, kind, cache, req, answer>>

\* A batch of the header backfill.
CopyHeader ==
    /\ 0 < lowest
    /\ lowest' = lowest - 1
    /\ arch' = [arch EXCEPT ![lowest'] = HashAt(node.chain, lowest')]
    /\ Committed
    /\ UNCHANGED <<last, fills, loop, unseen>>

\* A gap filled, a block pruned, a receipt imported: nothing a block's name depends on.
ChangeOther ==
    /\ fills < MaxFills
    /\ fills' = fills + 1
    /\ Committed
    /\ UNCHANGED <<arch, last, lowest, loop, unseen>>

-----------------------------------------------------------------------------
(* Cached figures: cached_chain_stats, get_miners, the periods of           *)
(* get_economics, get_address_balance_history.                             *)

\* Variant the runs must reject: an entry is good as long as the tip stays.
Fresh_TipOnly(entry) == entry.tip = last

\* The cache's filter: the tip it was made for, for the miners also the lowest row, and
\* the age, which the balance history does not look at.
Fresh(entry) ==
    /\ entry.tip = last
    /\ kind = "miners" => entry.lowest = lowest
    /\ kind \in Figures => clock - entry.at < MaxAge[kind]

\* Variant the runs must reject: the figures are labelled with the tip read after them.
Key_Late(r) == [r EXCEPT !.tip = last, !.lowest = lowest]

\* The key of the new entry is what the lookup read, before the figures were made.
Key(r) == r

LookUp ==
    /\ kind \in Figures \cup {"history"} /\ req.pc = "none"
    /\ IF Fresh(cache)
       THEN /\ answer' = [cache EXCEPT !.at = clock, !.tip = last, !.lowest = lowest]
            /\ UNCHANGED req
       ELSE /\ req' = [Nothing EXCEPT !.pc = "read", !.tip = last, !.lowest = lowest, !.at = clock]
            /\ UNCHANGED answer
    /\ UNCHANGED <<node, arch, last, lowest, fills, loop, unseen, clock, kind, cache>>

\* The figures, from the archive as it is now; several statements, so a commit before
\* the entry is stored can leave parts of them outdated.
MakeFigures ==
    /\ req.pc = "read"
    /\ req' = [req EXCEPT !.pc = "store", !.upTo = last, !.outdated = Never]
    /\ UNCHANGED <<node, arch, last, lowest, fills, loop, unseen, clock, kind, cache, answer>>

StoreFigures ==
    /\ req.pc = "store"
    /\ cache' = [Key(req) EXCEPT !.pc = "none"]
    /\ answer' = [req EXCEPT !.pc = "none"]
    /\ req' = Nothing
    /\ UNCHANGED <<node, arch, last, lowest, fills, loop, unseen, clock, kind>>

-----------------------------------------------------------------------------
(* Answers marked final: get_blocks, get_block_by_height and _by_hash,      *)
(* get_tx.                                                                 *)

\* Variant the runs must reject: one confirmation too few.
Final_Early(h) == last - h + 1 >= FinalConfirmations - 1

\* confirmations_for against FINAL_CONFIRMATIONS
Final(h) == last - h + 1 >= FinalConfirmations

\* The canonical row of a height (or that of a transaction), or a full page of them.
ReadRows ==
    /\ kind \in {"block", "page"} /\ req.pc = "none"
    /\ \E top \in Heights :
         LET rows == IF kind = "block" THEN {top} ELSE Monus(top + 1, PageSize)..top IN
         /\ \A h \in rows : arch[h] # NoHash
         /\ req' = [Nothing EXCEPT !.pc = "mark", !.upTo = top,
                                   !.blocks = {<<h, arch[h]>> : h \in rows},
                                   !.quiet = (unseen = "none"), !.tip = last,
                                   !.reorgs = node.reorgs]
    /\ UNCHANGED <<node, arch, last, lowest, fills, loop, unseen, clock, kind, cache, answer>>

\* indexed_tip, a statement of its own, counts the confirmations of the newest row; an
\* answer not marked final is fetched again by whoever wants to know.  That a block whose
\* header figures are not to be had is not marked either is left out: one answer fewer.
MarkFinal ==
    /\ req.pc = "mark"
    /\ answer' = IF Final(req.upTo)
                 THEN [req EXCEPT !.pc = "none",
                                  !.quiet = @ /\ (node.reorgs = req.reorgs \/ last = req.tip)]
                 ELSE answer
    /\ req' = Nothing
    /\ UNCHANGED <<node, arch, last, lowest, fills, loop, unseen, clock, kind, cache>>

-----------------------------------------------------------------------------
(* finalized_window: the headers that decide the next expansion.           *)

\* Variant the runs must reject: the newest headers are taken.
WindowOf_Newest(tip) == Monus(tip + 1, WindowSize)..tip

\* tip - 35 .. tip - 18; none on a chain too young.
WindowOf(tip) ==
    LET end == tip - FinalConfirmations IN
    IF end < WindowSize - 1 THEN {} ELSE end - (WindowSize - 1)..end

AskWindow ==
    /\ kind = "window" /\ req.pc = "none"
    /\ IF cache.tip = node.tip
       THEN answer' = cache /\ UNCHANGED req
       ELSE /\ req' = [Nothing EXCEPT !.pc = "fetch", !.tip = node.tip, !.todo = WindowOf(node.tip)]
            /\ UNCHANGED answer
    /\ UNCHANGED <<node, arch, last, lowest, fills, loop, unseen, clock, kind, cache>>

\* One header call after the other.
FetchHeader ==
    /\ req.pc = "fetch"
    /\ \E h \in req.todo :
         /\ \A g \in req.todo : h <= g
         /\ req' = [req EXCEPT !.todo = @ \ {h}, !.blocks = @ \cup {<<h, NodeHash(h)>>}]
    /\ UNCHANGED <<node, arch, last, lowest, fills, loop, unseen, clock, kind, cache, answer>>

StoreWindow ==
    /\ req.pc = "fetch" /\ req.todo = {}
    /\ cache' = [req EXCEPT !.pc = "none"]
    /\ answer' = [req EXCEPT !.pc = "none"]
    /\ req' = Nothing
    /\ UNCHANGED <<node, arch, last, lowest, fills, loop, unseen, clock, kind>>

-----------------------------------------------------------------------------
Request ==
    \/ LookUp \/ MakeFigures \/ StoreFigures
    \/ ReadRows \/ MarkFinal
    \/ AskWindow \/ FetchHeader \/ StoreWindow

Writer ==
    BeginPoll \/ RecordBlock \/ ReplaceBlock \/ EndPoll \/ BreakOff \/ CopyHeader \/ ChangeOther

Next == NodeMoves \/ Tick \/ Writer \/ Request

Spec == Init /\ [][Next]_vars

-----------------------------------------------------------------------------
(* Properties.                                                             *)

\* An answer marked final names the chain's blocks for ever, whatever is recorded, replaced,
\* filled or pruned between its rows and the tip they are counted from: if the loop had
\* worked off every reorganization when the rows were read, and not both another one came
\* and blocks were recorded before the tip was.
FinalAnswersStand ==
    kind \in {"block", "page"} /\ answer.quiet =>
        \A b \in answer.blocks : b[2] = NodeHash(b[1])

\* The cached window holds the chain's headers whatever the node did between the calls
\* and since: it reaches down from where nothing can be replaced any more.
WindowIsPermanent ==
    kind = "window" => \A b \in answer.blocks : b[2] = NodeHash(b[1])

\* Figures, from the cache or not, were true less than their age limit ago, whatever was
\* recorded, replaced, filled or pruned since.
FiguresAreRecent ==
    kind \in Figures /\ answer.outdated # Never => answer.at - answer.outdated < MaxAge[kind]

\* Figures take in every block the loop had recorded when they were asked for, also when
\* blocks are recorded while the entry is made.
FiguresReachTheTip ==
    kind \in Figures \cup {"history"} /\ answer.tip # NoHash => answer.tip <= answer.upTo
=============================================================================
