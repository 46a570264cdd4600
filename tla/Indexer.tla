------------------------------- MODULE Indexer -------------------------------
(***************************************************************************)
(* The recording loop of permanode/src/indexer.rs (run, poll_once and what *)
(* they call) next to the gap filler of permanode/src/import.rs, over the  *)
(* tables of core/src/db.rs, against a node that extends and reorganizes   *)
(* its chain at any moment.                                                *)
(*                                                                         *)
(* One action is one RPC call with what the code decides from its answer,  *)
(* or one committed transaction.  The process can be killed, or a call can *)
(* fail and abort the poll, between any two of them.                       *)
(***************************************************************************)
EXTENDS NodeChain

CONSTANTS
    NoHash,            \* "no canonical block on record"
    RecheckDepth,      \* cfg.reorg_check_depth
    GetblockFallback,  \* cfg.getblock_fallback
    PruneDepth,        \* cfg.retention_days as a distance from the tip; 0 keeps everything
    PeersOn,           \* cfg.backfill_peers is not empty, or import-bodies is run
    InterruptAt,       \* the places of the loop at which it may be cut short
    MaxInterrupts,     \* bound: interruptions in a behaviour
    NodeStaysInReach   \* environment: see StaleWithinReach

INSTANCE BlockStore WITH Hashes <- Chains

\* Places of the indexer thread; "down" while the process is not running.
Places == { "down", "idle", "ingest", "store", "advance", "recheck", "replace", "swap",
            "gaps", "retry", "recover" }

NoHeight == -1

ASSUME IndexerAssumption ==
    /\ NoHash \notin Chains
    /\ RecheckDepth \in Nat /\ PruneDepth \in Nat /\ MaxInterrupts \in Nat
    /\ GetblockFallback \in BOOLEAN /\ PeersOn \in BOOLEAN /\ NodeStaysInReach \in BOOLEAN
    /\ InterruptAt \subseteq Places \ {"down"}

VARIABLES
    db,             \* [Heights -> ShelfType]: the database
    lastProcessed,  \* indexer_state.last_processed_height, NoHeight before it is set
    ix,             \* the indexer thread: where it is and what it holds in memory
    filler,         \* the peer-backfill thread (or an import-bodies process)
    interrupts,     \* how often the loop was cut short
    calm            \* history: no poll failed and the node stood still since the poll began

vars == <<node, db, lastProcessed, ix, filler, interrupts, calm>>

-----------------------------------------------------------------------------
(* The indexer thread's memory: the height it works on, the tip block_count *)
(* gave when the poll began, the hash and whether the body is at hand, the  *)
(* hash a reorg replaces, and the open gaps still to be retried.            *)

IxType ==
    [ pc : Places, h : Heights, tip : Heights, hash : Chains \cup {NoHash},
      body : BOOLEAN, old : Chains \cup {NoHash}, todo : SUBSET Heights ]

At(pc, h, tip) ==
    [ pc |-> pc, h |-> h, tip |-> tip, hash |-> NoHash, body |-> FALSE, old |-> NoHash,
      todo |-> {} ]

Down == At("down", 0, 0)
Idle == At("idle", 0, 0)

\* The two loops of poll_once over heights, each step one iteration.
RecheckFrom(h, tip) == IF h <= tip THEN At("recheck", h, tip) ELSE At("gaps", 0, tip)

\* Variant the runs must reject: only the tip is looked at.
Recheck_TipOnly(tip) == RecheckFrom(tip, tip)

Recheck(tip) == RecheckFrom(Monus(tip, RecheckDepth), tip)

IngestFrom(h, tip) == IF h <= tip THEN At("ingest", h, tip) ELSE Recheck(tip)

(* The filler's memory: the open gaps it listed and the block whose body it *)
(* is about to commit.                                                      *)
FillerType ==
    [ pc : {"idle", "ask", "commit"}, todo : SUBSET Heights, h : Heights,
      hash : Chains \cup {NoHash} ]

FillerIdle == [pc |-> "idle", todo |-> {}, h |-> 0, hash |-> NoHash]

\* The least element of S, as a set; empty if S is.
Lowest(S) == {h \in S : \A g \in S : h <= g}

\* open_gap_heights
OpenGaps(from) == {h \in Heights : from <= h /\ db[h].gap = "open"}

-----------------------------------------------------------------------------
TypeOK ==
    /\ node \in NodeType
    /\ db \in [Heights -> ShelfType]
    /\ lastProcessed \in Heights \cup {NoHeight}
    /\ ix \in IxType
    /\ filler \in FillerType
    /\ interrupts \in 0..MaxInterrupts
    /\ calm \in BOOLEAN

Init ==
    /\ NodeInit
    /\ db = [h \in Heights |-> EmptyShelf]
    /\ lastProcessed = NoHeight
    /\ ix = Down
    /\ filler = FillerIdle
    /\ interrupts = 0
    /\ calm = FALSE

-----------------------------------------------------------------------------
(* The node.                                                               *)

\* What "the indexer keeps up" means: a recorded block the node has replaced is
\* still inside the window the next poll re-checks.
StaleWithinReach ==
    \A h \in Heights :
        LET x == CanonicalHash(db[h]) IN
        x # NoHash /\ h <= node.tip /\ x # NodeHash(h) => node.tip <= h + RecheckDepth

NodeMoves ==
    /\ NodeStep
    /\ calm' = FALSE
    /\ UNCHANGED <<db, lastProcessed, ix, filler, interrupts>>
    /\ NodeStaysInReach => StaleWithinReach'

-----------------------------------------------------------------------------
(* run: process start, kill, and a poll that ends in an error.             *)

\* run, before its loop: resolve_gaps_with_bodies.
Start ==
    /\ ix.pc = "down"
    /\ db' = [h \in Heights |-> ResolveGapWithBody(db[h])]
    /\ ix' = Idle
    /\ UNCHANGED <<node, lastProcessed, filler, interrupts, calm>>

\* Everything in memory is lost; what was committed stays.
Killed ==
    /\ ix.pc \in InterruptAt
    /\ interrupts < MaxInterrupts
    /\ interrupts' = interrupts + 1
    /\ ix' = Down
    /\ filler' = FillerIdle
    /\ calm' = FALSE
    /\ UNCHANGED <<node, db, lastProcessed>>

\* An RPC or database error: poll_once returns it, run logs it and waits.
PollFails ==
    /\ ix.pc \in InterruptAt \ {"idle"}
    /\ interrupts < MaxInterrupts
    /\ interrupts' = interrupts + 1
    /\ ix' = Idle
    /\ calm' = FALSE
    /\ UNCHANGED <<node, db, lastProcessed, filler>>

-----------------------------------------------------------------------------
(* poll_once: ingest.                                                      *)

\* first_start_height: the lowest height of the run of bodies that ends at the tip;
\* the tip itself if the node has none.
FirstStarts ==
    LET served == {node.tip} \cup {h \in Heights : InWindow(h)} IN
    IF BodiesMayBeMissing THEN served ELSE Lowest(served)

LastHeights ==
    IF lastProcessed = NoHeight THEN {Monus(s, 1) : s \in FirstStarts} ELSE {lastProcessed}

\* block_count and the state row.
BeginPoll ==
    /\ ix.pc = "idle"
    /\ \E last \in LastHeights : ix' = IngestFrom(last + 1, node.tip)
    /\ calm' = TRUE
    /\ UNCHANGED <<node, db, lastProcessed, filler, interrupts>>

\* ingest_height, its RPC calls: no header yet ends the loop; else the block's hash
\* and whether resolve_body found its body.
FetchBlock ==
    /\ ix.pc = "ingest"
    /\ \/ /\ ~HasHeader(ix.h)
          /\ ix' = Recheck(ix.tip)
       \/ /\ HasHeader(ix.h)
          /\ \E b \in BodyAnswers(ix.h) :
               ix' = [ix EXCEPT !.pc = "store", !.hash = NodeHash(ix.h), !.body = b]
    /\ UNCHANGED <<node, db, lastProcessed, filler, interrupts, calm>>

\* ingest_height, its transaction.
CommitBlock ==
    /\ ix.pc = "store"
    /\ db' = [db EXCEPT ![ix.h] =
                IF ix.body THEN StoreBlock(@, ix.hash) ELSE RecordGapBlock(@, ix.hash)]
    /\ ix' = At("advance", ix.h, ix.tip)
    /\ UNCHANGED <<node, lastProcessed, filler, interrupts, calm>>

\* set_state, a commit of its own.
Advance ==
    /\ ix.pc = "advance"
    /\ lastProcessed' = ix.h
    /\ ix' = IngestFrom(ix.h + 1, ix.tip)
    /\ UNCHANGED <<node, db, filler, interrupts, calm>>

-----------------------------------------------------------------------------
(* poll_once: the reorg check.                                             *)

\* recheck_height up to the point where a replaced block is found.
CheckHeader ==
    LET known == CanonicalHash(db[ix.h]) IN
    /\ ix.pc = "recheck"
    /\ ix' = IF HasHeader(ix.h) /\ known # NoHash /\ known # NodeHash(ix.h)
             THEN [ix EXCEPT !.pc = "replace", !.old = known]
             ELSE RecheckFrom(ix.h + 1, ix.tip)
    /\ UNCHANGED <<node, db, lastProcessed, filler, interrupts, calm>>

\* getBlockDetails of the replacement, before the database is touched.
FetchReplacement ==
    /\ ix.pc = "replace"
    /\ \/ /\ ~HasHeader(ix.h)
          /\ ix' = [ix EXCEPT !.pc = "swap"]
       \/ /\ HasHeader(ix.h)
          /\ \E b \in BodyAnswers(ix.h) :
               ix' = [ix EXCEPT !.pc = "swap", !.hash = NodeHash(ix.h), !.body = b]
    /\ UNCHANGED <<node, db, lastProcessed, filler, interrupts, calm>>

\* Variant the runs must reject: without a body nothing but the gap is recorded.
RecordReplacement_GapOnly(s, x, body) ==
    IF x # NoHash /\ body THEN StoreBlock(s, x) ELSE RecordGap(s)

\* Variant the runs must reject: without an answer nothing is recorded.
RecordReplacement_Nothing(s, x, body) ==
    IF x = NoHash THEN s ELSE IF body THEN StoreBlock(s, x) ELSE RecordGapBlock(s, x)

\* The replacement is recorded the way the answer allows: a block, a block without
\* its body, or nothing but a gap entry.
RecordReplacement(s, x, body) ==
    IF x = NoHash THEN RecordGap(s)
    ELSE IF body THEN StoreBlock(s, x) ELSE RecordGapBlock(s, x)

CommitReplacement ==
    /\ ix.pc = "swap"
    /\ db' = [db EXCEPT ![ix.h] =
                RecordReplacement(MarkOrphaned(@, ix.old), ix.hash, ix.body)]
    /\ ix' = RecheckFrom(ix.h + 1, ix.tip)
    /\ UNCHANGED <<node, lastProcessed, filler, interrupts, calm>>

-----------------------------------------------------------------------------
(* poll_once: open gaps inside the serving window are tried again.         *)

ListGaps ==
    /\ ix.pc = "gaps"
    /\ ix' = IF GetblockFallback
             THEN [At("retry", 0, ix.tip) EXCEPT
                      !.todo = OpenGaps(Monus(ix.tip, ServingWindow))]
             ELSE Idle
    /\ UNCHANGED <<node, db, lastProcessed, filler, interrupts, calm>>

\* backfill_gap up to getBlock's answer, which counts only for the recorded hash.
RetryGap ==
    /\ ix.pc = "retry"
    /\ \E h \in Lowest(ix.todo) : \E b \in BodyAnswers(h) :
         LET x == CanonicalHash(db[h]) IN
         ix' = IF x # NoHash /\ Uncaptured(db[h], x) /\ b /\ NodeHash(h) = x
               THEN [ix EXCEPT !.pc = "recover", !.h = h, !.hash = x, !.todo = @ \ {h}]
               ELSE [ix EXCEPT !.todo = @ \ {h}]
    /\ UNCHANGED <<node, db, lastProcessed, filler, interrupts, calm>>

CommitRecovered ==
    /\ ix.pc = "recover"
    /\ db' = [db EXCEPT ![ix.h] = FillBody(@, ix.hash)]
    /\ ix' = [At("retry", 0, ix.tip) EXCEPT !.todo = ix.todo]
    /\ UNCHANGED <<node, lastProcessed, filler, interrupts, calm>>

EndPoll ==
    /\ ix.pc = "retry" /\ ix.todo = {}
    /\ ix' = Idle
    /\ UNCHANGED <<node, db, lastProcessed, filler, interrupts, calm>>

-----------------------------------------------------------------------------
(* run: pruning, between polls, one transaction per block.                 *)

BeyondRetention(h) == PruneDepth > 0 /\ h + PruneDepth <= node.tip

Prune ==
    /\ ix.pc = "idle"
    /\ \E h \in Heights : \E x \in db[h].captured :
         /\ BeyondRetention(h)
         /\ db' = [db EXCEPT ![h] = PruneBlock(@, x)]
    /\ UNCHANGED <<node, lastProcessed, ix, filler, interrupts, calm>>

-----------------------------------------------------------------------------
(* fill_gaps, on a connection of its own.                                  *)

\* open_gap_heights(conn, 0)
FillerList ==
    /\ PeersOn
    /\ ix.pc # "down" /\ filler.pc = "idle"
    /\ OpenGaps(0) # {}
    /\ filler' = [FillerIdle EXCEPT !.pc = "ask", !.todo = OpenGaps(0)]
    /\ UNCHANGED <<node, db, lastProcessed, ix, interrupts, calm>>

\* What is missing at the lowest listed height is looked up and asked for; a body
\* counts if it fits the recorded header, so it is the body of the recorded hash.
FillerAsk ==
    /\ filler.pc = "ask"
    /\ \E h \in Lowest(filler.todo) : \E found \in BOOLEAN :
         LET x == CanonicalHash(db[h]) IN
         filler' = IF x # NoHash /\ Uncaptured(db[h], x) /\ found
                   THEN [pc |-> "commit", todo |-> filler.todo \ {h}, h |-> h, hash |-> x]
                   ELSE [filler EXCEPT !.todo = @ \ {h}]
    /\ UNCHANGED <<node, db, lastProcessed, ix, interrupts, calm>>

\* The transaction goes by the row found before the network call and closes the
\* height's gap entry.
FillerCommit ==
    /\ filler.pc = "commit"
    /\ db' = [db EXCEPT ![filler.h] = FillBody(@, filler.hash)]
    /\ filler' = [FillerIdle EXCEPT !.pc = "ask", !.todo = filler.todo]
    /\ UNCHANGED <<node, lastProcessed, ix, interrupts, calm>>

\* resolve_gaps_with_bodies at the end of a round.
FillerEnd ==
    /\ filler.pc = "ask" /\ filler.todo = {}
    /\ db' = [h \in Heights |-> ResolveGapWithBody(db[h])]
    /\ filler' = FillerIdle
    /\ UNCHANGED <<node, lastProcessed, ix, interrupts, calm>>

-----------------------------------------------------------------------------
Poll ==
    \/ BeginPoll
    \/ FetchBlock \/ CommitBlock \/ Advance
    \/ CheckHeader \/ FetchReplacement \/ CommitReplacement
    \/ ListGaps \/ RetryGap \/ CommitRecovered \/ EndPoll

Filler == FillerList \/ FillerAsk \/ FillerCommit \/ FillerEnd

Next ==
    \/ NodeMoves
    \/ Start \/ Killed \/ PollFails
    \/ Poll
    \/ Prune
    \/ Filler

Spec == Init /\ [][Next]_vars

\* The loop never stops on its own and the service manager restarts it.  Nothing is
\* asked of the node, the peers, the pruning or the interruptions.
FairSpec == Spec /\ WF_vars(Start) /\ WF_vars(Poll)

-----------------------------------------------------------------------------
(* The archive a reader sees: per height the newest canonical block, and    *)
(* whether its body is on record.                                           *)

Shown    == [h \in Heights |-> CanonicalHash(db[h])]
Complete == {h \in Heights : CanonicalHash(db[h]) \in db[h].captured}

Promise == INSTANCE Archive
    WITH Blocks <- Chains, NoBlock <- NoHash, shown <- Shown, complete <- Complete

-----------------------------------------------------------------------------
(* Properties.                                                             *)

\* The loop, the peers and every interruption together only ever do to the archive
\* what Archive.tla allows.
ImplementsArchive == Promise!Spec

\* A height has at most one canonical block.  poll_once looks only at the newest one,
\* so a second one would stay; queries.rs shows every canonical row.
OneCanonicalBlock ==
    \A h \in Heights : \A x, y \in Chains :
        IsCanonical(db[h], x) /\ IsCanonical(db[h], y) => x = y

\* From the first recorded height up to last_processed_height every height has a
\* canonical block: no height is stepped over, and a replacement never leaves one empty.
NoHeightSkipped ==
    \A g, h \in Heights :
        g <= h /\ h <= lastProcessed /\ AnyRow(db[g]) => AnyCanonical(db[h])

\* A block the archive shows without its body has an entry in the gap list (unless
\* retention removed the body).
MissingBodyHasGapEntry ==
    \A h \in Heights : \A x \in Chains :
        IsCanonical(db[h], x) /\ x \notin db[h].captured /\ ~BeyondRetention(h)
            => db[h].gap # "none"

\* A recorded height that has lost its canonical block is at least in the gap list.
EmptiedHeightHasGapEntry ==
    \A g, h \in Heights :
        g <= h /\ h <= lastProcessed /\ AnyRow(db[g]) /\ ~AnyCanonical(db[h])
            => db[h].gap # "none"

\* When a poll has gone through and the node stood still meanwhile, the archive and
\* the node agree on the whole window the poll re-checked.
QuietPollAgrees ==
    ix.pc = "idle" /\ calm =>
        \A h \in Monus(node.tip, RecheckDepth)..node.tip :
            AnyCanonical(db[h]) => CanonicalHash(db[h]) = NodeHash(h)

\* The recorded canonical blocks form a chain: each names the one below as its parent.
\* Heights the loop has not re-checked since the node last moved are left out.
QuietArchiveIsLinked ==
    ix.pc = "idle" /\ calm =>
        \A h \in 1..node.tip :
            LET x == CanonicalHash(db[h])
                p == CanonicalHash(db[h - 1])
            IN  x # NoHash /\ p # NoHash => p = ParentOf(x, h)

\* Nothing is overwritten: a recorded block stays on record, and it keeps its body
\* until retention removes it - also when it is orphaned.
NothingLost ==
    [][ \A h \in Heights : \A x \in Chains :
          /\ HasRow(db[h], x) => HasRow(db[h], x)'
          /\ x \in db[h].txs => (x \in db[h].txs' \/ BeyondRetention(h)) ]_vars

\* Once the node has come to rest, the archive settles on the node's chain over every
\* height from the first recorded one to the tip.
ArchiveCatchesUp ==
    <>[](\A h \in Heights :
            h <= node.tip /\ (\E g \in 0..h : AnyRow(db[g]))
                => CanonicalHash(db[h]) = NodeHash(h))
=============================================================================
