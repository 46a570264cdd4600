----------------------------- MODULE RawArchive -----------------------------
(***************************************************************************)
(* The raw block archive (permanode/src/raw.rs, table raw_blocks) and      *)
(* everyone who writes it: the recording loop (keep_raw and the retries of *)
(* poll_once), the peer-backfill thread and an import-bodies process       *)
(* (fill_gaps and fill_raw of import.rs), and retention.                   *)
(*                                                                         *)
(* The loop is coarser than in Indexer.tla: one action asks for a block,   *)
(* the next asks for its bytes and commits both.  What the bytes depend on *)
(* stays apart: getBlockDetails and getBlock are two calls, a list of      *)
(* candidates is older than the bytes found for it, and a filler's network *)
(* call lies between its reading and its writing.  archive_raw_blocks and  *)
(* getblock_fallback are on.  Bytes are named by the block they are.       *)
(***************************************************************************)
EXTENDS NodeChain, FiniteSets

CONSTANTS
    NoHash,       \* no block, no bytes
    StartLast,    \* an older version recorded the heights up to here: bodies, no bytes
    RecheckDepth, \* cfg.reorg_check_depth
    PruneDepth,   \* cfg.retention_days as a distance from the tip; 0 keeps everything
    Batch,        \* PEER_BACKFILL_BATCH
    PeerHolds,    \* heights of which the other permanode has every block's body
    MaxFails      \* bound: failed calls, wrong bytes and lost processes in a behaviour

INSTANCE BlockStore WITH Hashes <- Chains

ASSUME RawAssumption ==
    /\ NoHash \notin Chains
    /\ StartLast \in 0..StartTip
    /\ RecheckDepth \in Nat /\ PruneDepth \in Nat /\ MaxFails \in Nat
    /\ Batch \in Nat \ {0}
    /\ PeerHolds \subseteq Heights

VARIABLES
    db,      \* [Heights -> ShelfType]: blocks, status log, bodies, gap list
    raw,     \* raw_blocks: per height and block the bytes kept for it
    last,    \* indexer_state.last_processed_height
    loop,    \* the recording loop's memory
    filler,  \* the memory of the peer thread or of an import-bodies command
    fails    \* how much has gone wrong

vars == <<node, db, raw, last, loop, filler, fails>>

Bytes     == Chains \cup {NoHash}
Candidate == [h : Heights, hash : Chains]   \* a block somebody wants bytes for

LoopType ==
    [ pc : {"ingest", "recheck", "commit", "gaps", "raw"}, h : Heights, hash : Bytes,
      body : BOOLEAN, gaps : SUBSET Heights, todo : SUBSET Candidate ]

LoopAt(pc) ==
    [pc |-> pc, h |-> 0, hash |-> NoHash, body |-> FALSE, gaps |-> {}, todo |-> {}]

FillerType ==
    [ pc : {"rest", "gaps", "body", "list", "raw", "store"}, by : {"peer", "import"},
      gaps : SUBSET Heights, todo : SUBSET Candidate, h : Heights, hash : Bytes,
      bytes : Bytes ]

FillerAt(pc, by) ==
    [ pc |-> pc, by |-> by, gaps |-> {}, todo |-> {}, h |-> 0, hash |-> NoHash,
      bytes |-> NoHash ]

-----------------------------------------------------------------------------
(* raw.rs                                                                  *)

\* verify, through decode_bound_block: height, hash, tx_root and encoding fit a block
\* on record only if the bytes are that block.
Proves(bytes, x) == bytes = x

\* Variant the runs must reject: the bytes are stored as they come.
KeepRaw_Unchecked(r, s, h, x, bytes) ==
    IF HasRow(s, x) /\ r[h][x] = NoHash THEN [r EXCEPT ![h][x] = bytes] ELSE r

\* store and keep_raw: the row must be on record, the first bytes stay, and they must
\* prove to be the block; else the bytes are left out.
KeepRaw(r, s, h, x, bytes) ==
    IF HasRow(s, x) /\ r[h][x] = NoHash /\ Proves(bytes, x)
    THEN [r EXCEPT ![h][x] = bytes]
    ELSE r

\* Variant the runs must reject: a block of which the body is missing is a candidate too.
MissingRaw_AnyRow(from, to) ==
    {c \in Candidate :
        from <= c.h /\ c.h <= to /\ IsCanonical(db[c.h], c.hash) /\ raw[c.h][c.hash] = NoHash}

\* Variant the runs must reject: the upper end is left out.
MissingRaw_Below(from, to) ==
    {c \in Candidate :
        /\ from <= c.h /\ c.h < to
        /\ IsCanonical(db[c.h], c.hash) /\ c.hash \in db[c.h].captured
        /\ raw[c.h][c.hash] = NoHash}

\* blocks_missing_raw, without its limit.
MissingRaw(from, to) ==
    {c \in Candidate :
        /\ from <= c.h /\ c.h <= to
        /\ IsCanonical(db[c.h], c.hash) /\ c.hash \in db[c.h].captured
        /\ raw[c.h][c.hash] = NoHash}

\* ORDER BY height LIMIT n, and the first of a list.
FirstHeights(S, n) == {h \in S : Cardinality({g \in S : g < h}) < n}
FirstOf(C)         == {c \in C : \A d \in C : c.h <= d.h}

-----------------------------------------------------------------------------
(* What the calls over the network bring.                                  *)

\* getBlock: the node's block inside its serving window.  A failed call brings nothing.
NodeBytes(h) ==
    IF ~InWindow(h) THEN {NoHash}
    ELSE IF fails < MaxFails THEN {NodeHash(h), NoHash} ELSE {NodeHash(h)}

NodeFailed(h, bytes) == IF InWindow(h) /\ bytes = NoHash THEN 1 ELSE 0

\* The bytes another permanode (or a copied database) hands over for block x: the
\* block's, nothing if it kept none, anything if it misbehaves.
OfferedBytes(h, x) ==
    IF h \notin PeerHolds THEN {NoHash} ELSE IF fails < MaxFails THEN Bytes ELSE {x, NoHash}

OfferIsBad(bytes, x) == IF bytes \in {x, NoHash} THEN 0 ELSE 1

-----------------------------------------------------------------------------
RawTypeOK ==
    /\ node \in NodeType
    /\ db \in [Heights -> ShelfType]
    /\ raw \in [Heights -> [Chains -> Bytes]]
    /\ last \in Heights
    /\ loop \in LoopType
    /\ filler \in FillerType
    /\ fails \in 0..MaxFails

\* The first run after an upgrade: heights up to StartLast are on record without bytes.
Init ==
    /\ NodeInit
    /\ db = [h \in Heights |-> IF h <= StartLast THEN StoreBlock(EmptyShelf, Main) ELSE EmptyShelf]
    /\ raw = [h \in Heights |-> [x \in Chains |-> NoHash]]
    /\ last = StartLast
    /\ loop = LoopAt("ingest")
    /\ filler = FillerAt("rest", "peer")
    /\ fails = 0

NodeMoves == NodeStep /\ UNCHANGED <<db, raw, last, loop, filler, fails>>

-----------------------------------------------------------------------------
(* poll_once.                                                              *)

\* getBlockDetails of height h: its hash, and whether the body came with it.
AskDetails(h) ==
    /\ \E b \in BodyAnswers(h) :
         loop' = [LoopAt("commit") EXCEPT !.h = h, !.hash = NodeHash(h), !.body = b]
    /\ UNCHANGED <<node, db, raw, last, filler, fails>>

Ingest ==
    /\ loop.pc = "ingest"
    /\ last < node.tip
    /\ AskDetails(last + 1)

IngestDone ==
    /\ loop.pc = "ingest"
    /\ node.tip <= last
    /\ loop' = LoopAt("recheck")
    /\ UNCHANGED <<node, db, raw, last, filler, fails>>

\* The heights of the re-checked window whose block the node has replaced.
Replaced ==
    {h \in Monus(node.tip, RecheckDepth)..node.tip :
        CanonicalHash(db[h]) \notin {NoHash, NodeHash(h)}}

Recheck ==
    /\ loop.pc = "recheck"
    /\ \E h \in FirstHeights(Replaced, 1) : AskDetails(h)

RecheckDone ==
    /\ loop.pc = "recheck"
    /\ Replaced = {}
    /\ loop' = [LoopAt("gaps") EXCEPT
                   !.gaps = {h \in Heights :
                               Monus(node.tip, ServingWindow) <= h /\ db[h].gap = "open"}]
    /\ UNCHANGED <<node, db, raw, last, filler, fails>>

\* ingest_height and recheck_height, getBlock and the transaction.  Bytes stand in for a
\* missing body only if they decode to the block; otherwise they are just kept, or not.
Commit ==
    /\ loop.pc = "commit"
    /\ \E bytes \in NodeBytes(loop.h) :
         LET h == loop.h
             x == loop.hash
             old == CanonicalHash(db[h])
             s == IF h <= last /\ old # NoHash THEN MarkOrphaned(db[h], old) ELSE db[h]
             t == IF loop.body \/ Proves(bytes, x) THEN StoreBlock(s, x) ELSE RecordGapBlock(s, x)
         IN  /\ db' = [db EXCEPT ![h] = t]
             /\ raw' = IF loop.body \/ Proves(bytes, x) THEN KeepRaw(raw, t, h, x, bytes) ELSE raw
             /\ fails' = fails + NodeFailed(h, bytes)
    /\ last' = IF last < loop.h THEN loop.h ELSE last
    /\ loop' = LoopAt(IF last < loop.h THEN "ingest" ELSE "recheck")
    /\ UNCHANGED <<node, filler>>

\* backfill_gap
RetryGap ==
    /\ loop.pc = "gaps"
    /\ \E h \in FirstHeights(loop.gaps, 1) : \E bytes \in NodeBytes(h) :
         LET x == CanonicalHash(db[h]) IN
         /\ IF x # NoHash /\ Uncaptured(db[h], x) /\ Proves(bytes, x)
            THEN /\ db' = [db EXCEPT ![h] = FillBody(@, x)]
                 /\ raw' = KeepRaw(raw, db[h], h, x, bytes)
            ELSE UNCHANGED <<db, raw>>
         /\ loop' = [loop EXCEPT !.gaps = @ \ {h}]
         /\ fails' = fails + NodeFailed(h, bytes)
    /\ UNCHANGED <<node, last, filler>>

\* Raw bytes that could not be kept at first ingest.
ListRaw ==
    /\ loop.pc = "gaps" /\ loop.gaps = {}
    /\ loop' = [LoopAt("raw") EXCEPT
                   !.todo = MissingRaw(Monus(node.tip, ServingWindow), node.tip)]
    /\ UNCHANGED <<node, db, raw, last, filler, fails>>

RetryRaw ==
    /\ loop.pc = "raw"
    /\ \E c \in FirstOf(loop.todo) : \E bytes \in NodeBytes(c.h) :
         /\ raw' = KeepRaw(raw, db[c.h], c.h, c.hash, bytes)
         /\ loop' = [loop EXCEPT !.todo = @ \ {c}]
         /\ fails' = fails + NodeFailed(c.h, bytes)
    /\ UNCHANGED <<node, db, last, filler>>

EndPoll ==
    /\ loop.pc = "raw" /\ loop.todo = {}
    /\ loop' = LoopAt("ingest")
    /\ UNCHANGED <<node, db, raw, last, filler, fails>>

-----------------------------------------------------------------------------
(* Retention, between polls.                                               *)

BeyondRetention(h) == PruneDepth > 0 /\ h + PruneDepth <= node.tip

\* The statement on raw_blocks in prune_older_than.
Pruned(r, h, x) == [r EXCEPT ![h][x] = NoHash]

Prune ==
    /\ loop.pc = "ingest"
    /\ \E h \in Heights : \E x \in db[h].captured :
         /\ BeyondRetention(h)
         /\ db' = [db EXCEPT ![h] = PruneBlock(@, x)]
         /\ raw' = Pruned(raw, h, x)
    /\ UNCHANGED <<node, last, loop, filler, fails>>

-----------------------------------------------------------------------------
(* fill_gaps and fill_raw, run by the peer thread and by the command; the   *)
(* two take turns here.                                                    *)

OpenGaps == {h \in Heights : db[h].gap = "open"}

\* Variant the runs must reject: the gaps the loop retries are offered, not the others.
OfferedGaps_InWindow(by) == {h \in OpenGaps : Monus(last, ServingWindow) < h}

\* open_gap_heights(conn, 0), take(max): the thread offers a batch, the command all.
OfferedGaps(by) == IF by = "peer" THEN FirstHeights(OpenGaps, Batch) ELSE OpenGaps

GapList ==
    /\ filler.pc = "rest"
    /\ \E by \in {"peer", "import"} :
         filler' = [FillerAt("gaps", by) EXCEPT !.gaps = OfferedGaps(by)]
    /\ UNCHANGED <<node, db, raw, last, loop, fails>>

\* find, for the lowest listed gap: the block's bytes, or its body without bytes if
\* that is what the other side has (bytes = NoHash), or nothing usable.
GapAsk ==
    /\ filler.pc = "gaps"
    /\ \E h \in FirstHeights(filler.gaps, 1) :
         LET x == CanonicalHash(db[h])
             wanted == x # NoHash /\ Uncaptured(db[h], x)
             next == [filler EXCEPT !.gaps = @ \ {h}]
         IN  \E bytes \in IF wanted THEN OfferedBytes(h, x) ELSE {NoHash} :
               /\ filler' = IF wanted /\ h \in PeerHolds /\ bytes \in {x, NoHash}
                            THEN [next EXCEPT !.pc = "body", !.h = h, !.hash = x, !.bytes = bytes]
                            ELSE next
               /\ fails' = fails + (IF wanted THEN OfferIsBad(bytes, x) ELSE 0)
    /\ UNCHANGED <<node, db, raw, last, loop>>

\* The transaction of fill_gaps, for the row found before the network call.
GapCommit ==
    LET h == filler.h IN
    /\ filler.pc = "body"
    /\ db' = [db EXCEPT ![h] = FillBody(@, filler.hash)]
    /\ raw' = KeepRaw(raw, db[h], h, filler.hash, filler.bytes)
    /\ filler' = [FillerAt("gaps", filler.by) EXCEPT !.gaps = filler.gaps]
    /\ UNCHANGED <<node, last, loop, fails>>

\* resolve_gaps_with_bodies
GapEnd ==
    /\ filler.pc = "gaps" /\ filler.gaps = {}
    /\ db' = [h \in Heights |-> ResolveGapWithBody(db[h])]
    /\ filler' = FillerAt("list", filler.by)
    /\ UNCHANGED <<node, raw, last, loop, fails>>

\* Where raw bytes are asked for: by the command everywhere, by the thread from the first
\* height the peer kept bytes for up to the serving window.
RawWanted(by) ==
    IF by = "import" THEN MissingRaw(0, MaxHeight)
    ELSE LET C == UNION {MissingRaw(from, Monus(last, ServingWindow) - 1) :
                           from \in FirstHeights(PeerHolds, 1)}
         IN  {c \in C : c.h \in FirstHeights({d.h : d \in C}, Batch)}

RawList ==
    /\ filler.pc = "list"
    /\ filler' = [FillerAt("raw", filler.by) EXCEPT !.todo = RawWanted(filler.by)]
    /\ UNCHANGED <<node, db, raw, last, loop, fails>>

RawAsk ==
    /\ filler.pc = "raw"
    /\ \E c \in FirstOf(filler.todo) : \E bytes \in OfferedBytes(c.h, c.hash) :
         LET next == [filler EXCEPT !.todo = @ \ {c}] IN
         /\ filler' = IF bytes = NoHash THEN next
                      ELSE [next EXCEPT !.pc = "store", !.h = c.h, !.hash = c.hash,
                                        !.bytes = bytes]
         /\ fails' = fails + OfferIsBad(bytes, c.hash)
    /\ UNCHANGED <<node, db, raw, last, loop>>

\* The transaction of fill_raw looks the row up again; the body it was listed for may be
\* gone by then.
RawStore ==
    LET h == filler.h IN
    /\ filler.pc = "store"
    /\ raw' = KeepRaw(raw, db[h], h, filler.hash, filler.bytes)
    /\ filler' = [FillerAt("raw", filler.by) EXCEPT !.todo = filler.todo]
    /\ UNCHANGED <<node, db, last, loop, fails>>

RawEnd ==
    /\ filler.pc = "raw" /\ filler.todo = {}
    /\ filler' = FillerAt("rest", "peer")
    /\ UNCHANGED <<node, db, raw, last, loop, fails>>

-----------------------------------------------------------------------------
(* A poll that ends in an error or a killed process starts over; so does a  *)
(* filler whose peer cannot be reached or whose process dies.               *)
Cut ==
    /\ fails < MaxFails
    /\ fails' = fails + 1
    /\ \/ /\ loop # LoopAt("ingest")
          /\ loop' = LoopAt("ingest")
          /\ UNCHANGED filler
       \/ /\ filler.pc # "rest"
          /\ filler' = FillerAt("rest", "peer")
          /\ UNCHANGED loop
    /\ UNCHANGED <<node, db, raw, last>>

Poll ==
    \/ Ingest \/ IngestDone \/ Recheck \/ RecheckDone \/ Commit
    \/ RetryGap \/ ListRaw \/ RetryRaw \/ EndPoll

Fill ==
    \/ GapList \/ GapAsk \/ GapCommit \/ GapEnd
    \/ RawList \/ RawAsk \/ RawStore \/ RawEnd

Next == NodeMoves \/ Poll \/ Prune \/ Cut \/ Fill

Spec == Init /\ [][Next]_vars

\* The loop and the peer thread begin again for ever, whatever happened before.
FairSpec == Spec /\ WF_vars(Poll) /\ WF_vars(Fill)

-----------------------------------------------------------------------------
(* Properties.                                                             *)

\* Whoever wrote them and whatever the chain did between the calls: the bytes kept for a
\* block are that block.
RawIsTheBlock ==
    \A h \in Heights : \A x \in Chains : raw[h][x] \in {x, NoHash}

\* Bytes are kept next to a block's transactions: a block recorded without its body has
\* none, unless retention removed the body while a filler was asking for the bytes.
BytesNeedABody ==
    \A h \in Heights : \A x \in Chains :
        raw[h][x] # NoHash => x \in db[h].txs \/ BeyondRetention(h)

\* Once the node stands still, every recorded block it still serves has its bytes, and
\* its body unless the height's gap entry was closed before: also the blocks of an older
\* version and those a reorganization or a failed call kept from being stored at first.
ServedBytesAreKept ==
    <>[](\A h \in Heights :
            LET x == CanonicalHash(db[h]) IN
            InWindow(h) /\ x # NoHash /\ ~BeyondRetention(h)
                => raw[h][x] = x \/ (db[h].gap = "resolved" /\ x \notin db[h].captured))

\* Gaps still inside the serving window are retried: a block the node still serves does
\* not stay without its body.
ServedBodiesAreFetched ==
    <>[](\A h \in Heights :
            LET x == CanonicalHash(db[h]) IN
            InWindow(h) /\ x # NoHash /\ ~BeyondRetention(h) => x \in db[h].captured)

\* Every open gap whose block a peer has is filled in the end, whatever failed or was
\* offered before and whatever other gaps no peer can fill (Batch covers those).
PeersFillGaps ==
    \A h \in PeerHolds : db[h].gap = "open" ~> db[h].gap # "open"
=============================================================================
