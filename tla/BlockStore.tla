----------------------------- MODULE BlockStore -----------------------------
(***************************************************************************)
(* What core/src/db.rs keeps for one height, and the statements the indexer *)
(* runs on it inside a transaction.                                        *)
(*                                                                         *)
(* A shelf is everything on record at one height:                          *)
(*   status    per hash, where its newest block_status_log row puts it:    *)
(*             Absent    no row in blocks,                                 *)
(*             Orphaned  the newest log row says 'orphaned',               *)
(*             1         the newest log row says 'canonical', and it is    *)
(*                       the newest such row of the height,                *)
(*             2, 3 ..   canonical too, but another hash's log row of this *)
(*                       height is newer.                                  *)
(*   captured  hashes with body_captured = 1                               *)
(*   txs       hashes whose transaction rows are on record                 *)
(*   gap       the height's row in ingest_gaps                             *)
(* observed_at follows the log's row ids here: the clock does not run back. *)
(***************************************************************************)
EXTENDS Integers

CONSTANTS
    Hashes,   \* block hashes that can occur at a height
    NoHash    \* no hash

Absent   == -1
Orphaned == 0

GapStates == {"none", "open", "resolved"}

ShelfType ==
    [ status   : [Hashes -> Int],
      captured : SUBSET Hashes,
      txs      : SUBSET Hashes,
      gap      : GapStates ]

EmptyShelf ==
    [ status |-> [x \in Hashes |-> Absent], captured |-> {}, txs |-> {}, gap |-> "none" ]

HasRow(s, x)      == s.status[x] # Absent
IsCanonical(s, x) == s.status[x] >= 1
IsNewest(s, x)    == s.status[x] = 1

AnyRow(s)       == \E x \in Hashes : HasRow(s, x)
AnyCanonical(s) == \E x \in Hashes : IsCanonical(s, x)

\* canonical_hash_at: ORDER BY s.id DESC LIMIT 1 takes the newest canonical entry.
CanonicalHash(s) ==
    IF \E x \in Hashes : IsNewest(s, x)
    THEN CHOOSE x \in Hashes : IsNewest(s, x)
    ELSE NoHash

\* uncaptured_block_id: the row is there and its body is not.
Uncaptured(s, x) == HasRow(s, x) /\ x \notin s.captured

-----------------------------------------------------------------------------
(* Status log.  Each statement appends one row.                            *)

\* Variant the runs must reject: the orphan mark is never written.
MarkOrphaned_Forgotten(s, x) == s

\* A 'canonical' row for x: x becomes the newest canonical hash.
LogCanonical(s, x) ==
    [s EXCEPT !.status = [y \in Hashes |->
        IF y = x THEN 1
        ELSE IF s.status[y] >= 1 /\ (s.status[x] < 1 \/ s.status[y] < s.status[x])
        THEN s.status[y] + 1
        ELSE s.status[y]]]

\* An 'orphaned' row for x: the canonical hashes behind it move up.
MarkOrphaned(s, x) ==
    [s EXCEPT !.status = [y \in Hashes |->
        IF y = x THEN Orphaned
        ELSE IF s.status[x] >= 1 /\ s.status[y] > s.status[x]
        THEN s.status[y] - 1
        ELSE s.status[y]]]

-----------------------------------------------------------------------------
(* Gap list.  One row per height, kept for ever.                           *)

\* ON CONFLICT(height) DO NOTHING: only the first gap of a height is recorded.
RecordGap(s) == [s EXCEPT !.gap = IF @ = "none" THEN "open" ELSE @]

ResolveGap(s) == [s EXCEPT !.gap = IF @ = "open" THEN "resolved" ELSE @]

\* resolve_gaps_with_bodies, for one height.
ResolveGapWithBody(s) ==
    IF \E x \in s.captured : IsCanonical(s, x) THEN ResolveGap(s) ELSE s

-----------------------------------------------------------------------------
(* Bodies.                                                                 *)

\* insert_transactions, mark_body_recovered and resolve_gap of one transaction.
FillBody(s, x) ==
    ResolveGap([s EXCEPT !.txs = @ \cup {x}, !.captured = @ \cup {x}])

\* insert_block_header_row: ON CONFLICT(height, hash) DO NOTHING leaves an
\* existing row's body_captured alone; the status row is written either way.
InsertHeaderRow(s, x, body) ==
    LogCanonical(
        IF HasRow(s, x) \/ ~body THEN s ELSE [s EXCEPT !.captured = @ \cup {x}], x)

\* store_block: the body is at hand.
StoreBlock(s, x) ==
    IF CanonicalHash(s) # x
    THEN [InsertHeaderRow(s, x, TRUE) EXCEPT !.txs = @ \cup {x}]
    ELSE IF Uncaptured(s, x) THEN FillBody(s, x) ELSE s

\* Variant the runs must reject: the header row is written, the gap is not.
RecordGapBlock_HeaderOnly(s, x) ==
    IF CanonicalHash(s) = x THEN s ELSE InsertHeaderRow(s, x, FALSE)

\* record_gap_block: only the header is at hand.
RecordGapBlock(s, x) ==
    RecordGap(IF CanonicalHash(s) = x THEN s ELSE InsertHeaderRow(s, x, FALSE))

\* Variant the runs must reject: pruning takes the block's row with its body.
PruneBlock_WithRow(s, x) ==
    [s EXCEPT !.txs = @ \ {x}, !.captured = @ \ {x}, !.status[x] = Absent]

\* prune_older_than, the transaction of one block.
PruneBlock(s, x) == [s EXCEPT !.txs = @ \ {x}, !.captured = @ \ {x}]
=============================================================================
