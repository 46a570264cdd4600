---------------------------- MODULE HeaderBackfill ----------------------------
(***************************************************************************)
(* The header-backfill thread of permanode/src/indexer.rs next to the      *)
(* recording loop: it copies the node's headers below the archive's first  *)
(* block into the same tables, top down, as header-only rows.              *)
(*                                                                         *)
(* The loop never writes such a row and its re-check leaves one alone, so   *)
(* the rows are a variable of their own; HeadersFormChain says, among      *)
(* other things, that the loop's blocks and these rows never share a height.                     *)
(***************************************************************************)
EXTENDS Indexer

CONSTANTS
    FinalDepth,           \* FINAL_DEPTH
    HeaderBatch,          \* HEADER_BATCH
    GenesisMayBeMissing,  \* the node may have no header at height 0
    MaxFailures           \* bound: calls of the thread that fail

ASSUME HeaderAssumption ==
    /\ FinalDepth \in Nat /\ HeaderBatch \in Nat \ {0} /\ MaxFailures \in Nat
    /\ GenesisMayBeMissing \in BOOLEAN

VARIABLES
    headers,       \* [Heights -> Chains \cup {NoHash}]: the header-only row of a height
    backfillNext,  \* indexer_state.header_backfill_next
    hb,            \* the thread: where it is and what it holds in memory
    failures       \* how often one of its calls failed

hvars == <<headers, backfillNext, hb, failures>>

\* Values of header_backfill_next beside heights.
Unset == -2
Finished == -3

\* next: the highest height not copied yet; tip: the last block_count; h: the height to
\* ask for; expected: the hash its header must have; batch: the headers in hand.
HbType ==
    [ pc : {"off", "begin", "tip", "check", "fetch", "commit", "done"},
      next : Heights, tip : Heights, h : Heights, expected : Chains \cup {NoHash},
      batch : [Heights -> Chains \cup {NoHash}] ]

NoRows == [h \in Heights |-> NoHash]

HbAt(pc) == [pc |-> pc, next |-> 0, tip |-> 0, h |-> 0, expected |-> NoHash, batch |-> NoRows]

\* canonical_hash_at over both kinds of rows.
RowAt(h) == IF headers[h] # NoHash THEN headers[h] ELSE CanonicalHash(db[h])

\* archive_first_height, lowest_recorded_height: the empty set before there is any.
ArchiveFirst   == Lowest({h \in Heights : AnyRow(db[h])})
LowestRecorded == Lowest({h \in Heights : AnyRow(db[h]) \/ headers[h] # NoHash})

\* processed_height
Processed == IF lastProcessed = NoHeight THEN 0 ELSE lastProcessed

\* Variant the runs must reject: nothing is waited for.
Horizon_Tip(tip) == tip

\* The highest height deep enough to be final at tip.
Horizon(tip) ==
    Monus(tip, (IF RecheckDepth < FinalDepth THEN FinalDepth ELSE RecheckDepth) + 1)

\* The lowest height of the batch that starts at next.
BatchLow(next) == Monus(next, HeaderBatch - 1)

-----------------------------------------------------------------------------
HInit ==
    /\ Init
    /\ headers = NoRows /\ backfillNext = Unset
    /\ hb = HbAt("off") /\ failures = 0

\* Variant the runs must reject: the next attempt goes on with the hash it expected.
AfterError_KeepExpected(b) == [b EXCEPT !.pc = "tip", !.batch = NoRows]

\* header_backfill_thread: an attempt that ends in an error is begun anew.
AfterError(b) == HbAt("begin")

\* A call fails for good.
HbFails ==
    /\ hb.pc \in {"tip", "check", "fetch", "commit"}
    /\ failures < MaxFailures
    /\ failures' = failures + 1
    /\ hb' = AfterError(hb)
    /\ UNCHANGED <<headers, backfillNext>>

\* backfill_headers up to its loop.  Without a canonical block to start below, the
\* attempt fails and is repeated.
HbBegin ==
    /\ hb.pc = "begin"
    /\ \/ /\ ArchiveFirst # {} /\ backfillNext = Finished
          /\ hb' = HbAt("done")
          /\ UNCHANGED backfillNext
       \/ /\ ArchiveFirst # {} /\ backfillNext # Finished /\ LowestRecorded = {0}
          /\ backfillNext' = Finished
          /\ hb' = HbAt("done")
       \/ /\ ArchiveFirst # {} /\ backfillNext # Finished
          /\ \E low \in LowestRecorded :
               /\ low > 0 /\ RowAt(low) # NoHash
               /\ hb' = [HbAt("tip") EXCEPT !.next = low - 1,
                                            !.expected = ParentOf(RowAt(low), low)]
          /\ UNCHANGED backfillNext
    /\ UNCHANGED <<headers, failures>>

\* tip_once_indexer_current: block_count ..
HbTip ==
    /\ hb.pc = "tip"
    /\ hb' = [hb EXCEPT !.pc = "check", !.tip = node.tip]
    /\ UNCHANGED <<headers, backfillNext, failures>>

\* .. then the indexer's progress; a batch is begun only if the indexer is current and
\* the batch is final.
HbCheck ==
    /\ hb.pc = "check"
    /\ hb' = IF Processed + 1 < hb.tip \/ Horizon(hb.tip) < hb.next
             THEN [hb EXCEPT !.pc = "tip"]
             ELSE [hb EXCEPT !.pc = "fetch", !.h = hb.next]
    /\ UNCHANGED <<headers, backfillNext, failures>>

\* Variant the runs must reject: whatever header the node sends is taken.
Fits_Any(h, expected) == TRUE

\* The header the node sends for h is the parent of the block above.
Fits(h, expected) == NodeHash(h) = expected

HbFetch ==
    /\ hb.pc = "fetch"
    /\ \/ /\ hb.h = 0 /\ GenesisMayBeMissing
          /\ hb' = [hb EXCEPT !.pc = "commit"]
       \/ /\ HasHeader(hb.h) /\ Fits(hb.h, hb.expected)
          /\ hb' = [hb EXCEPT !.pc = IF hb.h = BatchLow(hb.next) THEN "commit" ELSE "fetch",
                              !.h = Monus(hb.h, 1),
                              !.expected = ParentOf(NodeHash(hb.h), hb.h),
                              !.batch[hb.h] = NodeHash(hb.h)]
       \/ /\ ~(HasHeader(hb.h) /\ Fits(hb.h, hb.expected))
          /\ hb' = AfterError(hb)
    /\ UNCHANGED <<headers, backfillNext, failures>>

\* insert_header_only_block: another block at the height is an error, the same block is
\* left as it is.
Refused(h) ==
    /\ hb.batch[h] # NoHash
    /\ AnyRow(db[h]) \/ headers[h] # NoHash
    /\ ~HasRow(db[h], hb.batch[h]) /\ headers[h] # hb.batch[h]

Inserted(h) ==
    IF hb.batch[h] # NoHash /\ ~AnyRow(db[h]) THEN hb.batch[h] ELSE headers[h]

\* Variants the runs must reject: the entry names the last height copied; the end at
\* genesis is not told apart.
ProgressAfter_Last(low)    == IF low = 0 THEN Finished ELSE low
ProgressAfter_Endless(low) == low - 1

ProgressAfter(low) == IF low = 0 THEN Finished ELSE low - 1

\* One transaction: the rows of the batch and the progress entry.
HbCommit ==
    LET low == BatchLow(hb.next) IN
    /\ hb.pc = "commit"
    /\ IF \E h \in Heights : Refused(h)
       THEN /\ hb' = AfterError(hb)
            /\ UNCHANGED <<headers, backfillNext>>
       ELSE /\ headers' = [h \in Heights |-> Inserted(h)]
            /\ backfillNext' = ProgressAfter(low)
            /\ hb' = IF low = 0 THEN HbAt("done")
                     ELSE [hb EXCEPT !.pc = "tip", !.next = low - 1, !.batch = NoRows]
    /\ UNCHANGED failures

Backfill == HbBegin \/ HbTip \/ HbCheck \/ HbFetch \/ HbCommit

\* The thread is started by run and dies with the process.
HNext ==
    \/ /\ NodeMoves \/ PollFails \/ Poll \/ Prune \/ Filler
       /\ UNCHANGED hvars
    \/ Start /\ hb' = HbAt("begin") /\ UNCHANGED <<headers, backfillNext, failures>>
    \/ Killed /\ hb' = HbAt("off") /\ UNCHANGED <<headers, backfillNext, failures>>
    \/ (Backfill \/ HbFails) /\ UNCHANGED vars

HSpec == HInit /\ [][HNext]_<<vars, hvars>>

\* Beside the loop, the thread itself keeps going.
HFairSpec ==
    /\ HSpec
    /\ WF_vars(Start /\ hb' = HbAt("begin"))
    /\ WF_vars(Poll /\ UNCHANGED hvars)
    /\ WF_hvars(Backfill /\ UNCHANGED vars)

-----------------------------------------------------------------------------
(* Properties.                                                             *)

HTypeOK ==
    /\ headers \in [Heights -> Chains \cup {NoHash}]
    /\ backfillNext \in Heights \cup {Unset, Finished}
    /\ hb \in HbType
    /\ failures \in 0..MaxFailures

\* The header-only rows have no hole, and each is the parent of the block above it -
\* the highest one of the block the archive begins with, whichever that now is, as long
\* as the node has reorganized at most once: the thread keeps the parent it expects
\* while the loop may replace that block and the node may go back.  The loop and the
\* thread share the tables but never a height: below the archive's first block there
\* are only header-only rows, from it on there is none.
HeadersFormChain ==
    \A h \in Heights :
        headers[h] # NoHash =>
            /\ \A g \in Heights : AnyRow(db[g]) => h < g
            /\ RowAt(h + 1) # NoHash
            /\ headers[h + 1] # NoHash \/ node.reorgs <= 1
                  => headers[h] = ParentOf(RowAt(h + 1), h + 1)

\* A header-only row is final when it is written: no reorganization the protocol allows
\* ever makes it differ from the node's chain.
HeadersAreFinal ==
    \A h \in Heights : headers[h] # NoHash /\ h <= node.tip => headers[h] = NodeHash(h)

\* The progress entry and the rows are committed together: the entry names the height
\* right below the lowest row, and "done" is written only when nothing is left to copy.
ProgressTellsTruth ==
    /\ backfillNext \in Heights => LowestRecorded = {backfillNext + 1}
    /\ backfillNext = Finished =>
         LowestRecorded \subseteq {0} \cup (IF GenesisMayBeMissing THEN {1} ELSE {})

\* Once the archive's first block is deep enough and agrees with the node, and the node
\* is at rest, the backfill is completed.
ReadyBelow ==
    \E a \in ArchiveFirst :
        a > 0 /\ a - 1 <= Horizon(node.tip) /\ CanonicalHash(db[a]) = NodeHash(a)

BackfillCompletes == <>[]ReadyBelow => <>(backfillNext = Finished)
=============================================================================
