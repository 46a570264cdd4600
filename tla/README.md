# A formal model of the Parano1d permanode

The permanode runs next to a Parano1d node, records every block before the
node prunes its body, and serves the recorded history. This directory holds
TLA+ models of it, TLC configurations that check them on small instances, and
proofs of their main theorems that TLAPS checks for every instance.

## The system

| Component | State | Operations | Interacts with |
|---|---|---|---|
| Recording loop (`permanode/src/indexer.rs`: `run`, `poll_once`, `ingest_height`, `recheck_height`, `backfill_gap`) | what a poll holds in memory; `last_processed_height` | ingest new heights, re-check the last `reorg_check_depth` heights, retry open gaps, prune | node (RPC), block tables, woken by the tip watcher |
| Block tables (`core/src/db.rs`) | `blocks`, `block_status_log`, `transactions`, `ingest_gaps`, `indexer_state` | the statements the other parts run, each inside a transaction of the caller | SQLite in WAL mode: one writer at a time, a connection per thread |
| Peer backfill (`import.rs`, thread in `indexer.rs`) and `import-bodies` | list of open gaps, the row it found | `fill_gaps`: look up, ask a peer, check, commit; also raw bytes, arrival times and proof classes | block tables, from another thread or process than the loop |
| Header backfill (`indexer.rs`) | header-only rows, `header_backfill_next`, expected hash | copy headers below the archive, top down, in batches | node, block tables, pauses for the loop |
| Live-state sweep (`indexer.rs`, `db.rs`) | foreign slots, `spent_in_gap` flags, balance cache | compare per segment, read the slots that differ, reconcile | node, block tables, waits for the loop |
| Tip watcher (`indexer.rs`) | last tip, known hashes, list of sightings | note when a block was first seen, wake the loop | loop (shared list and channel) |
| Receipts (`receipts.rs`) | receipt transactions of header-only blocks | `import_one` | block tables, node |
| Raw archive (`raw.rs`, `import.rs`) | `raw_blocks` | `store`, `load`, the loop's retry, `fill_raw` from a peer or a copied database | loop, retention, peers |
| Emission and fees (`emission.rs`, `fees.rs`) | none | closed forms of subsidy, supply and fees; records, burn history and pressure bands in `serve.rs` | queries |
| API (`serve.rs`, `queries.rs`) | caches of figures, miners, periods, balance histories and final headers, each with its key | figures, pages, blocks and transactions with their finality mark, the window that decides an expansion | block tables (another process writes them), node |
| Node | chain, bodies of the last blocks | external: extends and reorganizes at any moment | everything above |

What is hard here is the order of things. The node moves between any two RPC
calls. A block, `last_processed_height` and a gap entry are committed in
different transactions. The peer filler, the header backfill and the sweep
work on the same tables from other threads, by what they read before a network
call. The process may be killed between any two commits. `PROJECT.json` lists
these hazards at the lines where they bite.

What makes the parts correct:

- *Loop and tables*: one canonical block per height, no height skipped, every
  missing body in the gap list, nothing recorded ever lost, agreement with the
  node after a quiet poll, and catching up in the end.
- *Header backfill*: the rows are one chain under the archive, final when
  written, resumed where they ended, and completed in the end.
- *Sweep*: every segment's count converges to the node's, a segment just read
  is exact, and while the node does not reorganize a flag is set only on an
  output that is spent.
- *Tip watcher*: a block gets the time it was first seen, or none, as long as no
  call failed in a walk and no reorganization fell into one.
- *Receipts, raw bytes*: what is kept under a row belongs to that row's block,
  bytes stay only next to a body, and what somebody still has is fetched.
- *Emission*: closed forms equal the sums they stand for.
- *API*: what is marked final stays true, and cached figures are neither behind
  the tip they are labelled with nor older than their age limit.

## Modules

`NodeChain` - the node as an environment. A block hash is named by the chain
that has the block: two chains agree below the height at which one leaves the
other. The node may extend, and may reorganize up to `MaxReorgDepth` blocks,
at any moment. Everything in it is external and taken from how `rpc.rs` and its
callers use the answers.

`BlockStore` - the rows of one height and the statements the program runs on
them. The status log is kept as what it decides: for each hash, whether its
newest entry is `orphaned` or `canonical`, and in which order the canonical
ones are. This is exact for `canonical_hash_at` and for the
`canonical` predicate of `queries.rs`, as long as the wall clock does not run
backwards (the first orders by `observed_at`, the second by row id).
Transactions of a block are one unit.

`Indexer` - the loop (`ix`), the gap filler (`filler`), and the database
(`db`, `lastProcessed`), next to the node. One action is one RPC call together
with what the code decides from the answer, or one committed transaction:

| Code | Actions |
|---|---|
| `run` up to its loop, kill, poll error | `Start`, `Killed`, `PollFails` |
| `poll_once`, ingestion: `block_count`, `ingest_height`, `set_state` | `BeginPoll`, `FetchBlock`, `CommitBlock`, `Advance` |
| `recheck_height` | `CheckHeader`, `FetchReplacement`, `CommitReplacement` |
| `backfill_gap` | `ListGaps`, `RetryGap`, `CommitRecovered`, `EndPoll` |
| `prune_older_than` | `Prune` |
| `fill_gaps` | `FillerList`, `FillerAsk`, `FillerCommit`, `FillerEnd` |

`calm` is a history variable: no poll failed and the node stood still since the
poll began.

`Archive` - what a reader is promised: one run of heights that grows at its
upper end; a recorded height may get another block, never none; a body leaves
only with its block or by retention. `Indexer` implements it (`Shown`,
`Complete` map its state).

`HeaderBackfill` - extends `Indexer` with the header-backfill thread, so the
thread is checked against the whole loop. `HbBegin` is `backfill_headers` up to
its loop, `HbTip` and `HbCheck` are `tip_once_indexer_current` and the finality
test, `HbFetch` is one header, `HbCommit` the batch's transaction; any error
begins a new attempt (`AfterError`).

`LiveSweep` - one sweep after another over the live-state tables, next to the
node and a recording side that commits and orphans blocks. A coin stands for an
output with its creation id; what is compared per segment is the number of its
live coins, as in `differing_segments`. The
begin of a sweep, the consistent map, the segments that differ, each slot read,
each segment's transaction, the balances at the end and the zeroing after a match
are steps of their own, and any call may fail. Of the balance cache there is the row
of one address (`cached`; its coins are `Owned`), since no row depends on another:
the sweep derives it from its picture (`SwBalances`, `SwMatched`), and the recording
loop asks the node for it and commits the answer later (`RefreshAsk`,
`RefreshCommit`, `refresh_known_address_balances`), during which it records nothing.
Miners among the known addresses are left out.

`TipWatch` - the watcher thread with its walk down from the tip and its list of
known hashes, `note_sightings` at the end of each poll, and the arrival times
taken over from peers. What the loop does to the tables in between is one
action, `Poll`: the node's chain is on record afterwards.

`Emission`, `Fees`, `Supply` - the first two are `emission.rs` and `fees.rs` as
pure operators over scaled constants; `Supply` is a chain that mints, burns and
counts block by block (the node's side, external), and what `serve.rs` computes
from its tip: the expansion heights by binary search over the headers, with
their cache (`Ask`), the issue and burn of `/stats`, `user_mints`, the burn
between the blocks on record, the samples of the burn history and the burn still
needed for the next expansion (pressure bands). A fee is paid out of what circulates.
`get_economics` reads the burn of the recorded blocks (`burn_by_block`) before it asks
the node for its tip, and blocks without a body have no figure there; so a request
works with any part of the recorded blocks (`Readings`), and
`HistoryMissesOnlyTheUnread` says what it then shows.
Shifts (`Halved`, `Capacity`), the searches, and the journal's replay in `Journal`
(`HeldAfter`) are recursive functions, about which the proofs can reason. The doubling of the step once
there are `HISTORY_MAX_POINTS` samples and the estimate of the burn before the
first record are left out.

`Receipts` - one or more `import-receipts` commands (`Begin`, `Take`, `Verify`,
`Look`, `Insert`, `Fails` are the steps of a run between which others move)
over the rows of the block tables, next to the node, the recording and the
header backfill (`Environment`), and the wallet with its journal. A receipt
names its block by hash, for `tx_root` and time; what `decode_receipt` checks
offline is one bit of it. The wallet (external) files, replaces and deletes receipts
(`FileReceipt`), a write of it may be cut short, and it writes snapshots of what it
keeps (`KeepReceipts`). A command that gets a journal it cannot read ends before it has
done anything (`Refuse`).

`Journal` - `parse_journal`, frame by frame: it stops at a frame the file ends in,
refuses one whose length, checksum or text is wrong, a first frame that is no
snapshot, a key that is no txid or comes twice, a deletion in a snapshot and a
journal without a whole frame, and replays the rest. One txid spelled in two ways
with the same receipt, which the code refuses, is left out: changes are a set.

`RawArchive` - everybody who writes `raw_blocks`, next to the node:

| Code | Actions |
|---|---|
| `ingest_height`, `recheck_height`, each with the `getBlock` of `fetch_raw` and `keep_raw` | `Ingest`, `IngestDone`, `Recheck`, `RecheckDone`, `Commit` |
| `backfill_gap`, the retry of missing bytes in `poll_once` | `RetryGap`, `ListRaw`, `RetryRaw`, `EndPoll` |
| `prune_older_than` | `Prune` |
| `fill_gaps` | `GapList`, `GapAsk`, `GapCommit`, `GapEnd` |
| `fill_raw` | `RawList`, `RawAsk`, `RawStore`, `RawEnd` |
| kills, failed polls and rounds | `Cut` |

The loop is coarser here than in `Indexer`: asking for a block is one action,
asking for its bytes and committing both the next, and each height is re-checked
against the tip of the moment and not the one the poll began with. What the bytes
depend on stays apart: `getBlockDetails` and `getBlock` are two calls, and a list
of candidates is older than the bytes found for it. `archive_raw_blocks` and
`getblock_fallback` are on, which is what makes the bytes matter. The peer thread
and an `import-bodies` command take turns (`filler.by`). Bytes are named by the
block they are, so `verify` is equality with the row's block.

`Api` - the read side. The recording loop is one block or one replacement at a
time, in the order of `poll_once` (`BeginPoll`, `RecordBlock`, `ReplaceBlock`,
`EndPoll`, and `BreakOff` when a call fails or the process is started anew), with the header backfill (`CopyHeader`) and everything that changes
figures but no block's name (`ChangeOther`). Each behaviour asks one endpoint
(`kind`), and one request at a time, since requests queue for the one connection:

| Code | Actions |
|---|---|
| `cached_chain_stats`, `get_miners`, `get_economics`, `get_address_balance_history` | `LookUp`, `MakeFigures`, `StoreFigures` |
| `get_blocks`, `get_block_by_height`, `get_tx` | `ReadRows`, `MarkFinal` |
| `finalized_window` | `AskWindow`, `FetchHeader`, `StoreWindow` |

`unseen` is a history variable: whether the last reorganization has been worked off by
a poll that began after it and completed. `outdated` and `quiet` are histories of what is
held: since when something read is no longer what the archive says; and whether the rows
of an answer were read with every reorganization worked off, and not both another one
came and blocks were recorded before the tip was read. Whatever else is recorded,
replaced, filled or pruned between the two statements is allowed. Two assumptions bound the composition: a
request is short against the age limits (the clock does not tick during one), and
the loop keeps up (`StaleWithinReach`, the re-check window of `Indexer`).

The `MC...` modules are instances for TLC. `IndexerProofs`, `HeaderProofs`,
`SweepProofs`, `TipWatchProofs`, `SupplyProofs`, `ReceiptsProofs`, `RawProofs` and
`ApiProofs` hold the proofs.

Operators named `X_Something` with the comment "Variant the runs must reject"
are plausible mistakes; with one of them in place of `X` the run named in
`PROJECT.json` fails.

## Runs

| Run | Question | Result |
|---|---|---|
| `indexer_safety` | Is the archive right at every moment, with reorganizations that may leave a lower tip, missing bodies, a peer, one kill or failed poll? Is an emptied height in the gap list? | holds |
| `indexer_archive` | Does the loop skip no height, lose nothing, implement `Archive`, and catch up once the node rests? | holds |
| `header_backfill` | Is the header chain right and completed, next to the loop, with downtime and kills? | holds |
| `live_sweep` | Once the node rests, does every segment's count come to agree with it? Is a segment just read exact, and a flag set only on a spent output? Does an address's cached balance settle? | holds |
| `tip_watch` | Is an arrival time on record kept for ever, does the tip's block get one, and is it that of an arrival if no call failed in a walk and no reorganization fell into one? | holds |
| `supply` | Do the closed forms equal the sums, across the fork, the tiers and the partial last day? Is the burn shown what fees burned, and is it off in a sample of the history by just what the blocks burned that the request did not read? Is the pressure the least burn that expands the state? | holds |
| `receipts` | Are only true transactions imported, once each, and does an undisturbed command report what is due? Is the journal read as the wallet left it, also when a frame is cut short, and nothing out of a faulty one? | holds |
| `raw_archive` | Are the bytes kept under a block that block, and only next to a body? Is everything the node still serves, and every gap a peer can fill, fetched in the end? | holds |
| `api` | Does what is marked final stay true, unless a reorganization was unseen or came together with new blocks? Does the window of final headers, always? Are cached figures never older than their limit, nor short of their tip? | holds |
| `indexer_crash` | The loop, cut between a block's commit and `set_state` | two canonical blocks at a height |
| `indexer_downtime` | A pause longer than the re-check window | recorded blocks do not link |
| `raw_closed_gap` | Is every body the node still serves asked for again until it comes? | no: not at a height whose gap entry was closed once |

The last three are disagreements of the code with `README.md`;
`PROJECT.json` quotes the lines. `indexer_safety` and `indexer_archive` assume what
excludes the first two: `InterruptAt` leaves out `"advance"`, and
`NodeStaysInReach` keeps a replaced recorded block inside the re-check window
(the loop is not away too long). In `indexer_archive`, `header_backfill`,
`raw_archive` and `api` the node's tip does not fall. `ServedBytesAreKept` of
`raw_archive` makes an exception for a height whose gap entry was closed before, which
is the third; `MissingBodyHasGapEntry` asks for an entry of either kind for the same
reason. In the quoted lines, `README.md` is the repository's.

### Also met

Places where the code does less than a comment or a page says, or less than one
may expect, found while modelling and not given a run.

*An emptied height.* If the tip falls between the header call and the body call of
`recheck_height` (`indexer.rs:469-472`, `indexer.rs:498`), the height ends with its
old block orphaned and none in its place. It is in the gap list
(`EmptiedHeightHasGapEntry`), so it is not lost, but until the retry a reader finds
a hole. This is why `NoHeightSkipped` and `ImplementsArchive` need a tip that does
not fall.

*A segment that matches.* `differing_segments` compares the number of live coins
(`indexer.rs:947`). A block without a body that spends one coin and creates
another in the same segment leaves the number as it was, and the segment is not
read; `README.md:103-104` and `236-249` read as if the sweep found every
difference. `CountsSettle` therefore speaks of counts, and `BalanceSettles` allows the
balance of the picture next to that of the node.

*A balance zeroed too early.* `zero_balance_cache_except` uses the set of addresses
made before the map was compared again (`indexer.rs:865-877`). An address that got its
first coins in between, and was refreshed by the loop, is set to zero until the next
sweep or refresh; `BalanceSettles` says that it does not stay so.

*The 500 lowest gaps.* `fill_gaps` takes the lowest `PEER_BACKFILL_BATCH` open
gaps every round (`import.rs:382`), and `blocks_missing_raw` has a limit of the same
kind. If no peer can fill those, one above them is never offered, against
`README.md:385-387`. `PeersFillGaps` is checked with a batch that takes all.

*Bytes without a body.* `fill_raw` stores bytes for a block that retention may have
pruned since the list was made; retention looks only at blocks with a body
afterwards, so these bytes stay, against `README.md:337`. `BytesNeedABody` makes an
exception for a block beyond the retention. The bytes found by the loop's retry
also do not lead to the contract flags being read again.

*What final means.* `serve.rs:655-658` says a full page of final blocks never
changes. The blocks it names do not; a body that arrives by a gap fill, is pruned
or is imported from a receipt does change what the page shows of them.
`FinalAnswersStand` speaks of the blocks' names. Its condition has two parts, and
TLC finds a wrong answer without either. `poll_once` ingests the new tip before it
re-checks the last blocks, so in between a block can have 18 confirmations on record
and be one the chain has replaced. And `get_blocks` reads the page and then the tip
(`serve.rs:660-664`): if a reorganization comes between them, followed by a poll that
records blocks, a replaced block is counted up from the new tip. The answer is right
again after that poll, but a browser keeps it for an hour.

*Figures.* The samples of `sampled_state_history` above the final height stay as
they were sampled after a reorganization; the balance history has no age limit, so
at an unchanged tip it may show a replaced block. The burn history is said to be "exact
wherever the records reach" (`serve.rs:1509`, and `serve.rs:1443` in like words). It is
too high below a block that burned something and that the request did not read: one
recorded without its body or pruned (`queries.rs:1178-1183` skip it), one not yet
recorded, and one recorded after the records were read (`serve.rs:1482`) and before the
tip was (`serve.rs:1489`). `HistoryMissesOnlyTheUnread` says by how much. And when a
header call of `expansion_heights` fails, `get_economics` takes the state for never
expanded (`unwrap_or_default`, `serve.rs:1493`) and shows an issue and a burn worked out
so, where `/stats` shows none; `Supply` has no such failure.

*The re-check and the header backfill.* `indexer.rs:1103-1105` says a header-only
row "never meets the re-check". `tip_once_indexer_current` lets the indexer be one
block behind, so a poll begun one block earlier can still re-check the highest row;
it is final, so the re-check finds the same hash and does nothing.

*The seam under the archive.* The thread keeps the hash it expects from `HbBegin` on
(`backfill_headers`, the parent of the archive's first block). If the node goes to
another chain, the loop replaces that block, and the node goes back before the first
batch, the header copied fits the replaced block and not the one on record. With one
reorganization this cannot be: the header of the other chain does not fit the hash
expected, and the attempt begins anew. So `HeadersFormChain` asks for the seam up to
then; the loop's next re-check of that block, if it still is in the window, mends it.

*Receipts.* "it should" of `receipts.rs:297-298` (the archive holds a receipt's
transaction) is not to be relied on: between the node's verdict and the loop's next
re-check the row may still be the replaced block.

*The tip watcher's* comments are stronger than its code in five corners. After a
`getBlockHeader` error the blocks under the tip are not sighted; if a later
reorganization makes a walk pass one, it gets that moment, against
`indexer.rs:152-155` ("everything it passes arrived at this moment too"). The same
comes of a walk that two chains share, because the node reorganizes between its header
calls: the blocks of the first chain under the point it had come to stay unknown, and if
the node goes back and forth they are taken for new. `TimeIsAnArrival` has both as its
condition (`used.calls`, `crossed`); without either TLC finds the wrong time. A peer's
time that is adopted while the watcher's own still waits in the list stays, against
`import.rs:276`. A poll of the timer can record a block before the watcher sights
it, against `indexer.rs:146-148`. And the tip present at the start, if it is
reorganized away and comes back, gets the time of its return.

### Bounds

Two chains everywhere, reorganizations of at most two blocks, one interruption. A second
interruption adds no new kind of state: the database after one is a database the loop may
also start from.

- Loop (`indexer_...`): heights 0 to 4, one or two reorganizations, a re-check window and
  a serving window of one or two blocks. Two reorganizations are needed for a block to be
  orphaned and come back, three heights above the fork for a replaced block to leave the
  window, and a retention of two blocks for a block to be pruned while the loop goes on.
  The serving window is smaller than the re-check window in some runs and larger in
  others: the code does not relate the two.
- `header_backfill`: heights 0 to 6; `HeaderBatch` 2 gives a full batch and a last,
  smaller one, and the fork lies below the block the archive begins with.
- `live_sweep`: heights 0 to 3 with a start and a fork at 2, four coins in two segments
  (two older than the recording and spent on both chains at different heights, two created
  on both chains and spent on one), an address that owns the last, and one failed call or
  one pass over the addresses: enough for a coin to be created, spent and un-spent within a
  sweep, and for the address's balance to be overtaken between an answer and its commit.
- `tip_watch`: heights 0 to 3, a start at 2, three reorganizations (there, back and there
  again), walks of two blocks, a list of five hashes, one trouble (a failed call, a poll
  ended early or an expiry) and one answer of a peer.
- `supply`: 18 blocks with the fork at 8, tiers at 8, 12 and 16, and the end of the
  allocation at 14, one block into a payout interval: every boundary of the code's schedule
  occurs, in its order, and the state may expand twice at any of them. Records begin at 16
  and every second height is sampled, so the history has parts with and without records,
  and a request reads any of the eight parts of the three recorded blocks.
- `receipts`: two commands, a fork at 1 with a reorganization of two blocks, headers copied
  under two more blocks, and one failed call or run: a verdict can be overtaken by a
  reorganization and the copy of the other chain's header, and a second command can follow
  one that was cut short. The journal has up to three whole frames with its first snapshot,
  in any order, and a frame cut short that is written again; five journals no wallet wrote
  have one fault each, and `EachIsRefused` says that none is read. The wallet has one
  receipt to file, so none takes another's place here; in the theorem it may.
- `raw_archive`: heights 0 to 4 of which an older version recorded the lowest two, a fork
  at 3 and a window of two blocks: a candidate can be listed, replaced, pruned or overtaken
  before its bytes come, and a peer holds the body of one height below the fork. One failed
  call, wrong answer or lost process is enough to leave each list unfinished once.
- `api`: heights 0 to 7 with a finality depth of three over reorganizations of two blocks
  (18 over 17 in the code), pages and windows of two blocks, age limits of one and two
  seconds on a clock of two, two reorganizations (there and back), and a start at 4: an
  answer can be the first that counts as final, and an entry can expire, be outdated at the
  same tip, or be passed by the header backfill.

### Fairness

`WF(Start)` and `WF(Poll)`: the loop is an endless `loop` that never returns and
systemd restarts the process (`README.md`, the unit file). A thread that is not
blocked keeps running, so the backfill thread has weak fairness too. The sweep (`WF(Sweep)`) is started again by the
loop of `run` for ever, whether the last one failed or not, and the watcher is a
loop of its own. In `raw_archive`, `WF(Poll)` and `WF(Fill)` are the loop and the
peer thread (or a command begun again). Nothing is
assumed of the node, peers, retention or interruptions; these are bounded, so
they end, and the liveness properties speak of the time after.

## Proofs

All by TLAPS, for any set of chains, any forks, windows, depths and bounds.

| Theorem | Assumes | Inductive invariant |
|---|---|---|
| `TypeCorrect` | - | `TypeInv`: types, and the loop has a hash in hand where it commits one |
| `OneCanonicalBlockHolds` | no cut between the two commits | `OneInv`: at most one canonical hash per height and it is the newest; no row above the height being ingested; the hash about to be replaced is canonical |
| `NoHeightSkippedHolds` | also: the tip does not fall | `NoSkipInv`: adds that `last_processed_height` moves by one over a recorded block and that the loop works within the node's chain |
| `NothingLostHolds` | - | `KeepInv`: the hash about to be replaced is on record |
| `MissingBodyHasGapEntryHolds` | the tip does not fall | `GapInv` |
| `EmptiedHeightHasGapEntryHolds` | no cut between the two commits | `EmptiedInv`: `OneInv`, rows without a hole up to `last_processed_height`, every height with rows and no canonical one listed |
| `QuietPollAgreesHolds` | no cut between the two commits | `QuietInv`: `OneInv`; in a calm poll every height of the window already re-checked shows the node's block |
| `QuietArchiveIsLinkedHolds` | also `[]StaleWithinReach` | `QuietInv`; below the window nothing on record is replaced |
| `ImplementsArchiveHolds` | as `NoHeightSkippedHolds` | `NoSkipInv`, and every step is a step of `Archive` or none |
| `HeaderTypeCorrect` | - | `HInv` |
| `HeadersAreFinalHolds` | reorg limit within `FINAL_DEPTH`, the tip does not fall | `FinalInv`: every header in hand or on record is the node's own, and out of reach of a reorganization |
| `ProgressTellsTruthHolds` | no cut between the two commits | `ProgressInv`: header-only rows have no hole and end under the archive, and a batch works right below the lowest |
| `HeadersFormChainHolds` | no cut between the two commits, reorg limit within `FINAL_DEPTH`, the tip does not fall | `ChainInv`: `ProgressInv`, `FinalInv`, `NoSkipInv`, and what is expected, held or recorded right under the archive's first block is its parent, or expected in vain since the node's one reorganization |
| `FlaggedIsSpentHolds` | - | `FlagInv`: before a reorganization all on record is the node's, and an output of the segment that the sweep's start already knew, and that is neither still to be read nor read as live, is spent |
| `ReadSegmentIsExactHolds` | - | `ExactInv`: in an undisturbed read the live coins found are the node's in that segment, but for the slots still to be read |
| `ImportedOnceHolds` | - | `ReceiptsInv`: what is credited is stored; every stored place and every total comes from a receipt of that very header-only block; a run about to insert holds one |
| `ImportedIsTrueHolds` | reorg limit within `FINAL_DEPTH`, the tip does not fall | `ReceiptsInv`, and every header-only row is the node's own block and out of reach |
| `ReportIsRightHolds` | - | `ReportInv`: in an undisturbed run the rows follow the node, the verdict in hand still holds, and each entry seen has its due outcome |
| `ReceiptsTypeCorrect` | - | `TypesInv`: types, and only what proves its block goes beyond `Take` |
| `NextPayoutIsNextHolds` | the allocation does not end in the block of the fork | none: `NextIsNamed`, for each height |
| `UserMintsAreTheUsersHolds` | as above | `MintsInv`, by `PayoutsCounted` |
| `WithheldIsPaidHolds` | as above | `WithheldInv`: what is withheld and unpaid is the shares of the day that has begun |
| `ClosedFormIsTheSumHolds` | as above | `ClosedInv`: sizes in headers never shrink; the tip's time and both sums of what was minted are the closed forms at the tip |
| `BurnShownIsBurnedHolds` | as above | `BurnInv`: `ClosedInv`; what circulates is what was minted less what was burned; expansions kept for the tip's size are the ones the search finds |
| `HistoryMissesOnlyTheUnreadHolds` | as above | `HistoryInv`: `BurnInv`; above any height, the burn of the blocks read and of those not read is what was burned since |
| `PressureIsExactHolds` | - | `OccupiedInv`: sizes stay within the schedule, a count of coins is one |
| `ExpansionSearchIsRight`, `SupplyTypeCorrect` | - | `TypesInv`: types, and sizes in headers never shrink |
| `TimeIsKeptHolds` | - | `SeenInv`: every block has a place for its time |
| `JournalIsTheWalletHolds` | - | `JournalInv`: every frame but a last one cut short is whole and sound, the first a snapshot, and leads from what the wallet held before it to what it held after |
| `RawIsTheBlockHolds` | - | `BytesInv`: adds the shape of the table; whoever writes it writes through `keep_raw` |
| `RawTypeCorrect` | - | `TypeInv`: types, and a hash in hand where one is stored |
| `BytesNeedABodyHolds` | the tip does not fall | `BodyInv`: adds that a listed candidate and a block in hand have a body on record or are beyond the retention |
| `ApiTypeCorrect` | - | `TypeInv`: types, and a request takes only its endpoint's steps |
| `FiguresReachTheTipHolds` | - | `ReachInv`: the label of figures under way, cached or given was a tip on record before they were made |
| `FiguresAreRecentHolds` | - | `AgeInv`: a request ends in the second it began, and an entry was true when it was made |
| `WindowIsPermanentHolds` | the tip does not fall | `WindowInv`: every header asked for, in hand, cached or given is deeper than a reorganization reaches |
| `FinalAnswersStandHolds` | the tip does not fall | `FinalInv`: `ArchiveInv` (nothing on record is replaced once the last reorganization is worked off; before that, a poll begun after it has all of it in its window) and `ReaderInv` (what a request read then is the chain's until it reorganizes, and for ever where it is out of reach from the tip of that moment) |

`OneCanonicalBlock` alone is not inductive: `store_block` appends a canonical
row whenever the newest hash differs, so the proof has to know that the height
being ingested has no row yet (that is what the cut between the two commits
breaks) and that a replacement orphans the one canonical block there is. The
invariants were checked with TLC before they were proved.

`FinalAnswersStand` needs the loop: that the archive shows the chain once a
reorganization is worked off is what `EndPoll` with an empty re-check proves, from
`StaleWithinReach` at the begin of that poll. `WindowIsPermanent` needs no archive and
no condition, only that the window ends `FINAL_CONFIRMATIONS` under the tip it was read at
and that the node replaces fewer blocks (`ApiAssumption`); the node never revises a
settled height (`SettledStays`).

The assumptions on constants are named (`ChainAssumption`,
`IndexerAssumption`, `HeaderAssumption`, `RawAssumption`, `ApiAssumption` and their
like in the other modules) and say no more than what the types and constants in the
code say; `ApiAssumption` has the protocol's limit of a reorganization below
`FINAL_CONFIRMATIONS`.

`EmptiedHeightHasGapEntry` holds for a tip that falls, too, where `NoHeightSkipped`
does not: `CommitReplacement` orphans the old block and makes the gap entry in one
transaction. Without `StaleWithinReach` only the window agrees after a quiet poll
(`QuietPollAgrees`); the link across its lower edge is what `indexer_downtime` breaks,
so it is an assumption of `QuietArchiveIsLinkedHolds`, on the behaviour and not on a
constant.

The sweep's theorems assume nothing, neither of the node nor of the recording. Both
properties have their condition in themselves (no reorganization; an undisturbed read),
and the invariants say what holds in the middle of a read for every set of slots passed
so far. `ReadSegmentIsExact` needs that a creation id is given once
(`SweepAssumption`), since outputs are told apart by it.

The schedule's theorems rest on lemmas about quotients and remainders, proved from the
two the solver finds by itself (`Quotient`, `Unique`). `PayoutsCounted` shows that
`development_payout_blocks_up_to` grows by one exactly in the blocks `payout_due`
names, in both eras, across the fork and in the partial last day.

`ClosedFormIsTheSum` is proved block by block: of the ranges `emitted_split_up_to` adds
up - one for each size before the fork, one for each tier after it - the one the new
block falls into grows by what the block mints, and no other grows (`EmittedExtends`,
and `EmittedExpands` when the block expands the state); `SecondsOfBlock` and
`SecondsAdd` say the same of `target_seconds_between`. The sums are those of
`SumFunction` over any finite set, defined by a fold. The library's facts about folds
are stated with operator parameters, which no installed prover takes, so the lemmas
about sums (`SumOfNone`, `SumWithout`, `SumOneMore`, `SumOneChanged`) are derived from
the definition: if one failed, it would fail at a least number of elements. The same
argument unfolds the recursive functions: a search, a shift and a replay are each the
only function that satisfies its equation.

`BurnShownIsBurned` then needs only that each block keeps the balance of minted, burned
and circulating, and that the cache, keyed by the size alone, was filled on this very
chain. `HistoryMissesOnlyTheUnread` adds that a record's own figures give the burn of its
block, and divides the blocks above a sample into those read and those not read.
`PressureIsExact` compares `min_burn_bands`, which prices whole bands, with a sum over
single slots.

The hypothesis that the allocation does not end in the block of the fork is real: there
`payout_due` pays nothing while the closed form counts a final partial day. The code's
constants satisfy it by three million blocks (210,537 and 3,223,778, `emission.rs:35`,
asserted at `emission.rs:362`).

Only model-checked:

- Liveness (`ArchiveCatchesUp`, `BackfillCompletes`, `CountsSettle`, `BalanceSettles`,
  `TipGetsTime`, `ServedBytesAreKept`, `PeersFillGaps`): the prover has no rule for
  fairness.
- `TimeIsAnArrival`: its condition (no call failed in a walk, no reorganization fell
  into one) is sharp, see *The tip watcher* above; its invariant would need to say of
  every block under a walk that it was sighted before, through a list that
  `SelectSeq` filters.
- The type formulas of `LiveSweep` (its invariant about the shape is inside `SweepInv`;
  that a balance is a number is not) and `TipWatch` (the list of known hashes is
  filtered by `SelectSeq`, of which the prover knows nothing). Those of the other
  components are proved.

Of the type formulas only `HTypeOK` is also a property of a run (`header_backfill`).

## Not modelled

- JSON, HTTP, routing, the site's files and the CSV export: conversions in one pass
  over what the models have.
- The layout of a block and a transaction (`decode.rs`): the models use what
  `decode_bound_block` lets pass, bytes that are the block. A model of the parser
  would repeat it byte by byte.
- The sums and groupings of the reports in `queries.rs`, beyond the canonical-block
  predicate, confirmations and the burn: they are single statements over the rows.
- Schema migrations, indexes, logging, the length of pauses and throttles.
- The proof classes taken over from peers, the decoder's self-check counter, and
  retries of one RPC call.
- Command line and configuration: values are constants of the models.

## Plan

1. *(done)* `NodeChain`, `BlockStore`, `Archive`, `Indexer` with proofs.
2. *(done)* `HeaderBackfill` with proofs.
3. *(done)* `LiveSweep`: consistent state map, per-segment comparison, flags.
4. *(done)* `TipWatch`: sightings, eviction, recording, times from peers.
5. *(done)* `Emission`, `Fees`, `Supply`: closed forms against sums, burn history,
   pressure bands.
6. *(done)* `Receipts` and `RawArchive`: what is kept under a row.
7. *(done)* `Api`: cached and final answers against the tip they are keyed by.
8. *(done)* Proofs of `RawArchive`, `Api`, the quiet poll, the header chain, the sweep,
   the receipts and the payout calendar.
9. *(done)* Proofs about sums and folds: the closed forms, the burn and its history, the
   pressure bands, the wallet's journal; the search of `expansion_heights`; `TimeIsKept`.
10. Left to prove: `TimeIsAnArrival`, and the two type formulas named above.
11. Left of the model: a chain that reorganizes an expansion block under the cached
   heights, and a header call that fails in their search.
