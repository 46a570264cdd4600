-------------------------------- MODULE Supply --------------------------------
(***************************************************************************)
(* The chain's supply, block by block, and what the API says of it from a  *)
(* tip and a few headers: serve.rs computes issue, burn, payouts and       *)
(* arrival times with the closed forms of Emission.tla, and reads the      *)
(* heights at which the state expanded out of the headers, once per size   *)
(* of the state.                                                           *)
(*                                                                         *)
(* The chain's own bookkeeping (minted, circulating, ...) is the node's.   *)
(***************************************************************************)
EXTENDS Emission, Fees

CONSTANTS
    MaxHeight,       \* bound: height of the chain
    MaxExpansions,   \* bound: how often the state expands
    MaxCreated,      \* bound: outputs transactions create
    FirstRecorded,   \* the archive's first block
    HistoryStep,     \* HISTORY_STEP
    Transactions,    \* transactions tried: [inputs, outputs, tip]
    ActiveCounts,    \* live slots a header may state
    NoAnswer         \* nothing cached

ASSUME SupplyAssumption ==
    /\ MaxHeight \in Nat /\ MaxExpansions \in Nat /\ MaxCreated \in Nat
    /\ Transactions \subseteq [inputs : Nat, outputs : Nat, tip : Nat]
    /\ ActiveCounts \subseteq Nat
    /\ FirstRecorded \in Nat \ {0} /\ HistoryStep \in Nat \ {0}

VARIABLES
    slots,         \* log_slots of the headers from height 1 on
    active,        \* active_slot_count of the tip's header
    clock,         \* target seconds since genesis
    minted,        \* µNOID minted so far, by recipient
    unpaid,        \* withheld from v2 blocks, not yet paid out
    circulating,   \* circulating_supply_micronoid
    burned,        \* burned by fees so far
    alloc,         \* alloc_counter of the tip's header
    created,       \* outputs created by transactions
    records,       \* blocks from FirstRecorded on: fees, coinbase; and (history) burned up to it
    cache          \* AppState.expansions: [cachedFor, heights]

node == <<slots, active, clock, minted, unpaid, circulating, burned, alloc, created, records>>
vars == <<node, cache>>

tip == Len(slots)
LogSlots == IF tip = 0 THEN LogSlotsGenesis ELSE slots[tip]

Init ==
    /\ slots = <<>> /\ active = 0 /\ clock = 0
    /\ minted = [miner |-> 0, development |-> 0] /\ unpaid = 0
    /\ circulating = 0 /\ burned = 0
    /\ alloc = 0 /\ created = 0 /\ records = <<>>
    /\ cache = NoAnswer

NoTransaction == [inputs |-> 0, outputs |-> 0, tip |-> 0]

\* One block with one transaction or none.  The coinbase claims the miner's part of the fee
\* at the occupancy of the parent.
Block(logSlots, newActive, tx) ==
    LET height == tip + 1
        miner  == MinerSubsidy(height, logSlots)
        payout == Payout(height, logSlots)
        isTx   == tx # NoTransaction
        fee    == IF isTx THEN RequiredTotal(tx.inputs, tx.outputs, active, LogSlots) + tx.tip ELSE 0
        claim  == IF isTx THEN ToMiner(fee, tx.inputs, tx.outputs, active, LogSlots) ELSE 0
        burn   == IF isTx THEN Burned(tx.inputs, tx.outputs, active, LogSlots) ELSE 0
    IN /\ slots' = Append(slots, logSlots)
       /\ active' = newActive
       /\ clock' = clock + BlockTimeAt(height)
       /\ minted' = [ miner       |-> minted.miner + miner,
                      development |-> minted.development + payout ]
       /\ unpaid' = IF V2Active(height) THEN unpaid + Withheld(height, logSlots) - payout ELSE 0
       /\ circulating' = circulating + miner + payout - fee + claim
       /\ burned' = burned + burn
       /\ alloc' = alloc + 1 + (IF PayoutDue(height) THEN 2 ELSE 0) + tx.outputs
       /\ created' = created + tx.outputs
       /\ records' = IF height < FirstRecorded THEN records
                     ELSE Append(records, [fees |-> fee, reward |-> miner + claim, burned |-> burned'])
       /\ UNCHANGED cache

\* A fee is paid out of what circulates.
NodeMines ==
    /\ tip < MaxHeight
    /\ \E logSlots \in {LogSlots, LogSlots + 1}, newActive \in ActiveCounts,
          tx \in Transactions \cup {NoTransaction} :
        /\ tx # NoTransaction =>
               RequiredTotal(tx.inputs, tx.outputs, active, LogSlots) + tx.tip <= circulating
        /\ logSlots <= LogSlotsGenesis + MaxExpansions
        /\ newActive <= Capacity[logSlots]
        /\ created + tx.outputs <= MaxCreated
        /\ Block(logSlots, newActive, tx)

-----------------------------------------------------------------------------
(* The API's view.                                                         *)

\* The binary search of expansion_heights: first height from..tip of at least this size.
FirstWith(level, from) ==
    LET search[range \in (1..tip) \X (1..tip)] ==
            LET mid == range[1] + (range[2] - range[1]) \div 2
            IN IF range[1] >= range[2] THEN range[1]
               ELSE IF slots[mid] >= level THEN search[<<range[1], mid>>]
               ELSE search[<<mid + 1, range[2]>>]
    IN search[<<from, tip>>]

SearchExpansions ==
    LET first[level \in (LogSlotsGenesis + 1)..LogSlots] ==
            FirstWith(level, IF level = LogSlotsGenesis + 1 THEN 1 ELSE first[level - 1])
    IN [i \in 1..(LogSlots - LogSlotsGenesis) |-> first[LogSlotsGenesis + i]]

\* Variant the runs must reject: once found, for ever.
ExpansionHeights_Once == IF cache # NoAnswer THEN cache.heights ELSE SearchExpansions

\* expansion_heights
ExpansionHeights ==
    IF cache # NoAnswer /\ cache.cachedFor = LogSlots THEN cache.heights ELSE SearchExpansions

\* A request for the figures.  A header call that fails leaves the cache as it was.
Ask ==
    /\ cache' = [cachedFor |-> LogSlots, heights |-> ExpansionHeights]
    /\ UNCHANGED node

Next == NodeMines \/ Ask

Spec == Init /\ [][Next]_vars

\* stats, economics
BurnShown == EmittedUpTo(tip, ExpansionHeights) - circulating

\* burned_in_block: what the transactions paid less what the coinbase took above the subsidy.
BurnedInBlock(height, record) ==
    Greater(record.fees - (record.reward - MinerSubsidy(height, slots[height])), 0)

RecordedHeights == FirstRecorded..tip
RecordOf(height) == records[height - FirstRecorded + 1]

BurnOf == [g \in RecordedHeights |-> BurnedInBlock(g, RecordOf(g))]

\* burn_by_block, read before the node is asked for its tip: gaps, pruned blocks, blocks not
\* recorded yet and blocks that came since are not in it, so it may be any of the blocks.
Readings == SUBSET RecordedHeights

\* sampled_state_history, and the tip.
Samples == {height \in 0..tip : height % HistoryStep = 0} \cup {tip}

\* A measured burn is shown at the tip, and from the first block read on.
Measured(read) == {height \in Samples : height = tip \/ \E g \in read : g <= height}

\* Variant the runs must reject: the sample's own block is walked back over, too.
HistoryBurn_Including(height, read) ==
    Greater(BurnShown - SumFunctionOnSet(BurnOf, {g \in read : g >= height}), 0)

\* The history of get_economics: the burn at the tip walked back through the blocks read
\* above the sample.
HistoryBurn(height, read) ==
    Greater(BurnShown - SumFunctionOnSet(BurnOf, {g \in read : g > height}), 0)

\* pressure_thresholds: the live slots at which a tier starts, rounded up.
PressureThreshold(bps, capacity) == (capacity * bps + 9999) \div 10000

\* Half, three quarters and nine tenths, in basis points, with their multipliers.
PressureTiers == {<<5000, 2>>, <<7500, 4>>, <<9000, 8>>}

FeePerSlot(atSlots) == Burned(0, 1, atSlots, LogSlots)

\* Variant the runs must reject: all that is missing is charged as it would be now.
BandFee_Now(fromSlots) == FeePerSlot(active)

\* What a slot costs in the band that begins at fromSlots.
BandFee(fromSlots) == FeePerSlot(fromSlots)

\* min_burn_bands, summed up: from the live slots to the expansion threshold, each band at
\* the price of its lower edge.
MinBurn(capacity) ==
    LET goal   == (capacity \div 4) * 3
        starts == {0} \cup {PressureThreshold(t[1], capacity) : t \in PressureTiers}
        bounds == {b \in starts : b < goal} \cup {goal}
        next(b) == CHOOSE c \in bounds : b < c /\ \A d \in bounds : b < d => c <= d
    IN  SumFunction([b \in bounds \ {goal} |->
                        BandFee(b) * Greater(next(b) - Greater(active, b), 0)])

\* user_mints
UserMints == alloc - (tip + 2 * PayoutBlocksUpTo(tip))

-----------------------------------------------------------------------------
(* Properties.                                                             *)

\* Every amount is an amount; no supply is negative, since fees are paid out of it.
STypeOK ==
    /\ slots \in Seq(Nat) /\ active \in Nat /\ clock \in Nat
    /\ minted \in [miner : Nat, development : Nat] /\ unpaid \in Int
    /\ circulating \in Nat /\ burned \in Nat
    /\ alloc \in Nat /\ created \in Nat
    /\ records \in Seq([fees : Nat, reward : Nat, burned : Nat])
    /\ cache = NoAnswer \/ (cache.cachedFor \in Nat /\ cache.heights \in Seq(1..tip))

\* The closed forms (emitted_split_up_to, target_seconds_between) say of every chain, wherever
\* the state expanded, what its blocks minted and how long they took, era by era.
ClosedFormIsTheSum ==
    /\ EmittedSplitUpTo(tip, SearchExpansions) = minted
    /\ \A height \in 0..tip : TargetSeconds(0, height) + TargetSeconds(height, tip) = clock

\* user_mints: the mint counter less what consensus mints is what transactions created.
UserMintsAreTheUsers == UserMints = created

\* The payout the API announces (next_development_payout_height) is the next one: no block
\* before it pays, and it does.
NextPayoutIsNext ==
    [][tip' > tip => (PayoutDue(tip') <=> NextPayoutHeight(tip) = tip')]_vars

\* What v2 withholds from the miners is paid out to the last share by the end of the
\* allocation, and never in advance, also where a tier or the partial last day ends.
WithheldIsPaid ==
    /\ unpaid >= 0
    /\ tip >= DevEnd => unpaid = 0

\* The burn shown (issue less circulation, serve.rs:517) is what fees burned since genesis,
\* with the expansions the API has cached.
BurnShownIsBurned == BurnShown = burned

\* (history) What had been burned by a block, and in one.
BurnedBy(height) == IF height = tip THEN burned ELSE RecordOf(height).burned
BurnedSince == [g \in FirstRecorded + 1..tip |-> BurnedBy(g) - BurnedBy(g - 1)]

Unread(height, read) == {g \in RecordedHeights : g > height /\ g \notin read}

\* The burn get_economics shows of an earlier block is too high by exactly what was burned in
\* the blocks above it that the request did not read: exact where there is none, and never
\* too low.
HistoryMissesOnlyTheUnread ==
    \A read \in Readings : \A height \in Measured(read) :
        HistoryBurn(height, read) =
            BurnedBy(height) + SumFunctionOnSet(BurnedSince, Unread(height, read))

\* The thresholds shown are where the node's multiplier changes, and the least burn to the
\* next expansion is what creating the missing slots one by one would burn.
PressureIsExact ==
    LET capacity == Capacity[LogSlots]
        missing  == active..((capacity \div 4) * 3 - 1)
    IN  /\ \A t \in PressureTiers, n \in 0..capacity :
              PressureThreshold(t[1], capacity) <= n <=> PressureMultiplier(n, LogSlots) >= t[2]
        /\ MinBurn(capacity) = SumFunction([n \in missing |-> FeePerSlot(n)])
===============================================================================
