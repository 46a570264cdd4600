------------------------------- MODULE Emission -------------------------------
(***************************************************************************)
(* The emission schedule of core/src/emission.rs: what each block mints,   *)
(* and the closed forms that say what all blocks up to a height minted.    *)
(*                                                                         *)
(* Two eras: before Activation the subsidy halves with every expansion of  *)
(* the state (log_slots), from Activation on it follows the height.  A part *)
(* of it is withheld from the miners and paid out once per day.  The       *)
(* constants of the code are constants here, so that small ones reach      *)
(* every boundary.                                                         *)
(***************************************************************************)
EXTENDS Integers, Sequences, Functions

CONSTANTS
    BaseReward, FloorReward,   \* legacy subsidy, and its floor
    LogSlotsGenesis,           \* state size at genesis
    Activation,                \* V2_ACTIVATION_HEIGHT
    LegacyDay, V2Day,          \* blocks per day (payout interval) of each era
    LegacyTime, V2Time,        \* target seconds per block of each era
    Rewards,                   \* V2_REWARDS_MICRONOID
    Interval,                  \* V2_REWARD_INTERVAL_BLOCKS
    Duration,                  \* DEVELOPMENT_ALLOCATION_DURATION_SECONDS
    LegacyDevEnd,              \* LEGACY_DEVELOPMENT_ALLOCATION_END_HEIGHT
    ShareDenominator           \* DEVELOPMENT_SHARE_DENOMINATOR

\* The tiers begin where payout intervals do (1,051,200 = 365 x 2,880), and the fork comes
\* before the allocation's legacy end.
ASSUME EmissionAssumption ==
    /\ BaseReward \in Nat /\ FloorReward \in Nat /\ LogSlotsGenesis \in Nat
    /\ Activation \in Nat \ {0} /\ LegacyDevEnd \in Nat /\ Activation <= LegacyDevEnd
    /\ LegacyDay \in Nat \ {0} /\ V2Day \in Nat \ {0, 1}
    /\ LegacyTime \in Nat /\ V2Time \in Nat \ {0}
    /\ Rewards \in Seq(Nat) /\ Rewards # <<>>
    /\ Interval \in Nat \ {0} /\ Interval % V2Day = 0
    /\ Duration \in Nat /\ Duration >= (Activation - 1) * LegacyTime
    /\ ShareDenominator \in Nat \ {0, 1}

LastLegacy == Activation - 1

\* DEVELOPMENT_ALLOCATION_END_HEIGHT
DevEnd == LastLegacy + (Duration - LastLegacy * LegacyTime) \div V2Time

NoHeight == -1

Lesser(a, b)  == IF a < b THEN a ELSE b
Greater(a, b) == IF a > b THEN a ELSE b

-----------------------------------------------------------------------------
(* One block.                                                              *)

V2Active(height) == height >= Activation

BlockTimeAt(height) == IF V2Active(height) THEN V2Time ELSE LegacyTime

\* A shift to the right by one for every expansion.
Halved[expansions \in Nat] ==
    IF expansions = 0 THEN BaseReward ELSE Halved[expansions - 1] \div 2

\* block_reward: a halving for every expansion, down to the floor.
BlockReward(logSlots) == Greater(Halved[logSlots - LogSlotsGenesis], FloorReward)

\* v2_tier, counted from 1.
Tier(height) == Lesser((height - Activation) \div Interval + 1, Len(Rewards))

TierFirst(tier) == Activation + (tier - 1) * Interval

BlockRewardAt(height, logSlots) ==
    IF V2Active(height) THEN Rewards[Tier(height)] ELSE BlockReward(logSlots)

DevActive(height) ==
    height \in 1..(IF V2Active(height) THEN DevEnd ELSE LegacyDevEnd)

ShareEach(height, logSlots) == BlockRewardAt(height, logSlots) \div ShareDenominator

\* Variant the runs must reject: the last, partial day is not paid.
PayoutDays_Full(height) ==
    IF ~DevActive(height) THEN 0
    ELSE IF ~V2Active(height) THEN IF height % LegacyDay = 0 THEN LegacyDay ELSE 0
    ELSE IF (height - LastLegacy) % V2Day = 0 /\ height # Activation THEN V2Day ELSE 0

\* The blocks a payout at height covers, 0 if none is due.
PayoutDays(height) ==
    IF ~DevActive(height) THEN 0
    ELSE IF ~V2Active(height) THEN IF height % LegacyDay = 0 THEN LegacyDay ELSE 0
    ELSE IF height = Activation THEN 0
    ELSE LET elapsed == height - LastLegacy IN
         IF elapsed % V2Day = 0 THEN V2Day
         ELSE IF height = DevEnd THEN elapsed % V2Day
         ELSE 0

PayoutDue(height) == PayoutDays(height) > 0

\* payout_each of both funds; miner_subsidy.
Payout(height, logSlots) == 2 * ShareEach(height, logSlots) * PayoutDays(height)

Withheld(height, logSlots) == IF DevActive(height) THEN 2 * ShareEach(height, logSlots) ELSE 0

MinerSubsidy(height, logSlots) == BlockRewardAt(height, logSlots) - Withheld(height, logSlots)

-----------------------------------------------------------------------------
(* Closed forms.                                                           *)

\* target_seconds_between
TargetSeconds(from, to) ==
    IF to <= from THEN 0
    ELSE LET legacy == Greater(Lesser(to, LastLegacy) - from, 0)
         IN legacy * LegacyTime + (to - from - legacy) * V2Time

FinalPartialPayoutBlocks == (DevEnd - LastLegacy) % V2Day

\* v2_regular_payouts_in: multiples of V2Day, counted from LastLegacy, in from..to.
RegularPayoutsIn(from, to) ==
    LET hi == Lesser(to, DevEnd)
        lo == Greater(from, Activation)
    IN IF hi < lo THEN 0
       ELSE Greater((hi - LastLegacy) \div V2Day + 1
                        - (lo - LastLegacy + V2Day - 1) \div V2Day, 0)

\* Variant the runs must reject: the incomplete legacy day is counted on into v2.
PayoutBlocksUpTo_ThroughTheFork(height) ==
    Lesser(height, DevEnd) \div LegacyDay

\* development_payout_blocks_up_to
PayoutBlocksUpTo(height) ==
    Lesser(height, LastLegacy) \div LegacyDay + RegularPayoutsIn(Activation, height)
        + IF FinalPartialPayoutBlocks # 0 /\ height >= DevEnd THEN 1 ELSE 0

NothingMinted == [miner |-> 0, development |-> 0]

\* emitted_legacy_range: the state has one size from..to.
LegacyRange(from, to, logSlots) ==
    LET share == BlockReward(logSlots) \div ShareDenominator IN
    IF to < from THEN NothingMinted
    ELSE [ miner       |-> (to - from + 1) * (BlockReward(logSlots) - 2 * share),
           development |-> (to \div LegacyDay - (from - 1) \div LegacyDay) * 2 * share * LegacyDay ]

\* The heights of one size of the state, up to height; expansions above it leave none.
SizeFirst(i, expansions) == IF i = 1 THEN 1 ELSE expansions[i - 1]
SizeLast(i, height, expansions) ==
    IF i > Len(expansions) THEN height ELSE Lesser(expansions[i] - 1, height)

SizeRange(i, height, expansions) ==
    LegacyRange(SizeFirst(i, expansions), SizeLast(i, height, expansions), LogSlotsGenesis + i - 1)

\* emitted_legacy_up_to: one range per size of the state; the expansions ascend.
LegacyUpTo(height, expansions) ==
    LET sizes == 1..(Len(expansions) + 1)
    IN [ miner       |-> SumFunction([i \in sizes |-> SizeRange(i, height, expansions).miner]),
         development |-> SumFunction([i \in sizes |-> SizeRange(i, height, expansions).development]) ]

\* Variant the runs must reject: all blocks of a tier are taken for blocks of the allocation.
V2TierRange_AllDev(tier, from, to) ==
    LET first == Greater(TierFirst(tier), from)
        last  == IF tier = Len(Rewards) THEN to ELSE Lesser(TierFirst(tier + 1) - 1, to)
        share == Rewards[tier] \div ShareDenominator
    IN IF last < first THEN NothingMinted
       ELSE [ miner       |-> (last - first + 1) * (Rewards[tier] - 2 * share),
              development |-> 2 * share * V2Day * RegularPayoutsIn(first, last) ]

\* emitted_v2_between, one tier of it.
V2TierRange(tier, from, to) ==
    LET first == Greater(TierFirst(tier), from)
        last  == IF tier = Len(Rewards) THEN to ELSE Lesser(TierFirst(tier + 1) - 1, to)
        share == Rewards[tier] \div ShareDenominator
        dev   == Greater(Lesser(last, DevEnd) - first + 1, 0)
        final == IF DevEnd \in first..last THEN FinalPartialPayoutBlocks ELSE 0
    IN IF last < first THEN NothingMinted
       ELSE [ miner       |-> (last - first + 1) * Rewards[tier] - dev * 2 * share,
              development |-> 2 * share * (V2Day * RegularPayoutsIn(first, last) + final) ]

V2Between(from, to) ==
    [ miner       |-> SumFunction([t \in DOMAIN Rewards |-> V2TierRange(t, from, to).miner]),
      development |-> SumFunction([t \in DOMAIN Rewards |-> V2TierRange(t, from, to).development]) ]

\* emitted_split_up_to
EmittedSplitUpTo(height, expansions) ==
    LET legacy == LegacyUpTo(Lesser(height, LastLegacy), expansions)
        v2     == V2Between(Activation, height)
    IN IF V2Active(height)
         THEN [ miner       |-> legacy.miner + v2.miner,
                development |-> legacy.development + v2.development ]
         ELSE legacy

\* emitted_up_to
EmittedUpTo(height, expansions) ==
    LET split == EmittedSplitUpTo(height, expansions) IN split.miner + split.development

\* Variant the runs must reject: the last legacy payout is looked for after the fork, too.
NextPayoutHeight_NoFork(height) ==
    IF height < LastLegacy THEN (height \div LegacyDay + 1) * LegacyDay
    ELSE LastLegacy + ((height - LastLegacy) \div V2Day + 1) * V2Day

\* next_development_payout_height
NextPayoutHeight(height) ==
    LET legacy == (height \div LegacyDay + 1) * LegacyDay
        from   == Greater(height, LastLegacy)
        next   == LastLegacy + ((from - LastLegacy) \div V2Day + 1) * V2Day
    IN IF height < LastLegacy /\ legacy < Activation THEN legacy
       ELSE IF next <= DevEnd THEN next
       ELSE IF height < DevEnd /\ FinalPartialPayoutBlocks # 0 THEN DevEnd
       ELSE NoHeight
=============================================================================
