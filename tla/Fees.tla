--------------------------------- MODULE Fees ---------------------------------
(***************************************************************************)
(* The fee model of core/src/fees.rs: how a paid fee splits into what the  *)
(* miner may claim and what is burned.  The widths of the code's integers  *)
(* (its arithmetic saturates) are far above any real fee and left out.     *)
(***************************************************************************)
EXTENDS Integers

CONSTANTS
    MinFeeBase, FeePerInput, FeePerOutput,  \* MIN_FEE_BASE, FEE_PER_INPUT, FEE_PER_OUTPUT
    StateGrowthFeeBase                      \* STATE_GROWTH_FEE_BASE

ASSUME FeesAssumption ==
    /\ MinFeeBase \in Nat /\ FeePerInput \in Nat /\ FeePerOutput \in Nat
    /\ StateGrowthFeeBase \in Nat

Above(a, b) == IF a > b THEN a - b ELSE 0

\* A shift to the left by one for every doubling of the state.
Capacity[logSlots \in Nat] == IF logSlots = 0 THEN 1 ELSE 2 * Capacity[logSlots - 1]

OccupancyBps(active, logSlots) == (active * 10000) \div Capacity[logSlots]

PressureMultiplier(active, logSlots) ==
    LET bps == OccupancyBps(active, logSlots) IN
    IF bps >= 9000 THEN 8 ELSE IF bps >= 7500 THEN 4 ELSE IF bps >= 5000 THEN 2 ELSE 1

\* The state-growth component: net-new slots only.
Burned(inputs, outputs, active, logSlots) ==
    StateGrowthFeeBase * PressureMultiplier(active, logSlots) * Above(outputs, inputs)

RequiredTotal(inputs, outputs, active, logSlots) ==
    MinFeeBase + FeePerInput * inputs + FeePerOutput * outputs
        + Burned(inputs, outputs, active, logSlots)

\* Variant the runs must reject: the miner keeps the tip only.
ToMiner_Tip(fee, inputs, outputs, active, logSlots) ==
    Above(fee, RequiredTotal(inputs, outputs, active, logSlots))

\* What the coinbase may claim.
ToMiner(fee, inputs, outputs, active, logSlots) ==
    Above(fee, Burned(inputs, outputs, active, logSlots))
=============================================================================
