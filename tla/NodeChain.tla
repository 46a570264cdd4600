------------------------------ MODULE NodeChain ------------------------------
(***************************************************************************)
(* The Parano1d node as the permanode sees it over JSON-RPC.  The node is  *)
(* not part of the repository: this module says only what the code in      *)
(* permanode/src relies on (block_count, getBlockHeader, getBlockDetails,  *)
(* getBlock) and lets the node do everything else it may do.               *)
(*                                                                         *)
(* A chain is a model value.  Every other chain leaves Main at one height, *)
(* so the block a chain has at a height is named by a chain: Main below    *)
(* the fork, the chain itself from there on.  That name plays the part of  *)
(* the block hash.                                                         *)
(***************************************************************************)
EXTENDS Integers

CONSTANTS
    Chains,             \* the chains the node may follow
    Main,               \* the chain it starts on
    ForkAt,             \* [Chains -> Heights]: first height at which a chain differs from Main
    MaxHeight,          \* bound: no chain is longer
    StartTip,           \* the node's tip when the permanode is first started
    ServingWindow,      \* the node keeps bodies of its last ServingWindow blocks
    MaxReorgDepth,      \* the protocol's limit: blocks one reorganization may replace
    MaxReorgs,          \* bound: reorganizations in a behaviour
    NodeMayShrink,      \* a reorganization may leave a lower tip for a while
    BodiesMayBeMissing  \* the node may lack a body inside its window (fresh snapshot)

Heights == 0..MaxHeight

ASSUME ChainAssumption ==
    /\ Main \in Chains
    /\ MaxHeight \in Nat /\ StartTip \in 1..MaxHeight
    /\ ForkAt \in [Chains -> 1..MaxHeight]
    /\ ServingWindow \in Nat /\ MaxReorgDepth \in Nat /\ MaxReorgs \in Nat
    /\ NodeMayShrink \in BOOLEAN /\ BodiesMayBeMissing \in BOOLEAN

VARIABLE node   \* [chain, tip, reorgs]

-----------------------------------------------------------------------------
(* Block names.                                                            *)

HashAt(c, h) == IF h < ForkAt[c] THEN Main ELSE c

\* The first height at which two different chains hold different blocks.
SplitAt(c, d) ==
    IF c = Main THEN ForkAt[d]
    ELSE IF d = Main \/ ForkAt[c] < ForkAt[d] THEN ForkAt[c] ELSE ForkAt[d]

\* The parent a block at height h names in its prev_hash.
ParentOf(x, h) == HashAt(x, h - 1)

\* a - b, stopped at zero (u64::saturating_sub).
Monus(a, b) == IF a < b THEN 0 ELSE a - b

-----------------------------------------------------------------------------
(* What the node answers.                                                  *)

HasHeader(h) == h <= node.tip

NodeHash(h) == HashAt(node.chain, h)

InWindow(h) == h <= node.tip /\ node.tip < h + ServingWindow

\* Whether a request for the body at h (getBlockDetails, then getBlock) succeeds.
BodyAnswers(h) ==
    IF ~InWindow(h) THEN {FALSE}
    ELSE IF BodiesMayBeMissing THEN BOOLEAN ELSE {TRUE}

-----------------------------------------------------------------------------
NodeType == [chain : Chains, tip : Heights, reorgs : 0..MaxReorgs]

NodeInit == node = [chain |-> Main, tip |-> StartTip, reorgs |-> 0]

NodeExtend ==
    /\ node.tip < MaxHeight
    /\ node' = [node EXCEPT !.tip = @ + 1]

\* The node changes to chain c: it replaces its blocks from the fork point on.
NodeReorg(c) ==
    LET split == SplitAt(node.chain, c) IN
    /\ c # node.chain
    /\ node.reorgs < MaxReorgs
    /\ split <= node.tip + 1
    /\ node.tip + 1 - split <= MaxReorgDepth
    /\ \E t \in split..MaxHeight :
         /\ t <= node.tip + 1
         /\ ~NodeMayShrink => node.tip <= t
         /\ node' = [chain |-> c, tip |-> t, reorgs |-> node.reorgs + 1]

NodeStep == NodeExtend \/ \E c \in Chains : NodeReorg(c)
=============================================================================
