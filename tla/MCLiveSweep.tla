----------------------------- MODULE MCLiveSweep -----------------------------
(* Small instances of LiveSweep.tla.                                       *)
EXTENDS LiveSweep, Sequences

\* One chain that leaves Main at height 2.
ForkAtTwo == [c \in Chains |-> IF c = Main THEN 1 ELSE 2]

\* Coins 1 and 2 lie in the first segment, 3 and 4 in the second.
TwoSegments == [c \in Coins |-> IF c <= 2 THEN 1 ELSE 2]

\* A block's coins by height, for Main and for the other chain.
ByHeight(onMain, onFork) ==
    [x \in Chains |-> [h \in Heights |->
        IF h + 1 > Len(onMain) THEN {} ELSE IF x = Main THEN onMain[h + 1] ELSE onFork[h + 1]]]

\* Coins 1 and 3 are older than the recording and spent on both chains, at different
\* heights; coin 2 is created and spent on Main, coin 4 on the other chain, and each is
\* created later on the chain that does not spend it.
MixedCreates == ByHeight(<<{3}, {1}, {2}, {4}>>, <<{}, {}, {4}, {2}>>)
MixedSpends  == ByHeight(<<{}, {}, {1}, {2, 3}>>, <<{}, {}, {3}, {1, 4}>>)

\* Every set of coins has a sum of its own.
Powers == [c \in Coins |-> 2^c]
=============================================================================
