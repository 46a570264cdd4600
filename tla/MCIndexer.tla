------------------------------ MODULE MCIndexer ------------------------------
(* Small instances of Indexer.tla.                                         *)
EXTENDS Indexer

\* One chain that leaves Main at height 3.
OneFork == [c \in Chains |-> IF c = Main THEN 1 ELSE 3]

\* Where the loop may be cut short: anywhere, anywhere but between a block's commit and
\* the commit of last_processed_height, only there, nowhere.
AllPlaces     == Places \ {"down"}
BeforeAdvance == AllPlaces \ {"advance"}
OnlyAdvance   == {"advance"}
NoPlaces      == {}
=============================================================================
