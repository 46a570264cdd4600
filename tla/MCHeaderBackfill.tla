--------------------------- MODULE MCHeaderBackfill ---------------------------
(* Small instances of HeaderBackfill.tla.                                  *)
EXTENDS HeaderBackfill

\* One chain that leaves Main at height 2, below the block the archive begins with.
DeepFork == [c \in Chains |-> IF c = Main THEN 1 ELSE 2]

AnyPlace == Places \ {"down"}
=============================================================================
