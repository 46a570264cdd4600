------------------------------- MODULE MCApi -------------------------------
(* A small instance of Api.tla.                                            *)
EXTENDS Api

\* One chain that leaves Main at height 4.
ForkAtFour == [c \in Chains |-> IF c = Main THEN 1 ELSE 4]

\* Seconds, scaled down from 30, 60 and 60.
Ages == [k \in Figures |-> IF k = "stats" THEN 1 ELSE 2]
=============================================================================
