------------------------------ MODULE MCTipWatch ------------------------------
(* A small instance of TipWatch.tla.                                       *)
EXTENDS TipWatch

\* One chain that leaves Main at height 2.
ForkAtTwo == [c \in Chains |-> IF c = Main THEN 1 ELSE 2]
=============================================================================
