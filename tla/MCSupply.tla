------------------------------- MODULE MCSupply -------------------------------
(* A small instance of Supply.tla: fork at 8, tiers at 8, 12 and 16, end of  *)
(* the allocation at 14, one block after a payout.                           *)
EXTENDS Supply

ThreeTiers == <<60, 40, 20>>

\* One grows the state by a slot, one frees a slot.
GrowAndShrink == { [inputs |-> 1, outputs |-> 2, tip |-> 1],
                   [inputs |-> 3, outputs |-> 2, tip |-> 0] }
===============================================================================
