------------------------------- MODULE Archive -------------------------------
(***************************************************************************)
(* What the recorded archive promises a reader, whatever the node, the     *)
(* peers and the interruptions do (README.md, "How it works"): it is one   *)
(* run of heights that grows at its upper end by one block at a time; the  *)
(* block shown at a recorded height may be replaced by another, never by   *)
(* nothing; a body that is on record leaves only with its block or by      *)
(* retention.                                                              *)
(***************************************************************************)
EXTENDS Naturals

CONSTANTS MaxHeight, Blocks, NoBlock

Heights == 0..MaxHeight

VARIABLES
    shown,      \* [Heights -> Blocks \cup {NoBlock}]: the block shown at a height
    complete    \* the heights whose shown block has its body

vars == <<shown, complete>>

Init == shown = [h \in Heights |-> NoBlock] /\ complete = {}

\* The next height gets its first block: the very first one, or the one above the top.
Record(h, b, body) ==
    /\ \A g \in Heights : g >= h => shown[g] = NoBlock
    /\ (\E g \in Heights : shown[g] # NoBlock) => h > 0 /\ shown[h - 1] # NoBlock
    /\ shown' = [shown EXCEPT ![h] = b]
    /\ complete' = IF body THEN complete \cup {h} ELSE complete

\* A reorganization: another block takes a recorded height in one step.
Replace(h, b, body) ==
    /\ shown[h] # NoBlock /\ shown[h] # b
    /\ shown' = [shown EXCEPT ![h] = b]
    /\ complete' = IF body THEN complete \cup {h} ELSE complete \ {h}

\* A missing body is found, or retention drops one.
Complete(h) ==
    /\ shown[h] # NoBlock /\ h \notin complete
    /\ complete' = complete \cup {h}
    /\ UNCHANGED shown

Drop(h) ==
    /\ h \in complete
    /\ complete' = complete \ {h}
    /\ UNCHANGED shown

Next ==
    \E h \in Heights :
        \/ \E b \in Blocks : \E body \in BOOLEAN : Record(h, b, body) \/ Replace(h, b, body)
        \/ Complete(h)
        \/ Drop(h)

Spec == Init /\ [][Next]_vars
=============================================================================
