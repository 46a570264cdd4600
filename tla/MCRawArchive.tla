---------------------------- MODULE MCRawArchive ----------------------------
(* Small instances of RawArchive.tla.                                      *)
EXTENDS RawArchive

\* One chain that leaves Main at height 3: inside the window, above the first gap.
OneFork == [c \in Chains |-> IF c = Main THEN 1 ELSE 3]
=============================================================================
