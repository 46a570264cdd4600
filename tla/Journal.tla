------------------------------- MODULE Journal --------------------------------
(***************************************************************************)
(* The wallet's receipt journal as permanode/src/receipts.rs reads it      *)
(* (parse_journal), frame by frame.  A frame is whole; or the file ends    *)
(* within the length it names (cut), where the reading stops; or its       *)
(* length, its checksum or its text is wrong (damaged).                    *)
(*                                                                         *)
(* Changes are a set: one txid spelled twice with the same receipt, which  *)
(* the code refuses, is left out.                                          *)
(***************************************************************************)
EXTENDS Naturals, Sequences

CONSTANTS
    Txids,       \* transactions, by number
    Receipts,    \* receipts
    NoKey,       \* a key that is no txid
    NoReceipt,   \* null: the receipt of a txid is deleted, or there is none
    Corrupt      \* the journal does not read

\* A frame's changes are pairs of a key and a receipt or null.
Frame(part, isReset, changes) == [part |-> part, reset |-> isReset, changes |-> changes]

Frames == [ part    : {"whole", "cut", "damaged"},
            reset   : BOOLEAN,
            changes : SUBSET ((Txids \cup {NoKey}) \X (Receipts \cup {NoReceipt})) ]

NoneHeld == [t \in Txids |-> NoReceipt]

\* What a whole frame must be, the first one a snapshot.
Sound(f, isFirst) ==
    /\ isFirst => f.reset
    /\ \A c \in f.changes :
          /\ c[1] \in Txids
          /\ f.reset => c[2] # NoReceipt
          /\ \A d \in f.changes : d[1] = c[1] => d = c

\* The changes of a frame: an insertion or, for null, a removal.
Changed(held, changes) ==
    [t \in Txids |-> IF \E c \in changes : c[1] = t
                     THEN (CHOOSE c \in changes : c[1] = t)[2]
                     ELSE held[t]]

\* What was held before a frame, as the frame leaves it.
Replayed(held, f) == Changed(IF f.reset THEN NoneHeld ELSE held, f.changes)

HeldAfter(frames, n) ==
    LET held[i \in 0..n] == IF i = 0 THEN NoneHeld ELSE Replayed(held[i - 1], frames[i])
    IN held[n]

\* Variant the runs must reject: what there is of a frame the file ends in is read as well.
IsRead_Cut(f) == f.part # "damaged"

\* A frame whose length lies within the file and whose checksum fits is read.
IsRead(f) == f.part = "whole"

\* How many frames are read before one that is not.
ReadFrames(frames) ==
    CHOOSE n \in 0..Len(frames) :
        /\ \A i \in 1..n : IsRead(frames[i])
        /\ n < Len(frames) => ~IsRead(frames[n + 1])

\* parse_journal: what the journal holds, up to a frame cut short; any other fault is an error.
Parse(frames) ==
    LET n == ReadFrames(frames) IN
    IF \/ n = 0
       \/ n < Len(frames) /\ frames[n + 1].part = "damaged"
       \/ \E i \in 1..n : ~Sound(frames[i], i = 1)
      THEN Corrupt
      ELSE HeldAfter(frames, n)
===============================================================================
