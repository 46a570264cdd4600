------------------------------ MODULE MCReceipts ------------------------------
(* A small instance of Receipts.tla.                                         *)
EXTENDS Receipts, TLC

\* The processes that run the command are alike.
AnyImporter == Permutations(Importers)

ForkAtOne == [c \in Chains |-> 1]

Receipt(t, x, h, p, n) ==
    [txid |-> t, hash |-> x, height |-> h, position |-> p, count |-> n, sound |-> TRUE]

\* Transaction 1 is confirmed at height 1 of both chains, next to transaction 2 on Main and
\* in a shorter block on the other; transaction 2 is confirmed later there.
OnMain == {Receipt(1, Main, 1, 1, 3), Receipt(2, Main, 1, 2, 3)}
OnFork == UNION {{Receipt(1, c, 1, 1, 2), Receipt(2, c, 2, 1, 2)} : c \in Chains \ {Main}}

Damaged == [Receipt(1, Main, 1, 1, 3) EXCEPT !.sound = FALSE]

SomeReceipts == OnMain \cup OnFork \cup {Damaged}

\* The wallet has the receipt of transaction 1 from the other chain, the lists have those
\* of Main.
FirstPayment == {r \in OnFork : r.txid = 1}

\* A list with two receipts and one of them again; one misfiled and one damaged entry.
SomeFiles ==
    LET bare(r) == [key |-> NoKey, receipt |-> r]
        a == Receipt(1, Main, 1, 1, 3)
        b == Receipt(2, Main, 1, 2, 3)
    IN { <<bare(a), bare(b), bare(a)>>,
         <<[key |-> 2, receipt |-> a], bare(Damaged)>> }

\* Journals with one fault each: no snapshot first, a key that is no txid, a txid twice, a
\* deletion in a snapshot, a damaged frame.
ForeignJournals ==
    LET a == Receipt(1, Main, 1, 1, 3)
        b == Receipt(2, Main, 1, 2, 3)
    IN { <<Frame("whole", FALSE, {<<1, a>>})>>,
         <<Frame("whole", TRUE, {<<NoKey, a>>})>>,
         <<Frame("whole", TRUE, {<<1, a>>, <<1, b>>})>>,
         <<Frame("whole", TRUE, {<<1, a>>}), Frame("whole", TRUE, {<<1, NoReceipt>>})>>,
         <<Frame("damaged", TRUE, {<<1, a>>})>> }

\* parse_journal refuses each of them.
ASSUME EachIsRefused == \A f \in ForeignJournals : Parse(f) = Corrupt
===============================================================================
