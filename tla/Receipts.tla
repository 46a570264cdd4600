------------------------------- MODULE Receipts -------------------------------
(***************************************************************************)
(* import-receipts (permanode/src/receipts.rs) over the tables of          *)
(* core/src/db.rs: header-only blocks are completed with the transactions  *)
(* that wallet receipts prove, while the node moves, the permanode records *)
(* and the command runs a second time, or next to itself.                  *)
(*                                                                         *)
(* A receipt names its block by hash: that stands for tx_root and time.    *)
(* The recording side is reduced to the rows it leaves, as in Indexer.tla  *)
(* and HeaderBackfill.tla.                                                 *)
(***************************************************************************)
EXTENDS NodeChain, Journal, SequencesExt

CONSTANTS
    FinalDepth,    \* blocks above a header that is copied
    Importers,     \* processes that run the command
    MaxRuns,       \* bound: runs of each
    MaxFailures,   \* bound: calls and runs that fail
    MaxFrames,     \* bound: frames of the wallet's journal
    MaxGaps,       \* bound: gaps on record at a time
    Payments,      \* the receipts the wallet may get
    TextFiles,     \* other input: sequences of entries [key, receipt]
    OtherJournals, \* journals that no wallet wrote
    NoRow          \* no canonical block at a height

\* A receipt is filed under a txid or, in a list, under NoKey.  A sound receipt is one of the
\* wallet's: it names a position of its block, and no two receipts disagree on a block.
ASSUME ReceiptsAssumption ==
    /\ FinalDepth \in Nat /\ MaxRuns \in Nat /\ MaxFailures \in Nat /\ MaxFrames \in Nat
    /\ MaxGaps \in Nat
    /\ Txids \subseteq Nat /\ NoKey \notin Txids /\ NoReceipt \notin Receipts
    /\ Corrupt \notin [Txids -> Receipts \cup {NoReceipt}]
    /\ OtherJournals \subseteq Seq(Frames)
    /\ NoRow \notin [hash : Chains, kind : {"body", "gap", "header"}]
    /\ Receipts \subseteq [ txid : Txids, hash : Chains, height : Heights,
                            position : Nat, count : Nat, sound : BOOLEAN ]
    /\ Payments \subseteq {r \in Receipts : r.sound}
    /\ \A r, q \in Receipts :
          r.sound /\ q.sound /\ r.hash = q.hash /\ r.height = q.height =>
              /\ r.position \in 1..(r.count - 1) /\ r.count = q.count
              /\ (r.position = q.position) <=> (r.txid = q.txid)

Entries == [key : Txids \cup {NoKey}, receipt : Receipts]
Outcomes == {"imported", "known", "duplicate", "recorded", "unrecorded", "gap",
             "no header", "rejected"}

VARIABLES
    rows,       \* [Heights -> [hash, kind]]: the canonical block at a height, or NoRow
    stored,     \* transactions with source 'receipt': [height, position, txid]
    total,      \* [Heights -> Nat]: tx_count_total, 0 for NULL
    wallet,     \* [Txids -> Receipts \cup {NoReceipt}]: what the wallet holds
    journal,    \* its journal's frames
    past,       \* history: what it held after each frame it wrote whole
    imp,        \* [Importers -> where a run is and what it holds]
    credited,   \* history: [Receipts -> how often it was imported]
    failures    \* calls and runs that failed

tables == <<rows, stored, total>>
walletVars == <<wallet, journal, past>>
vars == <<node, tables, walletVars, imp, credited, failures>>

-----------------------------------------------------------------------------
(* The wallet and its journal.                                             *)

\* The frames written whole: the next write takes the place of one that was cut short.
Written == SubSeq(journal, 1, Len(past))

\* The wallet goes on with what a whole frame leaves it.
Writes(f, held) ==
    /\ journal' = Append(Written, f)
    /\ wallet' = held /\ past' = Append(past, held)

\* The wallet files a receipt, replaces one or deletes one; a write may be cut short, and then
\* the wallet is as before.
FileReceipt ==
    \E t \in Txids : \E r \in {q \in Payments : q.txid = t} \cup {NoReceipt} :
        /\ wallet[t] # r
        /\ \/ Writes(Frame("whole", FALSE, {<<t, r>>}), [wallet EXCEPT ![t] = r])
           \/ /\ Written = journal
              /\ journal' = Append(journal, Frame("cut", FALSE, {<<t, r>>}))
              /\ UNCHANGED <<wallet, past>>

\* It writes a snapshot of what it keeps.
KeepReceipts ==
    \E kept \in SUBSET {t \in Txids : wallet[t] # NoReceipt} :
        Writes(Frame("whole", TRUE, {<<t, wallet[t]>> : t \in kept}),
               [t \in Txids |-> IF t \in kept THEN wallet[t] ELSE NoReceipt])

WalletWrites ==
    /\ Len(past) < MaxFrames
    /\ FileReceipt \/ KeepReceipts
    /\ UNCHANGED <<node, tables, imp, credited, failures>>

\* The journal's entries, by txid as the map has them.
JournalEntries(held) ==
    LET keys == SetToSortSeq({t \in Txids : held[t] # NoReceipt}, <)
    IN [i \in DOMAIN keys |-> [key |-> keys[i], receipt |-> held[keys[i]]]]

-----------------------------------------------------------------------------
(* The recording side.                                                     *)

RowAt(x, k) == [hash |-> x, kind |-> k]

Highest == CHOOSE h \in Heights : rows[h] # NoRow /\ \A g \in Heights : rows[g] # NoRow => g <= h
Lowest  == CHOOSE h \in Heights : rows[h] # NoRow /\ \A g \in Heights : rows[g] # NoRow => h <= g

Put(h, kind) == rows' = [rows EXCEPT ![h] = RowAt(NodeHash(h), kind)]

\* The loop: the next height, a replaced block, a gap filled.
Record ==
    \E h \in Heights, kind \in {"body", "gap"} :
        /\ h <= node.tip
        /\ kind = "gap" => Cardinality({g \in Heights : rows[g] # NoRow /\ rows[g].kind = "gap"}) < MaxGaps
        /\ \/ h = Highest + 1
           \/ rows[h] # NoRow /\ rows[h].kind # "header" /\ rows[h].hash # NodeHash(h)
           \/ rows[h] = RowAt(NodeHash(h), "gap") /\ kind = "body"
        /\ Put(h, kind)

\* The header backfill: one block down, final when it is copied.
CopyHeader ==
    /\ Lowest > 0 /\ node.tip <= Highest + 1
    /\ Lowest - 1 <= Monus(node.tip, FinalDepth + 1)
    /\ NodeHash(Lowest - 1) = ParentOf(rows[Lowest].hash, Lowest)
    /\ Put(Lowest - 1, "header")

\* History: nothing but the importers moves while a run is calm.
Disturb == imp' = [i \in Importers |-> [imp[i] EXCEPT !.calm = FALSE]]

Environment ==
    /\ \/ NodeStep /\ UNCHANGED rows
       \/ (Record \/ CopyHeader) /\ UNCHANGED node
    /\ Disturb
    /\ UNCHANGED <<stored, total, walletVars, credited, failures>>

-----------------------------------------------------------------------------
(* import_receipts and import_one.                                         *)

Idle == [pc |-> "idle", runs |-> 0, todo |-> <<>>, seen |-> {}, results |-> {}, calm |-> FALSE]

Init ==
    /\ NodeInit
    /\ rows = [h \in Heights |-> IF h = StartTip THEN RowAt(Main, "body") ELSE NoRow]
    /\ stored = {} /\ total = [h \in Heights |-> 0]
    /\ wallet = NoneHeld /\ journal = <<Frame("whole", TRUE, {})>> /\ past = <<NoneHeld>>
    /\ imp = [i \in Importers |-> Idle]
    /\ credited = [r \in Receipts |-> 0]
    /\ failures = 0

\* The node's chain is on record as far as the permanode's rows go.
InStep == \A h \in Heights : rows[h] # NoRow => h <= node.tip /\ rows[h].hash = NodeHash(h)

Entry(i) == Head(imp[i].todo)

\* The entry's result; on to the next entry.
Ends(i, outcome) ==
    imp' = [imp EXCEPT ![i].pc = "entry",
                       ![i].seen = @ \cup {Entry(i)},
                       ![i].todo = Tail(@),
                       ![i].results = @ \cup {[entry |-> Entry(i), outcome |-> outcome]}]

Goes(i, pc) == imp' = [imp EXCEPT ![i].pc = pc]

\* What a journal that no wallet wrote may hold; what a command may read of a journal.
ForeignHeld == {Parse(f) : f \in OtherJournals}
Readings == ForeignHeld \cup {Parse(journal)}

\* run_import_receipts reads every file first: here a journal or another file.
Begin(i) ==
    /\ imp[i].pc \in {"idle", "done"} /\ imp[i].runs < MaxRuns
    /\ \E entries \in {JournalEntries(held) : held \in Readings \ {Corrupt}} \cup TextFiles :
         imp' = [imp EXCEPT ![i] = [Idle EXCEPT !.pc = "entry", !.runs = imp[i].runs + 1,
                                                !.todo = entries, !.calm = InStep]]
    /\ UNCHANGED <<tables, credited, failures>>

\* A journal that does not read ends the command before it has done anything.
Refuse(i) ==
    /\ imp[i].pc \in {"idle", "done"} /\ imp[i].runs < MaxRuns
    /\ Corrupt \in Readings
    /\ imp' = [imp EXCEPT ![i] = [Idle EXCEPT !.runs = imp[i].runs + 1]]
    /\ UNCHANGED <<tables, credited, failures>>

\* Variant the runs must reject: a txid is taken once.
Duplicate_ByKey(i) == \E e \in imp[i].seen : e.key = Entry(i).key

Duplicate(i) == Entry(i) \in imp[i].seen

\* decode_receipt, and the key.
Proves(e) == e \in Entries /\ e.receipt.sound /\ e.key \in {NoKey, e.receipt.txid}

Take(i) ==
    /\ imp[i].pc = "entry"
    /\ IF imp[i].todo = <<>> THEN Goes(i, "done")
       ELSE IF Duplicate(i) THEN Ends(i, "duplicate")
       ELSE IF ~Proves(Entry(i)) THEN Ends(i, "rejected")
       ELSE Goes(i, "verify")
    /\ UNCHANGED <<tables, credited, failures>>

Canonical(r) == HasHeader(r.height) /\ NodeHash(r.height) = r.hash

\* paranoid_verifyReceipt: the node's answer, or none.
Verify(i) ==
    /\ imp[i].pc = "verify"
    /\ \/ /\ IF Canonical(Entry(i).receipt) THEN Goes(i, "look") ELSE Ends(i, "rejected")
          /\ UNCHANGED failures
       \/ /\ failures < MaxFailures /\ failures' = failures + 1
          /\ imp' = [imp EXCEPT ![i].pc = "entry", ![i].seen = @ \cup {Entry(i)},
                                ![i].todo = Tail(@), ![i].calm = FALSE]
    /\ UNCHANGED <<tables, credited>>

\* Variant the runs must reject: the header on record is not compared.
Fits_Any(row, r) == TRUE

Fits(row, r) == row.hash = r.hash

\* Whether the block of a recorded row holds the receipt's transaction.
Holds(row, r) ==
    \E q \in Receipts : q.sound /\ q.hash = row.hash /\ q.height = r.height /\ q.txid = r.txid

\* canonical_block_at and what its row decides.
Look(i) ==
    LET r   == Entry(i).receipt
        row == rows[r.height]
    IN /\ imp[i].pc = "look"
       /\ IF row = NoRow THEN Ends(i, "no header")
          ELSE IF row.kind = "gap" THEN Ends(i, "gap")
          ELSE IF row.kind = "body" THEN Ends(i, IF Holds(row, r) THEN "recorded" ELSE "unrecorded")
          ELSE IF ~Fits(row, r) THEN Ends(i, "rejected")
          ELSE Goes(i, "insert")
       /\ UNCHANGED <<tables, credited, failures>>

\* Variant the runs must reject: what is stored is not looked up again.
At_None(r) == {}

\* The stored transactions at the receipt's position.
At(r) == {s \in stored : s.height = r.height /\ s.position = r.position}

\* insert_receipt_transaction, in a transaction of its own.
Insert(i) ==
    LET r == Entry(i).receipt IN
    /\ imp[i].pc = "insert"
    /\ IF \/ rows[r.height].kind # "header"
          \/ r.position \notin 1..(r.count - 1)
          \/ total[r.height] \notin {0, r.count}
          \/ \E s \in At(r) : s.txid # r.txid
         THEN Ends(i, "rejected") /\ UNCHANGED <<stored, total, credited>>
       ELSE IF At(r) # {} THEN Ends(i, "known") /\ UNCHANGED <<stored, total, credited>>
       ELSE /\ stored' = stored \cup
                  {[height |-> r.height, position |-> r.position, txid |-> r.txid]}
            /\ total' = [total EXCEPT ![r.height] = r.count]
            /\ credited' = [credited EXCEPT ![r] = @ + 1]
            /\ Ends(i, "imported")
    /\ UNCHANGED <<rows, failures>>

\* The command is killed, or a database error ends it without a report.
Fails(i) ==
    /\ imp[i].pc \notin {"idle", "done"} /\ failures < MaxFailures
    /\ failures' = failures + 1
    /\ imp' = [imp EXCEPT ![i] = [Idle EXCEPT !.runs = imp[i].runs]]
    /\ UNCHANGED <<tables, credited>>

Import(i) == Begin(i) \/ Refuse(i) \/ Take(i) \/ Verify(i) \/ Look(i) \/ Insert(i) \/ Fails(i)

Next ==
    \/ WalletWrites \/ Environment
    \/ \E i \in Importers : Import(i) /\ UNCHANGED <<node, walletVars>>

Spec == Init /\ [][Next]_vars

-----------------------------------------------------------------------------
(* Properties.                                                             *)

\* Only a receipt that proves what it is filed as is ever taken to the node or the tables;
\* before that, an entry of a file may be anything.
RTypeOK ==
    /\ node \in NodeType /\ failures \in 0..MaxFailures
    /\ \A h \in Heights : rows[h] # NoRow =>
          rows[h].hash \in Chains /\ rows[h].kind \in {"body", "gap", "header"}
    /\ stored \subseteq [height : Heights, position : Nat, txid : Txids]
    /\ total \in [Heights -> Nat] /\ credited \in [Receipts -> Nat]
    /\ wallet \in [Txids -> Receipts \cup {NoReceipt}]
    /\ \A i \in Importers :
          /\ imp[i].pc \in {"idle", "entry", "verify", "look", "insert", "done"}
          /\ \A x \in imp[i].results : x.outcome \in Outcomes
          /\ imp[i].pc \in {"verify", "look", "insert"} => Proves(Entry(i))

\* Every transaction stored from a receipt is one the row's block holds, at its place, and
\* the row is a header-only block of the node's chain: reorganizations between the node's
\* answer and the insertion included.
ImportedIsTrue ==
    \A s \in stored :
        /\ rows[s.height] = RowAt(NodeHash(s.height), "header")
        /\ \E r \in Receipts :
              /\ r.sound /\ r.hash = rows[s.height].hash /\ r.height = s.height
              /\ r.position = s.position /\ r.txid = s.txid /\ r.count = total[s.height]

\* "imports nothing twice when run again" (README.md:422), nor when it runs next to itself
\* or after a run that was cut short; and what is reported as on record is on record.
ImportedOnce ==
    /\ \A r \in Receipts : credited[r] <= 1
    /\ \A i \in Importers : \A x \in imp[i].results :
          x.outcome \in {"imported", "known"} =>
              LET r == x.entry.receipt IN
              [height |-> r.height, position |-> r.position, txid |-> r.txid] \in stored

\* What an entry must come to when nothing but importers moves.
Due(e) ==
    LET r == e.receipt IN
    IF ~(Proves(e) /\ Canonical(r)) THEN {"rejected"}
    ELSE IF rows[r.height] = NoRow THEN {"no header"}
    ELSE IF rows[r.height].kind = "header" THEN {"imported", "known"}
    ELSE IF rows[r.height].kind = "gap" THEN {"gap"}
    ELSE {"recorded"}

\* A run through which nothing else moved reports for every entry what is due, whatever else
\* it read before, and has left no provable transaction out.
ReportIsRight ==
    \A i \in Importers : imp[i].pc = "done" /\ imp[i].calm =>
        \A e \in imp[i].seen :
            \E x \in imp[i].results : x.entry = e /\ x.outcome \in Due(e)

\* A copy of the journal that ends within a frame, and one with a fault in a frame.
CutWithin(n)  == Append(SubSeq(journal, 1, n - 1), [journal[n] EXCEPT !.part = "cut"])
FaultIn(n)    == [journal EXCEPT ![n].part = "damaged"]

\* parse_journal reads the journal as the wallet last left it, also while a frame is being
\* written; a copy that ends within an earlier frame as the wallet was before that frame; and
\* nothing out of one with a faulty frame or without a whole snapshot.
JournalIsTheWallet ==
    /\ Parse(journal) = wallet
    /\ \A n \in 1..Len(past) :
          /\ Parse(CutWithin(n)) = IF n = 1 THEN Corrupt ELSE past[n - 1]
          /\ Parse(FaultIn(n)) = Corrupt
===============================================================================
