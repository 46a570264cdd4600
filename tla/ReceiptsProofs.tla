---------------------------- MODULE ReceiptsProofs ----------------------------
(***************************************************************************)
(* Theorems about Receipts.tla for every set of receipts, every wallet,    *)
(* every list of entries and any number of runs side by side: what is      *)
(* stored from a receipt is true, is stored once, and a run that is left   *)
(* alone reports what is due.                                              *)
(***************************************************************************)
EXTENDS Receipts, WellFoundedInduction, TLAPS

-----------------------------------------------------------------------------
(* Constants and the node.                                                 *)

LEMMA ConstantTypes ==
    /\ Main \in Chains /\ MaxHeight \in Nat /\ StartTip \in Heights
    /\ MaxReorgs \in Nat /\ MaxReorgDepth \in Nat /\ FinalDepth \in Nat
    /\ \A c \in Chains : ForkAt[c] \in Nat /\ 1 <= ForkAt[c]
    /\ 0 \in Heights
    /\ \A h \in Heights : h \in Nat /\ h <= MaxHeight
BY ChainAssumption, ReceiptsAssumption DEF Heights

Kinds == {"body", "gap", "header"}

LEMMA RowIsARow ==
    ASSUME NEW x \in Chains, NEW k \in Kinds
    PROVE  RowAt(x, k) # NoRow /\ RowAt(x, k).hash = x /\ RowAt(x, k).kind = k
BY ReceiptsAssumption DEF RowAt, Kinds

LEMMA NodeHashType ==
    ASSUME node \in NodeType, NEW h
    PROVE  NodeHash(h) \in Chains
BY ConstantTypes DEF NodeHash, HashAt, NodeType

LEMMA NodeTypeStep ==
    ASSUME node \in NodeType, NodeStep
    PROVE  node' \in NodeType
<1>1. CASE NodeExtend
  BY <1>1, ConstantTypes DEF NodeExtend, NodeType, Heights
<1>2. CASE \E c \in Chains : NodeReorg(c)
  <2>1. PICK c \in Chains : NodeReorg(c)
    BY <1>2
  <2>2. SplitAt(node.chain, c) \in Nat
    BY ConstantTypes DEF SplitAt, NodeType
  <2>3. PICK t \in SplitAt(node.chain, c)..MaxHeight :
          node' = [chain |-> c, tip |-> t, reorgs |-> node.reorgs + 1]
    BY <2>1 DEF NodeReorg
  <2>4. t \in Heights /\ node.reorgs + 1 \in 0..MaxReorgs
    BY <2>1, <2>2, <2>3, ConstantTypes DEF NodeReorg, NodeType, Heights
  <2>5. QED
    BY <2>3, <2>4 DEF NodeType
<1>3. QED
  BY <1>1, <1>2 DEF NodeStep

-----------------------------------------------------------------------------
(* The rows.                                                               *)

\* The heights on record are an interval, so that its ends are Lowest and Highest.
RowsInv ==
    /\ node \in NodeType
    /\ rows \in [Heights -> {RowAt(x, k) : x \in Chains, k \in Kinds} \cup {NoRow}]
    /\ \E lo, hi \in Heights :
          lo <= hi /\ \A h \in Heights : rows[h] # NoRow <=> lo <= h /\ h <= hi

LEMMA RowType ==
    ASSUME RowsInv, NEW h \in Heights, rows[h] # NoRow
    PROVE  /\ rows[h].hash \in Chains /\ rows[h].kind \in Kinds
           /\ rows[h] = RowAt(rows[h].hash, rows[h].kind)
BY RowIsARow DEF RowsInv

\* The rows' ends.
LEMMA RowsEnds ==
    ASSUME RowsInv
    PROVE  /\ Lowest \in Heights /\ Highest \in Heights /\ Lowest <= Highest
           /\ \A h \in Heights : rows[h] # NoRow <=> Lowest <= h /\ h <= Highest
<1>1. PICK lo \in Heights, hi \in Heights :
        lo <= hi /\ \A h \in Heights : rows[h] # NoRow <=> lo <= h /\ h <= hi
  BY DEF RowsInv
<1>2. rows[lo] # NoRow /\ rows[hi] # NoRow
  BY <1>1, ConstantTypes
<1>3. \A h \in Heights : (rows[h] # NoRow /\ \A g \in Heights : rows[g] # NoRow => g <= h) <=> h = hi
  BY <1>1, <1>2, ConstantTypes
<1>4. \A h \in Heights : (rows[h] # NoRow /\ \A g \in Heights : rows[g] # NoRow => h <= g) <=> h = lo
  BY <1>1, <1>2, ConstantTypes
<1>5. Highest = hi
  BY <1>3 DEF Highest
<1>6. Lowest = lo
  BY <1>4 DEF Lowest
<1>7. QED
  BY <1>1, <1>5, <1>6

\* What the recording side may do to the rows: it puts one of the node's blocks at one
\* height, and never in the place of a header-only block.
LEMMA RowsChange ==
    ASSUME RowsInv, Record \/ CopyHeader
    PROVE  \E h \in Heights, k \in Kinds :
              /\ rows' = [rows EXCEPT ![h] = RowAt(NodeHash(h), k)]
              /\ rows[h] # NoRow => rows[h].kind # "header"
              /\ k = "header" => h <= Monus(node.tip, FinalDepth + 1)
              /\ \E lo, hi \in Heights :
                    /\ lo <= hi
                    /\ \A g \in Heights : (g = h \/ rows[g] # NoRow) <=> lo <= g /\ g <= hi
<1>0. /\ Lowest \in Heights /\ Highest \in Heights /\ Lowest <= Highest
      /\ \A h \in Heights : rows[h] # NoRow <=> Lowest <= h /\ h <= Highest
      /\ \A h \in Heights : h \in Nat
  BY RowsEnds, ConstantTypes
<1>1. CASE Record
  <2>1. PICK h \in Heights, k \in {"body", "gap"} :
          /\ \/ h = Highest + 1
             \/ rows[h] # NoRow /\ rows[h].kind # "header"
             \/ rows[h] = RowAt(NodeHash(h), "gap")
          /\ Put(h, k)
    BY <1>1 DEF Record
  <2>2. rows[h] # NoRow => rows[h].kind # "header"
    <3>1. CASE h = Highest + 1
      BY <1>0, <3>1
    <3>2. CASE rows[h] = RowAt(NodeHash(h), "gap")
      BY <3>2, NodeHashType, RowIsARow DEF RowsInv, Kinds
    <3>. QED  BY <2>1, <3>1, <3>2
  <2>3. rows[h] = RowAt(NodeHash(h), "gap") => rows[h] # NoRow
    BY NodeHashType, RowIsARow DEF RowsInv, Kinds
  <2>4. \E lo, hi \in Heights :
           /\ lo <= hi
           /\ \A g \in Heights : (g = h \/ rows[g] # NoRow) <=> lo <= g /\ g <= hi
    <3>1. CASE h = Highest + 1
      <4>1. Lowest <= h
        BY <1>0, <3>1
      <4>2. \A g \in Heights : (g = h \/ rows[g] # NoRow) <=> Lowest <= g /\ g <= h
        BY <1>0, <3>1
      <4>. QED  BY <1>0, <4>1, <4>2
    <3>2. CASE rows[h] # NoRow
      BY <1>0, <3>2
    <3>. QED  BY <2>1, <2>3, <3>1, <3>2
  <2>. QED  BY <2>1, <2>2, <2>4 DEF Put, Kinds
<1>2. CASE CopyHeader
  <2>. DEFINE h == Lowest - 1
  <2>1. /\ h \in Heights /\ rows' = [rows EXCEPT ![h] = RowAt(NodeHash(h), "header")]
        /\ h <= Monus(node.tip, FinalDepth + 1)
    <3>1. Lowest > 0 /\ h <= Monus(node.tip, FinalDepth + 1) /\ Put(h, "header")
      BY <1>2 DEF CopyHeader
    <3>2. h \in Heights
      BY <1>0, <3>1, ConstantTypes DEF Heights
    <3>. QED  BY <3>1, <3>2 DEF Put
  <2>2. rows[h] = NoRow
    BY <1>0, <2>1
  <2>3. h <= Highest /\ \A g \in Nat : h <= g <=> g = h \/ Lowest <= g
    BY <1>0, <2>1
  <2>4. h <= Highest
    BY <2>3
  <2>5. \A g \in Heights : (g = h \/ rows[g] # NoRow) <=> h <= g /\ g <= Highest
    <3>. HIDE DEF h
    <3>. QED  BY <1>0, <2>3
  <2>. HIDE DEF h
  <2>. QED  BY <1>0, <2>1, <2>2, <2>4, <2>5 DEF Kinds
<1>3. QED
  BY <1>1, <1>2

\* A header-only block stays what it is: nothing but its own transactions is ever added.
LEMMA RowsStep ==
    ASSUME RowsInv, [Next]_vars
    PROVE  /\ RowsInv'
           /\ \A h \in Heights : rows[h] # NoRow /\ rows[h].kind = "header" => rows'[h] = rows[h]
<1>1. CASE UNCHANGED <<node, rows>>
  BY <1>1 DEF RowsInv
<1>2. CASE NodeStep /\ UNCHANGED rows
  BY <1>2, NodeTypeStep DEF RowsInv
<1>3. CASE (Record \/ CopyHeader) /\ UNCHANGED node
  <2>1. PICK h \in Heights, k \in Kinds :
          /\ rows' = [rows EXCEPT ![h] = RowAt(NodeHash(h), k)]
          /\ rows[h] # NoRow => rows[h].kind # "header"
          /\ \E lo, hi \in Heights :
                /\ lo <= hi
                /\ \A g \in Heights : (g = h \/ rows[g] # NoRow) <=> lo <= g /\ g <= hi
    BY <1>3, RowsChange
  <2>2. NodeHash(h) \in Chains /\ RowAt(NodeHash(h), k) # NoRow
    BY NodeHashType, RowIsARow DEF RowsInv
  <2>3. rows' \in [Heights -> {RowAt(x, l) : x \in Chains, l \in Kinds} \cup {NoRow}]
    BY <2>1, <2>2 DEF RowsInv
  <2>4. \A g \in Heights : rows'[g] # NoRow <=> g = h \/ rows[g] # NoRow
    BY <2>1, <2>2 DEF RowsInv
  <2>5. \E lo, hi \in Heights :
           lo <= hi /\ \A g \in Heights : rows'[g] # NoRow <=> lo <= g /\ g <= hi
    BY <2>1, <2>4
  <2>6. \A g \in Heights : rows[g] # NoRow /\ rows[g].kind = "header" => rows'[g] = rows[g]
    BY <2>1 DEF RowsInv
  <2>. QED  BY <1>3, <2>3, <2>5, <2>6 DEF RowsInv
<1>4. QED
  BY <1>1, <1>2, <1>3
  DEF Next, WalletWrites, Environment, Import, Begin, Refuse, Take, Verify, Look, Insert, Fails, tables,
      vars

LEMMA RowsInit == Init => RowsInv
<1>. SUFFICES ASSUME Init PROVE RowsInv
  OBVIOUS
<1>1. node \in NodeType
  BY ConstantTypes DEF Init, NodeInit, NodeType
<1>2. /\ rows = [h \in Heights |-> IF h = StartTip THEN RowAt(Main, "body") ELSE NoRow]
      /\ RowAt(Main, "body") # NoRow
  BY RowIsARow, ConstantTypes DEF Init, Kinds
<1>3. \A h \in Heights : rows[h] # NoRow <=> StartTip <= h /\ h <= StartTip
  BY <1>2, ConstantTypes
<1>4. StartTip \in Heights /\ StartTip <= StartTip
  BY ConstantTypes
<1>5. \E lo, hi \in Heights :
         lo <= hi /\ \A h \in Heights : rows[h] # NoRow <=> lo <= h /\ h <= hi
  BY <1>3, <1>4
<1>6. rows \in [Heights -> {RowAt(x, k) : x \in Chains, k \in Kinds} \cup {NoRow}]
  BY <1>2, ConstantTypes DEF Kinds
<1>7. QED
  BY <1>1, <1>5, <1>6 DEF RowsInv

-----------------------------------------------------------------------------
(* The importers.                                                          *)

\* The fields of a run.  What an entry is stays open: the files may hold anything.
RunsOver(U) == [pc : U, runs : U, todo : U, seen : U, results : U, calm : BOOLEAN]

ImpShape == \E U : imp \in [Importers -> RunsOver(U)]

\* The others' runs stay as they are.
OnlyThis(i) == \A j \in Importers : j # i => imp'[j] = imp[j] /\ Entry(j)' = Entry(j)

LEMMA Wider ==
    ASSUME NEW U, NEW S
    PROVE  \E V : U \subseteq V /\ S \subseteq V
<1>1. U \subseteq U \cup S /\ S \subseteq U \cup S
  OBVIOUS
<1>2. QED
  BY <1>1

LEMMA EndsFields ==
    ASSUME ImpShape, NEW i \in Importers, NEW o, Ends(i, o)
    PROVE  /\ ImpShape' /\ OnlyThis(i)
           /\ imp'[i].pc = "entry" /\ imp'[i].calm = imp[i].calm
           /\ imp'[i].seen = imp[i].seen \cup {Entry(i)}
           /\ imp'[i].results = imp[i].results \cup {[entry |-> Entry(i), outcome |-> o]}
<1>. DEFINE e       == Entry(i)
            seen    == imp[i].seen \cup {e}
            results == imp[i].results \cup {[entry |-> e, outcome |-> o]}
            todo    == Tail(imp[i].todo)
<1>1. imp' = [imp EXCEPT ![i].pc = "entry", ![i].seen = seen, ![i].todo = todo,
                         ![i].results = results]
  BY DEF Ends
<1>. HIDE DEF e, seen, results, todo
<1>2. PICK U : imp \in [Importers -> RunsOver(U)]
  BY DEF ImpShape
<1>3. /\ imp'[i].pc = "entry" /\ imp'[i].calm = imp[i].calm
      /\ imp'[i].seen = seen /\ imp'[i].results = results
      /\ \A j \in Importers : j # i => imp'[j] = imp[j]
  BY <1>1, <1>2 DEF RunsOver
<1>4. PICK V : U \subseteq V /\ {"entry", seen, todo, results} \subseteq V
  BY Wider
<1>5. imp' \in [Importers -> RunsOver(V)]
  <2>1. imp \in [Importers -> RunsOver(V)]
    BY <1>2, <1>4 DEF RunsOver
  <2>2. "entry" \in V /\ seen \in V /\ todo \in V /\ results \in V
    BY <1>4
  <2>. DEFINE f == [imp[i] EXCEPT !.pc = "entry", !.seen = seen, !.todo = todo, !.results = results]
  <2>3. f \in RunsOver(V)
    BY <2>1, <2>2 DEF RunsOver
  <2>4. imp' = [imp EXCEPT ![i] = f]
    BY <1>1, <2>1
  <2>. HIDE DEF f
  <2>. QED  BY <2>1, <2>3, <2>4
<1>6. ImpShape'
  BY <1>5 DEF ImpShape
<1>7. OnlyThis(i)
  BY <1>3 DEF OnlyThis, Entry
<1>8. QED
  BY <1>3, <1>6, <1>7 DEF e, seen, results

LEMMA GoesFields ==
    ASSUME ImpShape, NEW i \in Importers, NEW pc, Goes(i, pc)
    PROVE  /\ ImpShape' /\ OnlyThis(i)
           /\ imp'[i].pc = pc /\ imp'[i].calm = imp[i].calm
           /\ imp'[i].seen = imp[i].seen /\ imp'[i].results = imp[i].results
           /\ Entry(i)' = Entry(i)
<1>1. imp' = [imp EXCEPT ![i].pc = pc]
  BY DEF Goes
<1>2. PICK U : imp \in [Importers -> RunsOver(U)]
  BY DEF ImpShape
<1>3. /\ imp'[i].pc = pc /\ imp'[i].calm = imp[i].calm
      /\ imp'[i].seen = imp[i].seen /\ imp'[i].results = imp[i].results
      /\ imp'[i].todo = imp[i].todo
      /\ \A j \in Importers : j # i => imp'[j] = imp[j]
  BY <1>1, <1>2 DEF RunsOver
<1>4. PICK V : U \subseteq V /\ {pc, pc, pc, pc} \subseteq V
  BY Wider
<1>5. imp' \in [Importers -> RunsOver(V)]
  <2>1. imp \in [Importers -> RunsOver(V)]
    BY <1>2, <1>4 DEF RunsOver
  <2>2. pc \in V
    BY <1>4
  <2>. DEFINE f == [imp[i] EXCEPT !.pc = pc]
  <2>3. f \in RunsOver(V)
    BY <2>1, <2>2 DEF RunsOver
  <2>4. imp' = [imp EXCEPT ![i] = f]
    BY <1>1, <2>1
  <2>. HIDE DEF f
  <2>. QED  BY <2>1, <2>3, <2>4
<1>6. ImpShape'
  BY <1>5 DEF ImpShape
<1>7. OnlyThis(i) /\ (imp'[i].todo = imp[i].todo => Entry(i)' = Entry(i))
  BY <1>3 DEF OnlyThis, Entry
<1>8. QED
  BY <1>3, <1>6, <1>7

\* A run begins, finds no journal it can read, or is cut short: it holds nothing yet, or
\* nothing any more.
LEMMA BeginFields ==
    ASSUME ImpShape, NEW i \in Importers, Begin(i) \/ Refuse(i) \/ Fails(i)
    PROVE  /\ ImpShape' /\ OnlyThis(i)
           /\ imp'[i].pc \in {"idle", "entry"} /\ imp'[i].seen = {} /\ imp'[i].results = {}
           /\ imp'[i].calm => InStep
           /\ UNCHANGED <<rows, stored, total, credited>>
<1>1. PICK f, S :
        /\ imp' = [imp EXCEPT ![i] = f] /\ f \in RunsOver(S)
        /\ f.pc \in {"idle", "entry"} /\ f.seen = {} /\ f.results = {} /\ (f.calm => InStep)
  <2>1. CASE Begin(i)
    <3>1. PICK todo :
            imp' = [imp EXCEPT ![i] = [Idle EXCEPT !.pc = "entry", !.runs = imp[i].runs + 1,
                                                   !.todo = todo, !.calm = InStep]]
      BY <2>1 DEF Begin
    <3>2. PICK calm \in BOOLEAN : calm = InStep
      BY DEF InStep
    <3>3. PICK n : n = imp[i].runs + 1
      OBVIOUS
    <3>. DEFINE f == [Idle EXCEPT !.pc = "entry", !.runs = n, !.todo = todo, !.calm = calm]
                S == {"entry", n, todo, {}}
    <3>4. imp' = [imp EXCEPT ![i] = f]
      BY <3>1, <3>2, <3>3
    <3>5. /\ f.pc = "entry" /\ f.seen = {} /\ f.results = {} /\ f.calm = calm
          /\ f \in RunsOver(S)
      BY DEF Idle, RunsOver
    <3>6. f.calm => InStep
      <4>. HIDE DEF f, S
      <4>. QED  BY <3>2, <3>5
    <3>. HIDE DEF f, S
    <3>. QED  BY <3>4, <3>5, <3>6
  <2>2. CASE Refuse(i) \/ Fails(i)
    <3>1. PICK n : imp' = [imp EXCEPT ![i] = [Idle EXCEPT !.runs = n]]
      BY <2>2 DEF Refuse, Fails
    <3>. DEFINE f == [Idle EXCEPT !.runs = n]
                S == {"idle", n, <<>>, {}}
    <3>2. imp' = [imp EXCEPT ![i] = f]
      BY <3>1
    <3>3. /\ f.pc = "idle" /\ f.seen = {} /\ f.results = {} /\ f.calm = FALSE
          /\ f \in RunsOver(S)
      BY DEF Idle, RunsOver
    <3>. HIDE DEF f, S
    <3>. QED  BY <3>2, <3>3
  <2>. QED  BY <2>1, <2>2
<1>2. PICK U : imp \in [Importers -> RunsOver(U)]
  BY DEF ImpShape
<1>3. PICK V : U \subseteq V /\ S \subseteq V
  BY Wider
<1>4. RunsOver(U) \subseteq RunsOver(V) /\ RunsOver(S) \subseteq RunsOver(V)
  BY <1>3 DEF RunsOver
<1>5. imp' \in [Importers -> RunsOver(V)]
  BY <1>1, <1>2, <1>4
<1>6. imp'[i] = f /\ \A j \in Importers : j # i => imp'[j] = imp[j]
  BY <1>1, <1>2
<1>7. ImpShape'
  BY <1>5 DEF ImpShape
<1>8. OnlyThis(i)
  BY <1>6 DEF OnlyThis, Entry
<1>9. UNCHANGED <<rows, stored, total, credited>>
  BY DEF Begin, Refuse, Fails, tables
<1>10. QED
  BY <1>1, <1>6, <1>7, <1>8, <1>9

\* The node gives no answer to an entry: nothing is reported of it.
NoAnswer(i) ==
    imp' = [imp EXCEPT ![i].pc = "entry", ![i].seen = @ \cup {Entry(i)},
                       ![i].todo = Tail(@), ![i].calm = FALSE]

LEMMA NoAnswerFields ==
    ASSUME ImpShape, NEW i \in Importers, NoAnswer(i)
    PROVE  /\ ImpShape' /\ OnlyThis(i)
           /\ imp'[i].pc = "entry" /\ imp'[i].results = imp[i].results /\ ~imp'[i].calm
<1>. DEFINE seen == imp[i].seen \cup {Entry(i)}
            todo == Tail(imp[i].todo)
<1>1. imp' = [imp EXCEPT ![i].pc = "entry", ![i].seen = seen, ![i].todo = todo,
                         ![i].calm = FALSE]
  BY DEF NoAnswer
<1>. HIDE DEF seen, todo
<1>2. PICK U : imp \in [Importers -> RunsOver(U)]
  BY DEF ImpShape
<1>3. /\ imp'[i].pc = "entry" /\ imp'[i].results = imp[i].results /\ ~imp'[i].calm
      /\ \A j \in Importers : j # i => imp'[j] = imp[j]
  BY <1>1, <1>2 DEF RunsOver
<1>4. PICK V : U \subseteq V /\ {"entry", seen, todo, todo} \subseteq V
  BY Wider
<1>5. imp' \in [Importers -> RunsOver(V)]
  <2>1. imp \in [Importers -> RunsOver(V)]
    BY <1>2, <1>4 DEF RunsOver
  <2>2. "entry" \in V /\ seen \in V /\ todo \in V
    BY <1>4
  <2>. DEFINE f == [imp[i] EXCEPT !.pc = "entry", !.seen = seen, !.todo = todo, !.calm = FALSE]
  <2>3. f \in RunsOver(V)
    BY <2>1, <2>2 DEF RunsOver
  <2>4. imp' = [imp EXCEPT ![i] = f]
    BY <1>1, <2>1
  <2>. HIDE DEF f
  <2>. QED  BY <2>1, <2>3, <2>4
<1>6. ImpShape'
  BY <1>5 DEF ImpShape
<1>7. OnlyThis(i)
  BY <1>3 DEF OnlyThis, Entry
<1>8. QED
  BY <1>3, <1>6, <1>7

\* Something else moves.
LEMMA DisturbFields ==
    ASSUME ImpShape, Disturb
    PROVE  /\ ImpShape'
           /\ \A i \in Importers :
                 /\ imp'[i].pc = imp[i].pc /\ imp'[i].results = imp[i].results /\ ~imp'[i].calm
                 /\ Entry(i)' = Entry(i)
<1>1. imp' = [i \in Importers |-> [imp[i] EXCEPT !.calm = FALSE]]
  BY DEF Disturb
<1>2. PICK U : imp \in [Importers -> RunsOver(U)]
  BY DEF ImpShape
<1>3. imp' \in [Importers -> RunsOver(U)]
  BY <1>1, <1>2 DEF RunsOver
<1>4. \A i \in Importers :
         /\ imp'[i].pc = imp[i].pc /\ imp'[i].results = imp[i].results /\ ~imp'[i].calm
         /\ imp'[i].todo = imp[i].todo
  BY <1>1, <1>2 DEF RunsOver
<1>5. QED
  BY <1>3, <1>4 DEF ImpShape, Entry

-----------------------------------------------------------------------------
(* What is stored, and what a run holds.                                   *)

Triple(r) == [height |-> r.height, position |-> r.position, txid |-> r.txid]

IsHeader(h) == rows[h] # NoRow /\ rows[h].kind = "header"

\* The receipt proves a transaction of the block on record.
OfBlock(r, h) == r.sound /\ r.height = h /\ r.hash = rows[h].hash

StoredInv ==
    /\ stored \subseteq [height : Heights, position : Nat, txid : Txids]
    /\ total \in [Heights -> Nat] /\ credited \in [Receipts -> Nat]
    /\ \A r \in Receipts : credited[r] <= 1 /\ (credited[r] # 0 => Triple(r) \in stored)
    /\ \A h \in Heights : total[h] # 0 =>
          IsHeader(h) /\ \E r \in Receipts : OfBlock(r, h) /\ r.count = total[h]
    /\ \A s \in stored :
          /\ IsHeader(s.height)
          /\ \E r \in Receipts :
                /\ OfBlock(r, s.height) /\ r.count = total[s.height]
                /\ r.position = s.position /\ r.txid = s.txid

\* A run past the node's verdict holds a receipt that proves its transaction; once it has
\* looked at the row, that row is the receipt's block and stays so.
OwnRun(i) ==
    /\ imp[i].pc \in {"verify", "look", "insert"} => Proves(Entry(i))
    /\ imp[i].pc = "insert" =>
          LET r == Entry(i).receipt IN IsHeader(r.height) /\ rows[r.height].hash = r.hash
    /\ \A x \in imp[i].results :
          x.outcome \in {"imported", "known"} => Triple(x.entry.receipt) \in stored

ReceiptsInv ==
    RowsInv /\ StoredInv /\ ImpShape /\ \A i \in Importers : OwnRun(i)

LEMMA ReceiptType ==
    ASSUME NEW r \in Receipts
    PROVE  /\ r.height \in Heights /\ r.position \in Nat /\ r.txid \in Txids /\ r.count \in Nat
           /\ Triple(r) \in [height : Heights, position : Nat, txid : Txids]
<1>1. r \in [ txid : Txids, hash : Chains, height : Heights, position : Nat, count : Nat,
              sound : BOOLEAN ]
  BY ReceiptsAssumption
<1>2. QED
  BY <1>1 DEF Triple

\* The wallet's receipts of one block agree.
LEMMA ReceiptsAgree ==
    ASSUME NEW r \in Receipts, NEW q \in Receipts, NEW h, OfBlock(r, h), OfBlock(q, h)
    PROVE  /\ r.count = q.count /\ r.count # 0 /\ r.position \in 1..(r.count - 1)
           /\ r.position = q.position <=> r.txid = q.txid
<1>1. /\ r.position \in 1..(r.count - 1) /\ r.count = q.count
      /\ r.position = q.position <=> r.txid = q.txid
  BY ReceiptsAssumption DEF OfBlock
<1>2. QED
  BY <1>1, ReceiptType

\* Header-only rows stay, so what refers to them stays true.
LEMMA HeadersKept ==
    ASSUME RowsInv, [Next]_vars
    PROVE  \A h \in Heights : IsHeader(h) =>
              IsHeader(h)' /\ rows'[h] = rows[h] /\ \A r : OfBlock(r, h) => OfBlock(r, h)'
BY RowsStep DEF IsHeader, OfBlock

LEMMA StoredKept ==
    ASSUME ReceiptsInv, [Next]_vars, UNCHANGED <<stored, total, credited>>
    PROVE  StoredInv'
<1>. USE DEF ReceiptsInv, StoredInv
<1>1. ASSUME NEW h \in Heights, total[h] # 0
      PROVE  IsHeader(h)' /\ \E r \in Receipts : OfBlock(r, h)' /\ r.count = total[h]
  BY <1>1, HeadersKept
<1>2. ASSUME NEW s \in stored
      PROVE  /\ IsHeader(s.height)'
             /\ \E r \in Receipts :
                   /\ OfBlock(r, s.height)' /\ r.count = total[s.height]
                   /\ r.position = s.position /\ r.txid = s.txid
  <2>1. s.height \in Heights
    OBVIOUS
  <2>2. IsHeader(s.height)' /\ \A r : OfBlock(r, s.height) => OfBlock(r, s.height)'
    BY <2>1, HeadersKept
  <2>. QED  BY <2>2
<1>3. QED
  BY <1>1, <1>2

\* What one run holds is not undone by the others.
LEMMA OthersKeep ==
    ASSUME ReceiptsInv, [Next]_vars, stored \subseteq stored', NEW i \in Importers,
           imp'[i].pc = imp[i].pc, imp'[i].results = imp[i].results, Entry(i)' = Entry(i)
    PROVE  OwnRun(i)'
<1>1. PICK e : e = Entry(i) /\ e = Entry(i)'
  OBVIOUS
<1>2. imp[i].pc \in {"verify", "look", "insert"} => Proves(e)
  BY <1>1 DEF ReceiptsInv, OwnRun
<1>3. imp[i].pc = "insert" =>
        IsHeader(e.receipt.height)' /\ rows'[e.receipt.height].hash = e.receipt.hash
  <2>. SUFFICES ASSUME imp[i].pc = "insert"
                PROVE  IsHeader(e.receipt.height)' /\ rows'[e.receipt.height].hash = e.receipt.hash
    OBVIOUS
  <2>1. e.receipt.height \in Heights
    BY <1>2, ReceiptType DEF Proves, Entries
  <2>2. IsHeader(e.receipt.height) /\ rows[e.receipt.height].hash = e.receipt.hash
    BY <1>1 DEF ReceiptsInv, OwnRun
  <2>. QED  BY <2>1, <2>2, HeadersKept DEF ReceiptsInv
<1>4. \A x \in imp'[i].results :
         x.outcome \in {"imported", "known"} => Triple(x.entry.receipt) \in stored'
  BY DEF ReceiptsInv, OwnRun
<1>5. imp'[i].pc \in {"verify", "look", "insert"} => Proves(Entry(i))'
  BY <1>1, <1>2 DEF Proves, Entries
<1>6. imp'[i].pc = "insert" =>
        IsHeader(Entry(i).receipt.height)'
          /\ rows'[Entry(i)'.receipt.height].hash = Entry(i)'.receipt.hash
  BY <1>1, <1>3 DEF IsHeader
<1>7. QED
  BY <1>4, <1>5, <1>6 DEF OwnRun

-----------------------------------------------------------------------------
(* The steps of a run.                                                     *)

\* An entry ends without an addition to the tables.
LEMMA EndKeeps ==
    ASSUME ReceiptsInv, [Next]_vars, NEW i \in Importers, NEW o, Ends(i, o),
           stored \subseteq stored',
           o \in {"imported", "known"} => Triple(Entry(i).receipt) \in stored'
    PROVE  ImpShape' /\ OnlyThis(i) /\ OwnRun(i)'
<1>1. /\ ImpShape' /\ OnlyThis(i) /\ imp'[i].pc = "entry"
      /\ imp'[i].results = imp[i].results \cup {[entry |-> Entry(i), outcome |-> o]}
  BY EndsFields DEF ReceiptsInv
<1>2. \A x \in imp'[i].results :
         x.outcome \in {"imported", "known"} => Triple(x.entry.receipt) \in stored'
  <2>. SUFFICES ASSUME NEW x \in imp'[i].results, x.outcome \in {"imported", "known"}
                PROVE  Triple(x.entry.receipt) \in stored'
    OBVIOUS
  <2>1. CASE x \in imp[i].results
    BY <2>1 DEF ReceiptsInv, OwnRun
  <2>2. CASE x = [entry |-> Entry(i), outcome |-> o]
    <3>1. x.outcome = o /\ x.entry = Entry(i)
      BY <2>2
    <3>. QED  BY <3>1
  <2>. QED  BY <1>1, <2>1, <2>2
<1>3. QED
  BY <1>1, <1>2 DEF OwnRun

LEMMA GoKeeps ==
    ASSUME ReceiptsInv, [Next]_vars, NEW i \in Importers, NEW pc, Goes(i, pc),
           stored \subseteq stored',
           pc \in {"verify", "look", "insert"} => Proves(Entry(i)),
           pc = "insert" => LET r == Entry(i).receipt
                            IN IsHeader(r.height) /\ rows[r.height].hash = r.hash
    PROVE  ImpShape' /\ OnlyThis(i) /\ OwnRun(i)'
<1>1. /\ ImpShape' /\ OnlyThis(i) /\ imp'[i].pc = pc
      /\ imp'[i].results = imp[i].results /\ Entry(i)' = Entry(i)
  BY GoesFields DEF ReceiptsInv
<1>2. PICK e : e = Entry(i) /\ e = Entry(i)'
  BY <1>1
<1>3. \A x \in imp'[i].results :
         x.outcome \in {"imported", "known"} => Triple(x.entry.receipt) \in stored'
  BY <1>1 DEF ReceiptsInv, OwnRun
<1>4. pc \in {"verify", "look", "insert"} => Proves(e)
  BY <1>2
<1>5. pc = "insert" => IsHeader(e.receipt.height)' /\ rows'[e.receipt.height].hash = e.receipt.hash
  <2>. SUFFICES ASSUME pc = "insert"
                PROVE  IsHeader(e.receipt.height)' /\ rows'[e.receipt.height].hash = e.receipt.hash
    OBVIOUS
  <2>1. e.receipt.height \in Heights
    BY <1>4, ReceiptType DEF Proves, Entries
  <2>2. IsHeader(e.receipt.height) /\ rows[e.receipt.height].hash = e.receipt.hash
    BY <1>2
  <2>. QED  BY <2>1, <2>2, HeadersKept DEF ReceiptsInv
<1>6. imp'[i].pc \in {"verify", "look", "insert"} => Proves(Entry(i))'
  BY <1>1, <1>2, <1>4 DEF Proves, Entries
<1>7. imp'[i].pc = "insert" =>
        IsHeader(Entry(i).receipt.height)'
          /\ rows'[Entry(i)'.receipt.height].hash = Entry(i)'.receipt.hash
  BY <1>1, <1>2, <1>5 DEF IsHeader
<1>8. QED
  BY <1>1, <1>3, <1>6, <1>7 DEF OwnRun

\* Take, Verify and Look add nothing.
LEMMA ReadingKeeps ==
    ASSUME ReceiptsInv, [Next]_vars, NEW i \in Importers, Take(i) \/ Verify(i) \/ Look(i)
    PROVE  ImpShape' /\ OnlyThis(i) /\ OwnRun(i)' /\ UNCHANGED <<stored, total, credited>>
<1>0. UNCHANGED <<stored, total, credited>> /\ stored \subseteq stored'
  BY DEF Take, Verify, Look, tables
<1>1. CASE Take(i)
  <2>1. \/ Goes(i, "done")
        \/ Ends(i, "duplicate") \/ Ends(i, "rejected")
        \/ Goes(i, "verify") /\ Proves(Entry(i))
    BY <1>1 DEF Take
  <2>. QED  BY <1>0, <2>1, GoKeeps, EndKeeps
<1>2. CASE Verify(i)
  <2>1. Proves(Entry(i))
    BY <1>2 DEF Verify, ReceiptsInv, OwnRun
  <2>2. Goes(i, "look") \/ Ends(i, "rejected") \/ NoAnswer(i)
    BY <1>2 DEF Verify, NoAnswer
  <2>3. CASE NoAnswer(i)
    <3>1. /\ ImpShape' /\ OnlyThis(i)
          /\ imp'[i].pc = "entry" /\ imp'[i].results = imp[i].results
      BY <2>3, NoAnswerFields DEF ReceiptsInv
    <3>. QED  BY <1>0, <3>1 DEF ReceiptsInv, OwnRun
  <2>. QED  BY <1>0, <2>1, <2>2, <2>3, GoKeeps, EndKeeps
<1>3. CASE Look(i)
  <2>. DEFINE r == Entry(i).receipt
  <2>1. Proves(Entry(i)) /\ r.height \in Heights
    BY <1>3, ReceiptType DEF Look, ReceiptsInv, OwnRun, Proves, Entries
  <2>2. \/ Ends(i, "no header") \/ Ends(i, "gap") \/ Ends(i, "recorded")
        \/ Ends(i, "unrecorded") \/ Ends(i, "rejected")
        \/ /\ Goes(i, "insert") /\ rows[r.height] # NoRow
           /\ rows[r.height].kind \notin {"gap", "body"} /\ Fits(rows[r.height], r)
    BY <1>3 DEF Look
  <2>3. CASE /\ Goes(i, "insert") /\ rows[r.height] # NoRow
             /\ rows[r.height].kind \notin {"gap", "body"} /\ Fits(rows[r.height], r)
    <3>1. IsHeader(r.height) /\ rows[r.height].hash = r.hash
      BY <2>1, <2>3, RowType DEF ReceiptsInv, IsHeader, Fits, Kinds
    <3>. QED  BY <1>0, <2>1, <2>3, <3>1, GoKeeps
  <2>. QED  BY <1>0, <2>2, <2>3, EndKeeps
<1>4. QED
  BY <1>1, <1>2, <1>3

Refused(r) ==
    \/ rows[r.height].kind # "header"
    \/ r.position \notin 1..(r.count - 1)
    \/ total[r.height] \notin {0, r.count}
    \/ \E s \in At(r) : s.txid # r.txid

\* The three ways insert_receipt_transaction ends.
LEMMA InsertCases ==
    ASSUME NEW i \in Importers, Insert(i), NEW r, r = Entry(i).receipt
    PROVE  \/ Refused(r) /\ Ends(i, "rejected") /\ UNCHANGED <<stored, total, credited>>
           \/ ~Refused(r) /\ At(r) # {} /\ Ends(i, "known") /\ UNCHANGED <<stored, total, credited>>
           \/ /\ ~Refused(r) /\ At(r) = {} /\ Ends(i, "imported")
              /\ stored' = stored \cup {Triple(r)}
              /\ total' = [total EXCEPT ![r.height] = r.count]
              /\ credited' = [credited EXCEPT ![r] = @ + 1]
<1>. DEFINE R == Refused(r)
<1>1. R <=> \/ rows[r.height].kind # "header"
            \/ r.position \notin 1..(r.count - 1)
            \/ total[r.height] \notin {0, r.count}
            \/ \E s \in At(r) : s.txid # r.txid
  BY DEF Refused
<1>. HIDE DEF R
<1>2. IF R THEN Ends(i, "rejected") /\ UNCHANGED <<stored, total, credited>>
      ELSE IF At(r) # {} THEN Ends(i, "known") /\ UNCHANGED <<stored, total, credited>>
      ELSE /\ stored' = stored \cup {Triple(r)}
           /\ total' = [total EXCEPT ![r.height] = r.count]
           /\ credited' = [credited EXCEPT ![r] = @ + 1]
           /\ Ends(i, "imported")
  BY <1>1 DEF Insert, Triple
<1>3. QED
  BY <1>2 DEF R

\* What is on record at the receipt's place is the receipt's transaction.
LEMMA KnownIsStored ==
    ASSUME ReceiptsInv, NEW r \in Receipts, ~Refused(r), At(r) # {}
    PROVE  Triple(r) \in stored
<1>1. PICK s \in stored : s.height = r.height /\ s.position = r.position /\ s.txid = r.txid
  BY DEF At, Refused
<1>2. s = Triple(r)
  BY <1>1 DEF ReceiptsInv, StoredInv, Triple
<1>3. QED
  BY <1>2

\* The insertion itself.
LEMMA InsertKeeps ==
    ASSUME ReceiptsInv, NEW r \in Receipts, ~Refused(r), At(r) = {}, rows' = rows,
           r.sound, IsHeader(r.height), rows[r.height].hash = r.hash,
           stored' = stored \cup {Triple(r)},
           total' = [total EXCEPT ![r.height] = r.count],
           credited' = [credited EXCEPT ![r] = @ + 1]
    PROVE  StoredInv'
<1>. DEFINE g == r.height
<1>0. /\ g \in Heights /\ r.position \in Nat /\ r.txid \in Txids /\ r.count \in Nat
      /\ Triple(r) \in [height : Heights, position : Nat, txid : Txids]
      /\ Triple(r).height = g /\ Triple(r).position = r.position /\ Triple(r).txid = r.txid
  BY ReceiptType DEF Triple
<1>1. OfBlock(r, g)
  BY DEF OfBlock
<1>2. Triple(r) \notin stored
  BY <1>0 DEF At
<1>3. /\ stored' \subseteq [height : Heights, position : Nat, txid : Txids]
      /\ total' \in [Heights -> Nat]
  BY <1>0 DEF ReceiptsInv, StoredInv
<1>4. /\ credited' \in [Receipts -> Nat]
      /\ \A q \in Receipts : credited'[q] <= 1 /\ (credited'[q] # 0 => Triple(q) \in stored')
  <2>1. credited[r] = 0
    BY <1>2 DEF ReceiptsInv, StoredInv
  <2>2. credited \in [Receipts -> Nat]
    BY DEF ReceiptsInv, StoredInv
  <2>3. credited'[r] = 1 /\ \A q \in Receipts : q # r => credited'[q] = credited[q]
    BY <2>1, <2>2
  <2>4. credited' \in [Receipts -> Nat]
    BY <2>1, <2>2
  <2>. QED  BY <2>3, <2>4 DEF ReceiptsInv, StoredInv
<1>5. \A h \in Heights : IsHeader(h)' = IsHeader(h) /\ \A q : OfBlock(q, h)' = OfBlock(q, h)
  BY DEF IsHeader, OfBlock
<1>6. \A h \in Heights : total'[h] = IF h = g THEN r.count ELSE total[h]
  BY <1>0 DEF ReceiptsInv, StoredInv
<1>7. \A h \in Heights : total'[h] # 0 =>
         IsHeader(h)' /\ \E q \in Receipts : OfBlock(q, h)' /\ q.count = total'[h]
  BY <1>0, <1>1, <1>5, <1>6 DEF ReceiptsInv, StoredInv
<1>8. ASSUME NEW s \in stored'
      PROVE  /\ IsHeader(s.height)'
             /\ \E q \in Receipts :
                   /\ OfBlock(q, s.height)' /\ q.count = total'[s.height]
                   /\ q.position = s.position /\ q.txid = s.txid
  <2>1. CASE s = Triple(r)
    BY <1>0, <1>1, <1>5, <1>6, <2>1
  <2>2. CASE s \in stored
    <3>1. s.height \in Heights /\ IsHeader(s.height)
      BY <2>2 DEF ReceiptsInv, StoredInv
    <3>2. PICK q \in Receipts :
            /\ OfBlock(q, s.height) /\ q.count = total[s.height]
            /\ q.position = s.position /\ q.txid = s.txid
      BY <2>2 DEF ReceiptsInv, StoredInv
    <3>3. s.height = g => q.count = r.count
      BY <1>1, <3>2, ReceiptsAgree
    <3>. QED  BY <1>5, <1>6, <3>1, <3>2, <3>3
  <2>. QED  BY <2>1, <2>2
<1>9. QED
  BY <1>3, <1>4, <1>7, <1>8 DEF StoredInv

LEMMA InsertStep ==
    ASSUME ReceiptsInv, [Next]_vars, NEW i \in Importers, Insert(i)
    PROVE  ImpShape' /\ OnlyThis(i) /\ OwnRun(i)' /\ StoredInv' /\ stored \subseteq stored'
<1>1. PICK r : r = Entry(i).receipt
  OBVIOUS
<1>2. /\ r \in Receipts /\ r.sound
      /\ IsHeader(r.height) /\ rows[r.height].hash = r.hash /\ rows' = rows
  BY <1>1 DEF Insert, ReceiptsInv, OwnRun, Proves, Entries
<1>3. CASE Refused(r) /\ Ends(i, "rejected") /\ UNCHANGED <<stored, total, credited>>
  BY <1>3, EndKeeps, StoredKept
<1>4. CASE /\ ~Refused(r) /\ At(r) # {} /\ Ends(i, "known")
           /\ UNCHANGED <<stored, total, credited>>
  BY <1>1, <1>2, <1>4, EndKeeps, StoredKept, KnownIsStored
<1>5. CASE /\ ~Refused(r) /\ At(r) = {} /\ Ends(i, "imported")
           /\ stored' = stored \cup {Triple(r)}
           /\ total' = [total EXCEPT ![r.height] = r.count]
           /\ credited' = [credited EXCEPT ![r] = @ + 1]
  <2>1. StoredInv'
    BY <1>2, <1>5, InsertKeeps
  <2>2. stored \subseteq stored' /\ Triple(Entry(i).receipt) \in stored'
    BY <1>1, <1>5
  <2>. QED  BY <1>5, <2>1, <2>2, EndKeeps
<1>6. QED
  BY <1>1, <1>3, <1>4, <1>5, InsertCases

LEMMA ReceiptsStep == ReceiptsInv /\ [Next]_vars => ReceiptsInv'
<1>. SUFFICES ASSUME ReceiptsInv, [Next]_vars PROVE ReceiptsInv'
  OBVIOUS
<1>0. RowsInv'
  BY RowsStep DEF ReceiptsInv
<1>1. CASE WalletWrites \/ UNCHANGED vars
  <2>1. UNCHANGED <<stored, total, credited>> /\ imp' = imp
    BY <1>1 DEF WalletWrites, vars, tables
  <2>2. StoredInv' /\ ImpShape'
    BY <2>1, StoredKept DEF ReceiptsInv, ImpShape
  <2>3. \A i \in Importers : OwnRun(i)'
    BY <2>1, OthersKeep DEF Entry
  <2>. QED  BY <1>0, <2>2, <2>3 DEF ReceiptsInv
<1>2. CASE Environment
  <2>1. UNCHANGED <<stored, total, credited>> /\ Disturb
    BY <1>2 DEF Environment
  <2>2. /\ ImpShape'
        /\ \A i \in Importers :
              /\ imp'[i].pc = imp[i].pc /\ imp'[i].results = imp[i].results
              /\ Entry(i)' = Entry(i)
    BY <2>1, DisturbFields DEF ReceiptsInv
  <2>3. \A i \in Importers : OwnRun(i)'
    BY <2>1, <2>2, OthersKeep
  <2>. QED  BY <1>0, <2>1, <2>2, <2>3, StoredKept DEF ReceiptsInv
<1>3. CASE \E i \in Importers : Import(i)
  <2>1. PICK i \in Importers : Import(i)
    BY <1>3
  <2>2. ImpShape' /\ OnlyThis(i) /\ OwnRun(i)' /\ StoredInv' /\ stored \subseteq stored'
    <3>1. CASE Begin(i) \/ Refuse(i) \/ Fails(i)
      <4>1. /\ ImpShape' /\ OnlyThis(i) /\ imp'[i].pc \in {"idle", "entry"}
            /\ imp'[i].results = {} /\ UNCHANGED <<stored, total, credited>>
        BY <3>1, BeginFields DEF ReceiptsInv
      <4>. QED  BY <4>1, StoredKept DEF OwnRun
    <3>2. CASE Take(i) \/ Verify(i) \/ Look(i)
      BY <3>2, ReadingKeeps, StoredKept
    <3>3. CASE Insert(i)
      BY <3>3, InsertStep
    <3>. QED  BY <2>1, <3>1, <3>2, <3>3 DEF Import
  <2>3. ASSUME NEW j \in Importers, j # i
        PROVE  OwnRun(j)'
    BY <2>2, <2>3, OthersKeep DEF OnlyThis
  <2>. QED  BY <1>0, <2>2, <2>3 DEF ReceiptsInv
<1>4. QED
  BY <1>1, <1>2, <1>3 DEF Next

LEMMA ReceiptsInit == Init => ReceiptsInv
<1>. SUFFICES ASSUME Init PROVE ReceiptsInv
  OBVIOUS
<1>1. imp = [i \in Importers |-> Idle] /\ Idle \in RunsOver({"idle", 0, <<>>, {}})
  BY DEF Init, Idle, RunsOver
<1>2. ImpShape
  BY <1>1 DEF ImpShape
<1>3. \A i \in Importers : OwnRun(i)
  BY <1>1 DEF OwnRun, Idle
<1>4. StoredInv
  BY DEF Init, StoredInv
<1>5. QED
  BY <1>2, <1>3, <1>4, RowsInit DEF ReceiptsInv

LEMMA ReceiptsInvariant == Spec => []ReceiptsInv
BY ReceiptsInit, ReceiptsStep, PTL DEF Spec

\* No receipt is credited twice, whoever brings it and however often: insert_receipt_transaction
\* looks at the receipt's place and fills it in one transaction, and what a run reports as
\* imported or known is stored.
THEOREM ImportedOnceHolds == Spec => []ImportedOnce
<1>1. ReceiptsInv => ImportedOnce
  <2>. SUFFICES ASSUME ReceiptsInv PROVE ImportedOnce
    OBVIOUS
  <2>1. \A r \in Receipts : credited[r] <= 1
    BY DEF ReceiptsInv, StoredInv
  <2>2. \A i \in Importers : \A x \in imp[i].results :
           x.outcome \in {"imported", "known"} => Triple(x.entry.receipt) \in stored
    BY DEF ReceiptsInv, OwnRun
  <2>. QED  BY <2>1, <2>2 DEF ImportedOnce, Triple
<1>2. QED
  BY <1>1, ReceiptsInvariant, PTL

-----------------------------------------------------------------------------
(* What is stored is true.                                                 *)

\* A copied header is below all that a reorganization may replace.
Final(h) == h = 0 \/ h + FinalDepth + 1 <= node.tip

HeadersOnChain == \A h \in Heights : IsHeader(h) => rows[h].hash = NodeHash(h) /\ Final(h)

LEMMA AgreeBelowSplit ==
    ASSUME NEW c \in Chains, NEW d \in Chains, c # d, NEW h \in Heights,
           h = 0 \/ h < SplitAt(c, d)
    PROVE  HashAt(c, h) = HashAt(d, h)
<1>1. CASE h = 0
  BY <1>1, ConstantTypes DEF HashAt
<1>2. CASE h < SplitAt(c, d)
  BY <1>2, ConstantTypes DEF HashAt, SplitAt
<1>3. QED
  BY <1>1, <1>2

LEMMA FinalIsKept ==
    ASSUME ~NodeMayShrink, MaxReorgDepth <= FinalDepth, node \in NodeType, NodeStep,
           NEW h \in Heights, Final(h)
    PROVE  Final(h)' /\ NodeHash(h)' = NodeHash(h)
<1>0. /\ node.tip \in Nat /\ node.chain \in Chains /\ h \in Nat
      /\ MaxReorgDepth \in Nat /\ FinalDepth \in Nat
  BY ConstantTypes DEF NodeType, Heights
<1>1. CASE NodeExtend
  <2>1. node'.tip = node.tip + 1 /\ node'.chain = node.chain
    BY <1>1 DEF NodeExtend, NodeType
  <2>. QED  BY <1>0, <2>1 DEF Final, NodeHash
<1>2. CASE \E c \in Chains : NodeReorg(c)
  <2>1. PICK c \in Chains : NodeReorg(c)
    BY <1>2
  <2>2. SplitAt(node.chain, c) \in Nat
    BY <1>0, ConstantTypes DEF SplitAt
  <2>3. PICK t \in SplitAt(node.chain, c)..MaxHeight :
          /\ ~NodeMayShrink => node.tip <= t
          /\ node' = [chain |-> c, tip |-> t, reorgs |-> node.reorgs + 1]
    BY <2>1 DEF NodeReorg
  <2>4. c # node.chain /\ node.tip + 1 - SplitAt(node.chain, c) <= MaxReorgDepth
    BY <2>1 DEF NodeReorg
  <2>5. t \in Int /\ node.tip <= t /\ node'.tip = t /\ node'.chain = c
    BY <2>2, <2>3, ConstantTypes
  <2>6. h = 0 \/ h < SplitAt(node.chain, c)
    BY <1>0, <2>2, <2>4 DEF Final
  <2>7. HashAt(node.chain, h) = HashAt(c, h)
    BY <1>0, <2>4, <2>6, AgreeBelowSplit
  <2>8. Final(h)'
    BY <1>0, <2>5 DEF Final
  <2>. QED  BY <2>5, <2>7, <2>8 DEF NodeHash
<1>3. QED
  BY <1>1, <1>2 DEF NodeStep

LEMMA HeadersOnChainStep ==
    ASSUME ~NodeMayShrink, MaxReorgDepth <= FinalDepth,
           RowsInv, HeadersOnChain, [Next]_vars
    PROVE  HeadersOnChain'
<1>1. CASE UNCHANGED <<node, rows>>
  BY <1>1 DEF HeadersOnChain, IsHeader, NodeHash, Final
<1>2. CASE NodeStep /\ UNCHANGED rows
  <2>1. \A h \in Heights : Final(h) => Final(h)' /\ NodeHash(h)' = NodeHash(h)
    BY <1>2, FinalIsKept DEF RowsInv
  <2>. QED  BY <1>2, <2>1 DEF HeadersOnChain, IsHeader
<1>3. CASE (Record \/ CopyHeader) /\ UNCHANGED node
  <2>1. PICK h \in Heights, k \in Kinds :
          /\ rows' = [rows EXCEPT ![h] = RowAt(NodeHash(h), k)]
          /\ k = "header" => h <= Monus(node.tip, FinalDepth + 1)
    BY <1>3, RowsChange
  <2>2. rows'[h].hash = NodeHash(h) /\ rows'[h].kind = k
    BY <2>1, NodeHashType, RowIsARow DEF RowsInv
  <2>3. k = "header" => Final(h)
    <3>1. h \in Nat /\ node.tip \in Nat /\ FinalDepth \in Nat
      BY ConstantTypes DEF RowsInv, NodeType
    <3>. QED  BY <2>1, <3>1 DEF Monus, Final
  <2>4. ASSUME NEW g \in Heights, IsHeader(g)'
        PROVE  rows'[g].hash = NodeHash(g) /\ Final(g)
    <3>1. CASE g = h
      BY <2>2, <2>3, <2>4, <3>1 DEF IsHeader
    <3>2. CASE g # h
      <4>1. rows'[g] = rows[g]
        BY <2>1, <3>2 DEF RowsInv
      <4>. QED  BY <2>4, <4>1 DEF HeadersOnChain, IsHeader
    <3>. QED  BY <3>1, <3>2
  <2>5. \A g : NodeHash(g)' = NodeHash(g) /\ Final(g)' = Final(g)
    BY <1>3 DEF NodeHash, Final
  <2>. QED  BY <2>4, <2>5 DEF HeadersOnChain
<1>4. QED
  BY <1>1, <1>2, <1>3
  DEF Next, WalletWrites, Environment, Import, Begin, Refuse, Take, Verify, Look, Insert, Fails, tables,
      vars

\* What is stored from a receipt is what the node's own block holds at that place, whatever
\* the node did between its answer and the insertion: only header-only blocks take receipts,
\* and these are too deep to be replaced (FINAL_DEPTH is no less than the protocol's limit).
THEOREM ImportedIsTrueHolds ==
    ASSUME ~NodeMayShrink, MaxReorgDepth <= FinalDepth
    PROVE  Spec => []ImportedIsTrue
<1>1. Init => HeadersOnChain
  <2>. SUFFICES ASSUME Init PROVE HeadersOnChain
    OBVIOUS
  <2>1. \A h \in Heights : rows[h] = IF h = StartTip THEN RowAt(Main, "body") ELSE NoRow
    BY DEF Init
  <2>2. RowAt(Main, "body").kind = "body"
    BY DEF RowAt
  <2>. QED  BY <2>1, <2>2 DEF HeadersOnChain, IsHeader
<1>2. ReceiptsInv /\ HeadersOnChain /\ [Next]_vars => HeadersOnChain'
  BY HeadersOnChainStep DEF ReceiptsInv
<1>3. ReceiptsInv /\ HeadersOnChain => ImportedIsTrue
  <2>. SUFFICES ASSUME ReceiptsInv, HeadersOnChain, NEW s \in stored
                PROVE  /\ rows[s.height] = RowAt(NodeHash(s.height), "header")
                       /\ \E r \in Receipts :
                             /\ r.sound /\ r.hash = rows[s.height].hash /\ r.height = s.height
                             /\ r.position = s.position /\ r.txid = s.txid
                             /\ r.count = total[s.height]
    BY DEF ImportedIsTrue
  <2>1. /\ s.height \in Heights /\ IsHeader(s.height)
        /\ \E r \in Receipts :
              /\ OfBlock(r, s.height) /\ r.count = total[s.height]
              /\ r.position = s.position /\ r.txid = s.txid
    BY DEF ReceiptsInv, StoredInv
  <2>2. rows[s.height] = RowAt(NodeHash(s.height), "header")
    BY <2>1, RowType DEF HeadersOnChain, IsHeader, ReceiptsInv
  <2>. QED  BY <2>1, <2>2 DEF OfBlock
<1>4. QED
  BY <1>1, <1>2, <1>3, ReceiptsInvariant, PTL DEF Spec

-----------------------------------------------------------------------------
(* What a run reports.                                                     *)

\* As long as nothing but importers moves, what the permanode has on record is the node's,
\* the node's verdict stands, and every entry taken has the result that is due.
CalmRun(i) ==
    imp[i].calm =>
        /\ InStep
        /\ imp[i].pc \in {"look", "insert"} => Canonical(Entry(i).receipt)
        /\ \A e \in imp[i].seen :
              \E x \in imp[i].results : x.entry = e /\ x.outcome \in Due(e)

ReportInv == ReceiptsInv /\ \A i \in Importers : CalmRun(i)

LEMMA DueStands ==
    ASSUME UNCHANGED <<node, rows>>
    PROVE  /\ InStep' = InStep
           /\ \A r : Canonical(r)' = Canonical(r)
           /\ \A e : Due(e)' = Due(e)
<1>1. InStep' = InStep
  BY DEF InStep, NodeHash
<1>2. \A r : Canonical(r)' = Canonical(r)
  BY DEF Canonical, HasHeader, NodeHash
<1>3. \A e : Due(e)' = Due(e)
  BY <1>2 DEF Due, Proves
<1>4. QED
  BY <1>1, <1>2, <1>3

LEMMA EndReports ==
    ASSUME ReportInv, UNCHANGED <<node, rows>>, NEW i \in Importers, NEW o, Ends(i, o),
           imp[i].calm => o \in Due(Entry(i)) \/ Entry(i) \in imp[i].seen
    PROVE  CalmRun(i)'
<1>1. PICK e : e = Entry(i)
  OBVIOUS
<1>2. /\ imp'[i].pc = "entry" /\ imp'[i].calm = imp[i].calm
      /\ imp'[i].seen = imp[i].seen \cup {e}
      /\ imp'[i].results = imp[i].results \cup {[entry |-> e, outcome |-> o]}
  BY <1>1, EndsFields DEF ReportInv, ReceiptsInv
<1>3. SUFFICES ASSUME imp'[i].calm
               PROVE  /\ InStep'
                      /\ \A d \in imp'[i].seen :
                            \E x \in imp'[i].results : x.entry = d /\ x.outcome \in Due(d)'
  BY <1>2 DEF CalmRun
<1>4. imp[i].calm /\ InStep
  BY <1>2, <1>3 DEF ReportInv, CalmRun
<1>5. \A d \in imp[i].seen : \E x \in imp[i].results : x.entry = d /\ x.outcome \in Due(d)
  BY <1>4 DEF ReportInv, CalmRun
<1>6. o \in Due(e) \/ e \in imp[i].seen
  BY <1>1, <1>4
<1>7. ASSUME NEW d \in imp'[i].seen
      PROVE  \E x \in imp'[i].results : x.entry = d /\ x.outcome \in Due(d)
  <2>1. CASE d \in imp[i].seen
    BY <1>2, <1>5, <2>1
  <2>2. CASE d = e /\ o \in Due(e)
    <3>. DEFINE x == [entry |-> e, outcome |-> o]
    <3>1. x \in imp'[i].results /\ x.entry = e /\ x.outcome = o
      BY <1>2
    <3>. HIDE DEF x
    <3>. QED  BY <2>2, <3>1
  <2>. QED  BY <1>2, <1>6, <2>1, <2>2
<1>8. QED
  BY <1>4, <1>7, DueStands

LEMMA GoReports ==
    ASSUME ReportInv, UNCHANGED <<node, rows>>, NEW i \in Importers, NEW pc, Goes(i, pc),
           imp[i].calm /\ pc \in {"look", "insert"} => Canonical(Entry(i).receipt)
    PROVE  CalmRun(i)'
<1>1. /\ imp'[i].pc = pc /\ imp'[i].calm = imp[i].calm /\ imp'[i].seen = imp[i].seen
      /\ imp'[i].results = imp[i].results /\ Entry(i)' = Entry(i)
  BY GoesFields DEF ReportInv, ReceiptsInv
<1>2. PICK r : r = Entry(i).receipt /\ r = Entry(i)'.receipt
  BY <1>1
<1>3. SUFFICES ASSUME imp'[i].calm
               PROVE  /\ InStep'
                      /\ imp'[i].pc \in {"look", "insert"} => Canonical(r)'
                      /\ \A d \in imp'[i].seen :
                            \E x \in imp'[i].results : x.entry = d /\ x.outcome \in Due(d)'
  BY <1>2 DEF CalmRun, Canonical
<1>4. /\ imp[i].calm /\ InStep
      /\ \A d \in imp[i].seen : \E x \in imp[i].results : x.entry = d /\ x.outcome \in Due(d)
  BY <1>1, <1>3 DEF ReportInv, CalmRun
<1>5. imp'[i].pc \in {"look", "insert"} => Canonical(r)
  BY <1>1, <1>2, <1>4
<1>6. QED
  BY <1>1, <1>4, <1>5, DueStands

\* What the row decides is what is due.
LEMMA LookIsDue ==
    ASSUME ReceiptsInv, InStep, NEW e, Proves(e), Canonical(e.receipt)
    PROVE  LET r == e.receipt IN
           /\ rows[r.height] = NoRow => Due(e) = {"no header"}
           /\ rows[r.height] # NoRow =>
                 /\ Fits(rows[r.height], r) /\ Holds(rows[r.height], r)
                 /\ rows[r.height].kind \in Kinds
                 /\ rows[r.height].kind = "header" => Due(e) = {"imported", "known"}
                 /\ rows[r.height].kind = "gap" => Due(e) = {"gap"}
                 /\ rows[r.height].kind = "body" => Due(e) = {"recorded"}
<1>. DEFINE r   == e.receipt
            row == rows[r.height]
<1>1. r \in Receipts /\ r.sound /\ r.height \in Heights
  BY ReceiptType DEF Proves, Entries
<1>2. row = NoRow => Due(e) = {"no header"}
  BY DEF Due
<1>3. ASSUME row # NoRow
      PROVE  /\ Fits(row, r) /\ Holds(row, r) /\ row.kind \in Kinds
             /\ row.kind = "header" => Due(e) = {"imported", "known"}
             /\ row.kind = "gap" => Due(e) = {"gap"}
             /\ row.kind = "body" => Due(e) = {"recorded"}
  <2>1. row.hash = r.hash
    BY <1>1, <1>3 DEF InStep, Canonical
  <2>2. Fits(row, r) /\ Holds(row, r)
    BY <1>1, <2>1 DEF Fits, Holds
  <2>3. row.kind \in Kinds
    BY <1>1, <1>3, RowType DEF ReceiptsInv
  <2>. QED  BY <1>3, <2>2, <2>3 DEF Due
<1>4. QED
  BY <1>2, <1>3

\* A receipt of a block on record is never refused for what other receipts have left there.
LEMMA NotRefused ==
    ASSUME ReceiptsInv, NEW r \in Receipts, r.sound, IsHeader(r.height),
           rows[r.height].hash = r.hash
    PROVE  ~Refused(r)
<1>1. r.height \in Heights /\ OfBlock(r, r.height)
  BY ReceiptType DEF OfBlock
<1>2. r.position \in 1..(r.count - 1) /\ rows[r.height].kind = "header"
  BY <1>1, ReceiptsAgree DEF IsHeader
<1>3. total[r.height] \in {0, r.count}
  <2>. SUFFICES ASSUME total[r.height] # 0 PROVE total[r.height] = r.count
    OBVIOUS
  <2>1. PICK q \in Receipts : OfBlock(q, r.height) /\ q.count = total[r.height]
    BY <1>1 DEF ReceiptsInv, StoredInv
  <2>. QED  BY <1>1, <2>1, ReceiptsAgree
<1>4. ASSUME NEW s \in At(r)
      PROVE  s.txid = r.txid
  <2>1. s \in stored /\ s.height = r.height /\ s.position = r.position
    BY DEF At
  <2>2. PICK q \in Receipts :
          OfBlock(q, r.height) /\ q.position = r.position /\ q.txid = s.txid
    BY <2>1 DEF ReceiptsInv, StoredInv
  <2>3. r.position = q.position <=> r.txid = q.txid
    BY <1>1, <2>2, ReceiptsAgree
  <2>. QED  BY <2>2, <2>3
<1>5. QED
  BY <1>2, <1>3, <1>4 DEF Refused

LEMMA StepReports ==
    ASSUME ReportInv, NEW i \in Importers, UNCHANGED <<node, rows>>,
           Take(i) \/ Verify(i) \/ Look(i) \/ Insert(i)
    PROVE  CalmRun(i)'
<1>. DEFINE r == Entry(i).receipt
<1>1. CASE Take(i)
  <2>1. \/ Goes(i, "done")
        \/ Ends(i, "duplicate") /\ Entry(i) \in imp[i].seen
        \/ Ends(i, "rejected") /\ ~Proves(Entry(i))
        \/ Goes(i, "verify")
    BY <1>1 DEF Take, Duplicate
  <2>2. ~Proves(Entry(i)) => "rejected" \in Due(Entry(i))
    BY DEF Due
  <2>. QED  BY <2>1, <2>2, EndReports, GoReports
<1>2. CASE Verify(i)
  <2>1. \/ Goes(i, "look") /\ Canonical(r)
        \/ Ends(i, "rejected") /\ ~Canonical(r)
        \/ NoAnswer(i)
    BY <1>2 DEF Verify, NoAnswer
  <2>2. ~Canonical(r) => "rejected" \in Due(Entry(i))
    BY DEF Due
  <2>3. CASE NoAnswer(i)
    BY <2>3, NoAnswerFields DEF ReportInv, ReceiptsInv, CalmRun
  <2>. QED  BY <2>1, <2>2, <2>3, EndReports, GoReports
<1>3. CASE Look(i)
  <2>1. \/ Ends(i, "no header") /\ rows[r.height] = NoRow
        \/ Ends(i, "gap") /\ rows[r.height] # NoRow /\ rows[r.height].kind = "gap"
        \/ /\ rows[r.height] # NoRow /\ rows[r.height].kind = "body"
           /\ Ends(i, IF Holds(rows[r.height], r) THEN "recorded" ELSE "unrecorded")
        \/ /\ Ends(i, "rejected") /\ rows[r.height] # NoRow
           /\ rows[r.height].kind \notin {"gap", "body"} /\ ~Fits(rows[r.height], r)
        \/ Goes(i, "insert")
    BY <1>3 DEF Look
  <2>2. Proves(Entry(i))
    BY <1>3 DEF Look, ReportInv, ReceiptsInv, OwnRun
  <2>3. imp[i].calm => InStep /\ Canonical(r)
    BY <1>3 DEF Look, ReportInv, CalmRun
  <2>4. imp[i].calm =>
          /\ rows[r.height] = NoRow => Due(Entry(i)) = {"no header"}
          /\ rows[r.height] # NoRow =>
                /\ Fits(rows[r.height], r) /\ Holds(rows[r.height], r)
                /\ rows[r.height].kind = "gap" => Due(Entry(i)) = {"gap"}
                /\ rows[r.height].kind = "body" => Due(Entry(i)) = {"recorded"}
    BY <2>2, <2>3, LookIsDue DEF ReportInv
  <2>5. CASE Goes(i, "insert")
    BY <2>3, <2>5, GoReports
  <2>6. CASE Ends(i, "no header") /\ rows[r.height] = NoRow
    BY <2>4, <2>6, EndReports
  <2>7. CASE Ends(i, "gap") /\ rows[r.height] # NoRow /\ rows[r.height].kind = "gap"
    BY <2>4, <2>7, EndReports
  <2>8. CASE /\ rows[r.height] # NoRow /\ rows[r.height].kind = "body"
             /\ Ends(i, IF Holds(rows[r.height], r) THEN "recorded" ELSE "unrecorded")
    <3>1. PICK o : o = (IF Holds(rows[r.height], r) THEN "recorded" ELSE "unrecorded")
      OBVIOUS
    <3>2. Ends(i, o)
      BY <2>8, <3>1
    <3>3. imp[i].calm => o \in Due(Entry(i))
      BY <2>4, <2>8, <3>1
    <3>. QED  BY <3>2, <3>3, EndReports
  <2>9. CASE Ends(i, "rejected") /\ rows[r.height] # NoRow /\ ~Fits(rows[r.height], r)
    BY <2>4, <2>9, EndReports
  <2>. QED  BY <2>1, <2>5, <2>6, <2>7, <2>8, <2>9
<1>4. CASE Insert(i)
  <2>1. imp[i].calm =>
          ~Refused(r) /\ "imported" \in Due(Entry(i)) /\ "known" \in Due(Entry(i))
    <3>. SUFFICES ASSUME imp[i].calm
                  PROVE  ~Refused(r) /\ "imported" \in Due(Entry(i)) /\ "known" \in Due(Entry(i))
      OBVIOUS
    <3>1. Proves(Entry(i)) /\ IsHeader(r.height) /\ rows[r.height].hash = r.hash
      BY <1>4 DEF Insert, ReportInv, ReceiptsInv, OwnRun
    <3>2. InStep /\ Canonical(r)
      BY <1>4 DEF Insert, ReportInv, CalmRun
    <3>3. Due(Entry(i)) = {"imported", "known"}
      BY <3>1, <3>2, LookIsDue DEF ReportInv, IsHeader
    <3>4. ~Refused(r)
      BY <3>1, NotRefused DEF Proves, Entries, ReportInv
    <3>. QED  BY <3>3, <3>4
  <2>2. \/ Refused(r) /\ Ends(i, "rejected")
        \/ Ends(i, "known") \/ Ends(i, "imported")
    BY <1>4, InsertCases
  <2>. QED  BY <2>1, <2>2, EndReports
<1>5. QED
  BY <1>1, <1>2, <1>3, <1>4

LEMMA ReportStep == ReportInv /\ [Next]_vars => ReportInv'
<1>. SUFFICES ASSUME ReportInv, [Next]_vars PROVE ReportInv'
  OBVIOUS
<1>0. ReceiptsInv'
  BY ReceiptsStep DEF ReportInv
<1>1. CASE WalletWrites \/ UNCHANGED vars
  <2>1. UNCHANGED <<node, rows>> /\ imp' = imp
    BY <1>1 DEF WalletWrites, vars, tables
  <2>2. ASSUME NEW i \in Importers PROVE CalmRun(i)'
    <3>1. CalmRun(i)
      BY DEF ReportInv
    <3>2. PICK r : r = Entry(i).receipt /\ r = Entry(i)'.receipt
      BY <2>1 DEF Entry
    <3>. QED  BY <2>1, <3>1, <3>2, DueStands DEF CalmRun, Canonical
  <2>. QED  BY <1>0, <2>2 DEF ReportInv
<1>2. CASE Environment
  <2>1. \A i \in Importers : ~imp'[i].calm
    BY <1>2, DisturbFields DEF Environment, ReportInv, ReceiptsInv
  <2>. QED  BY <1>0, <2>1 DEF ReportInv, CalmRun
<1>3. CASE \E i \in Importers : Import(i) /\ UNCHANGED <<node, walletVars>>
  <2>1. PICK i \in Importers : Import(i) /\ node' = node
    BY <1>3
  <2>2. UNCHANGED <<node, rows>>
    BY <2>1 DEF Import, Begin, Refuse, Take, Verify, Look, Insert, Fails, tables
  <2>3. OnlyThis(i) /\ CalmRun(i)'
    <3>1. CASE Begin(i) \/ Refuse(i) \/ Fails(i)
      <4>1. /\ OnlyThis(i) /\ imp'[i].pc \in {"idle", "entry"} /\ imp'[i].seen = {}
            /\ imp'[i].calm => InStep
        BY <3>1, BeginFields DEF ReportInv, ReceiptsInv
      <4>. QED  BY <2>2, <4>1, DueStands DEF CalmRun
    <3>2. CASE Take(i) \/ Verify(i) \/ Look(i)
      BY <2>2, <3>2, StepReports, ReadingKeeps DEF ReportInv
    <3>3. CASE Insert(i)
      BY <2>2, <3>3, StepReports, InsertStep DEF ReportInv
    <3>. QED  BY <2>1, <3>1, <3>2, <3>3 DEF Import
  <2>4. ASSUME NEW j \in Importers, j # i PROVE CalmRun(j)'
    <3>1. CalmRun(j) /\ imp'[j] = imp[j]
      BY <2>3, <2>4 DEF ReportInv, OnlyThis
    <3>2. PICK r : r = Entry(j).receipt /\ r = Entry(j)'.receipt
      BY <2>3, <2>4 DEF OnlyThis
    <3>. QED  BY <2>2, <3>1, <3>2, DueStands DEF CalmRun, Canonical
  <2>. QED  BY <1>0, <2>3, <2>4 DEF ReportInv
<1>4. QED
  BY <1>1, <1>2, <1>3 DEF Next

\* A run through which nothing else moved reports for every entry what is due to it: a true
\* receipt of a header-only block is imported or known, and is refused neither for what other
\* receipts have left there nor for what a second run does meanwhile.
THEOREM ReportIsRightHolds == Spec => []ReportIsRight
<1>1. Init => ReportInv
  BY ReceiptsInit DEF Init, Idle, ReportInv, CalmRun
<1>2. ReportInv => ReportIsRight
  BY DEF ReportInv, CalmRun, ReportIsRight
<1>3. QED
  BY <1>1, <1>2, ReportStep, PTL DEF Spec

-----------------------------------------------------------------------------
(* Types.                                                                  *)

RunType(i) ==
    /\ imp[i].pc \in {"idle", "entry", "verify", "look", "insert", "done"}
    /\ \A x \in imp[i].results : x.outcome \in Outcomes

TypesInv ==
    /\ failures \in 0..MaxFailures
    /\ wallet \in [Txids -> Receipts \cup {NoReceipt}]
    /\ \A i \in Importers : RunType(i)

LEMMA EndType ==
    ASSUME ReceiptsInv, NEW i \in Importers, RunType(i), NEW o \in Outcomes, Ends(i, o)
    PROVE  OnlyThis(i) /\ RunType(i)'
<1>1. /\ OnlyThis(i) /\ imp'[i].pc = "entry"
      /\ imp'[i].results = imp[i].results \cup {[entry |-> Entry(i), outcome |-> o]}
  BY EndsFields DEF ReceiptsInv
<1>2. [entry |-> Entry(i), outcome |-> o].outcome \in Outcomes
  OBVIOUS
<1>3. QED
  BY <1>1, <1>2 DEF RunType

LEMMA GoType ==
    ASSUME ReceiptsInv, NEW i \in Importers, RunType(i), NEW pc, Goes(i, pc),
           pc \in {"verify", "look", "insert", "done"}
    PROVE  OnlyThis(i) /\ RunType(i)'
BY GoesFields DEF ReceiptsInv, RunType

LEMMA RunTypeStep ==
    ASSUME ReceiptsInv, NEW i \in Importers, RunType(i), Import(i)
    PROVE  OnlyThis(i) /\ RunType(i)'
<1>0. /\ {"imported", "known", "duplicate", "recorded", "unrecorded"} \subseteq Outcomes
      /\ {"gap", "no header", "rejected"} \subseteq Outcomes
  BY DEF Outcomes
<1>1. CASE Begin(i) \/ Refuse(i) \/ Fails(i)
  BY <1>1, BeginFields DEF ReceiptsInv, RunType
<1>2. CASE Take(i)
  <2>1. Goes(i, "done") \/ Goes(i, "verify") \/ Ends(i, "duplicate") \/ Ends(i, "rejected")
    BY <1>2 DEF Take
  <2>. QED  BY <1>0, <2>1, GoType, EndType
<1>3. CASE Verify(i)
  <2>1. Goes(i, "look") \/ Ends(i, "rejected") \/ NoAnswer(i)
    BY <1>3 DEF Verify, NoAnswer
  <2>2. CASE NoAnswer(i)
    BY <2>2, NoAnswerFields DEF ReceiptsInv, RunType
  <2>. QED  BY <1>0, <2>1, <2>2, GoType, EndType
<1>4. CASE Look(i)
  <2>1. \/ Goes(i, "insert") \/ Ends(i, "no header") \/ Ends(i, "gap")
        \/ Ends(i, "recorded") \/ Ends(i, "unrecorded") \/ Ends(i, "rejected")
    BY <1>4 DEF Look
  <2>. QED  BY <1>0, <2>1, GoType, EndType
<1>5. CASE Insert(i)
  <2>1. Ends(i, "rejected") \/ Ends(i, "known") \/ Ends(i, "imported")
    BY <1>5 DEF Insert
  <2>. QED  BY <1>0, <2>1, EndType
<1>6. QED
  BY <1>1, <1>2, <1>3, <1>4, <1>5 DEF Import

LEMMA TypesStep ==
    ASSUME ReceiptsInv, TypesInv, [Next]_vars
    PROVE  TypesInv'
<1>. USE DEF TypesInv
<1>1. CASE WalletWrites
  <2>1. wallet' \in [Txids -> Receipts \cup {NoReceipt}]
    <3>1. CASE FileReceipt
      BY <3>1, ReceiptsAssumption DEF FileReceipt, Writes
    <3>2. CASE KeepReceipts
      BY <3>2, ReceiptsAssumption DEF KeepReceipts, Writes
    <3>. QED  BY <1>1, <3>1, <3>2 DEF WalletWrites
  <2>. QED  BY <1>1, <2>1 DEF WalletWrites, RunType
<1>2. CASE Environment
  BY <1>2, DisturbFields DEF Environment, walletVars, ReceiptsInv, RunType
<1>3. CASE \E i \in Importers : Import(i) /\ UNCHANGED <<node, walletVars>>
  <2>1. PICK i \in Importers : Import(i) /\ UNCHANGED walletVars
    BY <1>3
  <2>2. OnlyThis(i) /\ RunType(i)'
    BY <2>1, RunTypeStep
  <2>3. \A j \in Importers : RunType(j)'
    BY <2>2 DEF OnlyThis, RunType
  <2>4. failures' \in 0..MaxFailures
    <3>1. failures' = failures \/ (failures < MaxFailures /\ failures' = failures + 1)
      BY <2>1 DEF Import, Begin, Refuse, Take, Verify, Look, Insert, Fails
    <3>. QED  BY <3>1, ReceiptsAssumption
  <2>. QED  BY <2>1, <2>3, <2>4 DEF walletVars
<1>4. CASE UNCHANGED vars
  BY <1>4 DEF vars, walletVars, RunType
<1>5. QED
  BY <1>1, <1>2, <1>3, <1>4 DEF Next

\* Whatever the files hold, only what decode_receipt has accepted reaches the node and the
\* tables, and the tables keep their types.
THEOREM ReceiptsTypeCorrect == Spec => []RTypeOK
<1>1. Init => TypesInv
  <2>. SUFFICES ASSUME Init PROVE TypesInv
    OBVIOUS
  <2>1. failures \in 0..MaxFailures
    BY ReceiptsAssumption DEF Init
  <2>. QED  BY <2>1 DEF Init, TypesInv, NoneHeld, RunType, Idle
<1>2. ReceiptsInv /\ TypesInv /\ [Next]_vars => TypesInv'
  BY TypesStep
<1>3. ReceiptsInv /\ TypesInv => RTypeOK
  <2>. SUFFICES ASSUME ReceiptsInv, TypesInv PROVE RTypeOK
    OBVIOUS
  <2>1. \A h \in Heights : rows[h] # NoRow =>
           rows[h].hash \in Chains /\ rows[h].kind \in {"body", "gap", "header"}
    BY RowType DEF ReceiptsInv, Kinds
  <2>2. \A i \in Importers : imp[i].pc \in {"verify", "look", "insert"} => Proves(Entry(i))
    BY DEF ReceiptsInv, OwnRun
  <2>. QED  BY <2>1, <2>2 DEF RTypeOK, ReceiptsInv, RowsInv, StoredInv, TypesInv, RunType
<1>4. QED
  BY <1>1, <1>2, <1>3, ReceiptsInvariant, PTL DEF Spec

-----------------------------------------------------------------------------
(* The journal.  HeldAfter is a recursive function over the frames: that   *)
(* there is one, and what it is, follows from a sequence that obeys its    *)
(* equation, as the wallet's own past does.                                *)

LEMMA LeastOf ==
    ASSUME NEW T \in SUBSET Nat, T # {}
    PROVE  \E n \in T : \A m \in T : n <= m
<1>1. \E n \in T : \A m \in T : ~(<<m, n>> \in OpToRel(<, Nat))
  BY NatLessThanWellFounded, WFMin, Zenon
<1>2. PICK n \in T : \A m \in T : ~(<<m, n>> \in OpToRel(<, Nat))
  BY <1>1, Zenon
<1>3. \A m \in T : ~(m < n)
  BY <1>2 DEF OpToRel
<1>. QED
  BY <1>3

\* held tells what is held after each of the first n frames.
Reading(frames, n, held) ==
    held = [i \in 0..n |-> IF i = 0 THEN NoneHeld ELSE Replayed(held[i - 1], frames[i])]

\* What p has at a place follows from what it has before and the frame there.
Follows(frames, p, i) == p[i] = Replayed(IF i = 1 THEN NoneHeld ELSE p[i - 1], frames[i])

LEMMA HeldIs ==
    \A frames, p : \A n \in Nat :
        (\A i \in 1..n : Follows(frames, p, i)) =>
            HeldAfter(frames, n) = IF n = 0 THEN NoneHeld ELSE p[n]
<1>. SUFFICES ASSUME NEW frames, NEW p, NEW n \in Nat, \A i \in 1..n : Follows(frames, p, i)
              PROVE  HeldAfter(frames, n) = IF n = 0 THEN NoneHeld ELSE p[n]
  OBVIOUS
<1>. DEFINE w == [i \in 0..n |-> IF i = 0 THEN NoneHeld ELSE p[i]]
<1>1. Reading(frames, n, w)
  <2>1. ASSUME NEW i \in 0..n
        PROVE  w[i] = IF i = 0 THEN NoneHeld ELSE Replayed(w[i - 1], frames[i])
    <3>1. CASE i = 0
      BY <3>1
    <3>2. CASE i # 0
      <4>1. i \in 1..n /\ i - 1 \in 0..n
        BY <3>2
      <4>2. w[i] = p[i] /\ w[i - 1] = IF i = 1 THEN NoneHeld ELSE p[i - 1]
        BY <4>1
      <4>. QED  BY <3>2, <4>1, <4>2 DEF Follows
    <3>. QED  BY <3>1, <3>2
  <2>. QED  BY <2>1 DEF Reading
<1>2. ASSUME NEW held, Reading(frames, n, held)
      PROVE  \A i \in 0..n : held[i] = w[i]
  <2>. DEFINE Bad == {i \in 0..n : held[i] # w[i]}
  <2>1. CASE Bad # {}
    <3>1. PICK i \in Bad : \A j \in Bad : i <= j
      <4>1. Bad \in SUBSET Nat
        OBVIOUS
      <4>. HIDE DEF Bad
      <4>. QED  BY <2>1, <4>1, LeastOf
    <3>2. /\ held[i] = IF i = 0 THEN NoneHeld ELSE Replayed(held[i - 1], frames[i])
          /\ w[i] = IF i = 0 THEN NoneHeld ELSE Replayed(w[i - 1], frames[i])
      BY <1>1, <1>2, <3>1 DEF Reading
    <3>3. i # 0 => i - 1 \in 0..n /\ i - 1 \notin Bad
      BY <3>1
    <3>. QED  BY <3>1, <3>2, <3>3
  <2>. QED  BY <2>1
<1>3. HeldAfter(frames, n) = (CHOOSE held : Reading(frames, n, held))[n]
  BY DEF HeldAfter, Reading
<1>4. Reading(frames, n, CHOOSE held : Reading(frames, n, held))
  <2>. HIDE DEF w
  <2>. QED  BY <1>1
<1>5. HeldAfter(frames, n) = w[n]
  <2>1. n \in 0..n
    OBVIOUS
  <2>. HIDE DEF w
  <2>. QED  BY <1>2, <1>3, <1>4, <2>1
<1>. QED
  BY <1>5

LEMMA ReadFramesIs ==
    ASSUME NEW frames, Len(frames) \in Nat, NEW n \in 0..Len(frames),
           \A i \in 1..n : IsRead(frames[i]),
           n < Len(frames) => ~IsRead(frames[n + 1])
    PROVE  ReadFrames(frames) = n
<1>. DEFINE StopsAt(m) == /\ \A i \in 1..m : IsRead(frames[i])
                          /\ m < Len(frames) => ~IsRead(frames[m + 1])
<1>1. ASSUME NEW m \in 0..Len(frames), StopsAt(m)
      PROVE  m = n
  <2>1. CASE m < n
    <3>1. m + 1 \in 1..n /\ m < Len(frames)
      BY <2>1
    <3>. QED  BY <1>1, <3>1
  <2>2. CASE n < m
    <3>1. n + 1 \in 1..m /\ n < Len(frames)
      BY <2>2
    <3>. QED  BY <1>1, <3>1
  <2>. QED  BY <2>1, <2>2
<1>2. StopsAt(n)
  OBVIOUS
<1>3. ReadFrames(frames) = CHOOSE m \in 0..Len(frames) : StopsAt(m)
  BY DEF ReadFrames
<1>. HIDE DEF StopsAt
<1>. QED  BY <1>1, <1>2, <1>3

\* The first n frames are whole and sound, and p has what they leave.
Leads(frames, p, n) ==
    \A i \in 1..n : /\ frames[i].part = "whole" /\ Sound(frames[i], i = 1)
                    /\ Follows(frames, p, i)

LEMMA LeadsHeld ==
    ASSUME NEW frames, NEW p, NEW n \in Nat, Leads(frames, p, n)
    PROVE  HeldAfter(frames, n) = IF n = 0 THEN NoneHeld ELSE p[n]
<1>1. \A i \in 1..n : Follows(frames, p, i)
  BY DEF Leads
<1>. QED
  BY <1>1, HeldIs

\* Frames that are whole and sound up to some place, and what they leave: if nothing but a
\* frame cut short comes next, that is read, and no fault is read over.
LEMMA ParseIs ==
    ASSUME NEW frames, NEW p, Len(frames) \in Nat, NEW n \in 0..Len(frames),
           Leads(frames, p, n),
           n < Len(frames) => frames[n + 1].part # "whole"
    PROVE  /\ n = 0 => Parse(frames) = Corrupt
           /\ n < Len(frames) /\ frames[n + 1].part = "damaged" => Parse(frames) = Corrupt
           /\ n # 0 /\ (n < Len(frames) => frames[n + 1].part = "cut") => Parse(frames) = p[n]
<1>1. ReadFrames(frames) = n
  BY ReadFramesIs DEF IsRead, Leads
<1>2. HeldAfter(frames, n) = IF n = 0 THEN NoneHeld ELSE p[n]
  BY LeadsHeld
<1>3. ~ \E i \in 1..n : ~Sound(frames[i], i = 1)
  BY DEF Leads
<1>4. Parse(frames) = IF n = 0 \/ (n < Len(frames) /\ frames[n + 1].part = "damaged")
                        THEN Corrupt ELSE HeldAfter(frames, n)
  BY <1>1, <1>3 DEF Parse
<1>. QED
  BY <1>2, <1>4

-----------------------------------------------------------------------------
(* The wallet's writes.                                                    *)

Kept == [Txids -> Receipts \cup {NoReceipt}]

\* The frames written whole are sound and lead from what the wallet held to what it holds; a
\* frame cut short is the last.
JournalInv ==
    /\ journal \in Seq(Frames) /\ past \in Seq(Kept)
    /\ Len(past) >= 1 /\ wallet = past[Len(past)]
    /\ \/ Len(journal) = Len(past)
       \/ Len(journal) = Len(past) + 1 /\ journal[Len(past) + 1].part = "cut"
    /\ Leads(journal, past, Len(past))

\* A frame that files one receipt, or deletes one, is sound.
LEMMA OneIsSound ==
    ASSUME NEW t \in Txids, NEW r \in Receipts \cup {NoReceipt},
           NEW f, f = Frame("whole", FALSE, {<<t, r>>})
    PROVE  f \in Frames /\ f.part = "whole" /\ Sound(f, FALSE)
<1>. DEFINE one == {<<t, r>>}
<1>1. f \in Frames /\ f.part = "whole" /\ f.reset = FALSE /\ f.changes = one
  BY DEF Frame, Frames
<1>2. \A c \in one : c = <<t, r>> /\ c[1] = t
  OBVIOUS
<1>. HIDE DEF one
<1>. QED
  BY <1>1, <1>2 DEF Sound

\* It does that to what was held.
LEMMA OneFiled ==
    ASSUME NEW held \in Kept, NEW t \in Txids, NEW r \in Receipts \cup {NoReceipt},
           NEW f, f = Frame("whole", FALSE, {<<t, r>>}), NEW filed, filed = [held EXCEPT ![t] = r]
    PROVE  filed \in Kept /\ Replayed(held, f) = filed
<1>. DEFINE one == {<<t, r>>}
<1>1. f.reset = FALSE /\ f.changes = one
  BY DEF Frame
<1>2. Replayed(held, f) = Changed(held, one)
  BY <1>1 DEF Replayed
<1>3. ASSUME NEW u \in Txids
      PROVE  (IF \E c \in one : c[1] = u THEN (CHOOSE c \in one : c[1] = u)[2] ELSE held[u])
             = filed[u]
  <2>1. CASE u = t
    <3>1. (CHOOSE c \in one : c[1] = u) = <<t, r>> /\ \E c \in one : c[1] = u
      BY <2>1
    <3>. QED  BY <2>1, <3>1 DEF Kept
  <2>2. CASE u # t
    BY <2>2 DEF Kept
  <2>. QED  BY <2>1, <2>2
<1>4. Changed(held, one) = [u \in Txids |-> filed[u]]
  BY <1>3 DEF Changed
<1>5. filed \in Kept
  BY DEF Kept
<1>6. [u \in Txids |-> filed[u]] = filed
  BY <1>5 DEF Kept
<1>. QED  BY <1>2, <1>4, <1>5, <1>6

\* A snapshot of some of what is held is sound and leaves just that.
LEMMA SomeKept ==
    ASSUME NEW held \in Kept, NEW kept \in SUBSET {t \in Txids : held[t] # NoReceipt}
    PROVE  LET f    == Frame("whole", TRUE, {<<t, held[t]>> : t \in kept})
               left == [t \in Txids |-> IF t \in kept THEN held[t] ELSE NoReceipt]
           IN /\ f \in Frames /\ f.part = "whole" /\ Sound(f, FALSE)
              /\ left \in Kept
              /\ Replayed(held, f) = left
<1>. DEFINE some == {<<t, held[t]>> : t \in kept}
            f    == Frame("whole", TRUE, some)
            left == [t \in Txids |-> IF t \in kept THEN held[t] ELSE NoReceipt]
<1>0. \A t \in kept : t \in Txids /\ held[t] \in Receipts \cup {NoReceipt} /\ held[t] # NoReceipt
  BY DEF Kept
<1>1. f \in Frames /\ f.part = "whole" /\ f.reset = TRUE /\ f.changes = some
  BY <1>0 DEF Frame, Frames
<1>2. Sound(f, FALSE)
  <2>1. \A c \in some : c[1] \in kept /\ c = <<c[1], held[c[1]]>> /\ c[2] = held[c[1]]
    OBVIOUS
  <2>. HIDE DEF some, f
  <2>. QED  BY <1>0, <1>1, <2>1 DEF Sound
<1>3. Replayed(held, f) = Changed(NoneHeld, some)
  BY <1>1 DEF Replayed
<1>4. ASSUME NEW u \in Txids
      PROVE  (IF \E c \in some : c[1] = u THEN (CHOOSE c \in some : c[1] = u)[2] ELSE NoneHeld[u])
             = IF u \in kept THEN held[u] ELSE NoReceipt
  <2>1. CASE u \in kept
    <3>1. (CHOOSE c \in some : c[1] = u) = <<u, held[u]>> /\ \E c \in some : c[1] = u
      <4>1. \A c \in some : c[1] = u <=> c = <<u, held[u]>>
        OBVIOUS
      <4>2. <<u, held[u]>> \in some
        BY <2>1
      <4>. QED  BY <4>1, <4>2
    <3>. QED  BY <2>1, <3>1
  <2>2. CASE u \notin kept
    BY <2>2 DEF NoneHeld
  <2>. QED  BY <2>1, <2>2
<1>5. Changed(NoneHeld, some) = left
  BY <1>4 DEF Changed
<1>6. left \in Kept
  BY <1>0 DEF Kept
<1>. QED  BY <1>1, <1>2, <1>3, <1>5, <1>6

LEMMA WrittenIs ==
    ASSUME JournalInv
    PROVE  /\ Written \in Seq(Frames) /\ Len(Written) = Len(past)
           /\ \A n \in 1..Len(past) : Written[n] = journal[n]
BY DEF JournalInv, Written

LEMMA WritesKeeps ==
    ASSUME JournalInv, NEW f \in Frames, f.part = "whole", Sound(f, FALSE), NEW held \in Kept,
           held = Replayed(wallet, f), Writes(f, held)
    PROVE  JournalInv'
<1>. DEFINE N == Len(past)
<1>1. /\ N \in Nat /\ N >= 1
      /\ journal' \in Seq(Frames) /\ Len(journal') = N + 1 /\ journal'[N + 1] = f
      /\ \A n \in 1..N : journal'[n] = journal[n]
  BY WrittenIs DEF JournalInv, Writes
<1>2. /\ past' \in Seq(Kept) /\ Len(past') = N + 1 /\ past'[N + 1] = held
      /\ \A n \in 1..N : past'[n] = past[n]
  BY DEF JournalInv, Writes
<1>3. wallet' = held
  BY DEF Writes
<1>4. ASSUME NEW n \in 1..(N + 1)
      PROVE  /\ journal'[n].part = "whole" /\ Sound(journal'[n], n = 1)
             /\ Follows(journal', past', n)
  <2>1. CASE n \in 1..N
    <3>1. /\ journal'[n] = journal[n] /\ past'[n] = past[n]
          /\ n # 1 => past'[n - 1] = past[n - 1]
      BY <1>1, <1>2, <2>1
    <3>2. journal[n].part = "whole" /\ Sound(journal[n], n = 1) /\ Follows(journal, past, n)
      BY <2>1 DEF JournalInv, Leads
    <3>. QED  BY <3>1, <3>2 DEF Follows
  <2>2. CASE n = N + 1
    <3>1. n # 1 /\ n - 1 = N /\ past'[n - 1] = wallet /\ journal'[n] = f /\ past'[n] = held
      BY <1>1, <1>2, <2>2 DEF JournalInv
    <3>2. Follows(journal', past', n)
      BY <3>1 DEF Follows
    <3>3. Sound(f, n = 1)
      BY <3>1 DEF Sound
    <3>. QED  BY <3>1, <3>2, <3>3
  <2>. QED  BY <2>1, <2>2, <1>1
<1>5. Leads(journal', past', N + 1)
  BY <1>4 DEF Leads
<1>. QED
  BY <1>1, <1>2, <1>3, <1>5 DEF JournalInv

LEMMA CutKeeps ==
    ASSUME JournalInv, Written = journal, NEW f \in Frames, f.part = "cut",
           journal' = Append(journal, f), UNCHANGED <<wallet, past>>
    PROVE  JournalInv'
<1>1. /\ Len(journal) = Len(past) /\ Len(past) \in Nat
      /\ journal' \in Seq(Frames) /\ Len(journal') = Len(past) + 1
      /\ journal'[Len(past) + 1] = f
      /\ \A n \in 1..Len(past) : journal'[n] = journal[n]
  BY WrittenIs DEF JournalInv
<1>2. \A n \in 1..Len(past) :
         /\ journal'[n].part = "whole" /\ Sound(journal'[n], n = 1)
         /\ Follows(journal', past, n)
  BY <1>1 DEF JournalInv, Follows, Leads
<1>3. Leads(journal', past, Len(past))
  BY <1>2 DEF Leads
<1>. QED
  BY <1>1, <1>3 DEF JournalInv

LEMMA JournalStep == JournalInv /\ [Next]_vars => JournalInv'
<1>. SUFFICES ASSUME JournalInv, [Next]_vars PROVE JournalInv'
  OBVIOUS
<1>0. wallet \in Kept
  BY DEF JournalInv
<1>1. CASE FileReceipt
  <2>1. PICK t \in Txids, r \in Receipts \cup {NoReceipt} :
          \/ Writes(Frame("whole", FALSE, {<<t, r>>}), [wallet EXCEPT ![t] = r])
          \/ /\ Written = journal
             /\ journal' = Append(journal, Frame("cut", FALSE, {<<t, r>>}))
             /\ UNCHANGED <<wallet, past>>
    BY <1>1, ReceiptsAssumption DEF FileReceipt
  <2>2. CASE Writes(Frame("whole", FALSE, {<<t, r>>}), [wallet EXCEPT ![t] = r])
    <3>0. PICK f, filed : f = Frame("whole", FALSE, {<<t, r>>}) /\ filed = [wallet EXCEPT ![t] = r]
      OBVIOUS
    <3>1. /\ f \in Frames /\ f.part = "whole" /\ Sound(f, FALSE)
          /\ filed \in Kept /\ Replayed(wallet, f) = filed
      BY <1>0, <3>0, OneIsSound, OneFiled
    <3>2. Writes(f, filed)
      BY <2>2, <3>0
    <3>. QED  BY <3>1, <3>2, WritesKeeps
  <2>3. CASE /\ Written = journal
             /\ journal' = Append(journal, Frame("cut", FALSE, {<<t, r>>}))
             /\ UNCHANGED <<wallet, past>>
    <3>. DEFINE f == Frame("cut", FALSE, {<<t, r>>})
    <3>1. f \in Frames /\ f.part = "cut"
      BY DEF Frame, Frames
    <3>2. Written = journal /\ journal' = Append(journal, f) /\ UNCHANGED <<wallet, past>>
      BY <2>3
    <3>. HIDE DEF f
    <3>. QED  BY <3>1, <3>2, CutKeeps
  <2>. QED  BY <2>1, <2>2, <2>3
<1>2. CASE KeepReceipts
  <2>1. PICK kept \in SUBSET {t \in Txids : wallet[t] # NoReceipt} :
          Writes(Frame("whole", TRUE, {<<t, wallet[t]>> : t \in kept}),
                 [t \in Txids |-> IF t \in kept THEN wallet[t] ELSE NoReceipt])
    BY <1>2 DEF KeepReceipts
  <2>. QED  BY <1>0, <2>1, SomeKept, WritesKeeps
<1>3. CASE UNCHANGED walletVars
  BY <1>3 DEF walletVars, JournalInv
<1>4. FileReceipt \/ KeepReceipts \/ UNCHANGED walletVars
  BY DEF Next, WalletWrites, Environment, vars
<1>. QED  BY <1>1, <1>2, <1>3, <1>4

LEMMA JournalInit == Init => JournalInv
<1>. SUFFICES ASSUME Init PROVE JournalInv
  OBVIOUS
<1>. DEFINE first == Frame("whole", TRUE, {})
<1>1. journal = <<first>> /\ wallet = NoneHeld /\ past = <<NoneHeld>>
  BY DEF Init
<1>2. first \in Frames /\ first.part = "whole" /\ first.reset = TRUE /\ first.changes = {}
  BY DEF Frame, Frames
<1>3. NoneHeld \in Kept
  BY DEF NoneHeld, Kept
<1>4. Replayed(NoneHeld, first) = NoneHeld
  BY <1>2 DEF Replayed, Changed, NoneHeld
<1>5. Sound(first, 1 = 1)
  BY <1>2 DEF Sound
<1>. HIDE DEF first
<1>6. Follows(journal, past, 1)
  BY <1>1, <1>4 DEF Follows
<1>7. /\ journal \in Seq(Frames) /\ past \in Seq(Kept) /\ Len(journal) = 1 /\ Len(past) = 1
      /\ journal[1] = first /\ past[1] = NoneHeld
  BY <1>1, <1>2, <1>3
<1>8. Leads(journal, past, 1)
  <2>1. \A n \in 1..1 : n = 1
    OBVIOUS
  <2>. QED  BY <1>2, <1>5, <1>6, <1>7, <2>1 DEF Leads
<1>. QED  BY <1>1, <1>7, <1>8 DEF JournalInv

\* However often the wallet files, replaces and deletes receipts and writes snapshots, and
\* wherever a write is cut short, parse_journal reads what it last held; a copy that ends
\* within any frame is read as the wallet was before it, and a copy with a fault in any frame
\* not at all.
THEOREM JournalIsTheWalletHolds == Spec => []JournalIsTheWallet
<1>1. JournalInv => JournalIsTheWallet
  <2>. SUFFICES ASSUME JournalInv PROVE JournalIsTheWallet
    OBVIOUS
  <2>0. /\ Len(past) \in Nat /\ Len(journal) \in Nat /\ Len(past) >= 1
        /\ Len(past) <= Len(journal)
    BY DEF JournalInv
  <2>1. Parse(journal) = wallet
    <3>1. Leads(journal, past, Len(past))
      BY DEF JournalInv
    <3>2. Len(past) < Len(journal) => journal[Len(past) + 1].part = "cut"
      BY <2>0 DEF JournalInv
    <3>3. Parse(journal) = past[Len(past)]
      BY <2>0, <3>1, <3>2, ParseIs
    <3>. QED  BY <3>3 DEF JournalInv
  <2>2. ASSUME NEW n \in 1..Len(past)
        PROVE  Parse(CutWithin(n)) = IF n = 1 THEN Corrupt ELSE past[n - 1]
    <3>. DEFINE c == CutWithin(n)
    <3>1. /\ Len(c) = n /\ c[n].part = "cut"
          /\ \A i \in 1..(n - 1) : c[i] = journal[i]
      <4>1. journal[n] \in Frames
        BY <2>0 DEF JournalInv
      <4>2. [journal[n] EXCEPT !.part = "cut"].part = "cut"
        BY <4>1 DEF Frames
      <4>. QED  BY <2>0, <4>2 DEF CutWithin, JournalInv
    <3>2. Leads(c, past, n - 1)
      <4>1. \A i \in 1..(n - 1) : /\ i \in 1..Len(past) /\ c[i] = journal[i]
                                  /\ i # 1 => i - 1 \in 1..(n - 1)
        BY <2>0, <3>1
      <4>. HIDE DEF c
      <4>. QED  BY <4>1 DEF JournalInv, Leads, Follows
    <3>3. PICK k \in 0..Len(c) : k = n - 1 /\ k + 1 = n /\ k < Len(c) /\ Len(c) \in Nat
      BY <2>0, <3>1
    <3>. HIDE DEF c
    <3>4. c[k + 1].part = "cut" /\ Leads(c, past, k)
      BY <3>1, <3>2, <3>3
    <3>5. /\ k = 0 => Parse(c) = Corrupt
          /\ k # 0 => Parse(c) = past[k]
      BY <3>3, <3>4, ParseIs
    <3>. QED  BY <3>3, <3>5 DEF c
  <2>3. ASSUME NEW n \in 1..Len(past)
        PROVE  Parse(FaultIn(n)) = Corrupt
    <3>. DEFINE d == FaultIn(n)
    <3>1. /\ Len(d) = Len(journal) /\ d[n].part = "damaged"
          /\ \A i \in 1..(n - 1) : d[i] = journal[i]
      <4>1. journal[n] \in Frames
        BY <2>0 DEF JournalInv
      <4>2. [journal[n] EXCEPT !.part = "damaged"].part = "damaged"
        BY <4>1 DEF Frames
      <4>. QED  BY <2>0, <4>2 DEF FaultIn, JournalInv
    <3>2. Leads(d, past, n - 1)
      <4>1. \A i \in 1..(n - 1) : /\ i \in 1..Len(past) /\ d[i] = journal[i]
                                  /\ i # 1 => i - 1 \in 1..(n - 1)
        BY <2>0, <3>1
      <4>. HIDE DEF d
      <4>. QED  BY <4>1 DEF JournalInv, Leads, Follows
    <3>3. PICK k \in 0..Len(d) : k = n - 1 /\ k + 1 = n /\ k < Len(d) /\ Len(d) \in Nat
      BY <2>0, <3>1
    <3>. HIDE DEF d
    <3>4. d[k + 1].part = "damaged" /\ Leads(d, past, k)
      BY <3>1, <3>2, <3>3
    <3>5. Parse(d) = Corrupt
      BY <3>3, <3>4, ParseIs
    <3>. QED  BY <3>5 DEF d
  <2>. QED  BY <2>1, <2>2, <2>3 DEF JournalIsTheWallet
<1>. QED
  BY <1>1, JournalInit, JournalStep, PTL DEF Spec
=============================================================================
