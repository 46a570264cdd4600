---------------------------- MODULE IndexerProofs ----------------------------
(***************************************************************************)
(* Theorems about Indexer.tla for every chain set, bound and configuration. *)
(* The order follows the argument: what the statements of BlockStore do to *)
(* one shelf, the type invariant, the invariants of the loop, and what     *)
(* follows for the archive as a whole: nothing on record is lost, a        *)
(* missing body or an emptied height has a gap entry, an undisturbed poll  *)
(* leaves the node's chain, and every step is one Archive.tla allows.      *)
(***************************************************************************)
EXTENDS Indexer, TLAPS

-----------------------------------------------------------------------------
(* One shelf.                                                              *)

\* canonical_hash_at answers with a hash of the height or with nothing.
LEMMA CanonicalHashType ==
    ASSUME NEW s
    PROVE  CanonicalHash(s) \in Chains \cup {NoHash}
BY DEF CanonicalHash

\* A statement of the indexer turns a shelf into a shelf.
LEMMA LogCanonicalType ==
    ASSUME NEW s \in ShelfType, NEW x \in Chains
    PROVE  LogCanonical(s, x) \in ShelfType
<1>. DEFINE st == [y \in Chains |->
                IF y = x THEN 1
                ELSE IF s.status[y] >= 1 /\ (s.status[x] < 1 \/ s.status[y] < s.status[x])
                THEN s.status[y] + 1
                ELSE s.status[y]]
<1>1. \A y \in Chains : s.status[y] \in Int
  BY DEF ShelfType
<1>2. st \in [Chains -> Int]
  BY <1>1
<1>3. [s EXCEPT !.status = st] \in ShelfType
  <2>. HIDE DEF st
  <2>. QED  BY <1>2 DEF ShelfType
<1>4. LogCanonical(s, x) = [s EXCEPT !.status = st]
  BY DEF LogCanonical
<1>5. QED
  BY <1>3, <1>4

LEMMA MarkOrphanedType ==
    ASSUME NEW s \in ShelfType, NEW x
    PROVE  MarkOrphaned(s, x) \in ShelfType
<1>. DEFINE st == [y \in Chains |->
                IF y = x THEN Orphaned
                ELSE IF s.status[x] >= 1 /\ s.status[y] > s.status[x]
                THEN s.status[y] - 1
                ELSE s.status[y]]
<1>1. \A y \in Chains : s.status[y] \in Int
  BY DEF ShelfType
<1>2. st \in [Chains -> Int]
  BY <1>1 DEF Orphaned
<1>3. [s EXCEPT !.status = st] \in ShelfType
  <2>. HIDE DEF st
  <2>. QED  BY <1>2 DEF ShelfType
<1>4. MarkOrphaned(s, x) = [s EXCEPT !.status = st]
  BY DEF MarkOrphaned
<1>5. QED
  BY <1>3, <1>4

LEMMA GapTypes ==
    ASSUME NEW s \in ShelfType
    PROVE  /\ RecordGap(s) \in ShelfType
           /\ ResolveGap(s) \in ShelfType
           /\ ResolveGapWithBody(s) \in ShelfType
BY DEF RecordGap, ResolveGap, ResolveGapWithBody, ShelfType, GapStates

LEMMA FillBodyType ==
    ASSUME NEW s \in ShelfType, NEW x \in Chains
    PROVE  FillBody(s, x) \in ShelfType
BY DEF FillBody, ResolveGap, ShelfType, GapStates

LEMMA InsertHeaderRowType ==
    ASSUME NEW s \in ShelfType, NEW x \in Chains, NEW body \in BOOLEAN
    PROVE  InsertHeaderRow(s, x, body) \in ShelfType
<1>1. [s EXCEPT !.captured = @ \cup {x}] \in ShelfType
  BY DEF ShelfType
<1>2. QED
  BY <1>1, LogCanonicalType DEF InsertHeaderRow

LEMMA StoreBlockType ==
    ASSUME NEW s \in ShelfType, NEW x \in Chains
    PROVE  StoreBlock(s, x) \in ShelfType
<1>1. [InsertHeaderRow(s, x, TRUE) EXCEPT !.txs = @ \cup {x}] \in ShelfType
  BY InsertHeaderRowType DEF ShelfType
<1>2. QED
  BY <1>1, FillBodyType DEF StoreBlock

LEMMA RecordGapBlockType ==
    ASSUME NEW s \in ShelfType, NEW x \in Chains
    PROVE  RecordGapBlock(s, x) \in ShelfType
BY InsertHeaderRowType, GapTypes DEF RecordGapBlock

LEMMA PruneBlockType ==
    ASSUME NEW s \in ShelfType, NEW x
    PROVE  PruneBlock(s, x) \in ShelfType
BY DEF PruneBlock, ShelfType

-----------------------------------------------------------------------------
(* Types.                                                                  *)

\* What the later proofs use of the two assumptions.
LEMMA ConstantTypes ==
    /\ Main \in Chains /\ NoHash \notin Chains
    /\ MaxHeight \in Nat /\ StartTip \in Heights
    /\ MaxReorgs \in Nat /\ MaxInterrupts \in Nat
    /\ ServingWindow \in Nat /\ RecheckDepth \in Nat /\ PruneDepth \in Nat
    /\ \A c \in Chains : ForkAt[c] \in Nat
    /\ 0 \in Heights /\ Heights \subseteq Nat
BY ChainAssumption, IndexerAssumption DEF Heights

LEMMA HeightsAreNumbers == \A h \in Heights : h \in Int /\ 0 <= h
BY ConstantTypes DEF Heights

LEMMA HashType ==
    ASSUME NEW c \in Chains, NEW h
    PROVE  HashAt(c, h) \in Chains
BY ConstantTypes DEF HashAt

LEMMA MonusType ==
    ASSUME NEW a \in Heights, NEW b \in Nat
    PROVE  /\ Monus(a, b) \in Heights
           /\ Monus(a, b) <= a
BY ConstantTypes DEF Monus, Heights

\* A place of the loop with fresh memory, and the loop's ways to move on to one.
LEMMA AtType ==
    ASSUME NEW pc \in Places, NEW h \in Heights, NEW tip \in Heights
    PROVE  At(pc, h, tip) \in IxType
BY DEF At, IxType

LEMMA LoopTypes ==
    ASSUME NEW h \in Nat, NEW tip \in Heights
    PROVE  /\ RecheckFrom(h, tip) \in IxType
           /\ Recheck(tip) \in IxType
           /\ IngestFrom(h, tip) \in IxType
           /\ Idle \in IxType
           /\ Down \in IxType
<1>1. {"idle", "down", "gaps", "recheck", "ingest"} \subseteq Places
  BY DEF Places
<1>2. \A g \in Nat : RecheckFrom(g, tip) \in IxType
  <2>. SUFFICES ASSUME NEW g \in Nat PROVE RecheckFrom(g, tip) \in IxType
    OBVIOUS
  <2>1. g <= tip => g \in Heights
    BY ConstantTypes DEF Heights
  <2>. QED  BY <1>1, <2>1, AtType, ConstantTypes DEF RecheckFrom
<1>3. Recheck(tip) \in IxType
  <2>1. Monus(tip, RecheckDepth) \in Nat
    BY MonusType, ConstantTypes
  <2>. QED  BY <1>2, <2>1 DEF Recheck
<1>4. IngestFrom(h, tip) \in IxType
  <2>1. h <= tip => h \in Heights
    BY ConstantTypes DEF Heights
  <2>. QED  BY <1>1, <1>3, <2>1, AtType DEF IngestFrom
<1>5. Idle \in IxType /\ Down \in IxType
  BY <1>1, AtType, ConstantTypes DEF Idle, Down
<1>6. QED
  BY <1>2, <1>3, <1>4, <1>5

\* The node's own steps.
LEMMA NodeTypeStep ==
    ASSUME node \in NodeType, NodeStep
    PROVE  node' \in NodeType
<1>1. CASE NodeExtend
  BY <1>1, ConstantTypes DEF NodeExtend, NodeType, Heights
<1>2. CASE \E c \in Chains : NodeReorg(c)
  <2>1. PICK c \in Chains : NodeReorg(c)
    BY <1>2
  <2>2. SplitAt(node.chain, c) \in Nat
    BY ConstantTypes DEF SplitAt, NodeType
  <2>3. PICK t \in SplitAt(node.chain, c)..MaxHeight :
          node' = [chain |-> c, tip |-> t, reorgs |-> node.reorgs + 1]
    BY <2>1 DEF NodeReorg
  <2>4. t \in Heights /\ node.reorgs + 1 \in 0..MaxReorgs
    BY <2>1, <2>2, <2>3, ConstantTypes DEF NodeReorg, NodeType, Heights
  <2>5. QED
    BY <2>3, <2>4 DEF NodeType
<1>3. QED
  BY <1>1, <1>2 DEF NodeStep

\* TypeOK is not inductive: a transaction that stores a body needs a hash to store it
\* under, and only the place of the loop says that there is one.
HashInHand ==
    /\ ix.pc \in {"store", "recover"} => ix.hash \in Chains
    /\ filler.pc = "commit" => filler.hash \in Chains

TypeInv == TypeOK /\ HashInHand

LEMMA TypeInit == Init => TypeInv
<1>. SUFFICES ASSUME Init PROVE TypeInv
  OBVIOUS
<1>1. node \in NodeType
  BY ConstantTypes DEF Init, NodeInit, NodeType
<1>2. db \in [Heights -> ShelfType]
  <2>1. EmptyShelf \in ShelfType
    BY DEF EmptyShelf, ShelfType, GapStates, Absent
  <2>. QED  BY <2>1 DEF Init
<1>3. ix \in IxType
  BY LoopTypes, ConstantTypes DEF Init
<1>4. filler \in FillerType
  BY ConstantTypes DEF Init, FillerIdle, FillerType
<1>5. interrupts \in 0..MaxInterrupts /\ calm \in BOOLEAN
  <2>1. interrupts = 0 /\ 0 \in 0..MaxInterrupts
    BY ConstantTypes DEF Init
  <2>2. calm \in BOOLEAN
    BY DEF Init
  <2>. QED  BY <2>1, <2>2
<1>6. QED
  BY <1>1, <1>2, <1>3, <1>4, <1>5
  DEF Init, TypeOK, TypeInv, HashInHand, Down, At, FillerIdle

\* A transaction on one height leaves the database a database.
LEMMA DbTypeStep ==
    ASSUME db \in [Heights -> ShelfType], NEW h \in Heights, NEW s \in ShelfType,
           db' = [db EXCEPT ![h] = s]
    PROVE  db' \in [Heights -> ShelfType]
OBVIOUS

\* Closing the gap entries that have a body, at every height.
LEMMA ResolveTypeStep ==
    ASSUME db \in [Heights -> ShelfType],
           db' = [h \in Heights |-> ResolveGapWithBody(db[h])]
    PROVE  db' \in [Heights -> ShelfType]
BY GapTypes

\* The loop is not holding a hash after it moved on.
LEMMA LoopPlaces ==
    ASSUME NEW h, NEW tip
    PROVE  /\ RecheckFrom(h, tip).pc \in {"recheck", "gaps"}
           /\ Recheck(tip).pc \in {"recheck", "gaps"}
           /\ IngestFrom(h, tip).pc \in {"ingest", "recheck", "gaps"}
           /\ Idle.pc = "idle"
           /\ Down.pc = "down"
<1>1. \A g : RecheckFrom(g, tip).pc \in {"recheck", "gaps"}
  BY DEF RecheckFrom, At
<1>2. Recheck(tip).pc \in {"recheck", "gaps"}
  BY <1>1 DEF Recheck
<1>3. IngestFrom(h, tip).pc \in {"ingest", "recheck", "gaps"}
  BY <1>2 DEF IngestFrom, At
<1>4. QED
  BY <1>1, <1>2, <1>3 DEF Idle, Down, At

LEMMA NodeHashType ==
    ASSUME node \in NodeType, NEW h
    PROVE  NodeHash(h) \in Chains
BY HashType DEF NodeHash, NodeType

\* Every step keeps the types.
LEMMA TypeStep == TypeInv /\ [Next]_vars => TypeInv'
<1>. SUFFICES ASSUME TypeInv, [Next]_vars PROVE TypeInv'
  OBVIOUS
<1>. USE DEF TypeInv, TypeOK, HashInHand
<1>1. CASE NodeMoves
  BY <1>1, NodeTypeStep DEF NodeMoves
<1>2. CASE Start
  BY <1>2, ResolveTypeStep, LoopTypes, LoopPlaces, ConstantTypes DEF Start
<1>3. CASE Killed
  <2>1. ix' \in IxType /\ ix'.pc = "down"
    BY <1>3, LoopTypes, LoopPlaces, ConstantTypes DEF Killed
  <2>2. filler' \in FillerType /\ filler'.pc = "idle"
    BY <1>3, ConstantTypes DEF Killed, FillerIdle, FillerType
  <2>3. interrupts' \in 0..MaxInterrupts
    BY <1>3, ConstantTypes DEF Killed
  <2>. QED  BY <1>3, <2>1, <2>2, <2>3 DEF Killed
<1>4. CASE PollFails
  <2>1. ix' \in IxType /\ ix'.pc = "idle"
    BY <1>4, LoopTypes, LoopPlaces, ConstantTypes DEF PollFails
  <2>2. interrupts' \in 0..MaxInterrupts
    BY <1>4, ConstantTypes DEF PollFails
  <2>. QED  BY <1>4, <2>1, <2>2 DEF PollFails
<1>5. CASE BeginPoll
  <2>1. node.tip \in Heights
    BY DEF NodeType
  <2>2. LastHeights \subseteq Heights
    <3>1. FirstStarts \subseteq Heights
      BY <2>1 DEF FirstStarts, Lowest
    <3>2. \A s \in Heights : Monus(s, 1) \in Heights
      BY MonusType
    <3>. QED  BY <3>1, <3>2 DEF LastHeights
  <2>3. PICK last \in LastHeights : ix' = IngestFrom(last + 1, node.tip)
    BY <1>5 DEF BeginPoll
  <2>4. last + 1 \in Nat
    BY <2>2, ConstantTypes
  <2>5. ix' \in IxType /\ ix'.pc \notin {"store", "recover"}
    BY <2>1, <2>3, <2>4, LoopTypes, LoopPlaces
  <2>. QED  BY <1>5, <2>5 DEF BeginPoll
<1>6. CASE FetchBlock
  <2>1. CASE ~HasHeader(ix.h)
    <3>1. ix' = Recheck(ix.tip)
      BY <1>6, <2>1 DEF FetchBlock
    <3>2. ix' \in IxType /\ ix'.pc \notin {"store", "recover"}
      BY <3>1, LoopTypes, LoopPlaces, ConstantTypes DEF IxType
    <3>. QED  BY <1>6, <3>2 DEF FetchBlock
  <2>2. CASE HasHeader(ix.h)
    <3>1. PICK b \in BodyAnswers(ix.h) :
            ix' = [ix EXCEPT !.pc = "store", !.hash = NodeHash(ix.h), !.body = b]
      BY <1>6, <2>2 DEF FetchBlock
    <3>2. b \in BOOLEAN
      BY DEF BodyAnswers
    <3>3. ix' \in IxType /\ ix'.hash \in Chains
      BY <3>1, <3>2, NodeHashType DEF IxType, Places
    <3>. QED  BY <1>6, <3>3 DEF FetchBlock
  <2>. QED  BY <2>1, <2>2
<1>7. CASE CommitBlock
  <2>1. ix.h \in Heights /\ ix.hash \in Chains
    BY <1>7 DEF CommitBlock, IxType
  <2>2. PICK s \in ShelfType : db' = [db EXCEPT ![ix.h] = s]
    BY <1>7, <2>1, StoreBlockType, RecordGapBlockType DEF CommitBlock
  <2>3. ix' \in IxType /\ ix'.pc = "advance"
    BY <1>7, AtType DEF CommitBlock, IxType, Places, At
  <2>. QED  BY <1>7, <2>1, <2>2, <2>3, DbTypeStep DEF CommitBlock
<1>8. CASE Advance
  <2>1. ix.h \in Heights /\ ix.h + 1 \in Nat /\ ix.tip \in Heights
    BY ConstantTypes DEF IxType
  <2>2. ix' \in IxType /\ ix'.pc \notin {"store", "recover"}
    BY <1>8, <2>1, LoopTypes, LoopPlaces DEF Advance
  <2>. QED  BY <1>8, <2>1, <2>2 DEF Advance
<1>9. CASE CheckHeader
  <2>1. ix.h \in Heights /\ ix.h + 1 \in Nat /\ ix.tip \in Heights
    BY ConstantTypes DEF IxType
  <2>2. \A x \in Chains \cup {NoHash} :
          [ix EXCEPT !.pc = "replace", !.old = x] \in IxType
    BY DEF IxType, Places
  <2>3. ix' \in IxType /\ ix'.pc \notin {"store", "recover"}
    <3>1. \/ ix' = [ix EXCEPT !.pc = "replace", !.old = CanonicalHash(db[ix.h])]
          \/ ix' = RecheckFrom(ix.h + 1, ix.tip)
      BY <1>9 DEF CheckHeader
    <3>2. CASE ix' = [ix EXCEPT !.pc = "replace", !.old = CanonicalHash(db[ix.h])]
      <4>1. ix'.pc = "replace"
        BY <3>2 DEF IxType
      <4>. QED  BY <2>2, <3>2, <4>1, CanonicalHashType
    <3>3. CASE ix' = RecheckFrom(ix.h + 1, ix.tip)
      BY <2>1, <3>3, LoopTypes, LoopPlaces
    <3>. QED  BY <3>1, <3>2, <3>3
  <2>. QED  BY <1>9, <2>3 DEF CheckHeader
<1>10. CASE FetchReplacement
  <2>1. ix' \in IxType /\ ix'.pc = "swap"
    <3>1. CASE ~HasHeader(ix.h)
      BY <1>10, <3>1 DEF FetchReplacement, IxType, Places
    <3>2. CASE HasHeader(ix.h)
      <4>1. PICK b \in BodyAnswers(ix.h) :
              ix' = [ix EXCEPT !.pc = "swap", !.hash = NodeHash(ix.h), !.body = b]
        BY <1>10, <3>2 DEF FetchReplacement
      <4>2. b \in BOOLEAN
        BY DEF BodyAnswers
      <4>. QED  BY <4>1, <4>2, NodeHashType DEF IxType, Places
    <3>. QED  BY <3>1, <3>2
  <2>. QED  BY <1>10, <2>1 DEF FetchReplacement
<1>11. CASE CommitReplacement
  <2>1. ix.h \in Heights /\ ix.h + 1 \in Nat /\ ix.tip \in Heights
    BY ConstantTypes DEF IxType
  <2>2. \A s \in ShelfType : RecordReplacement(s, ix.hash, ix.body) \in ShelfType
    BY GapTypes, StoreBlockType, RecordGapBlockType DEF RecordReplacement, IxType
  <2>3. MarkOrphaned(db[ix.h], ix.old) \in ShelfType
    BY <2>1, MarkOrphanedType
  <2>4. PICK s \in ShelfType : db' = [db EXCEPT ![ix.h] = s]
    BY <1>11, <2>1, <2>2, <2>3 DEF CommitReplacement
  <2>5. ix' \in IxType /\ ix'.pc \notin {"store", "recover"}
    BY <1>11, <2>1, LoopTypes, LoopPlaces DEF CommitReplacement
  <2>. QED  BY <1>11, <2>1, <2>4, <2>5, DbTypeStep DEF CommitReplacement
<1>12. CASE ListGaps
  <2>1. [At("retry", 0, ix.tip) EXCEPT
           !.todo = OpenGaps(Monus(ix.tip, ServingWindow))] \in IxType
    BY ConstantTypes DEF At, OpenGaps, IxType, Places
  <2>2. ix' \in IxType /\ ix'.pc \notin {"store", "recover"}
    BY <1>12, <2>1, LoopTypes, ConstantTypes DEF ListGaps, Idle, At
  <2>. QED  BY <1>12, <2>2 DEF ListGaps
<1>13. CASE RetryGap
  <2>1. PICK h \in Lowest(ix.todo) : \E b \in BodyAnswers(h) :
          LET x == CanonicalHash(db[h]) IN
          ix' = IF x # NoHash /\ Uncaptured(db[h], x) /\ b /\ NodeHash(h) = x
                THEN [ix EXCEPT !.pc = "recover", !.h = h, !.hash = x, !.todo = @ \ {h}]
                ELSE [ix EXCEPT !.todo = @ \ {h}]
    BY <1>13 DEF RetryGap
  <2>2. h \in Heights
    BY DEF Lowest, IxType
  <2>3. \/ /\ ix' = [ix EXCEPT !.pc = "recover", !.h = h, !.hash = CanonicalHash(db[h]),
                               !.todo = @ \ {h}]
           /\ CanonicalHash(db[h]) # NoHash
        \/ ix' = [ix EXCEPT !.todo = @ \ {h}]
    BY <2>1
  <2>4. CASE ix' = [ix EXCEPT !.todo = @ \ {h}]
    <3>1. ix' \in IxType /\ ix'.pc = ix.pc
      BY <2>4 DEF IxType
    <3>. QED  BY <1>13, <3>1 DEF RetryGap
  <2>5. CASE /\ ix' = [ix EXCEPT !.pc = "recover", !.h = h, !.hash = CanonicalHash(db[h]),
                                !.todo = @ \ {h}]
             /\ CanonicalHash(db[h]) # NoHash
    <3>1. CanonicalHash(db[h]) \in Chains
      BY <2>5, CanonicalHashType
    <3>2. ix' \in IxType /\ ix'.pc = "recover" /\ ix'.hash = CanonicalHash(db[h])
      BY <2>2, <2>5, <3>1 DEF IxType, Places
    <3>. QED  BY <1>13, <3>1, <3>2 DEF RetryGap
  <2>. QED  BY <2>3, <2>4, <2>5
<1>14. CASE CommitRecovered
  <2>1. ix.h \in Heights /\ ix.hash \in Chains
    BY <1>14 DEF CommitRecovered, IxType
  <2>2. FillBody(db[ix.h], ix.hash) \in ShelfType
    BY <2>1, FillBodyType
  <2>3. ix' \in IxType /\ ix'.pc = "retry"
    BY <1>14, ConstantTypes DEF CommitRecovered, At, IxType, Places
  <2>. QED  BY <1>14, <2>1, <2>2, <2>3, DbTypeStep DEF CommitRecovered
<1>15. CASE EndPoll
  BY <1>15, LoopTypes, LoopPlaces, ConstantTypes DEF EndPoll
<1>16. CASE Prune
  <2>1. PICK h \in Heights : \E x \in db[h].captured : db' = [db EXCEPT ![h] = PruneBlock(@, x)]
    BY <1>16 DEF Prune
  <2>2. PICK s \in ShelfType : db' = [db EXCEPT ![h] = s]
    BY <2>1, PruneBlockType
  <2>. QED  BY <1>16, <2>1, <2>2, DbTypeStep DEF Prune
<1>17. CASE FillerList
  <2>1. filler' \in FillerType /\ filler'.pc = "ask"
    BY <1>17, ConstantTypes DEF FillerList, FillerIdle, FillerType, OpenGaps
  <2>. QED  BY <1>17, <2>1 DEF FillerList
<1>18. CASE FillerAsk
  <2>1. PICK h \in Lowest(filler.todo) : \E found \in BOOLEAN :
          LET x == CanonicalHash(db[h]) IN
          filler' = IF x # NoHash /\ Uncaptured(db[h], x) /\ found
                    THEN [pc |-> "commit", todo |-> filler.todo \ {h}, h |-> h, hash |-> x]
                    ELSE [filler EXCEPT !.todo = @ \ {h}]
    BY <1>18 DEF FillerAsk
  <2>2. h \in Heights /\ filler.todo \ {h} \in SUBSET Heights
    BY DEF Lowest, FillerType
  <2>3. \/ /\ filler' = [pc |-> "commit", todo |-> filler.todo \ {h}, h |-> h,
                         hash |-> CanonicalHash(db[h])]
           /\ CanonicalHash(db[h]) # NoHash
        \/ filler' = [filler EXCEPT !.todo = @ \ {h}]
    BY <2>1
  <2>4. filler' \in FillerType /\ (filler'.pc = "commit" => filler'.hash \in Chains)
    BY <1>18, <2>2, <2>3, CanonicalHashType DEF FillerAsk, FillerType
  <2>. QED  BY <1>18, <2>4 DEF FillerAsk
<1>19. CASE FillerCommit
  <2>1. filler.h \in Heights /\ filler.hash \in Chains
    BY <1>19 DEF FillerCommit, FillerType
  <2>2. FillBody(db[filler.h], filler.hash) \in ShelfType
    BY <2>1, FillBodyType
  <2>3. filler' \in FillerType /\ filler'.pc = "ask"
    BY <1>19, ConstantTypes DEF FillerCommit, FillerIdle, FillerType
  <2>. QED  BY <1>19, <2>1, <2>2, <2>3, DbTypeStep DEF FillerCommit
<1>20. CASE FillerEnd
  <2>1. filler' \in FillerType /\ filler'.pc = "idle"
    BY <1>20, ConstantTypes DEF FillerEnd, FillerIdle, FillerType
  <2>. QED  BY <1>20, <2>1, ResolveTypeStep DEF FillerEnd
<1>21. CASE UNCHANGED vars
  BY <1>21 DEF vars
<1>22. QED
  BY <1>1, <1>2, <1>3, <1>4, <1>5, <1>6, <1>7, <1>8, <1>9, <1>10, <1>11, <1>12, <1>13,
     <1>14, <1>15, <1>16, <1>17, <1>18, <1>19, <1>20, <1>21
  DEF Next, Poll, Filler

\* The state of the loop, the filler and the database keeps its types, whatever the
\* node does and wherever the loop is cut short.
THEOREM TypeCorrect == Spec => []TypeOK
<1>1. TypeInv => TypeOK
  BY DEF TypeInv
<1>2. QED
  BY <1>1, TypeInit, TypeStep, PTL DEF Spec

-----------------------------------------------------------------------------
(* One canonical block per height.                                         *)

\* At most one hash of the shelf is canonical, so it is also the newest canonical one.
Tidy(s) ==
    \A x, y \in Chains :
        /\ s.status[x] <= 1
        /\ IsCanonical(s, x) /\ IsCanonical(s, y) => x = y

\* The loop only writes a new height where nothing is on record: everything above
\* last_processed_height is empty but for the block whose advance is still to come.
FreshAbove ==
    \A h \in Heights :
        lastProcessed < h /\ AnyRow(db[h]) => ix.pc = "advance" /\ ix.h = h

WorksAbove == ix.pc \in {"ingest", "store", "advance"} => lastProcessed < ix.h

\* The block a reorg replaces is still the canonical one when the transaction begins:
\* nothing but the loop changes a status.
ReplacesCanonical ==
    ix.pc \in {"replace", "swap"} => ix.old \in Chains /\ IsNewest(db[ix.h], ix.old)

OneInv ==
    /\ TypeInv
    /\ \A h \in Heights : Tidy(db[h])
    /\ FreshAbove
    /\ WorksAbove
    /\ ReplacesCanonical

\* Heights the loop has passed are filled, and the loop never steps over one.
StepsByOne ==
    ix.pc \in {"ingest", "store", "advance"} =>
        lastProcessed = NoHeight \/ ix.h = lastProcessed + 1

AdvancesOverBlock == ix.pc = "advance" => AnyCanonical(db[ix.h])

\* The node has every header the poll works on, so a replacement is never nothing.
WithinNode ==
    /\ ix.pc \notin {"idle", "down"} => ix.tip <= node.tip
    /\ ix.pc \in {"recheck", "replace", "swap"} => ix.h <= ix.tip
    /\ ix.pc = "swap" => ix.hash \in Chains

NoSkipInv ==
    /\ OneInv
    /\ NoHeightSkipped
    /\ StepsByOne
    /\ AdvancesOverBlock
    /\ WithinNode

\* Bodies and gap entries come and go without a status row.
LEMMA BodiesKeepStatus ==
    ASSUME NEW s \in ShelfType, NEW x
    PROVE  /\ RecordGap(s).status = s.status
           /\ ResolveGap(s).status = s.status
           /\ ResolveGapWithBody(s).status = s.status
           /\ FillBody(s, x).status = s.status
           /\ PruneBlock(s, x).status = s.status
<1>1. RecordGap(s).status = s.status /\ ResolveGap(s).status = s.status
  BY DEF RecordGap, ResolveGap, ShelfType
<1>2. ResolveGapWithBody(s).status = s.status
  BY <1>1 DEF ResolveGapWithBody
<1>3. FillBody(s, x).status = s.status
  BY DEF FillBody, ResolveGap, ShelfType
<1>4. PruneBlock(s, x).status = s.status
  BY DEF PruneBlock, ShelfType
<1>5. QED
  BY <1>1, <1>2, <1>3, <1>4

LEMMA StatusType ==
    ASSUME NEW s \in ShelfType, NEW x \in Chains
    PROVE  s.status[x] \in Int
BY DEF ShelfType

\* Whether a shelf is tidy, or has a canonical hash, is a matter of its statuses.
LEMMA StatusDecides ==
    ASSUME NEW s, NEW r, r.status = s.status
    PROVE  /\ Tidy(s) => Tidy(r)
           /\ AnyCanonical(r) <=> AnyCanonical(s)
           /\ AnyRow(r) <=> AnyRow(s)
           /\ \A x : IsNewest(r, x) <=> IsNewest(s, x)
BY DEF Tidy, AnyCanonical, AnyRow, IsCanonical, IsNewest, HasRow

LEMMA NoCanonicalHash ==
    ASSUME NEW s, ~AnyCanonical(s)
    PROVE  CanonicalHash(s) = NoHash
BY DEF CanonicalHash, AnyCanonical, IsNewest, IsCanonical

\* Where no block is canonical, a 'canonical' row makes its block the only one.
LEMMA LogCanonicalTidy ==
    ASSUME NEW s \in ShelfType, NEW x \in Chains, ~AnyCanonical(s)
    PROVE  Tidy(LogCanonical(s, x)) /\ IsNewest(LogCanonical(s, x), x)
<1>1. \A y \in Chains : s.status[y] \in Int /\ s.status[y] < 1
  BY DEF ShelfType, AnyCanonical, IsCanonical
<1>2. \A y \in Chains :
        LogCanonical(s, x).status[y] = IF y = x THEN 1 ELSE s.status[y]
  <2>1. \A y \in Chains :
          LogCanonical(s, x).status[y] =
            IF y = x THEN 1
            ELSE IF s.status[y] >= 1 /\ (s.status[x] < 1 \/ s.status[y] < s.status[x])
            THEN s.status[y] + 1
            ELSE s.status[y]
    BY DEF LogCanonical, ShelfType
  <2>2. \A y \in Chains : ~(s.status[y] >= 1)
    BY DEF AnyCanonical, IsCanonical
  <2>. QED  BY <2>1, <2>2
<1>3. QED
  BY <1>1, <1>2 DEF Tidy, IsNewest, IsCanonical

\* On a tidy shelf the 'orphaned' row of the canonical block leaves none canonical.
LEMMA MarkOrphanedTidy ==
    ASSUME NEW s \in ShelfType, Tidy(s), NEW x \in Chains, IsNewest(s, x)
    PROVE  ~AnyCanonical(MarkOrphaned(s, x))
<1>1. \A y \in Chains : s.status[y] \in Int /\ (y # x => s.status[y] < 1)
  BY DEF ShelfType, Tidy, IsCanonical, IsNewest
<1>2. \A y \in Chains :
        MarkOrphaned(s, x).status[y] = IF y = x THEN 0 ELSE s.status[y]
  <2>1. \A y \in Chains :
          MarkOrphaned(s, x).status[y] =
            IF y = x THEN Orphaned
            ELSE IF s.status[x] >= 1 /\ s.status[y] > s.status[x]
            THEN s.status[y] - 1
            ELSE s.status[y]
    BY DEF MarkOrphaned, ShelfType
  <2>2. s.status[x] = 1
    BY DEF IsNewest
  <2>3. \A y \in Chains : y # x => ~(s.status[y] > s.status[x])
    BY <1>1, <2>2
  <2>. QED  BY <2>1, <2>3 DEF Orphaned
<1>3. QED
  BY <1>1, <1>2 DEF AnyCanonical, IsCanonical

LEMMA InsertHeaderRowTidy ==
    ASSUME NEW s \in ShelfType, NEW x \in Chains, NEW body \in BOOLEAN, ~AnyCanonical(s)
    PROVE  Tidy(InsertHeaderRow(s, x, body)) /\ IsNewest(InsertHeaderRow(s, x, body), x)
<1>. DEFINE r == IF HasRow(s, x) \/ ~body THEN s ELSE [s EXCEPT !.captured = @ \cup {x}]
<1>1. r \in ShelfType /\ r.status = s.status
  <2>1. /\ [s EXCEPT !.captured = @ \cup {x}] \in ShelfType
        /\ [s EXCEPT !.captured = @ \cup {x}].status = s.status
    BY DEF ShelfType
  <2>. QED  BY <2>1
<1>2. ~AnyCanonical(r)
  BY <1>1, StatusDecides
<1>3. InsertHeaderRow(s, x, body) = LogCanonical(r, x)
  BY DEF InsertHeaderRow
<1>. HIDE DEF r
<1>4. QED
  BY <1>1, <1>2, <1>3, LogCanonicalTidy

\* What the loop writes at a height without a canonical block.
LEMMA StoreBlockTidy ==
    ASSUME NEW s \in ShelfType, NEW x \in Chains, ~AnyCanonical(s)
    PROVE  Tidy(StoreBlock(s, x)) /\ IsNewest(StoreBlock(s, x), x)
<1>. DEFINE r == InsertHeaderRow(s, x, TRUE)
<1>1. Tidy(r) /\ IsNewest(r, x) /\ r \in ShelfType
  BY InsertHeaderRowTidy, InsertHeaderRowType
<1>2. StoreBlock(s, x) = [r EXCEPT !.txs = @ \cup {x}]
  BY NoCanonicalHash, ConstantTypes DEF StoreBlock
<1>. HIDE DEF r
<1>3. StoreBlock(s, x).status = r.status
  BY <1>1, <1>2 DEF ShelfType
<1>4. QED
  BY <1>1, <1>3, StatusDecides

LEMMA RecordGapBlockTidy ==
    ASSUME NEW s \in ShelfType, NEW x \in Chains, ~AnyCanonical(s)
    PROVE  Tidy(RecordGapBlock(s, x)) /\ IsNewest(RecordGapBlock(s, x), x)
<1>. DEFINE r == InsertHeaderRow(s, x, FALSE)
<1>1. Tidy(r) /\ IsNewest(r, x) /\ r \in ShelfType
  BY InsertHeaderRowTidy, InsertHeaderRowType
<1>2. RecordGapBlock(s, x) = RecordGap(r)
  BY NoCanonicalHash, ConstantTypes DEF RecordGapBlock
<1>. HIDE DEF r
<1>3. RecordGapBlock(s, x).status = r.status
  BY <1>1, <1>2, BodiesKeepStatus
<1>4. QED
  BY <1>1, <1>3, StatusDecides

\* A step that writes no status row and leaves last_processed_height alone: what is
\* left to show is that the loop still works above it and on the canonical block.
LEMMA StatusKeptStep ==
    ASSUME OneInv, TypeInv', lastProcessed' = lastProcessed,
           \A h \in Heights : db'[h].status = db[h].status,
           ix.pc = "advance" => ix'.pc = "advance" /\ ix'.h = ix.h,
           WorksAbove',
           ix'.pc \in {"replace", "swap"} =>
               ix'.old \in Chains /\ ix'.h \in Heights /\ IsNewest(db[ix'.h], ix'.old)
    PROVE  OneInv'
<1>1. \A h \in Heights : /\ Tidy(db[h]) => Tidy(db'[h])
                         /\ AnyRow(db'[h]) => AnyRow(db[h])
                         /\ \A x : IsNewest(db[h], x) => IsNewest(db'[h], x)
  BY StatusDecides
<1>2. (\A h \in Heights : Tidy(db[h]))'
  BY <1>1 DEF OneInv
<1>3. FreshAbove'
  BY <1>1 DEF OneInv, FreshAbove
<1>4. ReplacesCanonical'
  BY <1>1 DEF ReplacesCanonical
<1>5. QED
  BY <1>2, <1>3, <1>4 DEF OneInv

\* A transaction that changes no status of the one height it writes.
LEMMA OneShelfKept ==
    ASSUME db \in [Heights -> ShelfType], NEW g \in Heights, NEW s,
           s.status = db[g].status, db' = [db EXCEPT ![g] = s]
    PROVE  \A h \in Heights : db'[h].status = db[h].status
OBVIOUS

LEMMA AllShelvesKept ==
    ASSUME db \in [Heights -> ShelfType],
           db' = [h \in Heights |-> ResolveGapWithBody(db[h])]
    PROVE  \A h \in Heights : db'[h].status = db[h].status
BY BodiesKeepStatus

\* Where the loop lands, it lands on the height it was sent to.
LEMMA IngestFromHeight ==
    ASSUME NEW h, NEW tip
    PROVE  IngestFrom(h, tip).pc = "ingest" => IngestFrom(h, tip).h = h
<1>1. IngestFrom(h, tip) = At("ingest", h, tip) \/ Recheck(tip).pc # "ingest"
  BY LoopPlaces DEF IngestFrom
<1>2. QED
  BY <1>1 DEF IngestFrom, At

LEMMA OneInit == Init => OneInv
<1>. SUFFICES ASSUME Init PROVE OneInv
  OBVIOUS
<1>1. ix.pc = "down"
  BY LoopPlaces DEF Init
<1>2. \A h \in Heights : db[h] = EmptyShelf
  BY DEF Init
<1>3. Tidy(EmptyShelf) /\ ~AnyRow(EmptyShelf)
  BY DEF EmptyShelf, Tidy, AnyRow, HasRow, IsCanonical, Absent
<1>4. QED
  BY <1>1, <1>2, <1>3, TypeInit
  DEF OneInv, FreshAbove, WorksAbove, ReplacesCanonical

\* The two actions that write a status row, and the one that moves last_processed_height.
LEMMA CommitBlockOne ==
    ASSUME OneInv, TypeInv', CommitBlock
    PROVE  OneInv'
<1>. USE DEF OneInv, TypeInv, TypeOK
<1>1. ix.pc = "store" /\ ix.h \in Heights /\ ix.hash \in Chains /\ lastProcessed < ix.h
  BY DEF CommitBlock, HashInHand, IxType, WorksAbove
<1>2. ~AnyCanonical(db[ix.h])
  <2>1. ~AnyRow(db[ix.h])
    BY <1>1 DEF FreshAbove
  <2>2. \A x \in Chains : db[ix.h].status[x] = Absent
    BY <2>1 DEF AnyRow, HasRow
  <2>. QED  BY <2>2 DEF AnyCanonical, IsCanonical, Absent
<1>3. PICK s : db' = [db EXCEPT ![ix.h] = s] /\ Tidy(s)
  BY <1>1, <1>2, StoreBlockTidy, RecordGapBlockTidy DEF CommitBlock
<1>4. ix'.pc = "advance" /\ ix'.h = ix.h
  BY DEF CommitBlock, At
<1>5. (\A h \in Heights : Tidy(db[h]))'
  BY <1>1, <1>3
<1>6. FreshAbove'
  <2>. SUFFICES ASSUME NEW h \in Heights, lastProcessed < h, AnyRow(db'[h])
                PROVE  h = ix.h
    BY <1>4 DEF FreshAbove, CommitBlock
  <2>. SUFFICES ASSUME h # ix.h PROVE FALSE
    OBVIOUS
  <2>1. AnyRow(db[h])
    BY <1>3
  <2>. QED  BY <1>1, <2>1 DEF FreshAbove
<1>7. WorksAbove' /\ ReplacesCanonical'
  BY <1>1, <1>4 DEF WorksAbove, ReplacesCanonical, CommitBlock
<1>8. QED
  BY <1>5, <1>6, <1>7

LEMMA AdvanceOne ==
    ASSUME OneInv, TypeInv', Advance
    PROVE  OneInv'
<1>. USE DEF OneInv, TypeInv, TypeOK
<1>0. lastProcessed \in Int /\ \A h \in Heights : h \in Int
  BY ConstantTypes DEF NoHeight
<1>1. ix.pc = "advance" /\ ix.h \in Heights /\ ix.tip \in Heights /\ lastProcessed < ix.h
  BY DEF Advance, IxType, WorksAbove
<1>2. lastProcessed' = ix.h /\ db' = db /\ ix' = IngestFrom(ix.h + 1, ix.tip)
  BY DEF Advance
<1>3. FreshAbove'
  <2>. SUFFICES ASSUME NEW h \in Heights, ix.h < h, AnyRow(db[h])
                PROVE  FALSE
    BY <1>2 DEF FreshAbove
  <2>1. lastProcessed < h
    <3>1. lastProcessed \in Int /\ h \in Int /\ ix.h \in Int
      BY <1>0, <1>1
    <3>. QED  BY ONLY <3>1, <1>1, ix.h < h
  <2>2. h = ix.h
    BY <2>1 DEF FreshAbove
  <2>. QED  BY <1>1, <2>2, ConstantTypes
<1>4. WorksAbove'
  <2>1. ix'.pc = "ingest" => ix'.h = ix.h + 1
    BY <1>2, IngestFromHeight
  <2>2. ix'.pc \notin {"store", "advance"}
    BY <1>2, LoopPlaces
  <2>3. ix.h < ix.h + 1
    <3>1. ix.h \in Int
      BY <1>0, <1>1
    <3>. QED  BY ONLY <3>1
  <2>. QED  BY <1>2, <2>1, <2>2, <2>3 DEF WorksAbove
<1>5. ReplacesCanonical'
  BY <1>2, LoopPlaces DEF ReplacesCanonical
<1>6. QED
  BY <1>2, <1>3, <1>4, <1>5

LEMMA CommitReplacementOne ==
    ASSUME OneInv, TypeInv', CommitReplacement
    PROVE  OneInv'
<1>. USE DEF OneInv, TypeInv, TypeOK
<1>. DEFINE s == MarkOrphaned(db[ix.h], ix.old)
            r == RecordReplacement(s, ix.hash, ix.body)
<1>1. ix.pc = "swap" /\ ix.h \in Heights /\ ix.hash \in Chains \cup {NoHash}
  BY DEF CommitReplacement, IxType
<1>2. ix.old \in Chains /\ IsNewest(db[ix.h], ix.old)
  BY <1>1 DEF ReplacesCanonical
<1>3. s \in ShelfType /\ ~AnyCanonical(s)
  BY <1>1, <1>2, MarkOrphanedType, MarkOrphanedTidy
<1>4. Tidy(r)
  <2>1. CASE ix.hash = NoHash
    <3>1. r = RecordGap(s)
      BY <2>1 DEF RecordReplacement
    <3>2. Tidy(s)
      <4>. HIDE DEF s
      <4>1. \A x \in Chains : s.status[x] \in Int /\ ~(s.status[x] >= 1)
        BY <1>3 DEF ShelfType, AnyCanonical, IsCanonical
      <4>. QED  BY <4>1 DEF Tidy, IsCanonical
    <3>. HIDE DEF s, r
    <3>. QED  BY <1>3, <3>1, <3>2, BodiesKeepStatus, StatusDecides
  <2>2. CASE ix.hash \in Chains
    <3>1. r = IF ix.body THEN StoreBlock(s, ix.hash) ELSE RecordGapBlock(s, ix.hash)
      BY <2>2, ConstantTypes DEF RecordReplacement
    <3>. HIDE DEF s, r
    <3>. QED  BY <1>3, <2>2, <3>1, StoreBlockTidy, RecordGapBlockTidy
  <2>. QED  BY <1>1, <2>1, <2>2
<1>5. db' = [db EXCEPT ![ix.h] = r] /\ lastProcessed' = lastProcessed
  BY DEF CommitReplacement
<1>6. ix'.pc \in {"recheck", "gaps"}
  BY LoopPlaces DEF CommitReplacement
<1>7. AnyRow(db[ix.h])
  BY <1>2 DEF AnyRow, HasRow, IsNewest, Absent
<1>. HIDE DEF r, s
<1>8. (\A h \in Heights : Tidy(db[h]))'
  BY <1>1, <1>4, <1>5
<1>9. FreshAbove'
  <2>. SUFFICES ASSUME NEW h \in Heights, lastProcessed < h, AnyRow(db'[h])
                PROVE  FALSE
    BY <1>5 DEF FreshAbove
  <2>1. AnyRow(db[h])
    BY <1>5, <1>7
  <2>. QED  BY <1>1, <2>1 DEF FreshAbove
<1>10. WorksAbove' /\ ReplacesCanonical'
  BY <1>6 DEF WorksAbove, ReplacesCanonical
<1>11. QED
  BY <1>8, <1>9, <1>10

\* poll_once begins above what it has recorded.
LEMMA BeginPollAbove ==
    ASSUME TypeOK, BeginPoll
    PROVE  WorksAbove'
<1>1. PICK last \in LastHeights : ix' = IngestFrom(last + 1, node.tip)
  BY DEF BeginPoll
<1>2. last \in Int /\ lastProcessed \in Int /\ lastProcessed <= last
  <2>1. node.tip \in Heights
    BY DEF TypeOK, NodeType
  <2>2. FirstStarts \subseteq Heights
    BY <2>1 DEF FirstStarts, Lowest
  <2>3. \A s \in Heights : Monus(s, 1) \in Heights
    BY MonusType
  <2>4. \A h \in Heights : h \in Int /\ -1 <= h
    BY ConstantTypes DEF Heights
  <2>5. CASE lastProcessed = NoHeight
    <3>1. last \in Heights
      BY <2>2, <2>3, <2>5 DEF LastHeights
    <3>. QED  BY <2>4, <2>5, <3>1 DEF NoHeight
  <2>6. CASE lastProcessed # NoHeight
    <3>1. last = lastProcessed /\ lastProcessed \in Heights
      BY <2>6 DEF LastHeights, TypeOK
    <3>2. lastProcessed \in Int
      BY <2>4, <3>1
    <3>. QED  BY ONLY <3>1, <3>2
  <2>. QED  BY <2>5, <2>6
<1>3. lastProcessed < last + 1
  BY ONLY <1>2
<1>4. ix'.pc \notin {"store", "advance"} /\ (ix'.pc = "ingest" => ix'.h = last + 1)
  BY <1>1, LoopPlaces, IngestFromHeight
<1>5. QED
  BY <1>3, <1>4 DEF WorksAbove, BeginPoll

\* Only the two transactions of the loop write a status row.
LEMMA StatusWriters ==
    ASSUME TypeInv, [Next]_vars
    PROVE  CommitBlock \/ CommitReplacement \/ \A h \in Heights : db'[h].status = db[h].status
<1>1. TypeOK /\ db \in [Heights -> ShelfType] /\ ix \in IxType /\ filler \in FillerType
  BY DEF TypeInv, TypeOK
<1>2. CASE UNCHANGED db
  BY <1>2
<1>3. CASE Start \/ FillerEnd
  BY <1>1, <1>3, AllShelvesKept DEF Start, FillerEnd
<1>4. CASE CommitRecovered
  <2>1. ix.h \in Heights
    BY <1>1 DEF IxType
  <2>2. db[ix.h] \in ShelfType
    BY <1>1, <2>1
  <2>. QED  BY <1>1, <1>4, <2>1, <2>2, BodiesKeepStatus, OneShelfKept DEF CommitRecovered
<1>5. CASE Prune
  <2>1. PICK h \in Heights : \E x : db' = [db EXCEPT ![h] = PruneBlock(@, x)]
    BY <1>5 DEF Prune
  <2>2. db[h] \in ShelfType
    BY <1>1
  <2>. QED  BY <1>1, <2>1, <2>2, BodiesKeepStatus, OneShelfKept
<1>6. CASE FillerCommit
  <2>1. filler.h \in Heights
    BY <1>1 DEF FillerType
  <2>2. db[filler.h] \in ShelfType
    BY <1>1, <2>1
  <2>. QED  BY <1>1, <1>6, <2>1, <2>2, BodiesKeepStatus, OneShelfKept DEF FillerCommit
<1>7. QED
  BY <1>2, <1>3, <1>4, <1>5, <1>6
  DEF Next, Poll, Filler, vars, NodeMoves, Killed, PollFails, BeginPoll, FetchBlock, Advance,
      CheckHeader, FetchReplacement, ListGaps, RetryGap, EndPoll, FillerList, FillerAsk

\* Every step keeps OneInv, if the loop cannot be cut short between a block's commit and
\* the commit of last_processed_height.
LEMMA OneStep ==
    ASSUME "advance" \notin InterruptAt, OneInv, [Next]_vars
    PROVE  OneInv'
<1>1. TypeInv'
  BY TypeStep DEF OneInv
<1>. USE <1>1
<1>2. TypeInv /\ TypeOK /\ db \in [Heights -> ShelfType] /\ ix \in IxType
  BY DEF OneInv, TypeInv, TypeOK
<1>3. CASE UNCHANGED <<db, lastProcessed, ix>>
  BY <1>3 DEF OneInv, FreshAbove, WorksAbove, ReplacesCanonical
<1>4. CASE NodeMoves \/ FillerList \/ FillerAsk \/ UNCHANGED vars
  BY <1>3, <1>4 DEF NodeMoves, FillerList, FillerAsk, vars
<1>5. CASE Start
  <2>1. ix.pc = "down" /\ ix'.pc = "idle" /\ lastProcessed' = lastProcessed
    BY <1>5, LoopPlaces DEF Start
  <2>2. \A h \in Heights : db'[h].status = db[h].status
    BY <1>2, <1>5, AllShelvesKept DEF Start
  <2>. QED  BY <2>1, <2>2, StatusKeptStep DEF WorksAbove
<1>6. CASE Killed \/ PollFails
  <2>1. ix.pc # "advance" /\ ix'.pc \in {"down", "idle"}
    BY <1>6, LoopPlaces DEF Killed, PollFails
  <2>2. lastProcessed' = lastProcessed /\ db' = db
    BY <1>6 DEF Killed, PollFails
  <2>. QED  BY <2>1, <2>2, StatusKeptStep DEF WorksAbove
<1>7. CASE BeginPoll
  <2>1. ix.pc = "idle" /\ db' = db /\ lastProcessed' = lastProcessed
    BY <1>7 DEF BeginPoll
  <2>2. ix'.pc \notin {"replace", "swap"}
    BY <1>7, LoopPlaces DEF BeginPoll
  <2>. QED  BY <1>2, <1>7, <2>1, <2>2, BeginPollAbove, StatusKeptStep
<1>8. CASE FetchBlock
  <2>1. ix.pc = "ingest" /\ db' = db /\ lastProcessed' = lastProcessed
    BY <1>8 DEF FetchBlock
  <2>2. \/ ix'.pc \in {"recheck", "gaps"}
        \/ ix'.pc = "store" /\ ix'.h = ix.h
    BY <1>2, <1>8, LoopPlaces DEF FetchBlock, IxType
  <2>3. WorksAbove'
    BY <2>1, <2>2 DEF OneInv, WorksAbove
  <2>. QED  BY <2>1, <2>2, <2>3, StatusKeptStep
<1>9. CASE CommitBlock
  BY <1>9, CommitBlockOne
<1>10. CASE Advance
  BY <1>10, AdvanceOne
<1>11. CASE CheckHeader
  <2>. DEFINE known == CanonicalHash(db[ix.h])
  <2>1. ix.pc = "recheck" /\ db' = db /\ lastProcessed' = lastProcessed
    BY <1>11 DEF CheckHeader
  <2>2. \/ ix'.pc \in {"recheck", "gaps"}
        \/ ix'.pc = "replace" /\ ix'.h = ix.h /\ ix'.old = known /\ known # NoHash
    BY <1>2, <1>11, LoopPlaces DEF CheckHeader, IxType
  <2>3. known # NoHash => known \in Chains /\ IsNewest(db[ix.h], known)
    BY DEF CanonicalHash
  <2>4. WorksAbove'
    BY <2>2 DEF WorksAbove
  <2>5. ix.h \in Heights
    BY <1>2 DEF IxType
  <2>. HIDE DEF known
  <2>. QED  BY <2>1, <2>2, <2>3, <2>4, <2>5, StatusKeptStep
<1>12. CASE FetchReplacement
  <2>1. ix.pc = "replace" /\ db' = db /\ lastProcessed' = lastProcessed
    BY <1>12 DEF FetchReplacement
  <2>2. ix'.pc = "swap" /\ ix'.h = ix.h /\ ix'.old = ix.old /\ ix.h \in Heights
    BY <1>2, <1>12 DEF FetchReplacement, IxType
  <2>. QED  BY <2>1, <2>2, StatusKeptStep DEF OneInv, WorksAbove, ReplacesCanonical
<1>13. CASE CommitReplacement
  BY <1>13, CommitReplacementOne
<1>14. CASE ListGaps \/ RetryGap \/ EndPoll
  <2>1. ix.pc \in {"gaps", "retry"} /\ db' = db /\ lastProcessed' = lastProcessed
    BY <1>14 DEF ListGaps, RetryGap, EndPoll
  <2>2. ix'.pc \in {"retry", "idle", "recover"}
    <3>1. CASE ListGaps
      BY <3>1, LoopPlaces DEF ListGaps, At
    <3>2. CASE RetryGap
      BY <1>2, <3>2 DEF RetryGap, IxType
    <3>3. CASE EndPoll
      BY <3>3, LoopPlaces DEF EndPoll
    <3>. QED  BY <1>14, <3>1, <3>2, <3>3
  <2>. QED  BY <2>1, <2>2, StatusKeptStep DEF WorksAbove
<1>15. CASE CommitRecovered
  <2>1. ix.pc = "recover" /\ ix'.pc = "retry" /\ lastProcessed' = lastProcessed
    BY <1>15 DEF CommitRecovered, At
  <2>2. \A h \in Heights : db'[h].status = db[h].status
    BY <1>2, <1>15, <2>1, StatusWriters DEF CommitBlock, CommitReplacement
  <2>. QED  BY <2>1, <2>2, StatusKeptStep DEF WorksAbove
<1>16. CASE Prune \/ FillerCommit \/ FillerEnd
  <2>1. ix' = ix /\ lastProcessed' = lastProcessed
    BY <1>16 DEF Prune, FillerCommit, FillerEnd
  <2>2. \A h \in Heights : db'[h].status = db[h].status
    <3>1. ~CommitBlock /\ ~CommitReplacement
      <4>1. CommitBlock => ix'.pc = "advance" /\ ix.pc = "store"
        BY DEF CommitBlock, At
      <4>2. CommitReplacement => ix'.pc \in {"recheck", "gaps"} /\ ix.pc = "swap"
        BY LoopPlaces DEF CommitReplacement
      <4>. QED  BY <2>1, <4>1, <4>2
    <3>. QED  BY <1>2, <3>1, StatusWriters
  <2>3. ix.h \in Heights
    BY <1>2 DEF IxType
  <2>. QED  BY <2>1, <2>2, <2>3, StatusKeptStep DEF OneInv, WorksAbove, ReplacesCanonical
<1>18. QED
  BY <1>4, <1>5, <1>6, <1>7, <1>8, <1>9, <1>10, <1>11, <1>12, <1>13, <1>14, <1>15, <1>16
  DEF Next, Poll, Filler

\* A height has at most one canonical block, however the node reorganizes and whatever the
\* peers send, as long as the loop is not cut short between the commit of a block and the
\* commit of last_processed_height (the run MCIndexer_crash shows that this is needed).
THEOREM OneCanonicalBlockHolds ==
    ASSUME "advance" \notin InterruptAt
    PROVE  Spec => []OneCanonicalBlock
<1>1. OneInv => OneCanonicalBlock
  BY DEF OneInv, Tidy, OneCanonicalBlock
<1>2. OneInv /\ [Next]_vars => OneInv'
  BY OneStep
<1>3. QED
  BY <1>1, <1>2, OneInit, PTL DEF Spec

-----------------------------------------------------------------------------
(* No height is skipped or emptied.                                        *)

\* Without a shrinking node the tip only grows.
LEMMA NodeTipGrows ==
    ASSUME ~NodeMayShrink, node \in NodeType, NodeStep
    PROVE  node.tip \in Int /\ node'.tip \in Int /\ node.tip <= node'.tip
<1>1. node.tip \in Int
  BY ConstantTypes DEF NodeType, Heights
<1>2. CASE NodeExtend
  BY <1>1, <1>2 DEF NodeExtend, NodeType
<1>3. CASE \E c \in Chains : NodeReorg(c)
  <2>1. PICK c \in Chains : NodeReorg(c)
    BY <1>3
  <2>2. PICK t \in SplitAt(node.chain, c)..MaxHeight :
          /\ node.tip <= t
          /\ node' = [chain |-> c, tip |-> t, reorgs |-> node.reorgs + 1]
    BY <2>1 DEF NodeReorg
  <2>3. node'.tip = t /\ t \in Int
    BY <2>2
  <2>. QED  BY <1>1, <2>2, <2>3
<1>4. QED
  BY <1>2, <1>3 DEF NodeStep

LEMMA LoopHeights ==
    ASSUME NEW h, NEW tip
    PROVE  /\ RecheckFrom(h, tip).pc = "recheck" => RecheckFrom(h, tip).h <= tip
           /\ Recheck(tip).pc = "recheck" => Recheck(tip).h <= tip
           /\ IngestFrom(h, tip).pc = "recheck" => IngestFrom(h, tip).h <= tip
           /\ RecheckFrom(h, tip).tip = tip
           /\ Recheck(tip).tip = tip
           /\ IngestFrom(h, tip).tip = tip
<1>1. \A g : /\ RecheckFrom(g, tip).pc = "recheck" => RecheckFrom(g, tip).h <= tip
             /\ RecheckFrom(g, tip).tip = tip
  BY DEF RecheckFrom, At
<1>2. Recheck(tip).tip = tip /\ (Recheck(tip).pc = "recheck" => Recheck(tip).h <= tip)
  BY <1>1 DEF Recheck
<1>3. /\ IngestFrom(h, tip).tip = tip
      /\ IngestFrom(h, tip).pc = "recheck" => IngestFrom(h, tip).h <= tip
  BY <1>2 DEF IngestFrom, At
<1>4. QED
  BY <1>1, <1>2, <1>3

\* The poll stays within what the node has: its tip was the node's when the poll began.
LEMMA WithinStep ==
    ASSUME ~NodeMayShrink, TypeInv, WithinNode, [Next]_vars
    PROVE  WithinNode'
<1>1. node \in NodeType /\ ix \in IxType
  BY DEF TypeInv, TypeOK
<1>2. node.tip \in Int /\ ix.tip \in Int
  BY <1>1, ConstantTypes DEF NodeType, IxType
<1>3. CASE NodeMoves
  <2>1. ix' = ix
    BY <1>3 DEF NodeMoves
  <2>2. ix.tip <= node.tip => ix.tip <= node'.tip
    <3>1. node'.tip \in Int /\ node.tip <= node'.tip
      BY <1>1, <1>3, NodeTipGrows DEF NodeMoves
    <3>. QED  BY ONLY <1>2, <3>1
  <2>. QED  BY <2>1, <2>2 DEF WithinNode
<1>4. CASE Start \/ Killed \/ PollFails \/ EndPoll
  BY <1>4, LoopPlaces DEF Start, Killed, PollFails, EndPoll, WithinNode
<1>5. CASE BeginPoll
  <2>1. node' = node /\ ix'.tip = node.tip /\ ix'.pc # "swap"
    BY <1>5, LoopHeights, LoopPlaces DEF BeginPoll
  <2>2. ix'.pc \notin {"replace", "swap"} /\ (ix'.pc = "recheck" => ix'.h <= node.tip)
    BY <1>5, LoopHeights, LoopPlaces DEF BeginPoll
  <2>. QED  BY <1>2, <2>1, <2>2 DEF WithinNode
<1>6. CASE FetchBlock
  <2>1. node' = node /\ ix.pc = "ingest" /\ ix'.tip = ix.tip
    BY <1>1, <1>6, LoopHeights DEF FetchBlock, IxType
  <2>2. ix'.pc \notin {"replace", "swap"} /\ (ix'.pc = "recheck" => ix'.h <= ix.tip)
    BY <1>1, <1>6, LoopHeights, LoopPlaces DEF FetchBlock, IxType
  <2>. QED  BY <2>1, <2>2 DEF WithinNode
<1>7. CASE CommitBlock
  BY <1>7 DEF CommitBlock, WithinNode, At
<1>8. CASE Advance
  <2>1. node' = node /\ ix.pc = "advance" /\ ix'.tip = ix.tip
    BY <1>8, LoopHeights DEF Advance
  <2>2. ix'.pc \notin {"replace", "swap"} /\ (ix'.pc = "recheck" => ix'.h <= ix.tip)
    BY <1>8, LoopHeights, LoopPlaces DEF Advance
  <2>. QED  BY <2>1, <2>2 DEF WithinNode
<1>9. CASE CheckHeader
  <2>1. node' = node /\ ix.pc = "recheck" /\ ix'.tip = ix.tip
    BY <1>1, <1>9, LoopHeights DEF CheckHeader, IxType
  <2>2. ix'.pc # "swap" /\ (ix'.pc \in {"recheck", "replace"} => ix'.h <= ix.tip)
    BY <1>1, <1>9, LoopHeights, LoopPlaces DEF CheckHeader, WithinNode, IxType
  <2>. QED  BY <2>1, <2>2 DEF WithinNode
<1>10. CASE FetchReplacement
  <2>1. node' = node /\ ix.pc = "replace"
    BY <1>10 DEF FetchReplacement
  <2>2. HasHeader(ix.h)
    <3>1. ix.h \in Int
      <4>1. ix.h \in Heights
        BY <1>1 DEF IxType
      <4>. QED  BY <4>1, HeightsAreNumbers
    <3>2. ix.h <= ix.tip /\ ix.tip <= node.tip
      BY <2>1 DEF WithinNode
    <3>3. ix.h <= node.tip
      BY ONLY <1>2, <3>1, <3>2
    <3>. QED  BY <3>3 DEF HasHeader
  <2>3. PICK b : ix' = [ix EXCEPT !.pc = "swap", !.hash = NodeHash(ix.h), !.body = b]
    BY <1>10, <2>2 DEF FetchReplacement
  <2>4. ix'.h = ix.h /\ ix'.tip = ix.tip /\ ix'.hash \in Chains
    BY <1>1, <2>3, NodeHashType DEF IxType
  <2>. QED  BY <2>1, <2>4 DEF WithinNode
<1>11. CASE CommitReplacement
  <2>1. node' = node /\ ix.pc = "swap" /\ ix'.tip = ix.tip
    BY <1>11, LoopHeights DEF CommitReplacement
  <2>2. ix'.pc \notin {"replace", "swap"} /\ (ix'.pc = "recheck" => ix'.h <= ix.tip)
    BY <1>11, LoopHeights, LoopPlaces DEF CommitReplacement
  <2>. QED  BY <2>1, <2>2 DEF WithinNode
<1>12. CASE ListGaps \/ RetryGap \/ CommitRecovered
  <2>1. node' = node /\ ix.pc \in {"gaps", "retry", "recover"}
    BY <1>12 DEF ListGaps, RetryGap, CommitRecovered
  <2>2. ix'.pc = "idle" \/ (ix'.tip = ix.tip /\ ix'.pc \in {"retry", "recover"})
    <3>1. CASE ListGaps
      BY <3>1, LoopPlaces DEF ListGaps, At
    <3>2. CASE RetryGap
      BY <1>1, <3>2 DEF RetryGap, IxType
    <3>3. CASE CommitRecovered
      BY <3>3 DEF CommitRecovered, At
    <3>. QED  BY <1>12, <3>1, <3>2, <3>3
  <2>. QED  BY <2>1, <2>2 DEF WithinNode
<1>13. CASE Prune \/ Filler \/ UNCHANGED vars
  <2>1. node' = node /\ ix' = ix
    BY <1>13 DEF Prune, Filler, FillerList, FillerAsk, FillerCommit, FillerEnd, vars
  <2>. QED  BY <2>1 DEF WithinNode
<1>14. QED
  BY <1>3, <1>4, <1>5, <1>6, <1>7, <1>8, <1>9, <1>10, <1>11, <1>12, <1>13 DEF Next, Poll

\* The two transactions leave a canonical block where they write.
LEMMA CommitBlockFills ==
    ASSUME OneInv, CommitBlock
    PROVE  /\ ix.h \in Heights /\ lastProcessed < ix.h
           /\ \A h \in Heights : h # ix.h => db'[h] = db[h]
           /\ AnyCanonical(db'[ix.h])
<1>. USE DEF OneInv, TypeInv, TypeOK
<1>1. ix.pc = "store" /\ ix.h \in Heights /\ ix.hash \in Chains /\ lastProcessed < ix.h
  BY DEF CommitBlock, HashInHand, IxType, WorksAbove
<1>2. ~AnyCanonical(db[ix.h])
  <2>1. ~AnyRow(db[ix.h])
    BY <1>1 DEF FreshAbove
  <2>2. \A x \in Chains : db[ix.h].status[x] = Absent
    BY <2>1 DEF AnyRow, HasRow
  <2>. QED  BY <2>2 DEF AnyCanonical, IsCanonical, Absent
<1>3. PICK s : db' = [db EXCEPT ![ix.h] = s] /\ IsNewest(s, ix.hash)
  BY <1>1, <1>2, StoreBlockTidy, RecordGapBlockTidy DEF CommitBlock
<1>4. AnyCanonical(s)
  BY <1>1, <1>3 DEF AnyCanonical, IsCanonical, IsNewest
<1>5. QED
  BY <1>1, <1>3, <1>4

LEMMA CommitReplacementFills ==
    ASSUME OneInv, WithinNode, CommitReplacement
    PROVE  /\ ix.h \in Heights /\ AnyCanonical(db[ix.h])
           /\ \A h \in Heights : h # ix.h => db'[h] = db[h]
           /\ AnyCanonical(db'[ix.h])
<1>. USE DEF OneInv, TypeInv, TypeOK
<1>. DEFINE s == MarkOrphaned(db[ix.h], ix.old)
<1>1. ix.pc = "swap" /\ ix.h \in Heights /\ ix.hash \in Chains
  BY DEF CommitReplacement, IxType, WithinNode
<1>2. ix.old \in Chains /\ IsNewest(db[ix.h], ix.old)
  BY <1>1 DEF ReplacesCanonical
<1>3. s \in ShelfType /\ ~AnyCanonical(s)
  BY <1>1, <1>2, MarkOrphanedType, MarkOrphanedTidy
<1>4. db' = [db EXCEPT ![ix.h] = RecordReplacement(s, ix.hash, ix.body)]
  BY DEF CommitReplacement
<1>. HIDE DEF s
<1>5. IsNewest(RecordReplacement(s, ix.hash, ix.body), ix.hash)
  BY <1>1, <1>3, ConstantTypes, StoreBlockTidy, RecordGapBlockTidy DEF RecordReplacement
<1>6. AnyCanonical(RecordReplacement(s, ix.hash, ix.body)) /\ AnyCanonical(db[ix.h])
  BY <1>1, <1>2, <1>5 DEF AnyCanonical, IsCanonical, IsNewest
<1>7. QED
  BY <1>1, <1>4, <1>6

\* A canonical block has a row.
LEMMA CanonicalHasRow ==
    ASSUME NEW s, AnyCanonical(s)
    PROVE  AnyRow(s)
BY DEF AnyCanonical, AnyRow, IsCanonical, HasRow, Absent

\* A step that neither writes a status row nor moves last_processed_height.
LEMMA NoSkipKept ==
    ASSUME NoSkipInv, lastProcessed' = lastProcessed,
           \A h \in Heights : db'[h].status = db[h].status,
           ix'.pc = "advance" => ix.pc = "advance" /\ ix'.h = ix.h /\ ix.h \in Heights,
           ix'.pc \in {"ingest", "store"} =>
               lastProcessed = NoHeight \/ ix'.h = lastProcessed + 1
    PROVE  NoHeightSkipped' /\ StepsByOne' /\ AdvancesOverBlock'
<1>1. \A h \in Heights : /\ AnyCanonical(db[h]) => AnyCanonical(db'[h])
                         /\ AnyRow(db'[h]) => AnyRow(db[h])
  BY StatusDecides
<1>2. NoHeightSkipped'
  BY <1>1 DEF NoSkipInv, NoHeightSkipped
<1>3. AdvancesOverBlock'
  BY <1>1 DEF NoSkipInv, AdvancesOverBlock
<1>4. StepsByOne'
  BY DEF NoSkipInv, StepsByOne
<1>5. QED
  BY <1>2, <1>3, <1>4

LEMMA AdvanceNoSkip ==
    ASSUME NoSkipInv, Advance
    PROVE  NoHeightSkipped' /\ StepsByOne' /\ AdvancesOverBlock'
<1>1. TypeOK /\ ix.pc = "advance"
  BY DEF NoSkipInv, OneInv, TypeInv, Advance
<1>2. lastProcessed' = ix.h /\ db' = db /\ ix' = IngestFrom(ix.h + 1, ix.tip)
  BY DEF Advance
<1>3. ix.h \in Heights /\ \A h \in Heights : h \in Int
  BY <1>1, ConstantTypes DEF TypeOK, IxType
<1>4. AnyCanonical(db[ix.h])
  BY <1>1 DEF NoSkipInv, AdvancesOverBlock
<1>5. NoHeightSkipped'
  <2>. SUFFICES ASSUME NEW g \in Heights, NEW h \in Heights,
                       g <= h, h <= ix.h, AnyRow(db[g])
                PROVE  AnyCanonical(db[h])
    BY <1>2 DEF NoHeightSkipped
  <2>. SUFFICES ASSUME h # ix.h PROVE AnyCanonical(db[h])
    BY <1>4
  <2>0. g \in Int /\ h \in Int /\ ix.h \in Int
    BY <1>3
  <2>1. CASE lastProcessed = NoHeight
    <3>1. lastProcessed < g
      BY <2>1, ConstantTypes DEF NoHeight
    <3>2. g = ix.h
      BY <3>1 DEF NoSkipInv, OneInv, FreshAbove
    <3>. QED  BY ONLY <2>0, <3>2, g <= h, h <= ix.h, h # ix.h
  <2>2. CASE ix.h = lastProcessed + 1
    <3>1. lastProcessed \in Int
      BY <1>1, <1>3 DEF TypeOK, NoHeight
    <3>2. h <= lastProcessed
      BY ONLY <2>0, <2>2, <3>1, h <= ix.h, h # ix.h
    <3>. QED  BY <3>2 DEF NoSkipInv, NoHeightSkipped
  <2>. QED  BY <1>1, <2>1, <2>2 DEF NoSkipInv, StepsByOne
<1>6. StepsByOne' /\ AdvancesOverBlock'
  BY <1>2, LoopPlaces, IngestFromHeight DEF StepsByOne, AdvancesOverBlock
<1>7. QED
  BY <1>5, <1>6

\* What the other actions do: no status row, no move of last_processed_height, and the
\* loop only starts on the height above it.
LEMMA OtherSteps ==
    ASSUME TypeInv, StepsByOne, [Next]_vars, ~CommitBlock, ~CommitReplacement, ~Advance
    PROVE  /\ \A h \in Heights : db'[h].status = db[h].status
           /\ lastProcessed' = lastProcessed
           /\ ix'.pc = "advance" => ix.pc = "advance" /\ ix'.h = ix.h
           /\ ix'.pc \in {"ingest", "store"} =>
                 lastProcessed = NoHeight \/ ix'.h = lastProcessed + 1
<1>1. ix \in IxType
  BY DEF TypeInv, TypeOK
<1>2. \A h \in Heights : db'[h].status = db[h].status
  BY StatusWriters
<1>3. lastProcessed' = lastProcessed
  BY DEF Next, Poll, Filler, vars, NodeMoves, Start, Killed, PollFails, BeginPoll, FetchBlock,
      CheckHeader, FetchReplacement, ListGaps, RetryGap, CommitRecovered, EndPoll, Prune,
      FillerList, FillerAsk, FillerCommit, FillerEnd
<1>4. \/ ix' = ix
      \/ ix'.pc \notin {"ingest", "store", "advance"}
      \/ BeginPoll
      \/ FetchBlock
  <2>1. CASE NodeMoves \/ Prune \/ Filler \/ UNCHANGED vars
    BY <2>1 DEF NodeMoves, Prune, Filler, FillerList, FillerAsk, FillerCommit, FillerEnd, vars
  <2>2. CASE Start \/ Killed \/ PollFails \/ EndPoll \/ CommitRecovered \/ ListGaps
    BY <2>2, LoopPlaces DEF Start, Killed, PollFails, EndPoll, CommitRecovered, ListGaps, At
  <2>3. CASE CheckHeader
    BY <1>1, <2>3, LoopPlaces DEF CheckHeader, IxType
  <2>4. CASE FetchReplacement
    BY <1>1, <2>4 DEF FetchReplacement, IxType
  <2>5. CASE RetryGap
    BY <1>1, <2>5 DEF RetryGap, IxType
  <2>. QED  BY <2>1, <2>2, <2>3, <2>4, <2>5 DEF Next, Poll
<1>5. /\ ix'.pc = "advance" => ix.pc = "advance" /\ ix'.h = ix.h
      /\ ix'.pc \in {"ingest", "store"} =>
            lastProcessed = NoHeight \/ ix'.h = lastProcessed + 1
  <2>1. CASE ix' = ix
    BY <2>1 DEF StepsByOne
  <2>2. CASE BeginPoll
    BY <2>2, LoopPlaces, IngestFromHeight DEF BeginPoll, LastHeights
  <2>3. CASE FetchBlock
    BY <1>1, <2>3, LoopPlaces DEF FetchBlock, IxType, StepsByOne
  <2>. QED  BY <1>4, <2>1, <2>2, <2>3
<1>6. QED
  BY <1>2, <1>3, <1>5

LEMMA NoSkipStep ==
    ASSUME "advance" \notin InterruptAt, ~NodeMayShrink, NoSkipInv, [Next]_vars
    PROVE  NoSkipInv'
<1>1. OneInv' /\ WithinNode'
  BY OneStep, WithinStep DEF NoSkipInv, OneInv
<1>2. OneInv /\ TypeInv /\ TypeOK /\ ix \in IxType /\ ix.h \in Heights
  BY DEF NoSkipInv, OneInv, TypeInv, TypeOK, IxType
<1>3. CASE CommitBlock
  <2>1. lastProcessed' = lastProcessed /\ ix'.pc = "advance" /\ ix'.h = ix.h /\ ix.pc = "store"
    BY <1>3 DEF CommitBlock, At
  <2>2. /\ lastProcessed < ix.h
        /\ \A h \in Heights : h # ix.h => db'[h] = db[h]
        /\ AnyCanonical(db'[ix.h])
    BY <1>2, <1>3, CommitBlockFills
  <2>3. NoHeightSkipped'
    <3>. SUFFICES ASSUME NEW g \in Heights, NEW h \in Heights,
                         g <= h, h <= lastProcessed, AnyRow(db'[g])
                  PROVE  AnyCanonical(db'[h])
      BY <2>1 DEF NoHeightSkipped
    <3>1. g # ix.h /\ h # ix.h
      <4>1. lastProcessed \in Int /\ g \in Int /\ h \in Int /\ ix.h \in Int
        BY <1>2, HeightsAreNumbers DEF TypeOK, NoHeight
      <4>. QED  BY ONLY <2>2, <4>1, g <= h, h <= lastProcessed
    <3>. QED  BY <2>2, <3>1 DEF NoSkipInv, NoHeightSkipped
  <2>4. StepsByOne' /\ AdvancesOverBlock'
    BY <2>1, <2>2 DEF NoSkipInv, StepsByOne, AdvancesOverBlock
  <2>. QED  BY <1>1, <2>3, <2>4 DEF NoSkipInv
<1>4. CASE CommitReplacement
  <2>1. lastProcessed' = lastProcessed /\ ix'.pc \in {"recheck", "gaps"}
    BY <1>4, LoopPlaces DEF CommitReplacement
  <2>2. /\ AnyCanonical(db[ix.h]) /\ AnyCanonical(db'[ix.h])
        /\ \A h \in Heights : h # ix.h => db'[h] = db[h]
    BY <1>2, <1>4, CommitReplacementFills DEF NoSkipInv
  <2>3. NoHeightSkipped'
    <3>. SUFFICES ASSUME NEW g \in Heights, NEW h \in Heights,
                         g <= h, h <= lastProcessed, AnyRow(db'[g])
                  PROVE  AnyCanonical(db'[h])
      BY <2>1 DEF NoHeightSkipped
    <3>1. AnyRow(db[g])
      BY <2>2, CanonicalHasRow
    <3>2. AnyCanonical(db[h])
      BY <3>1 DEF NoSkipInv, NoHeightSkipped
    <3>. QED  BY <2>2, <3>2
  <2>. QED  BY <1>1, <2>1, <2>3 DEF NoSkipInv, StepsByOne, AdvancesOverBlock
<1>5. CASE Advance
  BY <1>1, <1>5, AdvanceNoSkip DEF NoSkipInv
<1>6. CASE ~CommitBlock /\ ~CommitReplacement /\ ~Advance
  BY <1>1, <1>2, <1>6, OtherSteps, NoSkipKept DEF NoSkipInv
<1>7. QED
  BY <1>3, <1>4, <1>5, <1>6

LEMMA NoSkipInit == Init => NoSkipInv
<1>. SUFFICES ASSUME Init PROVE NoSkipInv
  OBVIOUS
<1>1. ix.pc = "down" /\ lastProcessed = NoHeight
  BY LoopPlaces DEF Init
<1>2. NoHeightSkipped
  BY <1>1, ConstantTypes DEF NoHeightSkipped, NoHeight
<1>3. QED
  BY <1>1, <1>2, OneInit DEF NoSkipInv, StepsByOne, AdvancesOverBlock, WithinNode

\* From the first recorded height to last_processed_height every height has a canonical
\* block, as long as a reorganization never leaves the node with a lower tip
\* (MCIndexer_emptied shows that this is needed) and the loop is not cut short between a
\* block's commit and the commit of last_processed_height.
THEOREM NoHeightSkippedHolds ==
    ASSUME "advance" \notin InterruptAt, ~NodeMayShrink
    PROVE  Spec => []NoHeightSkipped
<1>1. NoSkipInv => NoHeightSkipped
  BY DEF NoSkipInv
<1>2. NoSkipInv /\ [Next]_vars => NoSkipInv'
  BY NoSkipStep
<1>3. QED
  BY <1>1, <1>2, NoSkipInit, PTL DEF Spec

-----------------------------------------------------------------------------
(* Nothing on record is lost.                                              *)

\* Shelf r has every row and every body of shelf s.
Keeps(s, r) ==
    /\ \A x \in Chains : HasRow(s, x) => HasRow(r, x)
    /\ s.txs \subseteq r.txs

LEMMA BodiesKeep ==
    ASSUME NEW s \in ShelfType, NEW x
    PROVE  /\ Keeps(s, RecordGap(s))
           /\ Keeps(s, ResolveGapWithBody(s))
           /\ Keeps(s, FillBody(s, x))
<1>1. RecordGap(s).txs = s.txs /\ ResolveGap(s).txs = s.txs
  BY DEF RecordGap, ResolveGap, ShelfType
<1>2. ResolveGapWithBody(s).txs = s.txs
  BY <1>1 DEF ResolveGapWithBody
<1>3. FillBody(s, x).txs = s.txs \cup {x}
  BY DEF FillBody, ResolveGap, ShelfType
<1>4. QED
  BY <1>1, <1>2, <1>3, BodiesKeepStatus DEF Keeps, HasRow

LEMMA LogCanonicalKeeps ==
    ASSUME NEW s \in ShelfType, NEW x \in Chains
    PROVE  /\ Keeps(s, LogCanonical(s, x)) /\ HasRow(LogCanonical(s, x), x)
           /\ LogCanonical(s, x).captured = s.captured
           /\ LogCanonical(s, x).gap = s.gap
           /\ \A y \in Chains : HasRow(LogCanonical(s, x), y) => y = x \/ HasRow(s, y)
<1>1. /\ LogCanonical(s, x).txs = s.txs /\ LogCanonical(s, x).gap = s.gap
      /\ LogCanonical(s, x).captured = s.captured
  BY DEF LogCanonical, ShelfType
<1>2. \A y \in Chains :
        LogCanonical(s, x).status[y] =
          IF y = x THEN 1
          ELSE IF s.status[y] >= 1 /\ (s.status[x] < 1 \/ s.status[y] < s.status[x])
          THEN s.status[y] + 1
          ELSE s.status[y]
  BY DEF LogCanonical, ShelfType
<1>3. ASSUME NEW y \in Chains
      PROVE  /\ HasRow(s, y) => HasRow(LogCanonical(s, x), y)
             /\ HasRow(LogCanonical(s, x), y) => y = x \/ HasRow(s, y)
             /\ y = x => HasRow(LogCanonical(s, x), y)
  <2>1. s.status[y] \in Int
    BY StatusType
  <2>2. LogCanonical(s, x).status[y] = 1 \/ LogCanonical(s, x).status[y] = s.status[y]
        \/ (s.status[y] >= 1 /\ LogCanonical(s, x).status[y] = s.status[y] + 1)
    BY <1>2
  <2>3. y # x /\ ~(s.status[y] >= 1) => LogCanonical(s, x).status[y] = s.status[y]
    BY <1>2
  <2>4. y = x => LogCanonical(s, x).status[y] = 1
    BY <1>2
  <2>. QED  BY ONLY <2>1, <2>2, <2>3, <2>4 DEF HasRow, Absent
<1>4. QED
  BY <1>1, <1>3 DEF Keeps

LEMMA MarkOrphanedKeeps ==
    ASSUME NEW s \in ShelfType, NEW x \in Chains
    PROVE  /\ Keeps(s, MarkOrphaned(s, x))
           /\ MarkOrphaned(s, x).captured = s.captured
           /\ MarkOrphaned(s, x).gap = s.gap
           /\ \A y \in Chains : HasRow(MarkOrphaned(s, x), y) => y = x \/ HasRow(s, y)
<1>1. /\ MarkOrphaned(s, x).txs = s.txs /\ MarkOrphaned(s, x).gap = s.gap
      /\ MarkOrphaned(s, x).captured = s.captured
  BY DEF MarkOrphaned, ShelfType
<1>2. \A y \in Chains :
        MarkOrphaned(s, x).status[y] =
          IF y = x THEN Orphaned
          ELSE IF s.status[x] >= 1 /\ s.status[y] > s.status[x]
          THEN s.status[y] - 1
          ELSE s.status[y]
  BY DEF MarkOrphaned, ShelfType
<1>3. ASSUME NEW y \in Chains
      PROVE  /\ HasRow(s, y) => HasRow(MarkOrphaned(s, x), y)
             /\ HasRow(MarkOrphaned(s, x), y) => y = x \/ HasRow(s, y)
  <2>1. s.status[y] \in Int
    BY StatusType
  <2>2. CASE y = x
    BY <1>2, <2>2 DEF HasRow, Absent, Orphaned
  <2>3. CASE y # x /\ ~(s.status[x] >= 1 /\ s.status[y] > s.status[x])
    BY <1>2, <2>3 DEF HasRow
  <2>4. CASE y # x /\ s.status[x] >= 1 /\ s.status[y] > s.status[x]
    <3>1. MarkOrphaned(s, x).status[y] = s.status[y] - 1
      BY <1>2, <2>4
    <3>2. s.status[x] \in Int
      BY StatusType
    <3>. QED  BY ONLY <2>1, <2>4, <3>1, <3>2 DEF HasRow, Absent
  <2>. QED  BY <2>2, <2>3, <2>4
<1>4. QED
  BY <1>1, <1>3 DEF Keeps

LEMMA KeepsTransitive ==
    ASSUME NEW s, NEW r, NEW q, Keeps(s, r), Keeps(r, q)
    PROVE  Keeps(s, q)
BY DEF Keeps

LEMMA InsertHeaderRowKeeps ==
    ASSUME NEW s \in ShelfType, NEW x \in Chains, NEW body \in BOOLEAN
    PROVE  /\ Keeps(s, InsertHeaderRow(s, x, body))
           /\ InsertHeaderRow(s, x, body).gap = s.gap
           /\ s.captured \subseteq InsertHeaderRow(s, x, body).captured
           /\ \A y \in Chains :
                HasRow(InsertHeaderRow(s, x, body), y) =>
                    \/ HasRow(s, y)
                    \/ y = x /\ (body => x \in InsertHeaderRow(s, x, body).captured)
<1>. DEFINE r == IF HasRow(s, x) \/ ~body THEN s ELSE [s EXCEPT !.captured = @ \cup {x}]
<1>1. /\ r \in ShelfType /\ r.status = s.status /\ r.txs = s.txs /\ r.gap = s.gap
      /\ s.captured \subseteq r.captured
      /\ HasRow(s, x) \/ (body => x \in r.captured)
  <2>1. /\ [s EXCEPT !.captured = @ \cup {x}] \in ShelfType
        /\ [s EXCEPT !.captured = @ \cup {x}].status = s.status
        /\ [s EXCEPT !.captured = @ \cup {x}].txs = s.txs
        /\ [s EXCEPT !.captured = @ \cup {x}].gap = s.gap
        /\ [s EXCEPT !.captured = @ \cup {x}].captured = s.captured \cup {x}
    BY DEF ShelfType
  <2>. QED  BY <2>1
<1>2. InsertHeaderRow(s, x, body) = LogCanonical(r, x)
  BY DEF InsertHeaderRow
<1>. HIDE DEF r
<1>3. Keeps(s, r) /\ \A y : HasRow(r, y) <=> HasRow(s, y)
  BY <1>1 DEF Keeps, HasRow
<1>4. QED
  BY <1>1, <1>2, <1>3, LogCanonicalKeeps, KeepsTransitive

\* The statements that record a block: nothing is lost, and a row they add has its body
\* or a gap entry.
Records(s, r, x) ==
    /\ Keeps(s, r)
    /\ s.captured \subseteq r.captured
    /\ s.gap # "none" => r.gap # "none"
    /\ \A y \in Chains :
         HasRow(r, y) => HasRow(s, y) \/ (y = x /\ (x \in r.captured \/ r.gap # "none"))

LEMMA GapNames ==
    ASSUME NEW s \in ShelfType
    PROVE  /\ RecordGap(s).gap # "none"
           /\ s.gap # "none" => ResolveGap(s).gap # "none"
           /\ s.gap # "none" => ResolveGapWithBody(s).gap # "none"
           /\ RecordGap(s).captured = s.captured
           /\ ResolveGap(s).captured = s.captured
           /\ ResolveGapWithBody(s).captured = s.captured
<1>1. /\ RecordGap(s).gap # "none" /\ RecordGap(s).captured = s.captured
      /\ s.gap # "none" => ResolveGap(s).gap # "none"
      /\ ResolveGap(s).captured = s.captured
  BY DEF RecordGap, ResolveGap, ShelfType
<1>2. QED
  BY <1>1 DEF ResolveGapWithBody

LEMMA FillBodyRecords ==
    ASSUME NEW s \in ShelfType, NEW x \in Chains
    PROVE  Records(s, FillBody(s, x), x)
<1>1. /\ FillBody(s, x).captured = s.captured \cup {x}
      /\ s.gap # "none" => FillBody(s, x).gap # "none"
  BY DEF FillBody, ResolveGap, ShelfType
<1>2. QED
  BY <1>1, BodiesKeep, BodiesKeepStatus DEF Records, HasRow

LEMMA StoreBlockRecords ==
    ASSUME NEW s \in ShelfType, NEW x \in Chains
    PROVE  Records(s, StoreBlock(s, x), x)
<1>. DEFINE r == InsertHeaderRow(s, x, TRUE)
            q == [r EXCEPT !.txs = @ \cup {x}]
<1>1. r \in ShelfType
  BY InsertHeaderRowType
<1>2. /\ Keeps(s, r) /\ r.gap = s.gap /\ s.captured \subseteq r.captured
      /\ \A y \in Chains : HasRow(r, y) => HasRow(s, y) \/ (y = x /\ x \in r.captured)
  BY InsertHeaderRowKeeps
<1>. HIDE DEF r
<1>3. /\ q.status = r.status /\ q.captured = r.captured /\ q.gap = r.gap
      /\ q.txs = r.txs \cup {x}
  BY <1>1 DEF ShelfType
<1>4. Records(s, q, x)
  BY <1>2, <1>3 DEF Records, Keeps, HasRow
<1>5. Records(s, s, x)
  BY DEF Records, Keeps
<1>6. StoreBlock(s, x) \in {q, s, FillBody(s, x)}
  BY DEF StoreBlock, r
<1>. HIDE DEF q
<1>7. QED
  BY <1>4, <1>5, <1>6, FillBodyRecords

LEMMA RecordGapBlockRecords ==
    ASSUME NEW s \in ShelfType, NEW x \in Chains
    PROVE  Records(s, RecordGapBlock(s, x), x)
<1>. DEFINE r == IF CanonicalHash(s) = x THEN s ELSE InsertHeaderRow(s, x, FALSE)
<1>1. /\ r \in ShelfType /\ Keeps(s, r) /\ s.captured \subseteq r.captured
      /\ \A y \in Chains : HasRow(r, y) => HasRow(s, y) \/ y = x
  BY InsertHeaderRowKeeps, InsertHeaderRowType DEF Keeps
<1>2. RecordGapBlock(s, x) = RecordGap(r)
  BY DEF RecordGapBlock
<1>. HIDE DEF r
<1>3. /\ Keeps(r, RecordGap(r)) /\ RecordGap(r).gap # "none"
      /\ RecordGap(r).captured = r.captured /\ RecordGap(r).status = r.status
  BY <1>1, BodiesKeep, GapNames, BodiesKeepStatus
<1>4. Keeps(s, RecordGap(r))
  BY <1>1, <1>3, KeepsTransitive
<1>5. QED
  BY <1>1, <1>2, <1>3, <1>4 DEF Records, HasRow

LEMMA NoWriteRecords ==
    ASSUME NEW s, NEW x
    PROVE  Records(s, s, x)
BY DEF Records, Keeps

LEMMA ResolveRecords ==
    ASSUME NEW s \in ShelfType, NEW x
    PROVE  Records(s, ResolveGapWithBody(s), x)
BY BodiesKeep, BodiesKeepStatus, GapNames DEF Records, HasRow

LEMMA ReplacementRecords ==
    ASSUME NEW s \in ShelfType, NEW old \in Chains, HasRow(s, old),
           NEW x \in Chains \cup {NoHash}, NEW body
    PROVE  \E y \in Chains :
             Records(s, RecordReplacement(MarkOrphaned(s, old), x, body), y)
<1>. DEFINE m == MarkOrphaned(s, old)
            r == RecordReplacement(m, x, body)
<1>. SUFFICES \E y \in Chains : Records(s, r, y)
  OBVIOUS
<1>1. /\ m \in ShelfType /\ Keeps(s, m) /\ m.captured = s.captured /\ m.gap = s.gap
      /\ \A y \in Chains : HasRow(m, y) => HasRow(s, y)
  BY MarkOrphanedType, MarkOrphanedKeeps
<1>. HIDE DEF m
<1>2. CASE x = NoHash
  <2>1. r = RecordGap(m)
    BY <1>2 DEF RecordReplacement
  <2>2. /\ Keeps(m, RecordGap(m)) /\ RecordGap(m).captured = m.captured
        /\ RecordGap(m).gap # "none" /\ RecordGap(m).status = m.status
    BY <1>1, BodiesKeep, BodiesKeepStatus, GapNames
  <2>3. Keeps(s, RecordGap(m))
    BY <1>1, <2>2, KeepsTransitive
  <2>4. Records(s, RecordGap(m), old)
    BY <1>1, <2>2, <2>3 DEF Records, HasRow
  <2>. QED  BY <2>1, <2>4
<1>3. CASE x \in Chains
  <2>1. r \in {StoreBlock(m, x), RecordGapBlock(m, x)}
    BY <1>3, ConstantTypes DEF RecordReplacement
  <2>2. Records(m, r, x)
    BY <1>1, <1>3, <2>1, StoreBlockRecords, RecordGapBlockRecords
  <2>. HIDE DEF r
  <2>3. Keeps(s, r)
    BY <1>1, <2>2, KeepsTransitive DEF Records
  <2>4. Records(s, r, x)
    BY <1>1, <2>2, <2>3 DEF Records
  <2>. QED  BY <1>3, <2>4
<1>4. QED
  BY <1>2, <1>3

\* The block a reorg replaces has a row.
ReplacesRecorded ==
    ix.pc \in {"replace", "swap"} => ix.old \in Chains /\ HasRow(db[ix.h], ix.old)

KeepInv == TypeInv /\ ReplacesRecorded

\* What a step can do to the shelf of one height.
LEMMA ShelfSteps ==
    ASSUME KeepInv, [Next]_vars, NEW h \in Heights
    PROVE  \/ \E x : BeyondRetention(h) /\ db'[h] = PruneBlock(db[h], x)
           \/ \E x \in Chains : Records(db[h], db'[h], x)
<1>1. /\ TypeOK /\ db \in [Heights -> ShelfType] /\ ix \in IxType /\ filler \in FillerType
      /\ HashInHand /\ Main \in Chains
  BY ConstantTypes DEF KeepInv, TypeInv, TypeOK
<1>2. CASE UNCHANGED db
  BY <1>1, <1>2, NoWriteRecords
<1>3. CASE Start \/ FillerEnd
  BY <1>1, <1>3, ResolveRecords DEF Start, FillerEnd
<1>4. CASE CommitBlock
  <2>1. ix.hash \in Chains /\ ix.h \in Heights
    BY <1>1, <1>4 DEF CommitBlock, HashInHand, IxType
  <2>2. \/ db' = [db EXCEPT ![ix.h] = StoreBlock(@, ix.hash)]
        \/ db' = [db EXCEPT ![ix.h] = RecordGapBlock(@, ix.hash)]
    BY <1>4 DEF CommitBlock
  <2>. QED  BY <1>1, <2>1, <2>2, NoWriteRecords, StoreBlockRecords, RecordGapBlockRecords
<1>5. CASE CommitReplacement
  <2>1. /\ ix.old \in Chains /\ ix.h \in Heights /\ HasRow(db[ix.h], ix.old)
        /\ ix.hash \in Chains \cup {NoHash}
    BY <1>1, <1>5 DEF CommitReplacement, KeepInv, ReplacesRecorded, IxType
  <2>2. db' = [db EXCEPT ![ix.h] =
                 RecordReplacement(MarkOrphaned(@, ix.old), ix.hash, ix.body)]
    BY <1>5 DEF CommitReplacement
  <2>. QED  BY <1>1, <2>1, <2>2, NoWriteRecords, ReplacementRecords
<1>6. CASE CommitRecovered
  <2>1. ix.hash \in Chains /\ ix.h \in Heights
    BY <1>1, <1>6 DEF CommitRecovered, HashInHand, IxType
  <2>. QED  BY <1>1, <1>6, <2>1, NoWriteRecords, FillBodyRecords DEF CommitRecovered
<1>7. CASE FillerCommit
  <2>1. filler.hash \in Chains /\ filler.h \in Heights
    BY <1>1, <1>7 DEF FillerCommit, HashInHand, FillerType
  <2>. QED  BY <1>1, <1>7, <2>1, NoWriteRecords, FillBodyRecords DEF FillerCommit
<1>8. CASE Prune
  <2>1. PICK g \in Heights : \E x :
          BeyondRetention(g) /\ db' = [db EXCEPT ![g] = PruneBlock(@, x)]
    BY <1>8 DEF Prune
  <2>. QED  BY <1>1, <2>1, NoWriteRecords
<1>9. QED
  BY <1>2, <1>3, <1>4, <1>5, <1>6, <1>7, <1>8
  DEF Next, Poll, Filler, vars, NodeMoves, Killed, PollFails, BeginPoll, FetchBlock, Advance,
      CheckHeader, FetchReplacement, ListGaps, RetryGap, EndPoll, FillerList, FillerAsk

\* Rows stay, so the block to be replaced keeps its row.
LEMMA RowsStay ==
    ASSUME KeepInv, [Next]_vars, NEW h \in Heights, NEW y \in Chains, HasRow(db[h], y)
    PROVE  HasRow(db'[h], y)
<1>1. db[h] \in ShelfType
  BY DEF KeepInv, TypeInv, TypeOK
<1>2. CASE \E x : db'[h] = PruneBlock(db[h], x)
  BY <1>1, <1>2, BodiesKeepStatus DEF HasRow
<1>3. CASE \E x \in Chains : Records(db[h], db'[h], x)
  BY <1>3 DEF Records, Keeps
<1>4. QED
  BY <1>2, <1>3, ShelfSteps

LEMMA KeepStep == KeepInv /\ [Next]_vars => KeepInv'
<1>. SUFFICES ASSUME KeepInv, [Next]_vars PROVE KeepInv'
  OBVIOUS
<1>1. TypeInv' /\ ix \in IxType /\ ix.h \in Heights
  BY TypeStep DEF KeepInv, TypeInv, TypeOK, IxType
<1>2. CASE CheckHeader
  <2>1. db' = db
    BY <1>2 DEF CheckHeader
  <2>2. \/ ix'.pc \in {"recheck", "gaps"}
        \/ /\ ix'.h = ix.h /\ ix'.old = CanonicalHash(db[ix.h])
           /\ CanonicalHash(db[ix.h]) # NoHash
    BY <1>1, <1>2, LoopPlaces DEF CheckHeader, IxType
  <2>3. CanonicalHash(db[ix.h]) # NoHash =>
          CanonicalHash(db[ix.h]) \in Chains /\ HasRow(db[ix.h], CanonicalHash(db[ix.h]))
    BY DEF CanonicalHash, IsNewest, HasRow, Absent
  <2>. QED  BY <1>1, <2>1, <2>2, <2>3 DEF KeepInv, ReplacesRecorded
<1>3. CASE FetchReplacement
  <2>1. ix.pc = "replace" /\ ix'.h = ix.h /\ ix'.old = ix.old /\ db' = db
    BY <1>1, <1>3 DEF FetchReplacement, IxType
  <2>. QED  BY <1>1, <2>1 DEF KeepInv, ReplacesRecorded
<1>4. CASE ix' = ix
  <2>1. ASSUME ix.pc \in {"replace", "swap"}
        PROVE  ix.old \in Chains /\ HasRow(db'[ix.h], ix.old)
    BY <1>1, <2>1, RowsStay DEF KeepInv, ReplacesRecorded
  <2>. QED  BY <1>1, <1>4, <2>1 DEF KeepInv, ReplacesRecorded
<1>5. CASE ix'.pc \notin {"replace", "swap"}
  BY <1>1, <1>5 DEF KeepInv, ReplacesRecorded
<1>6. CheckHeader \/ FetchReplacement \/ ix' = ix \/ ix'.pc \notin {"replace", "swap"}
  <2>1. CASE NodeMoves \/ Prune \/ Filler \/ UNCHANGED vars
    BY <2>1 DEF NodeMoves, Prune, Filler, FillerList, FillerAsk, FillerCommit, FillerEnd, vars
  <2>2. CASE Start \/ Killed \/ PollFails \/ EndPoll \/ CommitRecovered \/ ListGaps \/ CommitBlock
    BY <2>2, LoopPlaces
    DEF Start, Killed, PollFails, EndPoll, CommitRecovered, ListGaps, CommitBlock, At
  <2>3. CASE BeginPoll \/ Advance \/ CommitReplacement
    BY <2>3, LoopPlaces DEF BeginPoll, Advance, CommitReplacement
  <2>4. CASE FetchBlock
    BY <1>1, <2>4, LoopPlaces DEF FetchBlock, IxType
  <2>5. CASE RetryGap
    BY <1>1, <2>5 DEF RetryGap, IxType
  <2>. QED  BY <2>1, <2>2, <2>3, <2>4, <2>5 DEF Next, Poll
<1>7. QED
  BY <1>2, <1>3, <1>4, <1>5, <1>6

LEMMA KeepInit == Init => KeepInv
BY TypeInit, LoopPlaces DEF Init, KeepInv, ReplacesRecorded

\* A recorded block keeps its row, and its transactions until retention removes them, in
\* every step and under no assumption on the node or the interruptions.
THEOREM NothingLostHolds == Spec => NothingLost
<1>. DEFINE Kept == \A h \in Heights : \A x \in Chains :
              /\ HasRow(db[h], x) => HasRow(db[h], x)'
              /\ x \in db[h].txs => (x \in db[h].txs' \/ BeyondRetention(h))
<1>1. ASSUME KeepInv, [Next]_vars PROVE Kept
  <2>. SUFFICES ASSUME NEW h \in Heights, NEW x \in Chains
                PROVE  /\ HasRow(db[h], x) => HasRow(db'[h], x)
                       /\ x \in db[h].txs => (x \in db'[h].txs \/ BeyondRetention(h))
    BY DEF HasRow
  <2>1. HasRow(db[h], x) => HasRow(db'[h], x)
    BY <1>1, RowsStay
  <2>2. x \in db[h].txs => (x \in db'[h].txs \/ BeyondRetention(h))
    BY <1>1, ShelfSteps DEF Records, Keeps
  <2>. QED  BY <2>1, <2>2
<1>2. KeepInv /\ [Next]_vars => [Kept]_vars
  BY <1>1
<1>3. QED
  BY <1>2, KeepInit, KeepStep, PTL DEF Spec, NothingLost

-----------------------------------------------------------------------------
(* A missing body has a gap entry.                                         *)

\* Every row of the shelf, canonical or not, has its body or the height a gap entry.
Listed(s) == \A x \in Chains : HasRow(s, x) /\ x \notin s.captured => s.gap # "none"

GapInv == KeepInv /\ \A h \in Heights : BeyondRetention(h) \/ Listed(db[h])

LEMMA RecordsListed ==
    ASSUME NEW s, NEW r, NEW x \in Chains, Listed(s), Records(s, r, x)
    PROVE  Listed(r)
BY DEF Records, Listed

\* With a tip that only grows, what is beyond retention stays there.
LEMMA RetentionStays ==
    ASSUME ~NodeMayShrink, TypeInv, [Next]_vars, NEW h \in Heights, BeyondRetention(h)
    PROVE  BeyondRetention(h)'
<1>1. node \in NodeType /\ node.tip \in Int /\ h \in Int /\ PruneDepth \in Int
  <2>1. node \in NodeType /\ node.tip \in Heights
    BY DEF TypeInv, TypeOK, NodeType
  <2>2. PruneDepth \in Int
    BY ConstantTypes
  <2>. QED  BY <2>1, <2>2, HeightsAreNumbers
<1>2. CASE node' = node
  BY <1>2 DEF BeyondRetention
<1>3. CASE NodeMoves
  <2>1. node'.tip \in Int /\ node.tip <= node'.tip
    BY <1>1, <1>3, NodeTipGrows DEF NodeMoves
  <2>2. PruneDepth > 0 /\ h + PruneDepth <= node.tip
    BY DEF BeyondRetention
  <2>3. h + PruneDepth <= node'.tip
    BY ONLY <1>1, <2>1, <2>2
  <2>. QED  BY <2>2, <2>3 DEF BeyondRetention
<1>4. QED
  BY <1>2, <1>3
  DEF Next, Poll, Filler, vars, Start, Killed, PollFails, BeginPoll, FetchBlock, CommitBlock,
      Advance, CheckHeader, FetchReplacement, CommitReplacement, ListGaps, RetryGap,
      CommitRecovered, EndPoll, Prune, FillerList, FillerAsk, FillerCommit, FillerEnd

LEMMA GapStep ==
    ASSUME ~NodeMayShrink, GapInv, [Next]_vars
    PROVE  GapInv'
<1>1. KeepInv' /\ TypeInv
  BY KeepStep DEF GapInv, KeepInv
<1>2. ASSUME NEW h \in Heights
      PROVE  BeyondRetention(h)' \/ Listed(db'[h])
  <2>1. CASE BeyondRetention(h)
    BY <1>1, <2>1, RetentionStays
  <2>2. CASE ~BeyondRetention(h)
    <3>1. Listed(db[h])
      BY <2>2 DEF GapInv
    <3>2. PICK x \in Chains : Records(db[h], db'[h], x)
      BY <2>2, ShelfSteps DEF GapInv
    <3>. QED  BY <3>1, <3>2, RecordsListed
  <2>. QED  BY <2>1, <2>2
<1>3. (\A h \in Heights : BeyondRetention(h) \/ Listed(db[h]))'
  BY <1>2 DEF BeyondRetention
<1>4. QED
  BY <1>1, <1>3 DEF GapInv

LEMMA GapInit == Init => GapInv
<1>1. Listed(EmptyShelf)
  BY DEF EmptyShelf, HasRow, Listed
<1>2. Init => \A h \in Heights : db[h] = EmptyShelf
  BY DEF Init
<1>3. QED
  BY <1>1, <1>2, KeepInit DEF GapInv

\* A block shown without its body has a gap entry, open or resolved, unless retention
\* removed the body - as long as a reorganization never leaves the node with a lower tip,
\* which would bring pruned heights back inside retention.
THEOREM MissingBodyHasGapEntryHolds ==
    ASSUME ~NodeMayShrink
    PROVE  Spec => []MissingBodyHasGapEntry
<1>1. GapInv => MissingBodyHasGapEntry
  <2>. SUFFICES ASSUME GapInv, NEW h \in Heights, NEW x \in Chains,
                       IsCanonical(db[h], x), x \notin db[h].captured, ~BeyondRetention(h)
                PROVE  db[h].gap # "none"
    BY DEF MissingBodyHasGapEntry
  <2>1. HasRow(db[h], x)
    BY DEF IsCanonical, HasRow, Absent
  <2>. QED  BY <2>1 DEF GapInv, Listed
<1>2. GapInv /\ [Next]_vars => GapInv'
  BY GapStep
<1>3. QED
  BY <1>1, <1>2, GapInit, PTL DEF Spec

-----------------------------------------------------------------------------
(* The loop implements Archive.tla.                                        *)

\* On a tidy shelf the canonical block is the one the archive shows.
LEMMA NewestIsShown ==
    ASSUME NEW s, Tidy(s), NEW x \in Chains, IsNewest(s, x)
    PROVE  CanonicalHash(s) = x
<1>1. \A y \in Chains : IsNewest(s, y) => y = x
  BY DEF Tidy, IsNewest, IsCanonical
<1>2. QED
  BY <1>1 DEF CanonicalHash

LEMMA CanonicalIsShown ==
    ASSUME NEW s \in ShelfType, Tidy(s), AnyCanonical(s)
    PROVE  CanonicalHash(s) # NoHash
<1>1. PICK x \in Chains : IsCanonical(s, x)
  BY DEF AnyCanonical
<1>2. s.status[x] \in Int /\ s.status[x] >= 1 /\ s.status[x] <= 1
  BY <1>1, StatusType DEF IsCanonical, Tidy
<1>3. s.status[x] = 1
  BY ONLY <1>2
<1>4. CanonicalHash(s) = x
  BY <1>3, NewestIsShown DEF IsNewest
<1>5. QED
  BY <1>4, ConstantTypes

LEMMA NoRowNotShown ==
    ASSUME NEW s, ~AnyRow(s)
    PROVE  CanonicalHash(s) = NoHash
BY DEF AnyRow, HasRow, CanonicalHash, IsNewest, Absent

LEMMA StatusShows ==
    ASSUME NEW s, NEW r, r.status = s.status
    PROVE  CanonicalHash(r) = CanonicalHash(s)
BY DEF CanonicalHash, IsNewest

\* A step that touches one height, and neither gives it its first block nor takes away its
\* last, is a step of the archive or none.
LEMMA OneHeightStep ==
    ASSUME TypeOK, TypeOK', NEW h \in Heights,
           \A g \in Heights : g # h => /\ CanonicalHash(db'[g]) = CanonicalHash(db[g])
                                       /\ db'[g].captured = db[g].captured,
           \/ CanonicalHash(db'[h]) = CanonicalHash(db[h])
           \/ CanonicalHash(db[h]) # NoHash /\ CanonicalHash(db'[h]) # NoHash
    PROVE  [Promise!Next]_Promise!vars
<1>. DEFINE known == CanonicalHash(db[h])
            new   == CanonicalHash(db'[h])
<1>1. /\ Shown' = [Shown EXCEPT ![h] = new]
      /\ Shown[h] = known
      /\ h \in Promise!Heights
  BY DEF Shown, Promise!Heights, Heights
<1>2. /\ h \in Complete' => Complete' = Complete \cup {h}
      /\ h \notin Complete' => Complete' = Complete \ {h}
  BY DEF Complete
<1>3. CASE known # new
  <2>1. known # NoHash /\ new \in Chains
    BY <1>3, CanonicalHashType
  <2>2. Promise!Replace(h, new, TRUE) \/ Promise!Replace(h, new, FALSE)
    BY <1>1, <1>2, <1>3, <2>1 DEF Promise!Replace
  <2>3. \E body \in BOOLEAN : Promise!Replace(h, new, body)
    BY <2>2
  <2>. HIDE DEF new
  <2>. QED  BY <1>1, <2>1, <2>3 DEF Promise!Next
<1>4. CASE known = new
  <2>1. Shown' = Shown
    BY <1>4 DEF Shown
  <2>2. CASE h \in Complete' /\ h \notin Complete
    <3>1. known # NoHash
      <4>1. new \in db'[h].captured /\ db'[h] \in ShelfType
        BY <2>2 DEF Complete, TypeOK
      <4>2. new \in Chains
        BY <4>1 DEF ShelfType
      <4>. QED  BY <1>4, <4>2, ConstantTypes
    <3>2. Promise!Complete(h)
      BY <1>1, <1>2, <2>1, <2>2, <3>1 DEF Promise!Complete
    <3>. QED  BY <1>1, <3>2 DEF Promise!Next
  <2>3. CASE h \notin Complete' /\ h \in Complete
    <3>1. Promise!Drop(h)
      BY <1>2, <2>1, <2>3 DEF Promise!Drop
    <3>. QED  BY <1>1, <3>1 DEF Promise!Next
  <2>4. CASE h \in Complete' <=> h \in Complete
    <3>1. Complete' = Complete
      BY <1>2, <2>4
    <3>. QED  BY <2>1, <3>1 DEF Promise!vars
  <2>. QED  BY <2>2, <2>3, <2>4
<1>5. QED
  BY <1>3, <1>4

\* A new block: the heights from it on are empty, the one below it is not.
LEMMA CommitBlockRecords ==
    ASSUME NoSkipInv, TypeOK', CommitBlock
    PROVE  [Promise!Next]_Promise!vars
<1>. DEFINE h == ix.h
            x == ix.hash
<1>1. OneInv /\ TypeInv /\ TypeOK
  BY DEF NoSkipInv, OneInv, TypeInv
<1>2. ix.pc = "store" /\ h \in Heights /\ x \in Chains /\ lastProcessed < h
  BY <1>1 DEF CommitBlock, HashInHand, TypeInv, TypeOK, IxType, OneInv, WorksAbove
<1>3. \A g \in Heights : lastProcessed < g => ~AnyRow(db[g]) /\ CanonicalHash(db[g]) = NoHash
  BY <1>1, <1>2, NoRowNotShown DEF OneInv, FreshAbove
<1>4. CanonicalHash(db'[h]) = x /\ \A g \in Heights : g # h => db'[g] = db[g]
  <2>1. db[h] \in ShelfType /\ ~AnyCanonical(db[h])
    BY <1>1, <1>2, <1>3, CanonicalHasRow DEF TypeOK
  <2>2. db' = [db EXCEPT ![h] = IF ix.body THEN StoreBlock(@, x) ELSE RecordGapBlock(@, x)]
    BY DEF CommitBlock
  <2>3. Tidy(db'[h]) /\ IsNewest(db'[h], x)
    BY <1>1, <1>2, <2>1, <2>2, StoreBlockTidy, RecordGapBlockTidy DEF TypeOK
  <2>. QED  BY <1>2, <2>2, <2>3, NewestIsShown
<1>. HIDE DEF h, x
<1>5. /\ Shown' = [Shown EXCEPT ![h] = x]
      /\ \A g \in Heights : Shown[g] = CanonicalHash(db[g])
  BY <1>4 DEF Shown
<1>6. h \notin Complete
  <2>1. db[h].captured \subseteq Chains
    BY <1>1, <1>2 DEF TypeOK, ShelfType
  <2>. QED  BY <1>2, <1>3, <2>1, ConstantTypes DEF Complete
<1>7. Complete' = IF h \in Complete' THEN Complete \cup {h} ELSE Complete
  BY <1>4, <1>6 DEF Complete
<1>8. \A g \in Heights : g >= h => Shown[g] = NoHash
  <2>. SUFFICES ASSUME NEW g \in Heights, g >= h PROVE lastProcessed < g
    BY <1>3, <1>5
  <2>1. lastProcessed \in Int /\ g \in Int /\ h \in Int
    BY <1>1, <1>2, HeightsAreNumbers DEF TypeOK, NoHeight
  <2>. QED  BY ONLY <1>2, <2>1, g >= h
<1>9. (\E g \in Heights : Shown[g] # NoHash) => h > 0 /\ Shown[h - 1] # NoHash
  <2>. SUFFICES ASSUME NEW g \in Heights, CanonicalHash(db[g]) # NoHash
                PROVE  h > 0 /\ Shown[h - 1] # NoHash
    BY <1>5
  <2>1. ~(lastProcessed < g) /\ AnyRow(db[g])
    BY <1>3, NoRowNotShown
  <2>2. lastProcessed \in Heights
    <3>1. lastProcessed # NoHeight
      <4>1. g \in Int /\ 0 <= g
        BY HeightsAreNumbers
      <4>. QED  BY ONLY <2>1, <4>1 DEF NoHeight
    <3>. QED  BY <1>1, <3>1 DEF TypeOK
  <2>3. h = lastProcessed + 1
    <3>1. lastProcessed # NoHeight
      BY <2>2, HeightsAreNumbers DEF NoHeight
    <3>. QED  BY <1>2, <3>1 DEF NoSkipInv, StepsByOne, h
  <2>4. lastProcessed \in Int /\ 0 <= lastProcessed /\ g \in Int
    BY <2>2, HeightsAreNumbers
  <2>5. g <= lastProcessed /\ lastProcessed <= lastProcessed
    BY ONLY <2>1, <2>4
  <2>6. AnyCanonical(db[lastProcessed])
    BY <2>1, <2>2, <2>5 DEF NoSkipInv, NoHeightSkipped
  <2>7. CanonicalHash(db[lastProcessed]) # NoHash
    BY <1>1, <2>2, <2>6, CanonicalIsShown DEF OneInv, TypeOK
  <2>8. h > 0 /\ h - 1 = lastProcessed
    BY ONLY <2>3, <2>4
  <2>. QED  BY <1>5, <2>2, <2>7, <2>8
<1>10. Promise!Record(h, x, TRUE) \/ Promise!Record(h, x, FALSE)
  BY <1>5, <1>7, <1>8, <1>9 DEF Promise!Record, Promise!Heights, Heights
<1>11. QED
  <2>1. \E body \in BOOLEAN : Promise!Record(h, x, body)
    BY <1>10
  <2>2. h \in Promise!Heights
    BY <1>2 DEF Promise!Heights, Heights
  <2>. QED  BY <1>2, <2>1, <2>2 DEF Promise!Next

\* A replacement never leaves its height without a shown block.
LEMMA CommitReplacementShows ==
    ASSUME NoSkipInv, NoSkipInv', CommitReplacement
    PROVE  [Promise!Next]_Promise!vars
<1>1. /\ OneInv /\ WithinNode /\ TypeOK /\ TypeOK'
      /\ \A h \in Heights : Tidy(db[h]) /\ Tidy(db'[h])
  BY DEF NoSkipInv, OneInv, TypeInv
<1>2. /\ ix.h \in Heights /\ AnyCanonical(db[ix.h]) /\ AnyCanonical(db'[ix.h])
      /\ \A h \in Heights : h # ix.h => db'[h] = db[h]
  BY <1>1, CommitReplacementFills
<1>3. db[ix.h] \in ShelfType /\ db'[ix.h] \in ShelfType
  BY <1>1, <1>2 DEF TypeOK
<1>4. CanonicalHash(db[ix.h]) # NoHash /\ CanonicalHash(db'[ix.h]) # NoHash
  BY <1>1, <1>2, <1>3, CanonicalIsShown
<1>5. QED
  BY <1>1, <1>2, <1>4, OneHeightStep

\* Every other transaction touches the body of one height at most.
LEMMA BodySteps ==
    ASSUME TypeInv, [Next]_vars, ~CommitBlock, ~CommitReplacement
    PROVE  \E h \in Heights : \A g \in Heights : g # h => db'[g].captured = db[g].captured
<1>1. /\ TypeOK /\ db \in [Heights -> ShelfType] /\ ix \in IxType /\ filler \in FillerType
      /\ 0 \in Heights
  BY ConstantTypes DEF TypeInv, TypeOK
<1>2. CASE UNCHANGED db
  BY <1>1, <1>2
<1>3. CASE Start \/ FillerEnd
  BY <1>1, <1>3, GapNames DEF Start, FillerEnd
<1>4. CASE CommitRecovered
  <2>1. ix.h \in Heights
    BY <1>1 DEF IxType
  <2>. QED  BY <1>1, <1>4, <2>1 DEF CommitRecovered
<1>5. CASE FillerCommit
  <2>1. filler.h \in Heights
    BY <1>1 DEF FillerType
  <2>. QED  BY <1>1, <1>5, <2>1 DEF FillerCommit
<1>6. CASE Prune
  <2>1. PICK h \in Heights : \E x : db' = [db EXCEPT ![h] = PruneBlock(@, x)]
    BY <1>6 DEF Prune
  <2>. QED  BY <1>1, <2>1
<1>7. QED
  BY <1>2, <1>3, <1>4, <1>5, <1>6
  DEF Next, Poll, Filler, vars, NodeMoves, Killed, PollFails, BeginPoll, FetchBlock, Advance,
      CheckHeader, FetchReplacement, ListGaps, RetryGap, EndPoll, FillerList, FillerAsk

\* The recording loop implements the archive: whatever the node, the peers and the
\* interruptions do, a reader sees heights added one by one at the top, blocks replaced by
\* blocks, and bodies found or dropped one at a time.
THEOREM ImplementsArchiveHolds ==
    ASSUME "advance" \notin InterruptAt, ~NodeMayShrink
    PROVE  Spec => ImplementsArchive
<1>1. Init => Promise!Init
  <2>. SUFFICES ASSUME Init PROVE Promise!Init
    OBVIOUS
  <2>1. CanonicalHash(EmptyShelf) = NoHash
    BY DEF CanonicalHash, EmptyShelf, IsNewest, Absent
  <2>2. \A h \in Heights : db[h] = EmptyShelf
    BY DEF Init
  <2>3. Shown = [h \in Heights |-> NoHash]
    BY <2>1, <2>2 DEF Shown
  <2>4. Complete = {}
    BY <2>1, <2>2 DEF Complete, EmptyShelf
  <2>. QED  BY <2>3, <2>4 DEF Promise!Init, Promise!Heights, Heights
<1>2. NoSkipInv /\ NoSkipInv' /\ [Next]_vars => [Promise!Next]_Promise!vars
  <2>. SUFFICES ASSUME NoSkipInv, NoSkipInv', [Next]_vars
                PROVE  [Promise!Next]_Promise!vars
    OBVIOUS
  <2>1. TypeInv /\ TypeOK /\ TypeOK'
    BY DEF NoSkipInv, OneInv, TypeInv
  <2>2. CASE CommitBlock
    BY <2>1, <2>2, CommitBlockRecords
  <2>3. CASE CommitReplacement
    BY <2>3, CommitReplacementShows
  <2>4. CASE ~CommitBlock /\ ~CommitReplacement
    <3>1. \A h \in Heights : CanonicalHash(db'[h]) = CanonicalHash(db[h])
      BY <2>1, <2>4, StatusWriters, StatusShows
    <3>2. PICK h \in Heights :
            \A g \in Heights : g # h => db'[g].captured = db[g].captured
      BY <2>1, <2>4, BodySteps
    <3>. QED  BY <2>1, <3>1, <3>2, OneHeightStep
  <2>. QED  BY <2>2, <2>3, <2>4
<1>3. NoSkipInv /\ [Next]_vars => NoSkipInv'
  BY NoSkipStep
<1>4. QED
  BY <1>1, <1>2, <1>3, NoSkipInit, PTL DEF Spec, ImplementsArchive, Promise!Spec

-----------------------------------------------------------------------------
(* Emptied heights.                                                        *)

\* From the first recorded height up to last_processed_height there are rows everywhere.
RowsContiguous ==
    \A g, h \in Heights : g <= h /\ h <= lastProcessed /\ AnyRow(db[g]) => AnyRow(db[h])

AdvancesOverRow == ix.pc = "advance" => AnyRow(db[ix.h])

\* A height with rows of which none is canonical is in the gap list.
EmptiedListed ==
    \A h \in Heights : AnyRow(db[h]) /\ ~AnyCanonical(db[h]) => db[h].gap # "none"

EmptiedInv ==
    /\ OneInv
    /\ StepsByOne
    /\ AdvancesOverRow
    /\ RowsContiguous
    /\ EmptiedListed

LEMMA OneKeeps == OneInv => KeepInv
BY DEF OneInv, KeepInv, ReplacesCanonical, ReplacesRecorded, IsNewest, HasRow, Absent

\* A height keeps its rows and its gap entry in every step.
LEMMA RowsAndGapsStay ==
    ASSUME OneInv, [Next]_vars, NEW h \in Heights
    PROVE  /\ AnyRow(db[h]) => AnyRow(db'[h])
           /\ db[h].gap # "none" => db'[h].gap # "none"
<1>1. KeepInv /\ db[h] \in ShelfType
  BY OneKeeps DEF KeepInv, TypeInv, TypeOK
<1>2. AnyRow(db[h]) => AnyRow(db'[h])
  BY <1>1, RowsStay DEF AnyRow
<1>3. db[h].gap # "none" => db'[h].gap # "none"
  <2>1. CASE \E x : db'[h] = PruneBlock(db[h], x)
    <3>1. db'[h].gap = db[h].gap
      BY <1>1, <2>1 DEF PruneBlock, ShelfType
    <3>. QED  BY <3>1
  <2>2. CASE \E x \in Chains : Records(db[h], db'[h], x)
    BY <2>2 DEF Records
  <2>. QED  BY <1>1, <2>1, <2>2, ShelfSteps
<1>4. QED
  BY <1>2, <1>3

\* Rows first appear where a block is committed, above last_processed_height.
LEMMA NewRows ==
    ASSUME OneInv, [Next]_vars, NEW g \in Heights, AnyRow(db'[g]), ~AnyRow(db[g])
    PROVE  CommitBlock /\ g = ix.h /\ lastProcessed < g
<1>1. /\ TypeInv /\ ix \in IxType /\ ix.h \in Heights
      /\ db \in [Heights -> ShelfType]
  BY DEF OneInv, TypeInv, TypeOK, IxType
<1>2. CASE \A h \in Heights : db'[h].status = db[h].status
  BY <1>2, StatusDecides
<1>3. CASE CommitReplacement
  <2>1. AnyRow(db[ix.h])
    BY <1>3 DEF CommitReplacement, OneInv, ReplacesCanonical, AnyRow, HasRow, IsNewest, Absent
  <2>2. g # ix.h => db'[g] = db[g]
    BY <1>1, <1>3 DEF CommitReplacement
  <2>. QED  BY <2>1, <2>2
<1>4. CASE CommitBlock
  <2>1. g # ix.h => db'[g] = db[g]
    BY <1>1, <1>4 DEF CommitBlock
  <2>2. g = ix.h
    BY <2>1
  <2>. QED  BY <1>4, <2>2, CommitBlockFills
<1>5. QED
  BY <1>1, <1>2, <1>3, <1>4, StatusWriters

\* The loop's two transactions leave a canonical block or a gap entry where they write.
LEMMA EmptiedStep ==
    ASSUME OneInv, EmptiedListed, [Next]_vars
    PROVE  EmptiedListed'
<1>. SUFFICES ASSUME NEW h \in Heights, AnyRow(db'[h]), ~AnyCanonical(db'[h])
              PROVE  db'[h].gap # "none"
  BY DEF EmptiedListed
<1>1. /\ TypeInv /\ ix \in IxType /\ ix.h \in Heights
      /\ db \in [Heights -> ShelfType] /\ HashInHand
  BY DEF OneInv, TypeInv, TypeOK, IxType
<1>2. CASE db'[h].status = db[h].status
  <2>1. AnyRow(db[h]) /\ ~AnyCanonical(db[h])
    BY <1>2, StatusDecides
  <2>. QED  BY <2>1, RowsAndGapsStay DEF EmptiedListed
<1>3. CASE CommitBlock
  BY <1>2, <1>3, CommitBlockFills
<1>4. CASE CommitReplacement
  <2>. DEFINE s == MarkOrphaned(db[ix.h], ix.old)
  <2>1. ix.pc = "swap" /\ ix.old \in Chains /\ IsNewest(db[ix.h], ix.old)
    BY <1>4 DEF CommitReplacement, OneInv, ReplacesCanonical
  <2>2. s \in ShelfType /\ ~AnyCanonical(s)
    BY <1>1, <2>1, MarkOrphanedType, MarkOrphanedTidy DEF OneInv
  <2>3. db' = [db EXCEPT ![ix.h] = RecordReplacement(s, ix.hash, ix.body)]
    BY <1>4 DEF CommitReplacement
  <2>. HIDE DEF s
  <2>4. CASE h # ix.h
    BY <1>1, <1>2, <2>3, <2>4
  <2>5. CASE h = ix.h /\ ix.hash = NoHash
    BY <1>1, <2>2, <2>3, <2>5, GapNames DEF RecordReplacement
  <2>6. CASE h = ix.h /\ ix.hash # NoHash
    <3>1. ix.hash \in Chains
      BY <1>1, <2>6 DEF IxType
    <3>2. IsNewest(RecordReplacement(s, ix.hash, ix.body), ix.hash)
      BY <2>2, <2>6, <3>1, StoreBlockTidy, RecordGapBlockTidy DEF RecordReplacement
    <3>3. AnyCanonical(db'[h])
      BY <1>1, <2>3, <2>6, <3>1, <3>2 DEF AnyCanonical, IsCanonical, IsNewest
    <3>. QED  BY <3>3
  <2>. QED  BY <2>4, <2>5, <2>6
<1>5. QED
  BY <1>1, <1>2, <1>3, <1>4, StatusWriters

LEMMA EmptiedInvStep ==
    ASSUME "advance" \notin InterruptAt, EmptiedInv, [Next]_vars
    PROVE  EmptiedInv'
<1>1. OneInv' /\ EmptiedListed'
  BY OneStep, EmptiedStep DEF EmptiedInv
<1>2. /\ OneInv /\ TypeInv /\ ix \in IxType /\ ix.h \in Heights
      /\ lastProcessed \in Int /\ \A h \in Heights : h \in Int
  <2>1. OneInv /\ TypeInv /\ ix \in IxType /\ ix.h \in Heights
    BY DEF EmptiedInv, OneInv, TypeInv, TypeOK, IxType
  <2>2. lastProcessed \in Int
    BY <2>1, HeightsAreNumbers DEF TypeInv, TypeOK, NoHeight
  <2>. QED  BY <2>1, <2>2, HeightsAreNumbers
<1>3. lastProcessed' = lastProcessed => RowsContiguous'
  <2>. SUFFICES ASSUME lastProcessed' = lastProcessed, NEW g \in Heights, NEW h \in Heights,
                       g <= h, h <= lastProcessed, AnyRow(db'[g])
                PROVE  AnyRow(db'[h])
    BY DEF RowsContiguous
  <2>1. ~(lastProcessed < g)
    <3>1. g \in Int /\ h \in Int
      BY <1>2
    <3>. QED  BY ONLY <1>2, <3>1, g <= h, h <= lastProcessed
  <2>2. AnyRow(db[g])
    BY <1>2, <2>1, NewRows
  <2>3. AnyRow(db[h])
    BY <2>2 DEF EmptiedInv, RowsContiguous
  <2>. QED  BY <1>2, <2>3, RowsAndGapsStay
<1>4. CASE CommitBlock
  <2>1. lastProcessed' = lastProcessed /\ ix'.pc = "advance" /\ ix'.h = ix.h /\ ix.pc = "store"
    BY <1>4 DEF CommitBlock, At
  <2>2. AnyRow(db'[ix.h])
    BY <1>2, <1>4, CommitBlockFills, CanonicalHasRow
  <2>3. StepsByOne' /\ AdvancesOverRow'
    BY <2>1, <2>2 DEF EmptiedInv, StepsByOne, AdvancesOverRow
  <2>. QED  BY <1>1, <1>3, <2>1, <2>3 DEF EmptiedInv
<1>5. CASE CommitReplacement
  <2>1. lastProcessed' = lastProcessed /\ ix'.pc \in {"recheck", "gaps"}
    BY <1>5, LoopPlaces DEF CommitReplacement
  <2>. QED  BY <1>1, <1>3, <2>1 DEF EmptiedInv, StepsByOne, AdvancesOverRow
<1>6. CASE Advance
  <2>1. /\ ix.pc = "advance" /\ lastProcessed' = ix.h /\ db' = db
        /\ ix' = IngestFrom(ix.h + 1, ix.tip)
    BY <1>6 DEF Advance
  <2>2. AnyRow(db[ix.h])
    BY <2>1 DEF EmptiedInv, AdvancesOverRow
  <2>3. RowsContiguous'
    <3>. SUFFICES ASSUME NEW g \in Heights, NEW h \in Heights,
                         g <= h, h <= ix.h, AnyRow(db[g])
                  PROVE  AnyRow(db[h])
      BY <2>1 DEF RowsContiguous
    <3>1. CASE h = ix.h
      BY <2>2, <3>1
    <3>2. CASE lastProcessed = NoHeight
      <4>1. lastProcessed < g
        BY <3>2, HeightsAreNumbers DEF NoHeight
      <4>2. g = ix.h
        BY <1>2, <4>1 DEF OneInv, FreshAbove
      <4>3. g \in Int /\ h \in Int /\ ix.h \in Int
        BY <1>2
      <4>4. h = ix.h
        BY ONLY <4>2, <4>3, g <= h, h <= ix.h
      <4>. QED  BY <2>2, <4>4
    <3>3. CASE h # ix.h /\ ix.h = lastProcessed + 1
      <4>1. h \in Int
        BY <1>2
      <4>2. h <= lastProcessed
        BY ONLY <1>2, <3>3, <4>1, h <= ix.h
      <4>. QED  BY <4>2 DEF EmptiedInv, RowsContiguous
    <3>. QED  BY <2>1, <3>1, <3>2, <3>3 DEF EmptiedInv, StepsByOne
  <2>4. StepsByOne' /\ AdvancesOverRow'
    BY <2>1, LoopPlaces, IngestFromHeight DEF StepsByOne, AdvancesOverRow
  <2>. QED  BY <1>1, <2>3, <2>4 DEF EmptiedInv
<1>7. CASE ~CommitBlock /\ ~CommitReplacement /\ ~Advance
  <2>1. /\ lastProcessed' = lastProcessed
        /\ ix'.pc = "advance" => ix.pc = "advance" /\ ix'.h = ix.h
        /\ ix'.pc \in {"ingest", "store"} =>
              lastProcessed = NoHeight \/ ix'.h = lastProcessed + 1
    BY <1>2, <1>7, OtherSteps DEF EmptiedInv
  <2>2. StepsByOne'
    BY <2>1 DEF EmptiedInv, StepsByOne
  <2>3. AdvancesOverRow'
    BY <1>2, <2>1, RowsAndGapsStay DEF EmptiedInv, AdvancesOverRow
  <2>. QED  BY <1>1, <1>3, <2>1, <2>2, <2>3 DEF EmptiedInv
<1>8. QED
  BY <1>4, <1>5, <1>6, <1>7

LEMMA EmptiedInit == Init => EmptiedInv
<1>. SUFFICES ASSUME Init PROVE EmptiedInv
  OBVIOUS
<1>1. ix.pc = "down"
  BY LoopPlaces DEF Init
<1>2. \A h \in Heights : ~AnyRow(db[h])
  BY DEF Init, EmptyShelf, AnyRow, HasRow
<1>3. QED
  BY <1>1, <1>2, OneInit
  DEF EmptiedInv, StepsByOne, AdvancesOverRow, RowsContiguous, EmptiedListed

\* A height between the first recorded one and last_processed_height that has lost its
\* canonical block, because the node shrank while the loop was replacing it, is in the gap
\* list; the loop must not be cut short before the commit of last_processed_height.
THEOREM EmptiedHeightHasGapEntryHolds ==
    ASSUME "advance" \notin InterruptAt
    PROVE  Spec => []EmptiedHeightHasGapEntry
<1>1. EmptiedInv => EmptiedHeightHasGapEntry
  BY DEF EmptiedInv, RowsContiguous, EmptiedListed, EmptiedHeightHasGapEntry
<1>2. EmptiedInv /\ [Next]_vars => EmptiedInv'
  BY EmptiedInvStep
<1>3. QED
  BY <1>1, <1>2, EmptiedInit, PTL DEF Spec

-----------------------------------------------------------------------------
(* A poll that went through while the node stood still.                    *)

\* The newest canonical block on record at h, if there is one, is the node's.
Agrees(h) == AnyCanonical(db[h]) => CanonicalHash(db[h]) = NodeHash(h)

\* As long as nothing has disturbed the poll it works on the node's tip, and the heights of
\* the window it has re-checked so far agree with the node.
UndisturbedPoll ==
    LET from == Monus(node.tip, RecheckDepth) IN
    calm =>
        /\ ix.pc # "down"
        /\ ix.pc # "idle" => ix.tip = node.tip
        /\ ix.pc \in {"recheck", "replace", "swap"} =>
              /\ ix.h \in from..node.tip
              /\ \A h \in from..node.tip : h < ix.h => Agrees(h)
        /\ ix.pc = "swap" => ix.hash = NodeHash(ix.h)
        /\ ix.pc \in {"gaps", "retry", "recover", "idle"} =>
              \A h \in from..node.tip : Agrees(h)

QuietInv == OneInv /\ UndisturbedPoll

\* The window is made of heights.
LEMMA WindowHeights ==
    ASSUME node \in NodeType
    PROVE  /\ node.tip \in Heights /\ Monus(node.tip, RecheckDepth) \in Heights
           /\ Monus(node.tip, RecheckDepth) <= node.tip
           /\ Monus(node.tip, RecheckDepth)..node.tip \subseteq Heights
<1>1. node.tip \in Heights
  BY DEF NodeType
<1>2. /\ Monus(node.tip, RecheckDepth) \in Heights
      /\ Monus(node.tip, RecheckDepth) <= node.tip
  BY <1>1, MonusType, ConstantTypes
<1>3. \A h \in Monus(node.tip, RecheckDepth)..node.tip : h \in Heights
  BY <1>1, <1>2, ConstantTypes DEF Heights
<1>4. QED
  BY <1>1, <1>2, <1>3

\* A step that writes no status row and leaves the node alone keeps what agrees.
LEMMA AgreesKept ==
    ASSUME node' = node, NEW h \in Heights, db'[h].status = db[h].status, Agrees(h)
    PROVE  Agrees(h)'
BY StatusDecides, StatusShows DEF Agrees, NodeHash

\* poll_once begins its re-check at the bottom of the window, with nothing claimed.
LEMMA RecheckBegins ==
    ASSUME node \in NodeType
    PROVE  Recheck(node.tip) = At("recheck", Monus(node.tip, RecheckDepth), node.tip)
BY WindowHeights DEF Recheck, RecheckFrom

\* One height further: either the next one of the window is looked at, or all of it was.
LEMMA RecheckGoesOn ==
    ASSUME QuietInv, node' = node, calm, ix.pc \in {"recheck", "swap"},
           ix' = RecheckFrom(ix.h + 1, ix.tip),
           \A h \in Heights : h # ix.h => db'[h].status = db[h].status,
           \A h \in Heights : h = ix.h => Agrees(h)'
    PROVE  UndisturbedPoll'
<1>. DEFINE from == Monus(node.tip, RecheckDepth)
<1>1. /\ ix.tip = node.tip /\ ix.h \in from..node.tip
      /\ \A h \in from..node.tip : h < ix.h => Agrees(h)
  BY DEF QuietInv, UndisturbedPoll
<1>2. /\ from \in Int /\ node.tip \in Int /\ ix.h \in Int
      /\ from..node.tip \subseteq Heights
  BY <1>1, WindowHeights, HeightsAreNumbers DEF QuietInv, OneInv, TypeInv, TypeOK
<1>3. \A h \in from..node.tip : h < ix.h => Agrees(h)'
  BY <1>1, <1>2, AgreesKept
<1>4. /\ Monus(node'.tip, RecheckDepth) = from
      /\ \A h \in from..node.tip : h = ix.h => Agrees(h)'
  BY <1>2
<1>. HIDE DEF from
<1>5. CASE ix.h + 1 <= node.tip
  <2>1. ix' = At("recheck", ix.h + 1, node.tip)
    BY <1>1, <1>5 DEF RecheckFrom
  <2>2. ix'.pc = "recheck" /\ ix'.h = ix.h + 1 /\ ix'.tip = node.tip
    BY <2>1 DEF At
  <2>3. ix'.h \in from..node.tip
    BY <1>1, <1>2, <1>5, <2>2
  <2>4. \A h \in from..node.tip : h < ix'.h => Agrees(h)'
    <3>. SUFFICES ASSUME NEW h \in from..node.tip, h < ix.h + 1 PROVE Agrees(h)'
      BY <2>2
    <3>1. h < ix.h \/ h = ix.h
      BY <1>2
    <3>. QED  BY <1>4, <1>3, <3>1
  <2>. QED  BY <1>4, <2>2, <2>3, <2>4 DEF UndisturbedPoll
<1>6. CASE ~(ix.h + 1 <= node.tip)
  <2>1. ix'.pc = "gaps" /\ ix'.tip = node.tip
    BY <1>1, <1>6 DEF RecheckFrom, At
  <2>2. \A h \in from..node.tip : Agrees(h)'
    <3>. SUFFICES ASSUME NEW h \in from..node.tip PROVE Agrees(h)'
      OBVIOUS
    <3>1. h < ix.h \/ h = ix.h
      BY <1>1, <1>2, <1>6
    <3>. QED  BY <1>4, <1>3, <3>1
  <2>. QED  BY <1>4, <2>1, <2>2 DEF UndisturbedPoll
<1>7. QED
  BY <1>5, <1>6

\* Where the newest canonical block is the node's, or there is none, nothing is replaced.
LEMMA CheckHeaderQuiet ==
    ASSUME QuietInv, calm, CheckHeader
    PROVE  UndisturbedPoll'
<1>1. /\ TypeOK /\ ix \in IxType /\ ix.h \in Heights /\ OneInv
      /\ ix.pc = "recheck" /\ node' = node /\ db' = db /\ calm' = calm
  BY DEF QuietInv, OneInv, TypeInv, TypeOK, IxType, CheckHeader
<1>2. ix.tip = node.tip /\ ix.h \in Monus(node.tip, RecheckDepth)..node.tip
  BY <1>1 DEF QuietInv, UndisturbedPoll
<1>3. HasHeader(ix.h)
  BY <1>2 DEF HasHeader
<1>4. CASE ix' = [ix EXCEPT !.pc = "replace", !.old = CanonicalHash(db[ix.h])]
  <2>1. ix'.pc = "replace" /\ ix'.h = ix.h /\ ix'.tip = ix.tip
    BY <1>1, <1>4 DEF IxType
  <2>. QED  BY <1>1, <1>2, <2>1 DEF QuietInv, UndisturbedPoll, Agrees, NodeHash
<1>5. CASE /\ ix' = RecheckFrom(ix.h + 1, ix.tip)
           /\ CanonicalHash(db[ix.h]) # NoHash => CanonicalHash(db[ix.h]) = NodeHash(ix.h)
  <2>1. \A h \in Heights : h = ix.h => Agrees(h)'
    <3>1. AnyCanonical(db[ix.h]) => CanonicalHash(db[ix.h]) # NoHash
      BY <1>1, CanonicalIsShown DEF OneInv, TypeInv, TypeOK
    <3>2. Agrees(ix.h)
      BY <1>5, <3>1 DEF Agrees
    <3>. QED  BY <1>1, <3>2, AgreesKept
  <2>. QED  BY <1>1, <1>5, <2>1, RecheckGoesOn
<1>6. QED
  BY <1>3, <1>4, <1>5 DEF CheckHeader

\* The replacement written is the node's block at that height.
LEMMA CommitReplacementQuiet ==
    ASSUME QuietInv, calm, CommitReplacement
    PROVE  UndisturbedPoll'
<1>. DEFINE s == MarkOrphaned(db[ix.h], ix.old)
            r == RecordReplacement(s, ix.hash, ix.body)
<1>1. /\ OneInv /\ TypeOK /\ ix \in IxType /\ ix.h \in Heights /\ db \in [Heights -> ShelfType]
      /\ ix.pc = "swap" /\ node' = node /\ calm' = calm
      /\ ix' = RecheckFrom(ix.h + 1, ix.tip) /\ db' = [db EXCEPT ![ix.h] = r]
  BY DEF QuietInv, OneInv, TypeInv, TypeOK, IxType, CommitReplacement
<1>2. ix.hash = NodeHash(ix.h) /\ ix.hash \in Chains
  BY <1>1, NodeHashType DEF QuietInv, UndisturbedPoll, TypeOK
<1>3. Tidy(r) /\ IsNewest(r, ix.hash)
  <2>1. ix.old \in Chains /\ IsNewest(db[ix.h], ix.old) /\ Tidy(db[ix.h])
    BY <1>1 DEF OneInv, ReplacesCanonical
  <2>2. s \in ShelfType /\ ~AnyCanonical(s)
    BY <1>1, <2>1, MarkOrphanedType, MarkOrphanedTidy
  <2>3. r = IF ix.body THEN StoreBlock(s, ix.hash) ELSE RecordGapBlock(s, ix.hash)
    BY <1>2, ConstantTypes DEF RecordReplacement
  <2>. HIDE DEF s, r
  <2>. QED  BY <1>2, <2>2, <2>3, StoreBlockTidy, RecordGapBlockTidy
<1>. HIDE DEF r
<1>4. \A h \in Heights : h = ix.h => Agrees(h)'
  BY <1>1, <1>2, <1>3, NewestIsShown DEF Agrees, NodeHash
<1>5. \A h \in Heights : h # ix.h => db'[h].status = db[h].status
  BY <1>1
<1>6. QED
  BY <1>1, <1>4, <1>5, RecheckGoesOn

\* A step that writes no status row, after which the poll is where it was or in a place
\* where nothing more is claimed.
LEMMA QuietKept ==
    ASSUME QuietInv, node' = node, \A h \in Heights : db'[h].status = db[h].status,
           calm' => calm /\ ix'.pc # "down" /\ (ix'.pc # "idle" => ix'.tip = ix.tip),
           \/ ix'.pc \in {"down", "ingest", "store", "advance"}
           \/ ix'.pc \in {"recheck", "replace"} /\ ix.pc = ix'.pc /\ ix'.h = ix.h
           \/ ix'.pc = "swap" /\ ix.pc = "swap" /\ ix'.h = ix.h /\ ix'.hash = ix.hash
           \/ /\ ix'.pc \in {"gaps", "retry", "recover", "idle"}
              /\ ix.pc \in {"gaps", "retry", "recover", "idle"},
           ix.pc = "idle" => ix'.pc = "idle"
    PROVE  UndisturbedPoll'
<1>. DEFINE from == Monus(node.tip, RecheckDepth)
<1>. SUFFICES ASSUME calm' PROVE UndisturbedPoll'
  BY DEF UndisturbedPoll
<1>1. Monus(node'.tip, RecheckDepth) = from /\ from..node.tip \subseteq Heights
  BY WindowHeights DEF QuietInv, OneInv, TypeInv, TypeOK
<1>2. /\ ix.pc # "idle" => ix.tip = node.tip
      /\ ix.pc \in {"recheck", "replace", "swap"} =>
            /\ ix.h \in from..node.tip
            /\ \A h \in from..node.tip : h < ix.h => Agrees(h)
      /\ ix.pc = "swap" => ix.hash = NodeHash(ix.h)
      /\ ix.pc \in {"gaps", "retry", "recover", "idle"} =>
            \A h \in from..node.tip : Agrees(h)
  BY DEF QuietInv, UndisturbedPoll
<1>3. \A h \in from..node.tip : Agrees(h) => Agrees(h)'
  BY <1>1, AgreesKept
<1>4. NodeHash(ix.h)' = NodeHash(ix'.h)
  BY DEF NodeHash
<1>. HIDE DEF from
<1>5. CASE ix'.pc \in {"down", "ingest", "store", "advance"}
  BY <1>1, <1>2, <1>5 DEF UndisturbedPoll
<1>6. CASE ix'.pc \in {"recheck", "replace"} /\ ix.pc = ix'.pc /\ ix'.h = ix.h
  BY <1>1, <1>2, <1>3, <1>6 DEF UndisturbedPoll
<1>7. CASE ix'.pc = "swap" /\ ix.pc = "swap" /\ ix'.h = ix.h /\ ix'.hash = ix.hash
  BY <1>1, <1>2, <1>3, <1>4, <1>7 DEF UndisturbedPoll
<1>8. CASE /\ ix'.pc \in {"gaps", "retry", "recover", "idle"}
           /\ ix.pc \in {"gaps", "retry", "recover", "idle"}
  BY <1>1, <1>2, <1>3, <1>8 DEF UndisturbedPoll
<1>9. QED
  BY <1>5, <1>6, <1>7, <1>8

\* The re-check begins with nothing claimed but the poll's tip.
LEMMA WindowBottom ==
    ASSUME node \in NodeType, node' = node,
           ix' = At("recheck", Monus(node.tip, RecheckDepth), node.tip)
    PROVE  UndisturbedPoll'
<1>. DEFINE from == Monus(node.tip, RecheckDepth)
<1>1. /\ from \in Int /\ node.tip \in Int /\ from <= node.tip
      /\ Monus(node'.tip, RecheckDepth) = from
  BY WindowHeights, HeightsAreNumbers
<1>2. ix'.pc = "recheck" /\ ix'.h = from /\ ix'.tip = node.tip
  BY DEF At
<1>. HIDE DEF from
<1>3. from \in from..node.tip /\ \A h \in from..node.tip : ~(h < from)
  BY <1>1
<1>4. QED
  BY <1>1, <1>2, <1>3 DEF UndisturbedPoll

\* The ingest loop ends: at a height without a header, or past the poll's tip.
LEMMA FetchEnds ==
    ASSUME QuietInv, FetchBlock, ~HasHeader(ix.h)
    PROVE  UndisturbedPoll'
<1>1. ix' = Recheck(ix.tip) /\ node' = node /\ calm' = calm /\ ix.pc = "ingest"
  BY DEF FetchBlock
<1>2. CASE calm
  <2>1. ix.tip = node.tip /\ node \in NodeType
    BY <1>1, <1>2 DEF QuietInv, UndisturbedPoll, OneInv, TypeInv, TypeOK
  <2>. QED  BY <1>1, <2>1, RecheckBegins, WindowBottom
<1>3. CASE ~calm
  BY <1>1, <1>3 DEF UndisturbedPoll
<1>4. QED
  BY <1>2, <1>3

LEMMA AdvanceQuiet ==
    ASSUME QuietInv, Advance
    PROVE  UndisturbedPoll'
<1>1. /\ ix' = IngestFrom(ix.h + 1, ix.tip)
      /\ node' = node /\ calm' = calm /\ ix.pc = "advance"
  BY DEF Advance
<1>2. CASE calm
  <2>1. ix.tip = node.tip /\ node \in NodeType
    BY <1>1, <1>2 DEF QuietInv, UndisturbedPoll, OneInv, TypeInv, TypeOK
  <2>2. CASE ix' = At("ingest", ix.h + 1, ix.tip)
    <3>1. ix'.pc = "ingest" /\ ix'.tip = node.tip
      BY <2>1, <2>2 DEF At
    <3>. QED  BY <1>1, <3>1 DEF UndisturbedPoll
  <2>3. CASE ix' = Recheck(ix.tip)
    BY <1>1, <2>1, <2>3, RecheckBegins, WindowBottom
  <2>. QED  BY <1>1, <2>2, <2>3 DEF IngestFrom
<1>3. CASE ~calm
  BY <1>1, <1>3 DEF UndisturbedPoll
<1>4. QED
  BY <1>2, <1>3

\* getBlockDetails answers with the node's own block: the height is within its tip.
LEMMA FetchReplacementQuiet ==
    ASSUME QuietInv, FetchReplacement
    PROVE  UndisturbedPoll'
<1>1. ix.pc = "replace" /\ node' = node /\ db' = db /\ calm' = calm /\ ix \in IxType
  BY DEF FetchReplacement, QuietInv, OneInv, TypeInv, TypeOK
<1>2. CASE ~calm
  BY <1>1, <1>2 DEF UndisturbedPoll
<1>3. CASE calm
  <2>1. ix.h \in Monus(node.tip, RecheckDepth)..node.tip /\ ix.tip = node.tip
    BY <1>1, <1>3 DEF QuietInv, UndisturbedPoll
  <2>2. HasHeader(ix.h)
    BY <2>1 DEF HasHeader
  <2>3. PICK b : ix' = [ix EXCEPT !.pc = "swap", !.hash = NodeHash(ix.h), !.body = b]
    BY <2>2 DEF FetchReplacement
  <2>4. ix'.pc = "swap" /\ ix'.h = ix.h /\ ix'.tip = ix.tip /\ ix'.hash = NodeHash(ix.h)
    BY <1>1, <2>3 DEF IxType
  <2>. QED  BY <1>1, <2>1, <2>4 DEF QuietInv, UndisturbedPoll, Agrees, NodeHash
<1>4. QED
  BY <1>2, <1>3

\* The retries of open gaps write no status row and end the poll.
LEMMA GapsQuiet ==
    ASSUME QuietInv, ListGaps \/ RetryGap \/ CommitRecovered \/ EndPoll
    PROVE  UndisturbedPoll'
<1>1. /\ TypeInv /\ ix \in IxType /\ node' = node /\ calm' = calm
      /\ ix.pc \in {"gaps", "retry", "recover"}
  BY DEF QuietInv, OneInv, TypeInv, TypeOK, ListGaps, RetryGap, CommitRecovered, EndPoll
<1>2. \A h \in Heights : db'[h].status = db[h].status
  <2>1. ~CommitBlock /\ ~CommitReplacement
    BY <1>1 DEF CommitBlock, CommitReplacement
  <2>. QED  BY <1>1, <2>1, StatusWriters DEF Next, Poll
<1>3. ix'.pc = "idle" \/ (ix'.pc \in {"retry", "recover"} /\ ix'.tip = ix.tip)
  <2>1. CASE ListGaps
    BY <2>1, LoopPlaces DEF ListGaps, At
  <2>2. CASE RetryGap
    BY <1>1, <2>2 DEF RetryGap, IxType
  <2>3. CASE CommitRecovered
    BY <2>3 DEF CommitRecovered, At
  <2>4. CASE EndPoll
    BY <2>4, LoopPlaces DEF EndPoll
  <2>. QED  BY <2>1, <2>2, <2>3, <2>4
<1>4. QED
  BY <1>1, <1>2, <1>3, QuietKept

\* Pruning and the filler write no status row.
LEMMA BystandersKeepStatus ==
    ASSUME TypeInv, Prune \/ Filler \/ UNCHANGED vars
    PROVE  \A h \in Heights : db'[h].status = db[h].status
<1>1. ix' = ix
  BY DEF Prune, Filler, FillerList, FillerAsk, FillerCommit, FillerEnd, vars
<1>2. ~CommitBlock
  <2>1. CommitBlock => ix'.pc = "advance" /\ ix.pc = "store"
    BY DEF CommitBlock, At
  <2>. QED  BY <1>1, <2>1
<1>3. ~CommitReplacement
  <2>1. CommitReplacement => ix'.pc \in {"recheck", "gaps"} /\ ix.pc = "swap"
    BY LoopPlaces DEF CommitReplacement
  <2>. QED  BY <1>1, <2>1
<1>4. QED
  BY <1>2, <1>3, StatusWriters DEF Next

LEMMA QuietStep ==
    ASSUME "advance" \notin InterruptAt, QuietInv, [Next]_vars
    PROVE  QuietInv'
<1>1. OneInv'
  BY OneStep DEF QuietInv
<1>. SUFFICES UndisturbedPoll'
  BY <1>1 DEF QuietInv
<1>2. /\ OneInv /\ TypeInv /\ TypeOK /\ node \in NodeType /\ ix \in IxType /\ ix.h \in Heights
      /\ db \in [Heights -> ShelfType] /\ node.tip \in Heights
  BY DEF QuietInv, OneInv, TypeInv, TypeOK, IxType, NodeType
<1>3. CASE NodeMoves \/ Killed \/ PollFails
  BY <1>3 DEF NodeMoves, Killed, PollFails, UndisturbedPoll
<1>4. CASE BeginPoll
  <2>1. PICK last \in LastHeights : ix' = IngestFrom(last + 1, node.tip)
    BY <1>4 DEF BeginPoll
  <2>2. node' = node /\ db' = db
    BY <1>4 DEF BeginPoll
  <2>3. \/ ix'.pc = "ingest" /\ ix'.tip = node.tip
        \/ ix' = At("recheck", Monus(node.tip, RecheckDepth), node.tip)
    BY <1>2, <2>1, RecheckBegins DEF IngestFrom, At
  <2>4. CASE ix'.pc = "ingest" /\ ix'.tip = node.tip
    BY <2>2, <2>4 DEF UndisturbedPoll
  <2>5. CASE ix' = At("recheck", Monus(node.tip, RecheckDepth), node.tip)
    BY <1>2, <2>2, <2>5, WindowBottom
  <2>. QED  BY <2>3, <2>4, <2>5
<1>5. CASE FetchBlock /\ HasHeader(ix.h)
  <2>1. ix.pc = "ingest" /\ ix'.pc = "store" /\ ix'.tip = ix.tip
    BY <1>2, <1>5 DEF FetchBlock, IxType
  <2>. QED  BY <1>5, <2>1, QuietKept DEF FetchBlock, QuietInv, UndisturbedPoll
<1>6. CASE FetchBlock /\ ~HasHeader(ix.h)
  BY <1>6, FetchEnds
<1>7. CASE CommitBlock
  <2>1. ix'.pc = "advance" /\ ix'.tip = ix.tip /\ ix.pc = "store"
    BY <1>7 DEF CommitBlock, At
  <2>. QED  BY <1>7, <2>1 DEF CommitBlock, QuietInv, UndisturbedPoll
<1>8. CASE Advance
  BY <1>8, AdvanceQuiet
<1>9. CASE CheckHeader
  <2>1. CASE calm
    BY <1>9, <2>1, CheckHeaderQuiet
  <2>2. CASE ~calm
    BY <1>9, <2>2 DEF CheckHeader, UndisturbedPoll
  <2>. QED  BY <2>1, <2>2
<1>10. CASE FetchReplacement
  BY <1>10, FetchReplacementQuiet
<1>11. CASE CommitReplacement
  <2>1. CASE calm
    BY <1>11, <2>1, CommitReplacementQuiet
  <2>2. CASE ~calm
    BY <1>11, <2>2 DEF CommitReplacement, UndisturbedPoll
  <2>. QED  BY <2>1, <2>2
<1>12. CASE ListGaps \/ RetryGap \/ CommitRecovered \/ EndPoll
  BY <1>12, GapsQuiet
<1>13. CASE Start
  <2>1. ix.pc = "down" /\ node' = node /\ calm' = calm
    BY <1>13 DEF Start
  <2>. QED  BY <2>1 DEF QuietInv, UndisturbedPoll
<1>14. CASE Prune \/ Filler \/ UNCHANGED vars
  <2>1. ix' = ix /\ node' = node /\ calm' = calm
    BY <1>14 DEF Prune, Filler, FillerList, FillerAsk, FillerCommit, FillerEnd, vars
  <2>2. \A h \in Heights : db'[h].status = db[h].status
    BY <1>2, <1>14, <2>1, BystandersKeepStatus
  <2>3. ix.pc \in Places
    BY <1>2 DEF IxType
  <2>4. calm' => ix'.pc # "down"
    BY <2>1 DEF QuietInv, UndisturbedPoll
  <2>. QED  BY <2>1, <2>2, <2>3, <2>4, QuietKept DEF Places
<1>15. QED
  BY <1>3, <1>4, <1>5, <1>6, <1>7, <1>8, <1>9, <1>10, <1>11, <1>12, <1>13, <1>14
  DEF Next, Poll

LEMMA QuietInit == Init => QuietInv
BY OneInit DEF Init, QuietInv, UndisturbedPoll

\* After a poll that nothing disturbed, the newest canonical block at every height of the
\* re-checked window is the node's; the loop must not be cut short before the commit of
\* last_processed_height.
THEOREM QuietPollAgreesHolds ==
    ASSUME "advance" \notin InterruptAt
    PROVE  Spec => []QuietPollAgrees
<1>1. QuietInv => QuietPollAgrees
  BY DEF QuietInv, UndisturbedPoll, Agrees, QuietPollAgrees
<1>2. QuietInv /\ [Next]_vars => QuietInv'
  BY QuietStep
<1>3. QED
  BY <1>1, <1>2, QuietInit, PTL DEF Spec

\* The block a chain has at a height names as its parent the block that chain has below.
LEMMA ParentOnChain ==
    ASSUME NEW c \in Chains, NEW h \in Int
    PROVE  ParentOf(HashAt(c, h), h) = HashAt(c, h - 1)
<1>1. CASE h < ForkAt[c]
  <2>1. HashAt(c, h) = Main /\ h - 1 < ForkAt[c]
    BY <1>1, ConstantTypes DEF HashAt
  <2>. QED  BY <2>1 DEF ParentOf, HashAt
<1>2. CASE ~(h < ForkAt[c])
  BY <1>2 DEF ParentOf, HashAt
<1>3. QED
  BY <1>1, <1>2

\* What a poll leaves above the window is on the node's chain too if the loop keeps up.
LEMMA KeepsUpLinks ==
    ASSUME OneInv, QuietPollAgrees, StaleWithinReach
    PROVE  QuietArchiveIsLinked
<1>. SUFFICES ASSUME ix.pc = "idle", calm, NEW h \in 1..node.tip,
                     CanonicalHash(db[h]) # NoHash, CanonicalHash(db[h - 1]) # NoHash
              PROVE  CanonicalHash(db[h - 1]) = ParentOf(CanonicalHash(db[h]), h)
  BY DEF QuietArchiveIsLinked
<1>1. /\ node \in NodeType /\ node.chain \in Chains /\ node.tip \in Heights
      /\ node.tip \in Int /\ RecheckDepth \in Nat /\ \A g \in Heights : g \in Int
  BY HeightsAreNumbers, ConstantTypes DEF OneInv, TypeInv, TypeOK, NodeType
<1>2. ASSUME NEW g \in 0..node.tip, CanonicalHash(db[g]) # NoHash
      PROVE  CanonicalHash(db[g]) = NodeHash(g)
  <2>1. g \in Heights /\ g <= node.tip
    BY <1>1, ConstantTypes DEF Heights
  <2>2. CASE node.tip <= g + RecheckDepth
    <3>1. g \in Monus(node.tip, RecheckDepth)..node.tip
      BY <1>1, <2>1, <2>2 DEF Monus
    <3>2. AnyCanonical(db[g])
      BY <1>2, NoCanonicalHash
    <3>. QED  BY <3>1, <3>2 DEF QuietPollAgrees
  <2>3. CASE ~(node.tip <= g + RecheckDepth)
    BY <1>2, <2>1, <2>3 DEF StaleWithinReach
  <2>. QED  BY <2>2, <2>3
<1>3. h \in 0..node.tip /\ h - 1 \in 0..node.tip
  BY <1>1
<1>4. CanonicalHash(db[h]) = NodeHash(h) /\ CanonicalHash(db[h - 1]) = NodeHash(h - 1)
  BY <1>2, <1>3
<1>5. QED
  BY <1>1, <1>4, ParentOnChain DEF NodeHash

\* As long as the loop keeps up with the node, that is, every replaced block on record is
\* still inside the window of the next poll, the recorded blocks form a chain whenever an
\* undisturbed poll has ended.
THEOREM QuietArchiveIsLinkedHolds ==
    ASSUME "advance" \notin InterruptAt
    PROVE  Spec /\ []StaleWithinReach => []QuietArchiveIsLinked
<1>1. QuietInv => OneInv /\ QuietPollAgrees
  BY DEF QuietInv, UndisturbedPoll, Agrees, QuietPollAgrees
<1>2. QuietInv /\ StaleWithinReach => QuietArchiveIsLinked
  BY <1>1, KeepsUpLinks
<1>3. QuietInv /\ [Next]_vars => QuietInv'
  BY QuietStep
<1>4. QED
  BY <1>2, <1>3, QuietInit, PTL DEF Spec
=============================================================================
