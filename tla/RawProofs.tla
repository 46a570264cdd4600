------------------------------ MODULE RawProofs ------------------------------
(***************************************************************************)
(* Theorems about RawArchive.tla for every chain set, window, depth, batch *)
(* and bound, and for every interleaving of its writers.                   *)
(***************************************************************************)
EXTENDS RawArchive, TLAPS

-----------------------------------------------------------------------------
(* The bytes are the block.                                                *)

RawType == raw \in [Heights -> [Chains -> Bytes]]

\* The table keeps its shape only together with what it holds: bytes that prove to be a
\* block are that block's, so they are bytes the table can hold.
BytesInv == RawType /\ RawIsTheBlock

\* keep_raw puts nothing but the block's own bytes under a block.
LEMMA KeepRawIsTheBlock ==
    ASSUME NEW r \in [Heights -> [Chains -> Bytes]],
           \A g \in Heights : \A y \in Chains : r[g][y] \in {y, NoHash},
           NEW s, NEW h, NEW x, NEW bytes
    PROVE  /\ KeepRaw(r, s, h, x, bytes) \in [Heights -> [Chains -> Bytes]]
           /\ \A g \in Heights : \A y \in Chains :
                KeepRaw(r, s, h, x, bytes)[g][y] \in {y, NoHash}
<1>1. CASE HasRow(s, x) /\ r[h][x] = NoHash /\ Proves(bytes, x)
  <2>1. KeepRaw(r, s, h, x, bytes) = [r EXCEPT ![h][x] = x]
    BY <1>1 DEF KeepRaw, Proves
  <2>2. \A g \in Heights : \A y \in Chains :
          [r EXCEPT ![h][x] = x][g][y] = IF g = h /\ y = x THEN x ELSE r[g][y]
    OBVIOUS
  <2>3. [r EXCEPT ![h][x] = x] \in [Heights -> [Chains -> Bytes]]
    BY DEF Bytes
  <2>. QED  BY <2>1, <2>2, <2>3
<1>2. CASE ~(HasRow(s, x) /\ r[h][x] = NoHash /\ Proves(bytes, x))
  BY <1>2 DEF KeepRaw
<1>. QED  BY <1>1, <1>2

\* Retention only takes bytes away.
LEMMA PrunedIsTheBlock ==
    ASSUME NEW r \in [Heights -> [Chains -> Bytes]],
           \A g \in Heights : \A y \in Chains : r[g][y] \in {y, NoHash},
           NEW h, NEW x
    PROVE  /\ Pruned(r, h, x) \in [Heights -> [Chains -> Bytes]]
           /\ \A g \in Heights : \A y \in Chains : Pruned(r, h, x)[g][y] \in {y, NoHash}
<1>1. \A g \in Heights : \A y \in Chains :
        [r EXCEPT ![h][x] = NoHash][g][y] = IF g = h /\ y = x THEN NoHash ELSE r[g][y]
  OBVIOUS
<1>2. [r EXCEPT ![h][x] = NoHash] \in [Heights -> [Chains -> Bytes]]
  BY DEF Bytes
<1>. QED  BY <1>1, <1>2 DEF Pruned

\* Everybody who writes the table writes through keep_raw, and retention deletes.
LEMMA RawWriters ==
    ASSUME [Next]_vars
    PROVE  \/ raw' = raw
           \/ \E s, h, x, bytes : raw' = KeepRaw(raw, s, h, x, bytes)
           \/ \E h, x : raw' = Pruned(raw, h, x)
<1>1. CASE NodeMoves \/ Cut \/ UNCHANGED vars
  BY <1>1 DEF NodeMoves, Cut, vars
<1>2. CASE Prune
  BY <1>2 DEF Prune
<1>3. CASE Commit
  BY <1>3 DEF Commit
<1>4. CASE RetryGap
  BY <1>4 DEF RetryGap
<1>5. CASE RetryRaw
  BY <1>5 DEF RetryRaw
<1>6. CASE Ingest \/ IngestDone \/ Recheck \/ RecheckDone \/ ListRaw \/ EndPoll
  BY <1>6 DEF Ingest, IngestDone, Recheck, RecheckDone, ListRaw, EndPoll, AskDetails
<1>7. CASE GapCommit \/ RawStore
  BY <1>7 DEF GapCommit, RawStore
<1>8. CASE GapList \/ GapAsk \/ GapEnd \/ RawList \/ RawAsk \/ RawEnd
  BY <1>8 DEF GapList, GapAsk, GapEnd, RawList, RawAsk, RawEnd
<1>. QED
  BY <1>1, <1>2, <1>3, <1>4, <1>5, <1>6, <1>7, <1>8 DEF Next, Poll, Fill

LEMMA BytesInit == Init => BytesInv
BY DEF Init, BytesInv, RawType, RawIsTheBlock, Bytes

LEMMA BytesStep == BytesInv /\ [Next]_vars => BytesInv'
<1>. SUFFICES ASSUME BytesInv, [Next]_vars PROVE BytesInv'
  OBVIOUS
<1>. USE DEF BytesInv, RawType, RawIsTheBlock
<1>1. CASE raw' = raw
  BY <1>1
<1>2. CASE \E s, h, x, bytes : raw' = KeepRaw(raw, s, h, x, bytes)
  BY <1>2, KeepRawIsTheBlock
<1>3. CASE \E h, x : raw' = Pruned(raw, h, x)
  BY <1>3, PrunedIsTheBlock
<1>. QED  BY <1>1, <1>2, <1>3, RawWriters

\* Whoever wrote them, and whatever the chain did between the calls a writer made: the
\* bytes kept under a block are that block.  Nothing is assumed of peers, files or node.
THEOREM RawIsTheBlockHolds == Spec => []RawIsTheBlock
<1>1. Init => BytesInv
  BY BytesInit
<1>2. BytesInv /\ [Next]_vars => BytesInv'
  BY BytesStep
<1>3. BytesInv => RawIsTheBlock
  BY DEF BytesInv
<1>. QED  BY <1>1, <1>2, <1>3, PTL DEF Spec

-----------------------------------------------------------------------------
(* Types.                                                                  *)

LEMMA ConstantTypes ==
    /\ Main \in Chains /\ NoHash \notin Chains
    /\ MaxHeight \in Nat /\ StartTip \in Heights /\ StartLast \in Heights
    /\ MaxReorgs \in Nat /\ MaxFails \in Nat /\ PruneDepth \in Nat
    /\ \A c \in Chains : ForkAt[c] \in Nat
    /\ 0 \in Heights /\ Heights \subseteq Nat
BY ChainAssumption, RawAssumption DEF Heights

LEMMA NodeTypeStep ==
    ASSUME node \in NodeType, NodeStep
    PROVE  node' \in NodeType
<1>1. CASE NodeExtend
  BY <1>1, ConstantTypes DEF NodeExtend, NodeType, Heights
<1>2. CASE \E c \in Chains : NodeReorg(c)
  <2>1. PICK c \in Chains : NodeReorg(c)
    BY <1>2
  <2>2. SplitAt(node.chain, c) \in Nat
    BY ConstantTypes DEF SplitAt, NodeType
  <2>3. PICK t \in SplitAt(node.chain, c)..MaxHeight :
          node' = [chain |-> c, tip |-> t, reorgs |-> node.reorgs + 1]
    BY <2>1 DEF NodeReorg
  <2>4. t \in Heights /\ node.reorgs + 1 \in 0..MaxReorgs
    BY <2>1, <2>2, <2>3, ConstantTypes DEF NodeReorg, NodeType, Heights
  <2>. QED  BY <2>3, <2>4 DEF NodeType
<1>. QED  BY <1>1, <1>2 DEF NodeStep

LEMMA NodeHashType ==
    ASSUME node \in NodeType, NEW h
    PROVE  NodeHash(h) \in Chains
BY ConstantTypes DEF NodeHash, HashAt, NodeType

\* The statements on one shelf give a shelf again.
LEMMA StatusKeepsShelf ==
    ASSUME NEW s \in ShelfType, NEW st \in [Chains -> Int]
    PROVE  [s EXCEPT !.status = st] \in ShelfType
BY DEF ShelfType

LEMMA LogCanonicalType ==
    ASSUME NEW s \in ShelfType, NEW x \in Chains
    PROVE  LogCanonical(s, x) \in ShelfType
<1>. DEFINE st == [y \in Chains |->
                IF y = x THEN 1
                ELSE IF s.status[y] >= 1 /\ (s.status[x] < 1 \/ s.status[y] < s.status[x])
                THEN s.status[y] + 1
                ELSE s.status[y]]
<1>1. st \in [Chains -> Int]
  BY DEF ShelfType
<1>2. LogCanonical(s, x) = [s EXCEPT !.status = st]
  BY DEF LogCanonical
<1>. HIDE DEF st
<1>. QED  BY <1>1, <1>2, StatusKeepsShelf

LEMMA MarkOrphanedType ==
    ASSUME NEW s \in ShelfType, NEW x
    PROVE  MarkOrphaned(s, x) \in ShelfType
<1>. DEFINE st == [y \in Chains |->
                IF y = x THEN Orphaned
                ELSE IF s.status[x] >= 1 /\ s.status[y] > s.status[x]
                THEN s.status[y] - 1
                ELSE s.status[y]]
<1>1. st \in [Chains -> Int]
  BY DEF ShelfType, Orphaned
<1>2. MarkOrphaned(s, x) = [s EXCEPT !.status = st]
  BY DEF MarkOrphaned
<1>. HIDE DEF st
<1>. QED  BY <1>1, <1>2, StatusKeepsShelf

LEMMA StoreBlockType ==
    ASSUME NEW s \in ShelfType, NEW x \in Chains
    PROVE  /\ StoreBlock(s, x) \in ShelfType
           /\ RecordGapBlock(s, x) \in ShelfType
           /\ FillBody(s, x) \in ShelfType
<1>1. \A body \in BOOLEAN : InsertHeaderRow(s, x, body) \in ShelfType
  <2>1. [s EXCEPT !.captured = @ \cup {x}] \in ShelfType
    BY DEF ShelfType
  <2>. QED  BY <2>1, LogCanonicalType DEF InsertHeaderRow
<1>2. FillBody(s, x) \in ShelfType
  BY DEF FillBody, ResolveGap, ShelfType, GapStates
<1>3. [InsertHeaderRow(s, x, TRUE) EXCEPT !.txs = @ \cup {x}] \in ShelfType
  BY <1>1 DEF ShelfType
<1>4. \A t \in ShelfType : RecordGap(t) \in ShelfType
  BY DEF RecordGap, ShelfType, GapStates
<1>. QED  BY <1>1, <1>2, <1>3, <1>4 DEF StoreBlock, RecordGapBlock

\* RawTypeOK is not inductive: a commit needs a hash to store the block under.
HashInHand ==
    /\ loop.pc = "commit" => loop.hash \in Chains
    /\ filler.pc \in {"body", "store"} => filler.hash \in Chains

TypeInv == RawTypeOK /\ HashInHand

LEMMA LoopAtType ==
    ASSUME NEW pc \in {"ingest", "recheck", "commit", "gaps", "raw"}
    PROVE  LoopAt(pc) \in LoopType
BY ConstantTypes DEF LoopAt, LoopType, Bytes

LEMMA FillerAtType ==
    ASSUME NEW pc \in {"rest", "gaps", "body", "list", "raw", "store"},
           NEW by \in {"peer", "import"}
    PROVE  FillerAt(pc, by) \in FillerType
BY ConstantTypes DEF FillerAt, FillerType, Bytes

LEMMA TypeInit == Init => TypeInv
<1>. SUFFICES ASSUME Init PROVE TypeInv
  OBVIOUS
<1>1. node \in NodeType
  BY ConstantTypes DEF Init, NodeInit, NodeType
<1>2. EmptyShelf \in ShelfType
  BY DEF EmptyShelf, ShelfType, GapStates, Absent
<1>3. db \in [Heights -> ShelfType]
  BY <1>2, StoreBlockType, ConstantTypes DEF Init
<1>4. raw \in [Heights -> [Chains -> Bytes]]
  BY DEF Init, Bytes
<1>5. loop \in LoopType /\ loop.pc = "ingest" /\ filler \in FillerType /\ filler.pc = "rest"
  BY LoopAtType, FillerAtType DEF Init, LoopAt, FillerAt
<1>. QED
  BY <1>1, <1>3, <1>4, <1>5, ConstantTypes DEF Init, TypeInv, RawTypeOK, HashInHand

\* What the loop and a filler ask for, and what they get, has the types it should.
LEMMA AskDetailsType ==
    ASSUME TypeInv, NEW h \in Heights, AskDetails(h)
    PROVE  TypeInv'
<1>. USE DEF TypeInv, RawTypeOK, HashInHand
<1>1. PICK b \in BodyAnswers(h) :
        loop' = [LoopAt("commit") EXCEPT !.h = h, !.hash = NodeHash(h), !.body = b]
  BY DEF AskDetails
<1>2. b \in BOOLEAN /\ NodeHash(h) \in Chains
  BY NodeHashType DEF BodyAnswers
<1>3. loop' \in LoopType /\ loop'.hash \in Chains
  BY <1>1, <1>2, LoopAtType DEF LoopType, Bytes
<1>. QED  BY <1>3 DEF AskDetails

LEMMA NodeBytesType ==
    ASSUME TypeInv, NEW h, NEW bytes \in NodeBytes(h)
    PROVE  /\ bytes \in Bytes
           /\ fails + NodeFailed(h, bytes) \in 0..MaxFails
<1>1. bytes \in Bytes
  BY NodeHashType DEF NodeBytes, Bytes, TypeInv, RawTypeOK
<1>2. NodeHash(h) # NoHash
  BY NodeHashType, ConstantTypes DEF TypeInv, RawTypeOK
<1>. QED
  BY <1>1, <1>2, ConstantTypes DEF NodeBytes, NodeFailed, TypeInv, RawTypeOK

LEMMA OfferedBytesType ==
    ASSUME TypeInv, NEW h, NEW x \in Bytes, NEW bytes \in OfferedBytes(h, x)
    PROVE  /\ bytes \in Bytes
           /\ fails + OfferIsBad(bytes, x) \in 0..MaxFails
BY ConstantTypes DEF OfferedBytes, OfferIsBad, Bytes, TypeInv, RawTypeOK

LEMMA KeepRawType ==
    ASSUME NEW r \in [Heights -> [Chains -> Bytes]], NEW s, NEW h, NEW x,
           NEW bytes \in Bytes
    PROVE  KeepRaw(r, s, h, x, bytes) \in [Heights -> [Chains -> Bytes]]
BY DEF KeepRaw

LEMMA MissingRawType ==
    ASSUME NEW from, NEW to
    PROVE  MissingRaw(from, to) \subseteq Candidate
BY DEF MissingRaw

LEMMA FirstHeightsType ==
    ASSUME NEW S, NEW n
    PROVE  FirstHeights(S, n) \subseteq S
BY DEF FirstHeights

\* The loop's steps.
LEMMA PollTypeStep ==
    ASSUME TypeInv, Poll
    PROVE  TypeInv'
<1>. USE DEF TypeInv, RawTypeOK, HashInHand
<1>1. CASE Ingest
  <2>1. last + 1 \in Heights
    BY <1>1, ConstantTypes DEF Ingest, NodeType, Heights
  <2>. QED  BY <1>1, <2>1, AskDetailsType DEF Ingest
<1>2. CASE Recheck
  <2>1. PICK h \in FirstHeights(Replaced, 1) : AskDetails(h)
    BY <1>2 DEF Recheck
  <2>2. h \in Heights
    <3>1. node.tip \in Heights
      BY DEF NodeType
    <3>2. h \in Monus(node.tip, RecheckDepth)..node.tip
      BY <2>1, FirstHeightsType DEF Replaced
    <3>. QED  BY <3>1, <3>2, RawAssumption, ConstantTypes DEF Heights, Monus
  <2>. QED  BY <2>1, <2>2, AskDetailsType
<1>3. CASE IngestDone
  BY <1>3, LoopAtType DEF IngestDone, LoopAt
<1>4. CASE RecheckDone
  <2>1. loop' \in LoopType /\ loop'.pc = "gaps"
    BY <1>4, LoopAtType DEF RecheckDone, LoopType, LoopAt
  <2>. QED  BY <1>4, <2>1 DEF RecheckDone
<1>5. CASE Commit
  <2>1. loop.h \in Heights /\ loop.hash \in Chains
    BY <1>5 DEF Commit, LoopType
  <2>2. PICK bytes \in NodeBytes(loop.h) :
          LET h == loop.h
              x == loop.hash
              old == CanonicalHash(db[h])
              s == IF h <= last /\ old # NoHash THEN MarkOrphaned(db[h], old) ELSE db[h]
              t == IF loop.body \/ Proves(bytes, x) THEN StoreBlock(s, x) ELSE RecordGapBlock(s, x)
          IN  /\ db' = [db EXCEPT ![h] = t]
              /\ raw' = IF loop.body \/ Proves(bytes, x) THEN KeepRaw(raw, t, h, x, bytes) ELSE raw
              /\ fails' = fails + NodeFailed(h, bytes)
    BY <1>5 DEF Commit
  <2>3. \A s \in ShelfType : /\ StoreBlock(s, loop.hash) \in ShelfType
                             /\ RecordGapBlock(s, loop.hash) \in ShelfType
    BY <2>1, StoreBlockType
  <2>4. \A old : MarkOrphaned(db[loop.h], old) \in ShelfType
    BY <2>1, MarkOrphanedType
  <2>5. PICK t \in ShelfType : db' = [db EXCEPT ![loop.h] = t]
    BY <2>1, <2>2, <2>3, <2>4
  <2>6. db' \in [Heights -> ShelfType]
    BY <2>1, <2>5
  <2>7. raw' \in [Heights -> [Chains -> Bytes]]
    BY <2>2, KeepRawType, NodeBytesType
  <2>8. fails' \in 0..MaxFails
    BY <2>2, NodeBytesType
  <2>9. loop' \in LoopType /\ loop'.pc # "commit"
    BY <1>5, LoopAtType DEF Commit, LoopAt
  <2>. QED  BY <1>5, <2>1, <2>6, <2>7, <2>8, <2>9 DEF Commit
<1>6. CASE RetryGap
  <2>. DEFINE Retried(h, bytes) ==
         LET x == CanonicalHash(db[h]) IN
         /\ IF x # NoHash /\ Uncaptured(db[h], x) /\ Proves(bytes, x)
            THEN /\ db' = [db EXCEPT ![h] = FillBody(@, x)]
                 /\ raw' = KeepRaw(raw, db[h], h, x, bytes)
            ELSE UNCHANGED <<db, raw>>
         /\ loop' = [loop EXCEPT !.gaps = @ \ {h}]
         /\ fails' = fails + NodeFailed(h, bytes)
  <2>0. PICK h \in FirstHeights(loop.gaps, 1) : \E bytes \in NodeBytes(h) : Retried(h, bytes)
    BY <1>6 DEF RetryGap
  <2>1. PICK bytes \in NodeBytes(h) : Retried(h, bytes)
    BY <2>0
  <2>2. h \in Heights
    BY FirstHeightsType DEF LoopType
  <2>3. \A x \in Chains : FillBody(db[h], x) \in ShelfType
    BY <2>2, StoreBlockType
  <2>4. CanonicalHash(db[h]) # NoHash => CanonicalHash(db[h]) \in Chains
    BY DEF CanonicalHash
  <2>5. db' \in [Heights -> ShelfType]
    <3>1. CASE UNCHANGED db
      BY <3>1
    <3>2. CASE db' = [db EXCEPT ![h] = FillBody(db[h], CanonicalHash(db[h]))]
                 /\ CanonicalHash(db[h]) # NoHash
      <4>1. FillBody(db[h], CanonicalHash(db[h])) \in ShelfType
        BY <2>3, <2>4, <3>2
      <4>. QED  BY <2>2, <3>2, <4>1
    <3>. QED  BY <2>1, <3>1, <3>2
  <2>6. raw' \in [Heights -> [Chains -> Bytes]]
    BY <2>1, KeepRawType, NodeBytesType
  <2>7. loop' \in LoopType /\ loop'.pc = loop.pc
    BY <2>1 DEF LoopType
  <2>8. fails' \in 0..MaxFails
    BY <2>1, NodeBytesType
  <2>. QED  BY <1>6, <2>5, <2>6, <2>7, <2>8 DEF RetryGap
<1>7. CASE ListRaw
  <2>1. loop' \in LoopType /\ loop'.pc = "raw"
    BY <1>7, LoopAtType, MissingRawType DEF ListRaw, LoopType, LoopAt
  <2>. QED  BY <1>7, <2>1 DEF ListRaw
<1>8. CASE RetryRaw
  <2>. DEFINE Retried(c, bytes) ==
         /\ raw' = KeepRaw(raw, db[c.h], c.h, c.hash, bytes)
         /\ loop' = [loop EXCEPT !.todo = @ \ {c}]
         /\ fails' = fails + NodeFailed(c.h, bytes)
  <2>0. PICK c \in FirstOf(loop.todo) : \E bytes \in NodeBytes(c.h) : Retried(c, bytes)
    BY <1>8 DEF RetryRaw
  <2>1. PICK bytes \in NodeBytes(c.h) : Retried(c, bytes)
    BY <2>0
  <2>2. loop' \in LoopType /\ loop'.pc = loop.pc
    BY <2>1 DEF LoopType
  <2>. QED  BY <1>8, <2>1, <2>2, KeepRawType, NodeBytesType DEF RetryRaw
<1>9. CASE EndPoll
  BY <1>9, LoopAtType DEF EndPoll, LoopAt
<1>. QED
  BY <1>1, <1>2, <1>3, <1>4, <1>5, <1>6, <1>7, <1>8, <1>9 DEF Poll

\* A candidate and an answer in a filler's memory.
LEMMA RawWantedType ==
    ASSUME NEW by
    PROVE  RawWanted(by) \subseteq Candidate
BY MissingRawType DEF RawWanted

\* The steps of whoever fills gaps.
LEMMA FillTypeStep ==
    ASSUME TypeInv, Fill
    PROVE  TypeInv'
<1>. USE DEF TypeInv, RawTypeOK, HashInHand
<1>0. filler.by \in {"peer", "import"}
  BY DEF FillerType
<1>1. CASE GapList
  <2>1. PICK by \in {"peer", "import"} :
          filler' = [FillerAt("gaps", by) EXCEPT !.gaps = OfferedGaps(by)]
    BY <1>1 DEF GapList
  <2>2. OfferedGaps(by) \subseteq Heights
    BY FirstHeightsType DEF OfferedGaps, OpenGaps
  <2>3. filler' \in FillerType /\ filler'.pc = "gaps"
    BY <2>1, <2>2, FillerAtType DEF FillerType, FillerAt
  <2>. QED  BY <1>1, <2>3 DEF GapList
<1>2. CASE GapAsk
  <2>. DEFINE next(h) == [filler EXCEPT !.gaps = @ \ {h}]
              wanted(h, x) == x # NoHash /\ Uncaptured(db[h], x)
              Answer(h, x, bytes) ==
                /\ filler' = IF wanted(h, x) /\ h \in PeerHolds /\ bytes \in {x, NoHash}
                             THEN [next(h) EXCEPT !.pc = "body", !.h = h, !.hash = x, !.bytes = bytes]
                             ELSE next(h)
                /\ fails' = fails + (IF wanted(h, x) THEN OfferIsBad(bytes, x) ELSE 0)
  <2>1. PICK h \in FirstHeights(filler.gaps, 1) :
          \E bytes \in IF wanted(h, CanonicalHash(db[h])) THEN OfferedBytes(h, CanonicalHash(db[h]))
                       ELSE {NoHash} : Answer(h, CanonicalHash(db[h]), bytes)
    BY <1>2 DEF GapAsk
  <2>2. PICK x : x = CanonicalHash(db[h])
    OBVIOUS
  <2>3. PICK bytes \in IF wanted(h, x) THEN OfferedBytes(h, x) ELSE {NoHash} : Answer(h, x, bytes)
    BY <2>1, <2>2
  <2>4. h \in Heights /\ x \in Bytes
    BY <2>2, FirstHeightsType DEF FillerType, CanonicalHash, Bytes
  <2>5. bytes \in Bytes /\ fails' \in 0..MaxFails
    BY <2>3, <2>4, OfferedBytesType DEF Bytes
  <2>6. filler' \in FillerType /\ (filler'.pc \in {"body", "store"} => filler'.hash \in Chains)
    <3>1. next(h) \in FillerType /\ next(h).pc = "gaps"
      BY <1>2 DEF GapAsk, FillerType
    <3>2. CASE wanted(h, x) /\ h \in PeerHolds /\ bytes \in {x, NoHash}
      <4>1. filler' = [next(h) EXCEPT !.pc = "body", !.h = h, !.hash = x, !.bytes = bytes]
        BY <2>3, <3>2
      <4>2. x \in Chains
        BY <2>4, <3>2 DEF Bytes
      <4>. HIDE DEF next
      <4>. QED  BY <2>4, <2>5, <3>1, <4>1, <4>2 DEF FillerType
    <3>3. CASE ~(wanted(h, x) /\ h \in PeerHolds /\ bytes \in {x, NoHash})
      BY <2>3, <3>1, <3>3
    <3>. QED  BY <3>2, <3>3
  <2>. QED  BY <1>2, <2>5, <2>6 DEF GapAsk
<1>3. CASE GapCommit
  <2>1. filler.h \in Heights /\ filler.hash \in Chains /\ filler.bytes \in Bytes
        /\ filler.gaps \subseteq Heights
    BY <1>3 DEF GapCommit, FillerType
  <2>2. FillBody(db[filler.h], filler.hash) \in ShelfType
    BY <2>1, StoreBlockType
  <2>3. db' \in [Heights -> ShelfType]
    BY <1>3, <2>1, <2>2 DEF GapCommit
  <2>4. raw' \in [Heights -> [Chains -> Bytes]]
    BY <1>3, <2>1, KeepRawType DEF GapCommit
  <2>5. filler' \in FillerType /\ filler'.pc = "gaps"
    BY <1>0, <1>3, <2>1, FillerAtType DEF GapCommit, FillerType, FillerAt
  <2>. QED  BY <1>3, <2>3, <2>4, <2>5 DEF GapCommit
<1>4. CASE GapEnd
  <2>1. \A s \in ShelfType : ResolveGapWithBody(s) \in ShelfType
    BY DEF ResolveGapWithBody, ResolveGap, ShelfType, GapStates
  <2>2. filler' \in FillerType /\ filler'.pc = "list"
    BY <1>0, <1>4, FillerAtType DEF GapEnd, FillerAt
  <2>. QED  BY <1>4, <2>1, <2>2 DEF GapEnd
<1>5. CASE RawList
  <2>1. filler' \in FillerType /\ filler'.pc = "raw"
    BY <1>0, <1>5, FillerAtType, RawWantedType DEF RawList, FillerType, FillerAt
  <2>. QED  BY <1>5, <2>1 DEF RawList
<1>6. CASE RawAsk
  <2>. DEFINE next(c) == [filler EXCEPT !.todo = @ \ {c}]
              Answer(c, bytes) ==
                /\ filler' = IF bytes = NoHash THEN next(c)
                             ELSE [next(c) EXCEPT !.pc = "store", !.h = c.h, !.hash = c.hash,
                                                  !.bytes = bytes]
                /\ fails' = fails + OfferIsBad(bytes, c.hash)
  <2>1. PICK c \in FirstOf(filler.todo) : \E bytes \in OfferedBytes(c.h, c.hash) : Answer(c, bytes)
    BY <1>6 DEF RawAsk
  <2>2. PICK bytes \in OfferedBytes(c.h, c.hash) : Answer(c, bytes)
    BY <2>1
  <2>3. c \in Candidate
    BY <2>1 DEF FirstOf, FillerType
  <2>4. c.h \in Heights /\ c.hash \in Chains /\ c.hash \in Bytes
    BY <2>3 DEF Candidate, Bytes
  <2>5. bytes \in Bytes /\ fails' \in 0..MaxFails
    BY <2>2, <2>4, OfferedBytesType
  <2>6. next(c) \in FillerType /\ next(c).pc = "raw"
    BY <1>6 DEF RawAsk, FillerType
  <2>7. filler' \in FillerType /\ (filler'.pc \in {"body", "store"} => filler'.hash \in Chains)
    <3>1. CASE bytes = NoHash
      BY <2>2, <2>6, <3>1
    <3>2. CASE bytes # NoHash
      <4>1. filler' = [next(c) EXCEPT !.pc = "store", !.h = c.h, !.hash = c.hash, !.bytes = bytes]
        BY <2>2, <3>2
      <4>. HIDE DEF next
      <4>. QED  BY <2>4, <2>5, <2>6, <4>1 DEF FillerType
    <3>. QED  BY <3>1, <3>2
  <2>. QED  BY <1>6, <2>5, <2>7 DEF RawAsk
<1>7. CASE RawStore
  <2>1. filler.bytes \in Bytes /\ filler.todo \subseteq Candidate
    BY DEF FillerType
  <2>2. raw' \in [Heights -> [Chains -> Bytes]]
    BY <1>7, <2>1, KeepRawType DEF RawStore
  <2>3. filler' \in FillerType /\ filler'.pc = "raw"
    BY <1>0, <1>7, <2>1, FillerAtType DEF RawStore, FillerType, FillerAt
  <2>. QED  BY <1>7, <2>2, <2>3 DEF RawStore
<1>8. CASE RawEnd
  BY <1>8, FillerAtType DEF RawEnd, FillerAt
<1>. QED
  BY <1>1, <1>2, <1>3, <1>4, <1>5, <1>6, <1>7, <1>8 DEF Fill

LEMMA TypeStep == TypeInv /\ [Next]_vars => TypeInv'
<1>. SUFFICES ASSUME TypeInv, [Next]_vars PROVE TypeInv'
  OBVIOUS
<1>. USE DEF TypeInv, RawTypeOK, HashInHand
<1>1. CASE NodeMoves
  BY <1>1, NodeTypeStep DEF NodeMoves
<1>2. CASE Prune
  <2>0. PICK h \in Heights : \E x : /\ db' = [db EXCEPT ![h] = PruneBlock(@, x)]
                                     /\ raw' = Pruned(raw, h, x)
    BY <1>2 DEF Prune
  <2>1. PICK x : /\ db' = [db EXCEPT ![h] = PruneBlock(@, x)]
                 /\ raw' = Pruned(raw, h, x)
    BY <2>0
  <2>2. PruneBlock(db[h], x) \in ShelfType
    BY DEF PruneBlock, ShelfType
  <2>3. db' \in [Heights -> ShelfType]
    BY <2>1, <2>2
  <2>4. raw' \in [Heights -> [Chains -> Bytes]]
    BY <2>1 DEF Pruned, Bytes
  <2>. QED  BY <1>2, <2>3, <2>4 DEF Prune
<1>3. CASE Cut
  <2>0. /\ LoopAt("ingest") \in LoopType /\ LoopAt("ingest").pc = "ingest"
        /\ FillerAt("rest", "peer") \in FillerType /\ FillerAt("rest", "peer").pc = "rest"
    BY LoopAtType, FillerAtType DEF LoopAt, FillerAt
  <2>1. loop' \in LoopType /\ (loop'.pc = "commit" => loop'.hash \in Chains)
    BY <1>3, <2>0 DEF Cut
  <2>2. filler' \in FillerType /\ (filler'.pc \in {"body", "store"} => filler'.hash \in Chains)
    BY <1>3, <2>0 DEF Cut
  <2>3. fails' \in 0..MaxFails
    BY <1>3, ConstantTypes DEF Cut
  <2>. QED  BY <1>3, <2>1, <2>2, <2>3 DEF Cut
<1>4. CASE Poll
  BY <1>4, PollTypeStep
<1>5. CASE Fill
  BY <1>5, FillTypeStep
<1>6. CASE UNCHANGED vars
  BY <1>6 DEF vars
<1>. QED
  BY <1>1, <1>2, <1>3, <1>4, <1>5, <1>6 DEF Next

\* Every reachable state of the loop, the fillers and the tables is well typed: the loop
\* never steps past the top, a list only names blocks, a commit has a hash in hand.
THEOREM RawTypeCorrect == Spec => []RawTypeOK
<1>1. Init => TypeInv
  BY TypeInit
<1>2. TypeInv /\ [Next]_vars => TypeInv'
  BY TypeStep
<1>3. TypeInv => RawTypeOK
  BY DEF TypeInv
<1>. QED  BY <1>1, <1>2, <1>3, PTL DEF Spec

-----------------------------------------------------------------------------
(* Bytes need a body.                                                      *)

\* What a shelf keeps when anything but retention writes it: its transactions, and that
\* a captured block has them.
Kept(s, t) ==
    /\ s.txs \subseteq t.txs
    /\ s.captured \subseteq s.txs => t.captured \subseteq t.txs

LEMMA ShelfKept ==
    ASSUME NEW s \in ShelfType, NEW x \in Chains
    PROVE  /\ Kept(s, MarkOrphaned(s, x))
           /\ Kept(s, FillBody(s, x)) /\ x \in FillBody(s, x).txs
           /\ Kept(s, RecordGapBlock(s, x))
           /\ Kept(s, StoreBlock(s, x))
           /\ s.captured \subseteq s.txs => x \in StoreBlock(s, x).txs
           /\ Kept(s, ResolveGapWithBody(s))
<1>1. Kept(s, MarkOrphaned(s, x))
  BY DEF MarkOrphaned, Kept, ShelfType
<1>2. Kept(s, FillBody(s, x)) /\ x \in FillBody(s, x).txs
  BY DEF FillBody, ResolveGap, Kept, ShelfType
<1>3. \A body \in BOOLEAN :
        /\ InsertHeaderRow(s, x, body) \in ShelfType
        /\ InsertHeaderRow(s, x, body).txs = s.txs
        /\ InsertHeaderRow(s, x, body).captured \subseteq s.captured \cup {x}
        /\ ~body => InsertHeaderRow(s, x, body).captured = s.captured
  <2>1. \A t \in ShelfType : /\ LogCanonical(t, x) \in ShelfType
                             /\ LogCanonical(t, x).txs = t.txs
                             /\ LogCanonical(t, x).captured = t.captured
    BY LogCanonicalType DEF LogCanonical, ShelfType
  <2>2. [s EXCEPT !.captured = @ \cup {x}] \in ShelfType
    BY DEF ShelfType
  <2>. QED  BY <2>1, <2>2 DEF InsertHeaderRow, ShelfType
<1>4. Kept(s, RecordGapBlock(s, x))
  <2>1. \A t \in ShelfType : RecordGap(t).txs = t.txs /\ RecordGap(t).captured = t.captured
    BY DEF RecordGap, ShelfType
  <2>. QED  BY <1>3, <2>1 DEF RecordGapBlock, Kept
<1>5. /\ Kept(s, StoreBlock(s, x))
      /\ s.captured \subseteq s.txs => x \in StoreBlock(s, x).txs
  <2>1. CASE CanonicalHash(s) # x
    <3>. DEFINE t == InsertHeaderRow(s, x, TRUE)
    <3>1. StoreBlock(s, x) = [t EXCEPT !.txs = @ \cup {x}]
      BY <2>1 DEF StoreBlock
    <3>2. t \in ShelfType /\ t.txs = s.txs /\ t.captured \subseteq s.captured \cup {x}
      BY <1>3
    <3>. HIDE DEF t
    <3>. QED  BY <3>1, <3>2 DEF Kept, ShelfType
  <2>2. CASE CanonicalHash(s) = x /\ Uncaptured(s, x)
    BY <1>2, <2>2 DEF StoreBlock
  <2>3. CASE CanonicalHash(s) = x /\ ~Uncaptured(s, x)
    <3>1. x \in s.captured
      <4>1. IsNewest(s, x)
        BY <2>3, ConstantTypes DEF CanonicalHash
      <4>. QED  BY <2>3, <4>1 DEF Uncaptured, HasRow, IsNewest, Absent
    <3>. QED  BY <2>3, <3>1 DEF StoreBlock, Kept
  <2>. QED  BY <2>1, <2>2, <2>3
<1>6. Kept(s, ResolveGapWithBody(s))
  BY DEF ResolveGapWithBody, ResolveGap, Kept, ShelfType
<1>. QED  BY <1>1, <1>2, <1>4, <1>5, <1>6

\* A block that may have bytes: its transactions are on record, or retention may take them.
Held(h, x) == x \in db[h].txs \/ BeyondRetention(h)

\* BytesNeedABody is not inductive: what is written comes from a list made earlier, and a
\* list takes a captured block for one with transactions.
BodyInv ==
    /\ BytesNeedABody
    /\ \A h \in Heights : db[h].captured \subseteq db[h].txs
    /\ \A c \in loop.todo : Held(c.h, c.hash)
    /\ \A c \in filler.todo : Held(c.h, c.hash)
    /\ filler.pc = "store" => Held(filler.h, filler.hash)

LEMMA BodyInit == Init => BodyInv
<1>. SUFFICES ASSUME Init PROVE BodyInv
  OBVIOUS
<1>1. \A h \in Heights : \A x \in Chains : raw[h][x] = NoHash
  BY DEF Init
<1>2. EmptyShelf \in ShelfType /\ EmptyShelf.captured \subseteq EmptyShelf.txs
  BY DEF EmptyShelf, ShelfType, GapStates, Absent
<1>3. StoreBlock(EmptyShelf, Main).captured \subseteq StoreBlock(EmptyShelf, Main).txs
  BY <1>2, ShelfKept, ConstantTypes DEF Kept
<1>4. \A h \in Heights : db[h].captured \subseteq db[h].txs
  BY <1>2, <1>3 DEF Init
<1>. QED
  BY <1>1, <1>4 DEF Init, BodyInv, BytesNeedABody, LoopAt, FillerAt

\* Without a falling tip, what is beyond the retention stays there.
LEMMA BeyondStays ==
    ASSUME TypeInv, [Next]_vars, NodeMayShrink = FALSE,
           NEW h \in Heights, BeyondRetention(h)
    PROVE  BeyondRetention(h)'
<1>. USE DEF TypeInv, RawTypeOK
<1>1. node.tip \in Nat /\ node.tip <= node'.tip /\ node'.tip \in Nat
  <2>1. node.tip \in Nat
    BY ConstantTypes DEF NodeType
  <2>2. CASE node' = node
    BY <2>1, <2>2
  <2>3. CASE NodeExtend
    BY <2>1, <2>3 DEF NodeExtend, NodeType
  <2>4. CASE \E c \in Chains : NodeReorg(c)
    <3>1. PICK c \in Chains : NodeReorg(c)
      BY <2>4
    <3>2. PICK t \in SplitAt(node.chain, c)..MaxHeight :
            node.tip <= t /\ node' = [chain |-> c, tip |-> t, reorgs |-> node.reorgs + 1]
      BY <3>1 DEF NodeReorg
    <3>3. SplitAt(node.chain, c) \in Nat
      BY ConstantTypes DEF SplitAt, NodeType
    <3>. QED  BY <2>1, <3>2, <3>3, ConstantTypes
  <2>5. node' = node \/ NodeStep
    BY DEF Next, NodeMoves, Cut, Prune, Poll, Fill, vars, Ingest, IngestDone, Recheck,
           RecheckDone, Commit, RetryGap, ListRaw, RetryRaw, EndPoll, AskDetails,
           GapList, GapAsk, GapCommit, GapEnd, RawList, RawAsk, RawStore, RawEnd
  <2>. QED  BY <2>2, <2>3, <2>4, <2>5 DEF NodeStep
<1>. QED  BY <1>1, ConstantTypes DEF BeyondRetention

\* What a step may do to the tables of blocks.
LEMMA DbWriters ==
    ASSUME TypeInv, [Next]_vars, NEW h \in Heights
    PROVE  \/ Kept(db[h], db'[h])
           \/ /\ BeyondRetention(h)
              /\ \E x : db'[h] = PruneBlock(db[h], x)
<1>. USE DEF TypeInv, RawTypeOK, HashInHand
<1>0. \A s : Kept(s, s)
  BY DEF Kept
<1>1. CASE UNCHANGED db
  BY <1>0, <1>1
<1>2. CASE Prune
  BY <1>0, <1>2 DEF Prune
<1>3. CASE Commit
  <2>1. loop.h \in Heights /\ loop.hash \in Chains /\ db[loop.h] \in ShelfType
    BY <1>3 DEF Commit, LoopType
  <2>. DEFINE old == CanonicalHash(db[loop.h])
              s == IF loop.h <= last /\ old # NoHash THEN MarkOrphaned(db[loop.h], old)
                   ELSE db[loop.h]
  <2>2. s \in ShelfType /\ Kept(db[loop.h], s)
    <3>1. old # NoHash => old \in Chains
      BY DEF CanonicalHash
    <3>. QED  BY <1>0, <2>1, <3>1, MarkOrphanedType, ShelfKept
  <2>3. \/ db' = [db EXCEPT ![loop.h] = StoreBlock(s, loop.hash)]
        \/ db' = [db EXCEPT ![loop.h] = RecordGapBlock(s, loop.hash)]
    BY <1>3 DEF Commit
  <2>. HIDE DEF s
  <2>4. Kept(s, StoreBlock(s, loop.hash)) /\ Kept(s, RecordGapBlock(s, loop.hash))
    BY <2>1, <2>2, ShelfKept
  <2>5. /\ Kept(db[loop.h], StoreBlock(s, loop.hash))
        /\ Kept(db[loop.h], RecordGapBlock(s, loop.hash))
    BY <2>2, <2>4 DEF Kept
  <2>. QED  BY <1>0, <2>1, <2>3, <2>5
<1>4. CASE RetryGap
  <2>1. \/ UNCHANGED db
        \/ \E g \in FirstHeights(loop.gaps, 1) :
             /\ CanonicalHash(db[g]) # NoHash
             /\ db' = [db EXCEPT ![g] = FillBody(@, CanonicalHash(db[g]))]
    BY <1>4 DEF RetryGap
  <2>2. \A g \in FirstHeights(loop.gaps, 1) : g \in Heights
    BY FirstHeightsType DEF LoopType
  <2>3. \A g : CanonicalHash(db[g]) # NoHash => CanonicalHash(db[g]) \in Chains
    BY DEF CanonicalHash
  <2>. QED  BY <1>0, <2>1, <2>2, <2>3, ShelfKept
<1>5. CASE GapCommit
  <2>1. filler.h \in Heights /\ filler.hash \in Chains /\ db[filler.h] \in ShelfType
    BY <1>5 DEF GapCommit, FillerType
  <2>2. Kept(db[filler.h], FillBody(db[filler.h], filler.hash))
    BY <2>1, ShelfKept
  <2>. QED  BY <1>0, <1>5, <2>1, <2>2 DEF GapCommit
<1>6. CASE GapEnd
  BY <1>6, ShelfKept, ConstantTypes DEF GapEnd
<1>. QED
  BY <1>1, <1>2, <1>3, <1>4, <1>5, <1>6
  DEF Next, NodeMoves, Cut, Poll, Fill, vars, Ingest, IngestDone, Recheck, RecheckDone,
      ListRaw, RetryRaw, EndPoll, AskDetails, GapList, GapAsk, RawList, RawAsk,
      RawStore, RawEnd

\* What is held stays held, and a captured block has its transactions after the step.
LEMMA HeldStays ==
    ASSUME TypeInv, BodyInv, [Next]_vars, NodeMayShrink = FALSE, NEW h \in Heights
    PROVE  /\ \A x : Held(h, x) => Held(h, x)'
           /\ db'[h].captured \subseteq db'[h].txs
<1>1. BeyondRetention(h) => BeyondRetention(h)'
  BY BeyondStays
<1>2. db[h].captured \subseteq db[h].txs /\ db[h] \in ShelfType
  BY DEF BodyInv, TypeInv, RawTypeOK
<1>3. CASE Kept(db[h], db'[h])
  BY <1>1, <1>2, <1>3 DEF Kept, Held
<1>4. CASE BeyondRetention(h) /\ \E x : db'[h] = PruneBlock(db[h], x)
  BY <1>1, <1>2, <1>4 DEF PruneBlock, Held, ShelfType
<1>. QED  BY <1>3, <1>4, DbWriters

\* keep_raw is called for a block that is held after the step.
LEMMA RawWritersHeld ==
    ASSUME TypeInv, BodyInv, [Next]_vars, NodeMayShrink = FALSE
    PROVE  \/ raw' = raw
           \/ \E s, bytes : \E h \in Heights : \E x \in Chains :
                raw' = KeepRaw(raw, s, h, x, bytes) /\ Held(h, x)'
           \/ \E h, x : raw' = Pruned(raw, h, x)
<1>. USE DEF TypeInv, RawTypeOK, HashInHand, BodyInv
<1>1. CASE NodeMoves \/ Cut \/ UNCHANGED vars
  BY <1>1 DEF NodeMoves, Cut, vars
<1>2. CASE Prune
  BY <1>2 DEF Prune
<1>3. CASE Commit
  <2>1. PICK h \in Heights, x \in Chains : h = loop.h /\ x = loop.hash
    BY <1>3 DEF Commit, LoopType
  <2>. DEFINE old == CanonicalHash(db[h])
              s == IF h <= last /\ old # NoHash THEN MarkOrphaned(db[h], old) ELSE db[h]
  <2>2. s \in ShelfType /\ s.captured \subseteq s.txs
    <3>1. old # NoHash => old \in Chains
      BY DEF CanonicalHash
    <3>. QED  BY <3>1, MarkOrphanedType, ShelfKept DEF Kept
  <2>3. PICK bytes :
          LET t == IF loop.body \/ Proves(bytes, x) THEN StoreBlock(s, x) ELSE RecordGapBlock(s, x)
          IN  /\ db' = [db EXCEPT ![h] = t]
              /\ raw' = IF loop.body \/ Proves(bytes, x) THEN KeepRaw(raw, t, h, x, bytes) ELSE raw
    BY <1>3, <2>1 DEF Commit
  <2>. HIDE DEF s
  <2>4. CASE loop.body \/ Proves(bytes, x)
    <3>1. x \in StoreBlock(s, x).txs
      BY <2>2, ShelfKept
    <3>2. Held(h, x)'
      BY <2>3, <2>4, <3>1 DEF Held
    <3>. QED  BY <2>3, <2>4, <3>2
  <2>5. CASE ~(loop.body \/ Proves(bytes, x))
    BY <2>3, <2>5
  <2>. QED  BY <2>4, <2>5
<1>4. CASE RetryGap
  <2>1. PICK h \in FirstHeights(loop.gaps, 1) : \E bytes :
          IF CanonicalHash(db[h]) # NoHash /\ Uncaptured(db[h], CanonicalHash(db[h]))
               /\ Proves(bytes, CanonicalHash(db[h]))
          THEN /\ db' = [db EXCEPT ![h] = FillBody(@, CanonicalHash(db[h]))]
               /\ raw' = KeepRaw(raw, db[h], h, CanonicalHash(db[h]), bytes)
          ELSE UNCHANGED <<db, raw>>
    BY <1>4 DEF RetryGap
  <2>2. PICK x : x = CanonicalHash(db[h])
    OBVIOUS
  <2>3. h \in Heights /\ (x # NoHash => x \in Chains)
    BY <2>2, FirstHeightsType DEF LoopType, CanonicalHash
  <2>4. PICK bytes : \/ raw' = raw
                     \/ /\ x \in Chains
                        /\ db' = [db EXCEPT ![h] = FillBody(@, x)]
                        /\ raw' = KeepRaw(raw, db[h], h, x, bytes)
    BY <2>1, <2>2, <2>3
  <2>5. CASE raw' = raw
    BY <2>5
  <2>6. CASE /\ x \in Chains
             /\ db' = [db EXCEPT ![h] = FillBody(@, x)]
             /\ raw' = KeepRaw(raw, db[h], h, x, bytes)
    <3>1. x \in FillBody(db[h], x).txs
      BY <2>3, <2>6, ShelfKept
    <3>2. Held(h, x)'
      BY <2>3, <2>6, <3>1 DEF Held
    <3>. QED  BY <2>3, <2>6, <3>2
  <2>. QED  BY <2>4, <2>5, <2>6
<1>5. CASE RetryRaw
  <2>0. PICK c \in FirstOf(loop.todo) : \E bytes : raw' = KeepRaw(raw, db[c.h], c.h, c.hash, bytes)
    BY <1>5 DEF RetryRaw
  <2>1. PICK bytes : raw' = KeepRaw(raw, db[c.h], c.h, c.hash, bytes)
    BY <2>0
  <2>2. c \in loop.todo /\ c \in Candidate
    BY <2>1 DEF FirstOf, LoopType
  <2>3. PICK h \in Heights, x \in Chains : h = c.h /\ x = c.hash
    BY <2>2 DEF Candidate
  <2>4. Held(h, x)'
    BY <2>2, <2>3, HeldStays
  <2>. QED  BY <2>1, <2>3, <2>4
<1>6. CASE GapCommit
  <2>1. PICK h \in Heights, x \in Chains : h = filler.h /\ x = filler.hash
    BY <1>6 DEF GapCommit, FillerType
  <2>2. x \in FillBody(db[h], x).txs
    BY ShelfKept
  <2>3. Held(h, x)'
    BY <1>6, <2>1, <2>2 DEF GapCommit, Held
  <2>. QED  BY <1>6, <2>1, <2>3 DEF GapCommit
<1>7. CASE RawStore
  <2>1. PICK h \in Heights, x \in Chains : h = filler.h /\ x = filler.hash
    BY <1>7 DEF RawStore, FillerType
  <2>2. Held(h, x)'
    BY <1>7, <2>1, HeldStays DEF RawStore
  <2>. QED  BY <1>7, <2>1, <2>2 DEF RawStore
<1>8. CASE raw' = raw
  BY <1>8
<1>. QED
  BY <1>1, <1>2, <1>3, <1>4, <1>5, <1>6, <1>7, <1>8
  DEF Next, Poll, Fill, Ingest, IngestDone, Recheck, RecheckDone, ListRaw, EndPoll,
      AskDetails, GapList, GapAsk, GapEnd, RawList, RawAsk, RawEnd

\* The lists: a candidate is a captured block when it is listed.
LEMMA ListsHeld ==
    ASSUME TypeInv, BodyInv, [Next]_vars, NodeMayShrink = FALSE
    PROVE  /\ \A c \in loop'.todo : Held(c.h, c.hash)'
           /\ \A c \in filler'.todo : Held(c.h, c.hash)'
           /\ filler'.pc = "store" => \E c : /\ c \in Candidate /\ Held(c.h, c.hash)'
                                             /\ c.h = filler'.h /\ c.hash = filler'.hash
<1>. USE DEF TypeInv, RawTypeOK, HashInHand, BodyInv
<1>1. \A from, to : \A c \in MissingRaw(from, to) : c \in Candidate /\ Held(c.h, c.hash)
  BY DEF MissingRaw, Candidate, Held
<1>2. \A c \in Candidate : Held(c.h, c.hash) => Held(c.h, c.hash)'
  BY HeldStays DEF Candidate
<1>3. loop'.todo \subseteq loop.todo \/ \E from, to : loop'.todo = MissingRaw(from, to)
  <2>0. \A pc : LoopAt(pc).todo = {}
    BY DEF LoopAt
  <2>1. CASE loop' = loop
    BY <2>1
  <2>2. CASE \E pc : loop' = LoopAt(pc)
    BY <2>0, <2>2
  <2>3. CASE \E h : AskDetails(h)
    BY <2>3 DEF AskDetails, LoopAt
  <2>4. CASE RecheckDone
    BY <2>4 DEF RecheckDone, LoopAt
  <2>5. CASE RetryGap
    <3>1. \E h : loop' = [loop EXCEPT !.gaps = @ \ {h}]
      BY <2>5 DEF RetryGap
    <3>. QED  BY <3>1 DEF LoopType
  <2>6. CASE ListRaw
    <3>1. loop'.todo = MissingRaw(Monus(node.tip, ServingWindow), node.tip)
      BY <2>6 DEF ListRaw, LoopAt
    <3>. QED  BY <3>1
  <2>7. CASE RetryRaw
    <3>1. \E c : loop' = [loop EXCEPT !.todo = @ \ {c}]
      BY <2>7 DEF RetryRaw
    <3>. QED  BY <3>1 DEF LoopType
  <2>8. CASE Fill \/ NodeMoves \/ Prune \/ Cut \/ UNCHANGED vars
    <3>1. loop' = loop \/ loop' = LoopAt("ingest")
      BY <2>8 DEF Fill, NodeMoves, Prune, Cut, vars, GapList, GapAsk, GapCommit, GapEnd,
                  RawList, RawAsk, RawStore, RawEnd
    <3>. QED  BY <2>1, <2>2, <3>1
  <2>9. CASE Ingest \/ Recheck
    BY <2>3, <2>9 DEF Ingest, Recheck
  <2>10. CASE IngestDone \/ Commit \/ EndPoll
    BY <2>2, <2>10 DEF IngestDone, Commit, EndPoll
  <2>. QED  BY <2>4, <2>5, <2>6, <2>7, <2>8, <2>9, <2>10 DEF Next, Poll
<1>4. \A c \in filler'.todo : c \in filler.todo \/ \E from, to : c \in MissingRaw(from, to)
  <2>0. \A pc, by : FillerAt(pc, by).todo = {}
    BY DEF FillerAt
  <2>1. CASE filler'.todo = filler.todo \/ filler'.todo = {}
    BY <2>1
  <2>2. CASE GapList \/ GapCommit
    BY <2>2 DEF GapList, GapCommit, FillerAt
  <2>3. CASE GapAsk
    <3>1. \E h, x, bytes :
            \/ filler' = [filler EXCEPT !.gaps = @ \ {h}]
            \/ filler' = [[filler EXCEPT !.gaps = @ \ {h}]
                              EXCEPT !.pc = "body", !.h = h, !.hash = x, !.bytes = bytes]
      BY <2>3 DEF GapAsk
    <3>2. filler'.todo = filler.todo
      BY <3>1 DEF FillerType
    <3>. QED  BY <3>2
  <2>4. CASE GapEnd \/ RawEnd
    BY <2>0, <2>4 DEF GapEnd, RawEnd
  <2>5. CASE RawList
    <3>1. filler'.todo = RawWanted(filler.by)
      BY <2>5 DEF RawList, FillerAt
    <3>. QED  BY <3>1 DEF RawWanted
  <2>6. CASE RawAsk
    <3>1. PICK c \in FirstOf(filler.todo) : \E bytes :
            \/ filler' = [filler EXCEPT !.todo = @ \ {c}]
            \/ filler' = [[filler EXCEPT !.todo = @ \ {c}]
                              EXCEPT !.pc = "store", !.h = c.h, !.hash = c.hash, !.bytes = bytes]
      BY <2>6 DEF RawAsk
    <3>2. filler'.todo \subseteq filler.todo
      BY <3>1 DEF FillerType
    <3>. QED  BY <3>2
  <2>7. CASE RawStore
    BY <2>7 DEF RawStore, FillerAt
  <2>8. CASE NodeMoves \/ Poll \/ Prune \/ Cut \/ UNCHANGED vars
    <3>1. filler' = filler \/ filler' = FillerAt("rest", "peer")
      BY <2>8 DEF Poll, NodeMoves, Prune, Cut, vars, Ingest, IngestDone, Recheck, RecheckDone,
                  Commit, RetryGap, ListRaw, RetryRaw, EndPoll, AskDetails
    <3>. QED  BY <2>0, <2>1, <3>1
  <2>. QED  BY <2>2, <2>3, <2>4, <2>5, <2>6, <2>7, <2>8 DEF Next, Fill
<1>5. filler'.pc = "store" =>
        \E c \in Candidate : /\ Held(c.h, c.hash)
                             /\ c.h = filler'.h /\ c.hash = filler'.hash
  <2>1. CASE filler' = filler /\ filler.pc = "store"
    <3>1. PICK h \in Heights, x \in Chains : h = filler.h /\ x = filler.hash
      BY <2>1 DEF FillerType
    <3>2. [h |-> h, hash |-> x] \in Candidate /\ Held(h, x)
      BY <2>1, <3>1 DEF Candidate
    <3>. QED  BY <2>1, <3>1, <3>2
  <2>2. CASE RawAsk
    <3>1. PICK c \in FirstOf(filler.todo) : \E bytes :
            \/ filler' = [filler EXCEPT !.todo = @ \ {c}]
            \/ filler' = [[filler EXCEPT !.todo = @ \ {c}]
                              EXCEPT !.pc = "store", !.h = c.h, !.hash = c.hash, !.bytes = bytes]
      BY <2>2 DEF RawAsk
    <3>2. c \in Candidate /\ Held(c.h, c.hash)
      BY <3>1 DEF FirstOf, FillerType
    <3>3. filler'.pc = "store" => filler'.h = c.h /\ filler'.hash = c.hash
      BY <2>2, <3>1 DEF RawAsk, FillerType
    <3>. QED  BY <3>2, <3>3
  <2>3. CASE filler'.pc # "store"
    BY <2>3
  <2>4. filler' = filler \/ RawAsk \/ filler'.pc # "store"
    <3>1. CASE GapList \/ GapCommit \/ GapEnd \/ RawList \/ RawStore \/ RawEnd \/ Cut
      BY <3>1 DEF GapList, GapCommit, GapEnd, RawList, RawStore, RawEnd, Cut, FillerAt
    <3>2. CASE GapAsk
      <4>1. \E h, x, bytes :
              \/ filler' = [filler EXCEPT !.gaps = @ \ {h}]
              \/ filler' = [[filler EXCEPT !.gaps = @ \ {h}]
                                EXCEPT !.pc = "body", !.h = h, !.hash = x, !.bytes = bytes]
        BY <3>2 DEF GapAsk
      <4>. QED  BY <3>2, <4>1 DEF GapAsk, FillerType
    <3>3. CASE NodeMoves \/ Poll \/ Prune \/ UNCHANGED vars
      BY <3>3 DEF Poll, NodeMoves, Prune, vars, Ingest, IngestDone, Recheck, RecheckDone,
                  Commit, RetryGap, ListRaw, RetryRaw, EndPoll, AskDetails
    <3>. QED  BY <3>1, <3>2, <3>3 DEF Next, Fill
  <2>. QED  BY <2>1, <2>2, <2>3, <2>4
<1>6. \A c \in loop'.todo : Held(c.h, c.hash)'
  <2>1. \A c \in loop'.todo : c \in Candidate /\ Held(c.h, c.hash)
    BY <1>1, <1>3 DEF LoopType
  <2>. QED  BY <1>2, <2>1
<1>7. \A c \in filler'.todo : Held(c.h, c.hash)'
  <2>1. \A c \in filler'.todo : c \in Candidate /\ Held(c.h, c.hash)
    BY <1>1, <1>4 DEF FillerType
  <2>. QED  BY <1>2, <2>1
<1>. QED  BY <1>2, <1>5, <1>6, <1>7

\* Every step keeps the invariant.
LEMMA BodyStep ==
    ASSUME NodeMayShrink = FALSE
    PROVE  TypeInv /\ BodyInv /\ [Next]_vars => BodyInv'
<1>. SUFFICES ASSUME TypeInv, BodyInv, [Next]_vars PROVE BodyInv'
  OBVIOUS
<1>1. ASSUME NEW h \in Heights, NEW x \in Chains, raw'[h][x] # NoHash
      PROVE  Held(h, x)'
  <2>1. raw[h][x] # NoHash => Held(h, x)'
    BY HeldStays DEF BodyInv, BytesNeedABody, Held
  <2>2. raw \in [Heights -> [Chains -> Bytes]]
    BY DEF TypeInv, RawTypeOK
  <2>3. CASE raw' = raw
    BY <1>1, <2>1, <2>3
  <2>4. CASE \E s, bytes : \E g \in Heights : \E y \in Chains :
               raw' = KeepRaw(raw, s, g, y, bytes) /\ Held(g, y)'
    <3>0. PICK s, bytes : \E g \in Heights : \E y \in Chains :
            raw' = KeepRaw(raw, s, g, y, bytes) /\ Held(g, y)'
      BY <2>4
    <3>1. PICK g \in Heights, y \in Chains :
            raw' = KeepRaw(raw, s, g, y, bytes) /\ Held(g, y)'
      BY <3>0
    <3>2. raw'[h][x] = raw[h][x] \/ (g = h /\ y = x)
      BY <2>2, <3>1 DEF KeepRaw
    <3>. QED  BY <1>1, <2>1, <3>1, <3>2
  <2>5. CASE \E g, y : raw' = Pruned(raw, g, y)
    <3>1. PICK g, y : raw' = Pruned(raw, g, y)
      BY <2>5
    <3>2. raw'[h][x] \in {raw[h][x], NoHash}
      BY <2>2, <3>1 DEF Pruned
    <3>. QED  BY <1>1, <2>1, <3>2
  <2>. QED  BY <2>3, <2>4, <2>5, RawWritersHeld
<1>2. BytesNeedABody'
  BY <1>1 DEF BytesNeedABody, Held
<1>3. \A h \in Heights : db'[h].captured \subseteq db'[h].txs
  BY HeldStays
<1>4. filler'.pc = "store" => Held(filler.h, filler.hash)'
  BY ListsHeld
<1>. QED
  BY <1>2, <1>3, <1>4, ListsHeld DEF BodyInv

\* As long as the node's tip does not fall, nobody keeps bytes for a block that has no
\* transactions on record, but where retention may have removed them meanwhile.
THEOREM BytesNeedABodyHolds ==
    ASSUME NodeMayShrink = FALSE
    PROVE  Spec => []BytesNeedABody
<1>1. Init => TypeInv /\ BodyInv
  BY TypeInit, BodyInit
<1>2. (TypeInv /\ BodyInv) /\ [Next]_vars => (TypeInv /\ BodyInv)'
  BY TypeStep, BodyStep
<1>3. BodyInv => BytesNeedABody
  BY DEF BodyInv
<1>. QED  BY <1>1, <1>2, <1>3, PTL DEF Spec
=============================================================================
