----------------------------- MODULE HeaderProofs -----------------------------
(***************************************************************************)
(* Proofs about HeaderBackfill.tla: the loop is not disturbed by the       *)
(* thread, the composition is well typed, and a header-only row is final   *)
(* when it is written.                                                     *)
(***************************************************************************)
EXTENDS HeaderBackfill, IndexerProofs

\* The thread touches nothing of the loop: a step of both is a step of the loop or none.
LEMMA StepOfLoop == [HNext]_<<vars, hvars>> => [Next]_vars
<1>1. HNext => [Next]_vars
  BY DEF HNext, Next
<1>2. UNCHANGED <<vars, hvars>> => UNCHANGED vars
  OBVIOUS
<1>3. QED
  BY <1>1, <1>2

\* The composition's steps are steps of the loop or leave it alone (header_backfill_thread works
\* on a connection of its own and writes no row the loop reads), so what was proved of the
\* loop can be used here.
LEMMA LoopUndisturbed == HSpec => Spec
<1>1. HInit => Init
  BY DEF HInit
<1>2. QED
  BY <1>1, StepOfLoop, PTL DEF HSpec, Spec

-----------------------------------------------------------------------------
(* Types.                                                                  *)

LEMMA HeaderConstants ==
    /\ FinalDepth \in Nat /\ HeaderBatch - 1 \in Nat /\ MaxFailures \in Nat
    /\ 0 \in Heights /\ Heights \subseteq Nat /\ MaxHeight \in Nat
BY HeaderAssumption, ConstantTypes

LEMMA HbAtType ==
    ASSUME NEW pc \in {"off", "begin", "tip", "check", "fetch", "commit", "done"}
    PROVE  HbAt(pc) \in HbType
BY HeaderConstants DEF HbAt, HbType, NoRows

LEMMA BatchLowType ==
    ASSUME NEW next \in Heights
    PROVE  BatchLow(next) \in Heights
BY HeaderConstants, MonusType DEF BatchLow

LEMMA RowAtType ==
    ASSUME headers \in [Heights -> Chains \cup {NoHash}], NEW h \in Heights
    PROVE  RowAt(h) \in Chains \cup {NoHash}
BY CanonicalHashType DEF RowAt

HInv == TypeInv /\ HTypeOK

LEMMA HTypeStep == HInv /\ [HNext]_<<vars, hvars>> => HInv'
<1>. SUFFICES ASSUME HInv, [HNext]_<<vars, hvars>> PROVE HTypeOK'
  BY StepOfLoop, TypeStep DEF HInv
<1>. USE HeaderConstants DEF HInv, HTypeOK
<1>1. CASE UNCHANGED hvars
  BY <1>1 DEF hvars
<1>2. CASE HbFails
  <2>1. hb' = HbAt("begin")
    BY <1>2 DEF HbFails, AfterError
  <2>. QED  BY <1>2, <2>1, HbAtType DEF HbFails
<1>3. CASE HbBegin
  <2>1. backfillNext' \in Heights \cup {Unset, Finished}
    BY <1>3 DEF HbBegin
  <2>2. hb' \in HbType
    <3>1. CASE hb' = HbAt("done")
      BY <3>1, HbAtType
    <3>2. CASE \E low \in LowestRecorded :
                 /\ low > 0 /\ RowAt(low) # NoHash
                 /\ hb' = [HbAt("tip") EXCEPT !.next = low - 1,
                                              !.expected = ParentOf(RowAt(low), low)]
      <4>1. PICK low \in LowestRecorded :
                 /\ low > 0 /\ RowAt(low) # NoHash
                 /\ hb' = [HbAt("tip") EXCEPT !.next = low - 1,
                                              !.expected = ParentOf(RowAt(low), low)]
        BY <3>2
      <4>2. low \in Heights /\ low - 1 \in Heights
        BY <4>1 DEF LowestRecorded, Lowest, Heights
      <4>3. ParentOf(RowAt(low), low) \in Chains
        BY <4>1, <4>2, RowAtType, HashType DEF ParentOf
      <4>4. HbAt("tip") \in HbType
        BY HbAtType
      <4>. QED  BY <4>1, <4>2, <4>3, <4>4 DEF HbType
    <3>3. QED
      BY <1>3, <3>1, <3>2 DEF HbBegin
  <2>3. QED
    BY <1>3, <2>1, <2>2 DEF HbBegin
<1>4. CASE HbTip
  <2>1. node.tip \in Heights
    BY DEF TypeInv, TypeOK, NodeType
  <2>. QED  BY <1>4, <2>1 DEF HbTip, HbType
<1>5. CASE HbCheck
  BY <1>5 DEF HbCheck, HbType
<1>6. CASE HbFetch
  <2>1. CASE hb' = [hb EXCEPT !.pc = "commit"]
    BY <1>6, <2>1 DEF HbFetch, HbType
  <2>2. CASE hb' = AfterError(hb)
    BY <1>6, <2>2, HbAtType DEF HbFetch, AfterError
  <2>3. CASE hb' = [hb EXCEPT !.pc = IF hb.h = BatchLow(hb.next) THEN "commit" ELSE "fetch",
                              !.h = Monus(hb.h, 1),
                              !.expected = ParentOf(NodeHash(hb.h), hb.h),
                              !.batch[hb.h] = NodeHash(hb.h)]
    <3>1. NodeHash(hb.h) \in Chains
      BY NodeHashType DEF TypeInv, TypeOK
    <3>2. ParentOf(NodeHash(hb.h), hb.h) \in Chains
      BY <3>1, HashType DEF ParentOf
    <3>3. Monus(hb.h, 1) \in Heights
      BY MonusType DEF HbType
    <3>. QED  BY <1>6, <2>3, <3>1, <3>2, <3>3 DEF HbFetch, HbType
  <2>. QED  BY <1>6, <2>1, <2>2, <2>3 DEF HbFetch
<1>7. CASE HbCommit
  <2>1. BatchLow(hb.next) \in Heights
    BY BatchLowType DEF HbType
  <2>2. \A h \in Heights : Inserted(h) \in Chains \cup {NoHash}
    BY DEF Inserted, HbType
  <2>3. BatchLow(hb.next) # 0 => BatchLow(hb.next) - 1 \in Heights
    BY <2>1 DEF Heights
  <2>4. headers' \in [Heights -> Chains \cup {NoHash}]
    BY <1>7, <2>2 DEF HbCommit
  <2>5. backfillNext' \in Heights \cup {Unset, Finished}
    BY <1>7, <2>3 DEF HbCommit, ProgressAfter
  <2>6. hb' \in HbType
    <3>1. AfterError(hb) \in HbType /\ HbAt("done") \in HbType
      BY HbAtType DEF AfterError
    <3>2. BatchLow(hb.next) # 0 =>
            [hb EXCEPT !.pc = "tip", !.next = BatchLow(hb.next) - 1, !.batch = NoRows] \in HbType
      BY <2>3 DEF HbType, NoRows
    <3>. QED  BY <1>7, <3>1, <3>2 DEF HbCommit
  <2>. QED  BY <1>7, <2>4, <2>5, <2>6 DEF HbCommit
<1>8. CASE hb' = HbAt("begin") /\ UNCHANGED <<headers, backfillNext, failures>>
  BY <1>8, HbAtType
<1>9. CASE hb' = HbAt("off") /\ UNCHANGED <<headers, backfillNext, failures>>
  BY <1>9, HbAtType
<1>10. QED
  BY <1>1, <1>2, <1>3, <1>4, <1>5, <1>6, <1>7, <1>8, <1>9 DEF HNext, Backfill, hvars

LEMMA HTypeInit == HInit => HInv
<1>. SUFFICES ASSUME HInit PROVE HTypeOK
  BY TypeInit DEF HInit, HInv
<1>. QED  BY HeaderConstants, HbAtType DEF HInit, HTypeOK, NoRows

\* The thread's memory and what it writes are well typed: the next height never falls
\* below genesis (backfill_headers counts down in u64).
THEOREM HeaderTypeCorrect == HSpec => []HTypeOK
<1>1. HInv => HTypeOK
  BY DEF HInv
<1>2. QED
  BY <1>1, HTypeInit, HTypeStep, PTL DEF HSpec

-----------------------------------------------------------------------------
(* Finality.                                                               *)

\* Out of reach of every reorganization the protocol allows.
Final(h) == h = 0 \/ h + MaxReorgDepth <= node.tip

\* A header the thread holds or has written is the node's own, and final; the thread
\* asks only for final heights.
FinalInv ==
    /\ HInv
    /\ \A h \in Heights : headers[h] # NoHash => Final(h) /\ headers[h] = NodeHash(h)
    /\ \A h \in Heights : hb.batch[h] # NoHash => Final(h) /\ hb.batch[h] = NodeHash(h)
    /\ hb.pc \in {"check", "fetch"} => hb.tip <= node.tip
    /\ hb.pc = "fetch" => hb.next <= Horizon(hb.tip) /\ hb.h <= hb.next

\* The numbers the thread compares.
LEMMA Numbers ==
    ASSUME HInv
    PROVE  /\ node.tip \in Nat /\ hb.tip \in Nat /\ hb.next \in Nat /\ hb.h \in Nat
           /\ hb.tip \in Heights /\ hb.next \in Heights /\ hb.h \in Heights
<1>1. node.tip \in Heights /\ hb.tip \in Heights /\ hb.next \in Heights /\ hb.h \in Heights
  BY DEF HInv, HTypeOK, HbType, TypeInv, TypeOK, NodeType
<1>2. QED
  BY <1>1, HeaderConstants

LEMMA HorizonType ==
    ASSUME NEW tip \in Nat
    PROVE  Horizon(tip) \in Nat
BY ConstantTypes, HeaderConstants DEF Horizon, Monus

\* Two chains agree below the height at which they split, and at genesis.
LEMMA AgreeBelowSplit ==
    ASSUME NEW c \in Chains, NEW d \in Chains, c # d, NEW h \in Heights,
           h = 0 \/ h < SplitAt(c, d)
    PROVE  HashAt(c, h) = HashAt(d, h)
<1>1. ForkAt[c] \in Nat /\ ForkAt[d] \in Nat /\ 0 < ForkAt[c] /\ 0 < ForkAt[d] /\ h \in Nat
  BY ChainAssumption, ConstantTypes
<1>2. CASE h = 0
  BY <1>1, <1>2 DEF HashAt
<1>3. CASE h < SplitAt(c, d)
  BY <1>1, <1>3 DEF HashAt, SplitAt
<1>4. QED
  BY <1>2, <1>3

\* Whatever the node does, a final height stays final and keeps its block.
LEMMA FinalStays ==
    ASSUME ~NodeMayShrink, HInv, NodeStep, NEW h \in Heights, Final(h)
    PROVE  Final(h)' /\ NodeHash(h)' = NodeHash(h) /\ node.tip <= node'.tip
<1>. USE ConstantTypes, ChainAssumption
<1>0. /\ node \in NodeType /\ node.tip \in Nat /\ node.chain \in Chains
      /\ MaxReorgDepth \in Nat /\ h \in Nat
  BY DEF HInv, TypeInv, TypeOK, NodeType
<1>1. CASE NodeExtend
  <2>1. node'.tip = node.tip + 1 /\ node'.chain = node.chain
    BY <1>0, <1>1 DEF NodeExtend, NodeType
  <2>. QED  BY <1>0, <2>1 DEF Final, NodeHash
<1>2. CASE \E c \in Chains : NodeReorg(c)
  <2>1. PICK c \in Chains : NodeReorg(c)
    BY <1>2
  <2>2. SplitAt(node.chain, c) \in Nat
    BY <1>0 DEF SplitAt
  <2>3. PICK t \in SplitAt(node.chain, c)..MaxHeight :
           /\ node.tip <= t
           /\ node' = [chain |-> c, tip |-> t, reorgs |-> node.reorgs + 1]
    BY <2>1 DEF NodeReorg
  <2>4. c # node.chain /\ node.tip + 1 - SplitAt(node.chain, c) <= MaxReorgDepth
    BY <2>1 DEF NodeReorg
  <2>5. node'.tip = t /\ node'.chain = c /\ t \in Nat
    BY <2>2, <2>3
  <2>6. h = 0 \/ h < SplitAt(node.chain, c)
    BY <1>0, <2>2, <2>4 DEF Final
  <2>7. HashAt(node.chain, h) = HashAt(c, h)
    BY <1>0, <2>4, <2>6, AgreeBelowSplit
  <2>8. Final(h)'
    BY <1>0, <2>3, <2>5 DEF Final
  <2>. QED  BY <2>3, <2>5, <2>7, <2>8 DEF NodeHash
<1>3. QED
  BY <1>1, <1>2 DEF NodeStep

\* The tip alone never falls.
LEMMA TipStays ==
    ASSUME ~NodeMayShrink, HInv, NodeStep
    PROVE  node.tip <= node'.tip
<1>1. 0 \in Heights /\ Final(0)
  BY ConstantTypes DEF Final
<1>2. QED
  BY <1>1, FinalStays

\* A height under the horizon of a tip the node has reached is final.
LEMMA HorizonIsFinal ==
    ASSUME HInv, MaxReorgDepth <= FinalDepth,
           NEW tip \in Heights, tip <= node.tip, NEW h \in Heights, h <= Horizon(tip)
    PROVE  Final(h)
<1>. DEFINE d == IF RecheckDepth < FinalDepth THEN FinalDepth ELSE RecheckDepth
<1>1. /\ d \in Nat /\ FinalDepth <= d /\ MaxReorgDepth \in Nat /\ FinalDepth \in Nat
      /\ h \in Nat /\ tip \in Nat /\ node.tip \in Nat
  BY Numbers, ConstantTypes, ChainAssumption, HeaderConstants
<1>2. h <= Monus(tip, d + 1)
  BY DEF Horizon
<1>3. CASE tip < d + 1
  BY <1>1, <1>2, <1>3 DEF Monus, Final
<1>4. CASE ~(tip < d + 1)
  <2>1. h <= tip - (d + 1)
    BY <1>2, <1>4 DEF Monus
  <2>2. h + MaxReorgDepth <= node.tip
    BY <1>1, <2>1
  <2>. QED  BY <2>2 DEF Final
<1>5. QED
  BY <1>3, <1>4

LEMMA FreshThread ==
    ASSUME NEW pc
    PROVE  /\ HbAt(pc).pc = pc
           /\ \A h \in Heights : HbAt(pc).batch[h] = NoHash
BY DEF HbAt, NoRows

LEMMA FinalStep ==
    ASSUME ~NodeMayShrink, MaxReorgDepth <= FinalDepth,
           FinalInv, [HNext]_<<vars, hvars>>
    PROVE  FinalInv'
<1>0. HInv'
  BY HTypeStep DEF FinalInv
<1>. USE DEF FinalInv
<1>1. CASE NodeMoves /\ UNCHANGED hvars
  <2>1. NodeStep /\ UNCHANGED <<headers, hb>>
    BY <1>1 DEF NodeMoves, hvars
  <2>2. \A h \in Heights : Final(h) => Final(h)' /\ NodeHash(h)' = NodeHash(h)
    BY <2>1, FinalStays
  <2>3. node.tip <= node'.tip
    BY <2>1, TipStays
  <2>4. hb.tip \in Nat /\ node.tip \in Nat /\ node'.tip \in Nat
    BY <1>0, ConstantTypes DEF HInv, HTypeOK, HbType, TypeInv, TypeOK, NodeType
  <2>. QED  BY <1>0, <2>1, <2>2, <2>3, <2>4 DEF Horizon
<1>2. ASSUME UNCHANGED <<node, headers>>, hb' = HbAt("begin") \/ hb' = HbAt("off")
                                          \/ hb' = HbAt("done")
      PROVE  FinalInv'
  BY <1>0, <1>2, FreshThread DEF Final, NodeHash
<1>3. CASE UNCHANGED <<node, hvars>>
  BY <1>0, <1>3 DEF Final, NodeHash, Horizon, hvars
<1>4. CASE (Backfill \/ HbFails) /\ UNCHANGED vars
  <2>0. UNCHANGED node
    BY <1>4 DEF vars
  <2>1. CASE HbFails
    BY <1>2, <2>0, <2>1 DEF HbFails, AfterError
  <2>2. CASE HbBegin
    <3>1. CASE hb' = HbAt("done")
      BY <1>2, <2>0, <2>2, <3>1 DEF HbBegin
    <3>2. CASE hb' # HbAt("done")
      <4>1. PICK low \in LowestRecorded :
                 hb' = [HbAt("tip") EXCEPT !.next = low - 1,
                                           !.expected = ParentOf(RowAt(low), low)]
        BY <2>2, <3>2 DEF HbBegin
      <4>2. hb'.pc = "tip" /\ hb'.batch = HbAt("tip").batch
        BY <4>1 DEF HbAt
      <4>3. UNCHANGED headers
        BY <2>2 DEF HbBegin
      <4>. QED  BY <1>0, <2>0, <4>2, <4>3, FreshThread DEF Final, NodeHash
    <3>3. QED
      BY <3>1, <3>2
  <2>3. CASE HbTip
    <3>1. UNCHANGED headers /\ hb'.pc = "check" /\ hb'.tip = node.tip /\ hb'.batch = hb.batch
      BY <2>3 DEF HbTip, HInv, HTypeOK, HbType
    <3>2. node.tip <= node.tip
      BY Numbers
    <3>. QED  BY <1>0, <2>0, <3>1, <3>2 DEF Final, NodeHash
  <2>4. CASE HbCheck
    <3>1. UNCHANGED headers /\ hb'.batch = hb.batch /\ hb'.tip = hb.tip /\ hb'.next = hb.next
      BY <2>4 DEF HbCheck, HInv, HTypeOK, HbType
    <3>2. hb.tip <= node.tip
      BY <2>4 DEF HbCheck
    <3>3. CASE hb'.pc = "tip"
      BY <1>0, <2>0, <3>1, <3>3 DEF Final, NodeHash
    <3>4. CASE hb'.pc # "tip"
      <4>1. hb'.pc = "fetch" /\ hb'.h = hb.next /\ ~(Horizon(hb.tip) < hb.next)
        BY <2>4, <3>4 DEF HbCheck, HInv, HTypeOK, HbType
      <4>2. hb.next \in Nat /\ Horizon(hb.tip) \in Int
        BY Numbers, HorizonType
      <4>3. hb'.next <= Horizon(hb'.tip) /\ hb'.h <= hb'.next
        BY <3>1, <4>1, <4>2
      <4>. QED  BY <1>0, <2>0, <3>1, <3>2, <4>1, <4>3 DEF Final, NodeHash
    <3>5. QED
      BY <3>3, <3>4
  <2>5. CASE HbFetch
    <3>0. UNCHANGED headers /\ hb.pc = "fetch"
      BY <2>5 DEF HbFetch
    <3>1. CASE hb' = AfterError(hb)
      BY <1>2, <2>0, <3>0, <3>1 DEF AfterError
    <3>2. CASE hb' = [hb EXCEPT !.pc = "commit"]
      <4>1. hb'.pc = "commit" /\ hb'.batch = hb.batch
        BY <3>2 DEF HInv, HTypeOK, HbType
      <4>. QED  BY <1>0, <2>0, <3>0, <4>1 DEF Final, NodeHash
    <3>3. CASE hb' = [hb EXCEPT
                        !.pc = IF hb.h = BatchLow(hb.next) THEN "commit" ELSE "fetch",
                        !.h = Monus(hb.h, 1),
                        !.expected = ParentOf(NodeHash(hb.h), hb.h),
                        !.batch[hb.h] = NodeHash(hb.h)]
      <4>1. /\ hb'.next = hb.next /\ hb'.tip = hb.tip /\ hb'.h = Monus(hb.h, 1)
            /\ hb'.batch = [hb.batch EXCEPT ![hb.h] = NodeHash(hb.h)]
        BY <3>3 DEF HInv, HTypeOK, HbType
      <4>2. hb.h \in Heights /\ hb.next \in Heights /\ hb.tip \in Heights
        BY DEF HInv, HTypeOK, HbType
      <4>3. hb.h <= Horizon(hb.tip)
        <5>1. Horizon(hb.tip) \in Nat
          BY Numbers, HorizonType
        <5>. QED  BY <3>0, <5>1, Numbers
      <4>4. Final(hb.h)
        BY <3>0, <4>2, <4>3, HorizonIsFinal
      <4>5. \A h \in Heights : hb'.batch[h] # NoHash => Final(h) /\ hb'.batch[h] = NodeHash(h)
        BY <4>1, <4>2, <4>4 DEF HInv, HTypeOK, HbType
      <4>6. hb'.h <= hb'.next
        <5>1. Monus(hb.h, 1) <= hb.h /\ Monus(hb.h, 1) \in Nat
          BY Numbers DEF Monus
        <5>. QED  BY <3>0, <4>1, <5>1, Numbers
      <4>. QED  BY <1>0, <2>0, <3>0, <4>1, <4>5, <4>6 DEF Final, NodeHash, Horizon
    <3>4. QED
      BY <2>5, <3>1, <3>2, <3>3 DEF HbFetch
  <2>6. CASE HbCommit
    <3>1. CASE hb' = AfterError(hb) /\ UNCHANGED headers
      BY <1>2, <2>0, <3>1 DEF AfterError
    <3>2. CASE headers' = [h \in Heights |-> Inserted(h)]
      <4>1. \A h \in Heights : headers'[h] # NoHash => Final(h) /\ headers'[h] = NodeHash(h)
        BY <3>2 DEF Inserted
      <4>2. \/ hb' = HbAt("done")
            \/ hb' = [hb EXCEPT !.pc = "tip", !.next = BatchLow(hb.next) - 1, !.batch = NoRows]
            \/ hb' = AfterError(hb)
        BY <2>6 DEF HbCommit
      <4>3. /\ hb'.pc \in {"begin", "done", "tip"}
            /\ \A h \in Heights : hb'.batch[h] = NoHash
        <5>1. hb \in HbType
          BY DEF HInv, HTypeOK
        <5>2. CASE hb' = [hb EXCEPT !.pc = "tip", !.next = BatchLow(hb.next) - 1,
                                    !.batch = NoRows]
          BY <5>1, <5>2 DEF HbType, NoRows
        <5>. QED  BY <4>2, <5>2, FreshThread DEF AfterError
      <4>. QED  BY <1>0, <2>0, <4>1, <4>3 DEF Final, NodeHash
    <3>3. QED
      BY <2>6, <3>1, <3>2 DEF HbCommit
  <2>7. QED
    BY <1>4, <2>1, <2>2, <2>3, <2>4, <2>5, <2>6 DEF Backfill
<1>5. CASE Start /\ hb' = HbAt("begin") /\ UNCHANGED <<headers, backfillNext, failures>>
  BY <1>2, <1>5 DEF Start
<1>6. CASE Killed /\ hb' = HbAt("off") /\ UNCHANGED <<headers, backfillNext, failures>>
  BY <1>2, <1>6 DEF Killed
<1>7. CASE (PollFails \/ Poll \/ Prune \/ Filler) /\ UNCHANGED hvars
  <2>1. UNCHANGED node
    BY <1>7 DEF PollFails, Poll, Prune, Filler, BeginPoll, FetchBlock, CommitBlock, Advance,
                CheckHeader, FetchReplacement, CommitReplacement, ListGaps, RetryGap,
                CommitRecovered, EndPoll, FillerList, FillerAsk, FillerCommit, FillerEnd
  <2>. QED  BY <1>3, <1>7, <2>1
<1>8. CASE UNCHANGED <<vars, hvars>>
  BY <1>3, <1>8 DEF vars
<1>9. QED
  BY <1>1, <1>4, <1>5, <1>6, <1>7, <1>8 DEF HNext

LEMMA FinalInit == HInit => FinalInv
<1>. SUFFICES ASSUME HInit PROVE FinalInv
  OBVIOUS
<1>1. HInv
  BY HTypeInit
<1>2. \A h \in Heights : headers[h] = NoHash
  BY DEF HInit, NoRows
<1>3. hb = HbAt("off")
  BY DEF HInit
<1>. QED  BY <1>1, <1>2, <1>3, FreshThread DEF FinalInv

\* No header-only row ever differs from the node's chain, if the protocol's reorg limit is
\* within FINAL_DEPTH and the node's tip does not fall: re-reading the tip and the
\* indexer's progress before each batch is enough, whatever happens during the batch.
THEOREM HeadersAreFinalHolds ==
    ASSUME ~NodeMayShrink, MaxReorgDepth <= FinalDepth
    PROVE  HSpec => []HeadersAreFinal
<1>1. FinalInv => HeadersAreFinal
  BY DEF FinalInv, HeadersAreFinal
<1>2. FinalInv /\ [HNext]_<<vars, hvars>> => FinalInv'
  BY FinalStep
<1>3. QED
  BY <1>1, <1>2, FinalInit, PTL DEF HSpec

-----------------------------------------------------------------------------
(* The progress entry and the rows.                                        *)

OnRecord(h) == AnyRow(db[h]) \/ headers[h] # NoHash

\* The thread has found where it is to go on.
Working == hb.pc \in {"tip", "check", "fetch", "commit"}

\* The thread holds a header exactly for the heights from low up to where it began.
HoldsFrom(low) == \A h \in Heights : hb.batch[h] # NoHash <=> low <= h /\ h <= hb.next

\* There is a header-only row or a progress entry only below an archive that has a first
\* block.
RowsBelowArchive ==
    /\ \A h \in Heights : headers[h] # NoHash => \E a \in ArchiveFirst : h < a
    /\ backfillNext # Unset => ArchiveFirst # {}

NoHole == \A h \in Heights : headers[h] # NoHash => h + 1 \in Heights /\ OnRecord(h + 1)

\* Whatever the loop writes meanwhile, the thread works right below the lowest row on
\* record, and what it holds goes down from there without a hole.
WorksBelowLowest ==
    /\ Working => ArchiveFirst # {} /\ LowestRecorded = {hb.next + 1}
    /\ hb.pc \in {"tip", "check"} => \A h \in Heights : hb.batch[h] = NoHash
    /\ hb.pc = "fetch" =>
         BatchLow(hb.next) <= hb.h /\ hb.h <= hb.next /\ HoldsFrom(hb.h + 1)
    /\ hb.pc = "commit" =>
         \/ HoldsFrom(BatchLow(hb.next))
         \/ GenesisMayBeMissing /\ BatchLow(hb.next) = 0 /\ HoldsFrom(1)

ProgressInv ==
    /\ HInv
    /\ OneInv
    /\ RowsBelowArchive
    /\ NoHole
    /\ WorksBelowLowest
    /\ ProgressTellsTruth

\* What the least element of a set of heights is.
LEMMA LowestIs ==
    ASSUME NEW S \in SUBSET Heights, NEW a
    PROVE  Lowest(S) = {a} <=> a \in S /\ \A g \in S : a <= g
<1>1. ASSUME Lowest(S) = {a} PROVE a \in S /\ \A g \in S : a <= g
  BY <1>1 DEF Lowest
<1>2. ASSUME a \in S, \A g \in S : a <= g PROVE Lowest(S) = {a}
  <2>1. a \in Lowest(S)
    BY <1>2 DEF Lowest
  <2>2. ASSUME NEW b \in Lowest(S) PROVE b = a
    <3>1. b \in S /\ b <= a /\ a <= b
      BY <1>2, <2>2 DEF Lowest
    <3>2. a \in Int /\ b \in Int
      BY <1>2, <3>1, HeightsAreNumbers
    <3>. QED  BY ONLY <3>1, <3>2
  <2>. QED  BY <2>1, <2>2
<1>3. QED
  BY <1>1, <1>2

LEMMA FirstIs ==
    ASSUME NEW a
    PROVE  ArchiveFirst = {a} <=>
             a \in Heights /\ AnyRow(db[a]) /\ \A g \in Heights : AnyRow(db[g]) => a <= g
<1>. DEFINE S == {h \in Heights : AnyRow(db[h])}
<1>1. S \in SUBSET Heights /\ ArchiveFirst = Lowest(S)
  BY DEF ArchiveFirst
<1>2. Lowest(S) = {a} <=> a \in S /\ \A g \in S : a <= g
  BY <1>1, LowestIs
<1>3. QED
  BY <1>1, <1>2

LEMMA LowestRecordedIs ==
    ASSUME NEW a
    PROVE  LowestRecorded = {a} <=>
             a \in Heights /\ OnRecord(a) /\ \A g \in Heights : OnRecord(g) => a <= g
<1>. DEFINE S == {h \in Heights : AnyRow(db[h]) \/ headers[h] # NoHash}
<1>1. S \in SUBSET Heights /\ LowestRecorded = Lowest(S)
  BY DEF LowestRecorded
<1>2. Lowest(S) = {a} <=> a \in S /\ \A g \in S : a <= g
  BY <1>1, LowestIs
<1>3. QED
  BY <1>1, <1>2 DEF OnRecord

\* There is at most one first block, and one lowest row.
LEMMA OneFirst ==
    /\ \A a \in ArchiveFirst : ArchiveFirst = {a}
    /\ \A a \in LowestRecorded : LowestRecorded = {a}
<1>1. ASSUME NEW a \in ArchiveFirst PROVE ArchiveFirst = {a}
  BY <1>1, FirstIs DEF ArchiveFirst, Lowest
<1>2. ASSUME NEW a \in LowestRecorded PROVE LowestRecorded = {a}
  BY <1>2, LowestRecordedIs DEF LowestRecorded, Lowest, OnRecord
<1>3. QED
  BY <1>1, <1>2

\* The loop never records a block below the first one.
LEMMA FirstStays ==
    ASSUME OneInv, [Next]_vars, ArchiveFirst # {}
    PROVE  ArchiveFirst' = ArchiveFirst
<1>1. PICK a \in ArchiveFirst : ArchiveFirst = {a}
  BY OneFirst
<1>2. a \in Heights /\ AnyRow(db[a]) /\ \A g \in Heights : AnyRow(db[g]) => a <= g
  BY <1>1, FirstIs
<1>3. AnyRow(db'[a])
  BY <1>2, RowsAndGapsStay
<1>4. ASSUME NEW g \in Heights, AnyRow(db'[g]), ~AnyRow(db[g]) PROVE a <= g
  <2>1. CommitBlock /\ lastProcessed < g
    BY <1>4, NewRows
  <2>2. ~(lastProcessed < a)
    BY <1>2, <2>1 DEF OneInv, FreshAbove, CommitBlock
  <2>3. lastProcessed \in Int /\ a \in Int /\ g \in Int
    BY <1>2, HeightsAreNumbers DEF OneInv, TypeInv, TypeOK, NoHeight
  <2>. QED  BY ONLY <2>1, <2>2, <2>3
<1>5. \A g \in Heights : AnyRow(db'[g]) => a <= g
  BY <1>2, <1>4
<1>6. ArchiveFirst' = {a}
  <2>. DEFINE S == {h \in Heights : AnyRow(db'[h])}
  <2>1. S \in SUBSET Heights /\ ArchiveFirst' = Lowest(S)
    BY DEF ArchiveFirst, Lowest
  <2>2. a \in S /\ \A g \in S : a <= g
    BY <1>2, <1>3, <1>5
  <2>. HIDE DEF S
  <2>. QED  BY <2>1, <2>2, LowestIs
<1>7. QED
  BY <1>1, <1>6

\* A height that is on record now, and was not, is above the archive's first block.
LEMMA RowsStayAbove ==
    ASSUME OneInv, [Next]_vars, ArchiveFirst # {}, UNCHANGED headers
    PROVE  LowestRecorded' = LowestRecorded
<1>1. PICK a \in ArchiveFirst : ArchiveFirst = {a}
  BY OneFirst
<1>2. ArchiveFirst' = {a}
  BY <1>1, FirstStays
<1>. DEFINE S == {h \in Heights : AnyRow(db[h]) \/ headers[h] # NoHash}
            T == {h \in Heights : AnyRow(db'[h]) \/ headers[h] # NoHash}
<1>3. S \in SUBSET Heights /\ T \in SUBSET Heights
  OBVIOUS
<1>4. LowestRecorded = Lowest(S) /\ LowestRecorded' = Lowest(T)
  BY DEF LowestRecorded, Lowest
<1>5. S \subseteq T
  BY RowsAndGapsStay
<1>6. a \in S /\ \A g \in T \ S : a <= g
  <2>1. a \in S
    BY <1>1, FirstIs
  <2>2. \A g \in Heights : AnyRow(db'[g]) => a <= g
    BY <1>2 DEF ArchiveFirst, Lowest
  <2>. QED  BY <2>1, <2>2
<1>. HIDE DEF S, T
<1>7. Lowest(T) = Lowest(S)
  <2>1. \A g \in T : g \in Int
    BY <1>3, HeightsAreNumbers
  <2>2. ASSUME NEW h \in Lowest(S) PROVE h \in Lowest(T)
    <3>1. h \in S /\ h <= a /\ \A g \in S : h <= g
      BY <1>6, <2>2 DEF Lowest
    <3>2. \A g \in T \ S : h <= g
      <4>1. a \in Int /\ h \in Int
        BY <1>5, <1>6, <2>1, <3>1
      <4>. QED  BY <1>6, <2>1, <3>1, <4>1
    <3>. QED  BY <1>5, <3>1, <3>2 DEF Lowest
  <2>3. ASSUME NEW h \in Lowest(T) PROVE h \in Lowest(S)
    <3>1. h \in T /\ \A g \in T : h <= g
      BY <2>3 DEF Lowest
    <3>2. h \in S
      <4>1. CASE h \in T \ S
        <5>1. a <= h /\ h <= a
          BY <1>5, <1>6, <3>1, <4>1
        <5>2. a \in Int /\ h \in Int
          BY <1>5, <1>6, <2>1, <3>1
        <5>3. h = a
          BY ONLY <5>1, <5>2
        <5>. QED  BY <1>6, <5>3
      <4>. QED  BY <3>1, <4>1
    <3>. QED  BY <1>5, <3>1, <3>2 DEF Lowest
  <2>. QED  BY <2>2, <2>3
<1>8. QED
  BY <1>4, <1>7

\* The numbers the thread counts with.
LEMMA BatchLowIs ==
    ASSUME NEW next \in Heights
    PROVE  BatchLow(next) \in Heights /\ BatchLow(next) <= next
BY HeaderConstants, BatchLowType, HeightsAreNumbers DEF BatchLow, Monus

\* A step of the loop, or none, keeps what the thread relies on.
LEMMA LoopKeepsProgress ==
    ASSUME ProgressInv, OneInv', HInv', [Next]_vars, UNCHANGED <<headers, backfillNext>>,
           UNCHANGED hb \/ ~Working'
    PROVE  ProgressInv'
<1>. USE DEF ProgressInv
<1>1. ArchiveFirst # {} => ArchiveFirst' = ArchiveFirst /\ LowestRecorded' = LowestRecorded
  BY FirstStays, RowsStayAbove
<1>2. RowsBelowArchive'
  BY <1>1 DEF RowsBelowArchive
<1>3. NoHole'
  BY RowsAndGapsStay DEF NoHole, OnRecord
<1>4. WorksBelowLowest'
  <2>1. CASE UNCHANGED hb
    <3>1. Working' = Working /\ \A low : HoldsFrom(low)' <=> HoldsFrom(low)
      BY <2>1 DEF Working, HoldsFrom
    <3>. QED  BY <1>1, <2>1, <3>1 DEF WorksBelowLowest, BatchLow
  <2>2. CASE ~Working'
    BY <2>2 DEF WorksBelowLowest, Working
  <2>. QED  BY <2>1, <2>2
<1>5. ProgressTellsTruth'
  <2>1. backfillNext \in Heights \cup {Finished} => ArchiveFirst # {}
    BY HeightsAreNumbers DEF RowsBelowArchive, Unset, Finished
  <2>. QED  BY <1>1, <2>1 DEF ProgressTellsTruth
<1>6. QED
  BY <1>2, <1>3, <1>4, <1>5

\* The parts that depend on the tables only.
LEMMA TablesKept ==
    ASSUME ProgressInv, UNCHANGED <<vars, headers>>
    PROVE  /\ NoHole' /\ ArchiveFirst' = ArchiveFirst /\ LowestRecorded' = LowestRecorded
           /\ backfillNext' = backfillNext => RowsBelowArchive' /\ ProgressTellsTruth'
<1>1. UNCHANGED <<db, headers>>
  BY DEF vars
<1>2. ArchiveFirst' = ArchiveFirst /\ LowestRecorded' = LowestRecorded /\ NoHole'
  BY <1>1 DEF ProgressInv, ArchiveFirst, LowestRecorded, NoHole, OnRecord
<1>3. QED
  BY <1>1, <1>2 DEF ProgressInv, RowsBelowArchive, ProgressTellsTruth

LEMMA HbBeginProgress ==
    ASSUME ProgressInv, OneInv', HInv', HbBegin, UNCHANGED vars
    PROVE  ProgressInv'
<1>. USE DEF ProgressInv
<1>0. UNCHANGED headers
  BY DEF HbBegin
<1>1. CASE hb' = HbAt("done")
  <2>1. WorksBelowLowest'
    BY <1>1, FreshThread DEF WorksBelowLowest, Working
  <2>2. CASE backfillNext' = backfillNext
    BY <1>0, <2>1, <2>2, TablesKept
  <2>3. CASE backfillNext' = Finished /\ LowestRecorded = {0} /\ ArchiveFirst # {}
    <3>1. RowsBelowArchive'
      BY <1>0, <2>3, TablesKept DEF RowsBelowArchive
    <3>2. ProgressTellsTruth'
      BY <1>0, <2>3, TablesKept, HeightsAreNumbers DEF ProgressTellsTruth, Finished
    <3>. QED  BY <1>0, <2>1, <3>1, <3>2, TablesKept
  <2>4. backfillNext' = backfillNext
           \/ (backfillNext' = Finished /\ LowestRecorded = {0} /\ ArchiveFirst # {})
    BY DEF HbBegin
  <2>. QED  BY <2>2, <2>3, <2>4
<1>2. CASE hb' # HbAt("done")
  <2>1. PICK low \in LowestRecorded :
             hb' = [HbAt("tip") EXCEPT !.next = low - 1,
                                       !.expected = ParentOf(RowAt(low), low)]
    BY <1>2 DEF HbBegin
  <2>2. hb'.pc = "tip" /\ hb'.batch = HbAt("tip").batch /\ hb'.next = low - 1
    BY <2>1 DEF HbAt
  <2>3. backfillNext' = backfillNext /\ ArchiveFirst # {}
    BY <1>2 DEF HbBegin
  <2>4. LowestRecorded = {(low - 1) + 1}
    <3>1. low \in Int
      BY <2>1, HeightsAreNumbers DEF LowestRecorded, Lowest
    <3>2. (low - 1) + 1 = low
      BY <3>1
    <3>. QED  BY <3>2, OneFirst
  <2>5. WorksBelowLowest'
    BY <1>0, <2>2, <2>3, <2>4, TablesKept, FreshThread DEF WorksBelowLowest, Working
  <2>. QED  BY <1>0, <2>3, <2>5, TablesKept
<1>3. QED
  BY <1>1, <1>2

LEMMA HbCheckProgress ==
    ASSUME ProgressInv, OneInv', HInv', HbTip \/ HbCheck, UNCHANGED vars
    PROVE  ProgressInv'
<1>. USE DEF ProgressInv
<1>0. UNCHANGED <<headers, backfillNext>> /\ hb.pc \in {"tip", "check"}
  BY DEF HbTip, HbCheck
<1>1. hb \in HbType /\ hb.next \in Heights
  BY DEF HInv, HTypeOK, HbType
<1>2. /\ hb'.pc \in {"tip", "check", "fetch"} /\ hb'.next = hb.next /\ hb'.batch = hb.batch
      /\ hb'.pc = "fetch" => hb'.h = hb.next
  BY <1>1 DEF HbTip, HbCheck, HbType
<1>3. ArchiveFirst' # {} /\ LowestRecorded' = {hb'.next + 1}
  BY <1>0, <1>2, TablesKept DEF WorksBelowLowest, Working
<1>4. \A h \in Heights : hb'.batch[h] = NoHash
  BY <1>0, <1>2 DEF WorksBelowLowest
<1>5. hb'.pc = "fetch" =>
        /\ BatchLow(hb'.next) <= hb'.h /\ hb'.h <= hb'.next
        /\ \A h \in Heights : ~(hb'.h + 1 <= h /\ h <= hb'.next)
  <2>1. hb.next \in Int /\ \A h \in Heights : h \in Int
    BY <1>1, HeightsAreNumbers
  <2>. QED  BY <1>1, <1>2, <2>1, BatchLowIs
<1>6. WorksBelowLowest'
  BY <1>2, <1>3, <1>4, <1>5 DEF WorksBelowLowest, HoldsFrom, BatchLow
<1>7. QED
  BY <1>0, <1>6, TablesKept

LEMMA HbFetchProgress ==
    ASSUME ProgressInv, OneInv', HInv', HbFetch, UNCHANGED vars
    PROVE  ProgressInv'
<1>. USE DEF ProgressInv
<1>0. UNCHANGED <<headers, backfillNext>> /\ hb.pc = "fetch"
  BY DEF HbFetch
<1>1. hb \in HbType /\ hb.next \in Heights /\ hb.h \in Heights /\ node \in NodeType
  BY DEF HInv, HTypeOK, HbType, TypeInv, TypeOK
<1>2. /\ BatchLow(hb.next) <= hb.h /\ hb.h <= hb.next /\ HoldsFrom(hb.h + 1)
      /\ ArchiveFirst # {} /\ LowestRecorded = {hb.next + 1}
  BY <1>0 DEF WorksBelowLowest, Working
<1>3. /\ hb.next \in Int /\ hb.h \in Int /\ 0 <= hb.h /\ \A h \in Heights : h \in Int /\ 0 <= h
      /\ BatchLow(hb.next) \in Int /\ 0 <= BatchLow(hb.next)
  BY <1>1, HeightsAreNumbers, BatchLowIs
<1>4. hb'.next = hb.next => ArchiveFirst' # {} /\ LowestRecorded' = {hb'.next + 1}
  BY <1>0, <1>2, TablesKept
<1>5. CASE hb' = AfterError(hb)
  <2>1. WorksBelowLowest'
    BY <1>5, FreshThread DEF WorksBelowLowest, Working, AfterError
  <2>. QED  BY <1>0, <2>1, TablesKept
<1>6. CASE hb.h = 0 /\ GenesisMayBeMissing /\ hb' = [hb EXCEPT !.pc = "commit"]
  <2>1. hb'.pc = "commit" /\ hb'.next = hb.next /\ hb'.batch = hb.batch
    BY <1>1, <1>6 DEF HbType
  <2>2. HoldsFrom(1)'
    <3>1. hb.h + 1 = 1
      BY <1>6
    <3>2. HoldsFrom(1)
      BY <1>2, <3>1
    <3>. QED  BY <2>1, <3>2 DEF HoldsFrom
  <2>3. BatchLow(hb.next) = 0
    BY <1>2, <1>3, <1>6
  <2>4. WorksBelowLowest'
    BY <1>4, <1>6, <2>1, <2>2, <2>3 DEF WorksBelowLowest, Working, BatchLow
  <2>. QED  BY <1>0, <2>4, TablesKept
<1>7. CASE hb' = [hb EXCEPT
                    !.pc = IF hb.h = BatchLow(hb.next) THEN "commit" ELSE "fetch",
                    !.h = Monus(hb.h, 1),
                    !.expected = ParentOf(NodeHash(hb.h), hb.h),
                    !.batch[hb.h] = NodeHash(hb.h)]
  <2>1. /\ hb'.next = hb.next /\ hb'.h = Monus(hb.h, 1)
        /\ hb'.batch = [hb.batch EXCEPT ![hb.h] = NodeHash(hb.h)]
        /\ hb'.pc = IF hb.h = BatchLow(hb.next) THEN "commit" ELSE "fetch"
    BY <1>1, <1>7 DEF HbType
  <2>2. NodeHash(hb.h) # NoHash
    BY <1>1, NodeHashType, ConstantTypes
  <2>3. \A h \in Heights : hb'.batch[h] # NoHash <=> hb.h <= h /\ h <= hb.next
    <3>. SUFFICES ASSUME NEW h \in Heights
                  PROVE  hb'.batch[h] # NoHash <=> hb.h <= h /\ h <= hb.next
      OBVIOUS
    <3>1. CASE h = hb.h
      BY <1>1, <1>2, <1>3, <2>1, <2>2, <3>1 DEF HbType
    <3>2. CASE h # hb.h
      <4>1. hb'.batch[h] = hb.batch[h]
        BY <1>1, <2>1, <3>2 DEF HbType
      <4>2. hb.h + 1 <= h <=> hb.h <= h
        BY <1>3, <3>2
      <4>. QED  BY <1>2, <4>1, <4>2 DEF HoldsFrom
    <3>. QED  BY <3>1, <3>2
  <2>4. CASE hb.h = BatchLow(hb.next)
    <3>1. hb'.pc = "commit" /\ HoldsFrom(BatchLow(hb.next))'
      BY <2>1, <2>3, <2>4 DEF HoldsFrom, BatchLow
    <3>. QED  BY <1>0, <1>4, <2>1, <3>1, TablesKept DEF WorksBelowLowest, Working, BatchLow
  <2>5. CASE hb.h # BatchLow(hb.next)
    <3>1. hb'.pc = "fetch" /\ hb'.h = hb.h - 1
      BY <1>2, <1>3, <2>1, <2>5 DEF Monus
    <3>2. BatchLow(hb.next) <= hb'.h /\ hb'.h <= hb'.next /\ hb'.h + 1 = hb.h
      BY <1>2, <1>3, <2>1, <2>5, <3>1
    <3>3. HoldsFrom(hb.h + 1)'
      BY <2>1, <2>3, <3>2 DEF HoldsFrom
    <3>4. WorksBelowLowest'
      BY <1>4, <2>1, <3>1, <3>2, <3>3 DEF WorksBelowLowest, Working, BatchLow
    <3>. QED  BY <1>0, <3>4, TablesKept
  <2>. QED  BY <2>4, <2>5
<1>8. QED
  BY <1>5, <1>6, <1>7 DEF HbFetch

\* What one committed batch leaves: the rows it held, down to bottom.
LEMMA BatchCommitted ==
    ASSUME ProgressInv, HInv', UNCHANGED vars, hb.pc = "commit",
           headers' = [h \in Heights |-> Inserted(h)],
           NEW bottom \in Heights, HoldsFrom(bottom), bottom <= hb.next + 1
    PROVE  /\ LowestRecorded' = {bottom}
           /\ NoHole'
           /\ \A h \in Heights : headers'[h] # NoHash => \E a \in ArchiveFirst' : h < a
           /\ ArchiveFirst' # {}
<1>. USE DEF ProgressInv
<1>1. hb \in HbType /\ hb.next \in Heights /\ hb.next \in Int /\ bottom \in Int
  BY HeightsAreNumbers DEF HInv, HTypeOK, HbType
<1>2. /\ hb.next + 1 \in Heights /\ OnRecord(hb.next + 1)
      /\ \A g \in Heights : OnRecord(g) => hb.next + 1 <= g
      /\ ArchiveFirst # {}
  BY LowestRecordedIs DEF WorksBelowLowest, Working
<1>3. \A h \in Heights : h \in Int
  BY HeightsAreNumbers
<1>4. ASSUME NEW h \in Heights
      PROVE  /\ headers'[h] # NoHash <=> headers[h] # NoHash \/ (bottom <= h /\ h <= hb.next)
             /\ AnyRow(db'[h]) <=> AnyRow(db[h])
  <2>1. headers'[h] = IF hb.batch[h] # NoHash /\ ~AnyRow(db[h]) THEN hb.batch[h] ELSE headers[h]
    BY <1>4 DEF Inserted
  <2>2. hb.batch[h] # NoHash <=> bottom <= h /\ h <= hb.next
    BY <1>4 DEF HoldsFrom
  <2>3. h <= hb.next => ~OnRecord(h)
    BY <1>1, <1>2, <1>3, <1>4
  <2>. QED  BY <2>1, <2>2, <2>3 DEF OnRecord, vars
<1>5. \A h \in Heights : OnRecord(h)' <=> OnRecord(h) \/ (bottom <= h /\ h <= hb.next)
  BY <1>4 DEF OnRecord
<1>6. ArchiveFirst' = ArchiveFirst
  BY DEF vars, ArchiveFirst
<1>7. LowestRecorded' = {bottom}
  <2>. DEFINE T == {h \in Heights : AnyRow(db'[h]) \/ headers'[h] # NoHash}
  <2>1. T \in SUBSET Heights /\ LowestRecorded' = Lowest(T)
    BY DEF LowestRecorded, Lowest
  <2>2. \A h \in Heights : h \in T <=> OnRecord(h) \/ (bottom <= h /\ h <= hb.next)
    BY <1>5 DEF OnRecord
  <2>. HIDE DEF T
  <2>3. bottom \in T
    <3>1. CASE bottom <= hb.next
      BY <1>1, <2>2, <3>1
    <3>2. CASE bottom = hb.next + 1
      BY <1>2, <2>2, <3>2
    <3>. QED  BY <1>1, <3>1, <3>2
  <2>4. \A g \in T : bottom <= g
    BY <1>1, <1>2, <1>3, <2>1, <2>2
  <2>. QED  BY <2>1, <2>3, <2>4, LowestIs
<1>8. NoHole'
  <2>. SUFFICES ASSUME NEW h \in Heights, headers'[h] # NoHash
                PROVE  h + 1 \in Heights /\ OnRecord(h + 1)'
    BY DEF NoHole
  <2>1. CASE headers[h] # NoHash
    BY <1>5, <2>1 DEF NoHole
  <2>2. CASE bottom <= h /\ h <= hb.next
    <3>1. h \in Int
      BY <1>3
    <3>2. CASE h = hb.next
      BY <1>2, <1>5, <3>2
    <3>3. CASE h # hb.next
      <4>1. h + 1 <= hb.next /\ bottom <= h + 1
        BY <1>1, <2>2, <3>1, <3>3
      <4>2. h + 1 \in Heights
        BY <1>1, <3>1, <4>1, ConstantTypes DEF Heights
      <4>. QED  BY <1>5, <4>1, <4>2
    <3>. QED  BY <3>2, <3>3
  <2>. QED  BY <1>4, <2>1, <2>2
<1>9. \A h \in Heights : headers'[h] # NoHash => \E a \in ArchiveFirst' : h < a
  <2>. SUFFICES ASSUME NEW h \in Heights, headers'[h] # NoHash
                PROVE  \E a \in ArchiveFirst : h < a
    BY <1>6
  <2>1. CASE headers[h] # NoHash
    BY <2>1 DEF RowsBelowArchive
  <2>2. CASE h <= hb.next
    <3>1. PICK a \in ArchiveFirst : a \in Heights /\ AnyRow(db[a])
      BY <1>2 DEF ArchiveFirst, Lowest
    <3>2. hb.next + 1 <= a
      BY <1>2, <3>1 DEF OnRecord
    <3>3. h < a
      <4>1. h \in Int /\ a \in Int
        BY <1>3, <3>1
      <4>. QED  BY <1>1, <2>2, <3>2, <4>1
    <3>. QED  BY <3>1, <3>3
  <2>. QED  BY <1>4, <2>1, <2>2
<1>10. QED
  BY <1>2, <1>6, <1>7, <1>8, <1>9

LEMMA HbCommitProgress ==
    ASSUME ProgressInv, OneInv', HInv', HbCommit, UNCHANGED vars
    PROVE  ProgressInv'
<1>. USE DEF ProgressInv
<1>. DEFINE low == BatchLow(hb.next)
<1>1. /\ hb.pc = "commit" /\ hb \in HbType /\ hb.next \in Heights /\ hb.next \in Int
      /\ low \in Heights /\ low <= hb.next /\ low \in Int /\ 0 <= low /\ 0 <= hb.next
  BY BatchLowIs, HeightsAreNumbers DEF HbCommit, HInv, HTypeOK, HbType
<1>2. CASE hb' = AfterError(hb) /\ UNCHANGED <<headers, backfillNext>>
  <2>1. WorksBelowLowest'
    BY <1>2, FreshThread DEF WorksBelowLowest, Working, AfterError
  <2>. QED  BY <1>2, <2>1, TablesKept
<1>3. CASE /\ headers' = [h \in Heights |-> Inserted(h)]
           /\ backfillNext' = ProgressAfter(low)
           /\ hb' = IF low = 0 THEN HbAt("done")
                    ELSE [hb EXCEPT !.pc = "tip", !.next = low - 1, !.batch = NoRows]
  <2>1. PICK bottom \in Heights :
          /\ HoldsFrom(bottom) /\ bottom <= hb.next + 1
          /\ bottom = low \/ (GenesisMayBeMissing /\ low = 0 /\ bottom = 1)
    <3>1. CASE HoldsFrom(low)
      BY <1>1, <3>1
    <3>2. CASE GenesisMayBeMissing /\ low = 0 /\ HoldsFrom(1)
      <4>1. 1 \in Heights /\ 1 <= hb.next + 1
        BY <1>1, ChainAssumption, ConstantTypes DEF Heights
      <4>. QED  BY <3>2, <4>1
    <3>. QED  BY <1>1, <3>1, <3>2 DEF WorksBelowLowest
  <2>2. /\ LowestRecorded' = {bottom} /\ NoHole' /\ ArchiveFirst' # {}
        /\ \A h \in Heights : headers'[h] # NoHash => \E a \in ArchiveFirst' : h < a
    BY <1>1, <1>3, <2>1, BatchCommitted
  <2>3. RowsBelowArchive'
    BY <2>2 DEF RowsBelowArchive
  <2>. HIDE DEF low
  <2>4. CASE low = 0
    <3>1. backfillNext' = Finished /\ Finished \notin Heights
      BY <1>3, <2>4, HeightsAreNumbers DEF ProgressAfter, Finished
    <3>2. ProgressTellsTruth'
      BY <2>1, <2>2, <2>4, <3>1 DEF ProgressTellsTruth
    <3>3. WorksBelowLowest'
      BY <1>3, <2>4, FreshThread DEF WorksBelowLowest, Working
    <3>. QED  BY <2>2, <2>3, <3>2, <3>3
  <2>5. CASE low # 0
    <3>1. backfillNext' = low - 1 /\ (low - 1) + 1 = low /\ low - 1 # Finished
      BY <1>1, <1>3, <2>5 DEF ProgressAfter, Finished
    <3>2. LowestRecorded' = {low}
      BY <2>1, <2>2, <2>5
    <3>3. ProgressTellsTruth'
      BY <3>1, <3>2 DEF ProgressTellsTruth
    <3>4. /\ hb'.pc = "tip" /\ hb'.next = low - 1
          /\ \A h \in Heights : hb'.batch[h] = NoHash
      BY <1>1, <1>3, <2>5 DEF HbType, NoRows
    <3>5. WorksBelowLowest'
      BY <2>2, <3>1, <3>2, <3>4 DEF WorksBelowLowest, Working
    <3>. QED  BY <2>2, <2>3, <3>3, <3>5
  <2>. QED  BY <2>4, <2>5
<1>4. QED
  BY <1>2, <1>3 DEF HbCommit

LEMMA ProgressStep ==
    ASSUME "advance" \notin InterruptAt, ProgressInv, [HNext]_<<vars, hvars>>
    PROVE  ProgressInv'
<1>1. HInv' /\ OneInv' /\ [Next]_vars
  BY HTypeStep, StepOfLoop, OneStep DEF ProgressInv
<1>2. CASE /\ UNCHANGED <<headers, backfillNext>>
           /\ UNCHANGED hb \/ hb' = HbAt("begin") \/ hb' = HbAt("off")
  <2>1. UNCHANGED hb \/ ~Working'
    BY <1>2, FreshThread DEF Working
  <2>. QED  BY <1>1, <1>2, <2>1, LoopKeepsProgress
<1>3. CASE HbFails
  BY <1>2, <1>3 DEF HbFails, AfterError
<1>4. CASE Backfill /\ UNCHANGED vars
  BY <1>1, <1>4, HbBeginProgress, HbCheckProgress, HbFetchProgress, HbCommitProgress
  DEF Backfill
<1>5. QED
  BY <1>2, <1>3, <1>4 DEF HNext, hvars

LEMMA ProgressInit == HInit => ProgressInv
<1>. SUFFICES ASSUME HInit PROVE ProgressInv
  OBVIOUS
<1>1. HInv /\ OneInv
  BY HTypeInit, OneInit DEF HInit
<1>2. \A h \in Heights : headers[h] = NoHash
  BY DEF HInit, NoRows
<1>3. hb.pc = "off" /\ backfillNext = Unset
  BY FreshThread DEF HInit
<1>4. backfillNext \notin Heights \cup {Finished}
  BY <1>3, HeightsAreNumbers DEF Unset, Finished
<1>5. QED
  BY <1>1, <1>2, <1>3, <1>4
  DEF ProgressInv, RowsBelowArchive, NoHole, WorksBelowLowest, Working, ProgressTellsTruth

\* The progress entry always names the height right below the lowest row on record, and
\* "done" is there only when nothing is left to copy, whatever the loop records and the node
\* reorganizes meanwhile; the loop must not be cut short between a block's commit and the
\* commit of last_processed_height.
THEOREM ProgressTellsTruthHolds ==
    ASSUME "advance" \notin InterruptAt
    PROVE  HSpec => []ProgressTellsTruth
<1>1. ProgressInv => ProgressTellsTruth
  BY DEF ProgressInv
<1>2. ProgressInv /\ [HNext]_<<vars, hvars>> => ProgressInv'
  BY ProgressStep
<1>3. QED
  BY <1>1, <1>2, ProgressInit, PTL DEF HSpec

-----------------------------------------------------------------------------
(* The chain of the header-only rows.                                      *)

Shows(h) == CanonicalHash(db[h])

\* Until the node reorganizes, everything on record is its own and nothing is replaced.
NotReorganized ==
    node.reorgs = 0 =>
        /\ \A h \in Heights : Shows(h) # NoHash => Shows(h) = NodeHash(h)
        /\ ix.pc \notin {"replace", "swap"}
        /\ ix.pc = "store" => ix.hash = NodeHash(ix.h)

\* With one reorganization a replacement is fetched after it.
ReplacesByCurrent ==
    node.reorgs <= 1 /\ ix.pc = "swap" => ix.hash = NodeHash(ix.h)

\* The thread has not fetched a header since it began the batch.
Expecting == hb.pc \in {"tip", "check"} \/ (hb.pc = "fetch" /\ hb.h = hb.next)

\* What is expected, held or recorded right below the archive's first block is its parent.
\* An expectation may be out of date if the loop replaced the block after the node's one
\* reorganization, and then the block is the node's.
SeamHolds ==
    \A a \in ArchiveFirst : a > 0 /\ node.reorgs <= 1 =>
        LET parent == ParentOf(Shows(a), a) IN
        /\ headers[a - 1] # NoHash => headers[a - 1] = parent
        /\ Working /\ hb.batch[a - 1] # NoHash => hb.batch[a - 1] = parent
        /\ Expecting /\ hb.next = a - 1 =>
             hb.expected = parent \/ (node.reorgs = 1 /\ Shows(a) = NodeHash(a))

ChainInv ==
    /\ ProgressInv
    /\ FinalInv
    /\ NoSkipInv
    /\ NotReorganized
    /\ ReplacesByCurrent
    /\ SeamHolds

\* A canonical block is shown.
LEMMA CanonicalShown ==
    ASSUME NEW s, Tidy(s), \A x \in Chains : s.status[x] \in Int
    PROVE  /\ AnyCanonical(s) => CanonicalHash(s) \in Chains /\ CanonicalHash(s) # NoHash
           /\ \A x \in Chains : IsNewest(s, x) => CanonicalHash(s) = x
<1>1. \A x \in Chains : IsCanonical(s, x) => IsNewest(s, x)
  BY DEF Tidy, IsCanonical, IsNewest
<1>2. \A x \in Chains : IsNewest(s, x) => IsCanonical(s, x)
  BY DEF IsCanonical, IsNewest
<1>3. AnyCanonical(s) => CanonicalHash(s) \in Chains
  BY <1>1 DEF AnyCanonical, CanonicalHash
<1>4. \A x \in Chains : IsNewest(s, x) => CanonicalHash(s) = x
  BY <1>2 DEF Tidy, CanonicalHash
<1>5. QED
  BY <1>3, <1>4, ConstantTypes

\* The first block on record is canonical.
LEMMA FirstIsShown ==
    ASSUME NoSkipInv, NEW a \in Heights, AnyRow(db[a])
    PROVE  Shows(a) \in Chains
<1>1. TypeOK /\ OneInv /\ db[a] \in ShelfType /\ Tidy(db[a])
  BY DEF NoSkipInv, OneInv, TypeInv, TypeOK
<1>2. AnyCanonical(db[a])
  <2>1. CASE lastProcessed < a
    BY <1>1, <2>1 DEF OneInv, FreshAbove, NoSkipInv, AdvancesOverBlock
  <2>2. CASE ~(lastProcessed < a)
    <3>1. lastProcessed \in Int /\ a \in Int
      BY <1>1, HeightsAreNumbers DEF TypeOK, NoHeight
    <3>2. a <= a /\ a <= lastProcessed
      BY <2>2, <3>1
    <3>. QED  BY <3>2 DEF NoSkipInv, NoHeightSkipped
  <2>. QED  BY <2>1, <2>2
<1>3. QED
  BY <1>1, <1>2, StatusType, CanonicalShown DEF Shows

LEMMA ReorgCount ==
    ASSUME node \in NodeType, NodeStep
    PROVE  /\ node.reorgs \in Nat
           /\ \/ node'.reorgs = node.reorgs /\ \A h : NodeHash(h)' = NodeHash(h)
              \/ node'.reorgs = node.reorgs + 1
<1>1. node.reorgs \in Nat
  BY ChainAssumption DEF NodeType
<1>2. CASE NodeExtend
  BY <1>2 DEF NodeExtend, NodeType, NodeHash
<1>3. CASE \E c \in Chains : NodeReorg(c)
  <2>1. PICK c \in Chains : NodeReorg(c)
    BY <1>3
  <2>2. PICK t \in SplitAt(node.chain, c)..MaxHeight :
           node' = [chain |-> c, tip |-> t, reorgs |-> node.reorgs + 1]
    BY <2>1 DEF NodeReorg
  <2>. QED  BY <1>1, <2>2
<1>4. QED
  BY <1>1, <1>2, <1>3 DEF NodeStep

\* What the loop's steps do to the block shown at a height: only its two transactions
\* change it, and they show the hash they write.
LEMMA ShownSteps ==
    ASSUME NoSkipInv, OneInv', [Next]_vars, NEW h \in Heights
    PROVE  \/ Shows(h)' = Shows(h)
           \/ (CommitBlock \/ CommitReplacement) /\ h = ix.h /\ Shows(h)' = ix.hash
<1>1. /\ OneInv /\ TypeInv /\ TypeOK /\ ix \in IxType /\ ix.h \in Heights
      /\ db \in [Heights -> ShelfType] /\ HashInHand /\ WithinNode
  BY DEF NoSkipInv, OneInv, TypeInv, TypeOK, IxType
<1>2. db'[h] \in ShelfType /\ Tidy(db'[h])
  BY DEF OneInv, TypeInv, TypeOK
<1>3. CASE db'[h].status = db[h].status
  BY <1>3 DEF Shows, CanonicalHash, IsNewest
<1>4. ASSUME IsNewest(db'[h], ix.hash), ix.hash \in Chains
      PROVE  Shows(h)' = ix.hash
  <2>1. \A x \in Chains : db'[h].status[x] \in Int
    BY <1>2, StatusType
  <2>. QED  BY <1>2, <1>4, <2>1, CanonicalShown DEF Shows
<1>5. CASE CommitBlock
  <2>1. ix.pc = "store" /\ ix.hash \in Chains
    BY <1>1, <1>5 DEF CommitBlock, HashInHand
  <2>2. ~AnyCanonical(db[ix.h])
    <3>1. ~AnyRow(db[ix.h])
      BY <1>1, <2>1 DEF OneInv, FreshAbove, WorksAbove
    <3>. QED  BY <3>1, CanonicalHasRow
  <2>3. PICK s : db' = [db EXCEPT ![ix.h] = s] /\ IsNewest(s, ix.hash)
    BY <1>1, <1>5, <2>1, <2>2, StoreBlockTidy, RecordGapBlockTidy DEF CommitBlock, OneInv
  <2>4. h # ix.h => db'[h] = db[h]
    BY <1>1, <2>3
  <2>5. h = ix.h => IsNewest(db'[h], ix.hash)
    BY <1>1, <2>3
  <2>. QED  BY <1>3, <1>4, <1>5, <2>1, <2>4, <2>5
<1>6. CASE CommitReplacement
  <2>. DEFINE s == MarkOrphaned(db[ix.h], ix.old)
  <2>1. ix.pc = "swap" /\ ix.hash \in Chains
    BY <1>1, <1>6 DEF CommitReplacement, WithinNode
  <2>2. ix.old \in Chains /\ IsNewest(db[ix.h], ix.old)
    BY <1>1, <2>1 DEF OneInv, ReplacesCanonical
  <2>3. s \in ShelfType /\ ~AnyCanonical(s)
    BY <1>1, <2>2, MarkOrphanedType, MarkOrphanedTidy DEF OneInv
  <2>4. db' = [db EXCEPT ![ix.h] = RecordReplacement(s, ix.hash, ix.body)]
    BY <1>6 DEF CommitReplacement
  <2>. HIDE DEF s
  <2>5. IsNewest(RecordReplacement(s, ix.hash, ix.body), ix.hash)
    BY <2>1, <2>3, ConstantTypes, StoreBlockTidy, RecordGapBlockTidy DEF RecordReplacement
  <2>6. h # ix.h => db'[h] = db[h]
    BY <1>1, <2>4
  <2>7. h = ix.h => IsNewest(db'[h], ix.hash)
    BY <1>1, <2>4, <2>5
  <2>. QED  BY <1>3, <1>4, <1>6, <2>1, <2>6, <2>7
<1>7. QED
  BY <1>1, <1>3, <1>5, <1>6, StatusWriters

\* The hashes the loop takes into its hands are the node's of that moment.
LEMMA LoopHashes ==
    ASSUME NoSkipInv, [Next]_vars
    PROVE  /\ ix'.pc = "store" => ix' = ix \/ (ix'.h = ix.h /\ ix'.hash = NodeHash(ix.h))
           /\ ix'.pc = "swap" =>
                ix' = ix \/ (ix.pc = "replace" /\ ix'.h = ix.h /\ ix'.hash = NodeHash(ix.h))
           /\ ix'.pc = "replace" =>
                ix' = ix \/ (Shows(ix.h) # NoHash /\ Shows(ix.h) # NodeHash(ix.h))
<1>1. /\ ix \in IxType /\ ix.h \in Heights /\ node \in NodeType /\ WithinNode
      /\ ix.h \in Int /\ ix.tip \in Int /\ node.tip \in Int
  <2>1. ix \in IxType /\ ix.h \in Heights /\ ix.tip \in Heights /\ node \in NodeType
        /\ node.tip \in Heights /\ WithinNode
    BY DEF NoSkipInv, OneInv, TypeInv, TypeOK, IxType, NodeType
  <2>. QED  BY <2>1, HeightsAreNumbers
<1>2. CASE ix' = ix \/ ix'.pc \notin {"store", "swap", "replace"}
  BY <1>2
<1>3. CASE NodeMoves \/ Prune \/ Filler \/ UNCHANGED vars
  BY <1>2, <1>3 DEF NodeMoves, Prune, Filler, FillerList, FillerAsk, FillerCommit, FillerEnd,
                    vars
<1>4. CASE Start \/ Killed \/ PollFails \/ EndPoll \/ CommitRecovered \/ ListGaps \/ BeginPoll
           \/ Advance \/ CommitBlock \/ CommitReplacement
  BY <1>2, <1>4, LoopPlaces
  DEF Start, Killed, PollFails, EndPoll, CommitRecovered, ListGaps, BeginPoll, Advance,
      CommitBlock, CommitReplacement, At
<1>5. CASE RetryGap
  BY <1>1, <1>2, <1>5 DEF RetryGap, IxType
<1>6. CASE FetchBlock
  BY <1>1, <1>2, <1>6, LoopPlaces DEF FetchBlock, IxType
<1>7. CASE CheckHeader
  BY <1>1, <1>2, <1>7, LoopPlaces DEF CheckHeader, Shows, IxType
<1>8. CASE FetchReplacement
  <2>1. ix.pc = "replace" /\ HasHeader(ix.h)
    <3>1. ix.pc = "replace"
      BY <1>8 DEF FetchReplacement
    <3>2. ix.h <= ix.tip /\ ix.tip <= node.tip
      BY <1>1, <3>1 DEF WithinNode
    <3>. QED  BY <1>1, <3>1, <3>2 DEF HasHeader
  <2>2. PICK b : ix' = [ix EXCEPT !.pc = "swap", !.hash = NodeHash(ix.h), !.body = b]
    BY <1>8, <2>1 DEF FetchReplacement
  <2>. QED  BY <1>1, <2>1, <2>2 DEF IxType
<1>9. QED
  BY <1>3, <1>4, <1>5, <1>6, <1>7, <1>8 DEF Next, Poll

\* The node's reorganizations are counted, and its moves are steps of their own.
LEMMA NodeCounts ==
    ASSUME TypeInv, [HNext]_<<vars, hvars>>
    PROVE  /\ node.reorgs \in Nat
           /\ \/ node'.reorgs = node.reorgs /\ \A h : NodeHash(h)' = NodeHash(h)
              \/ node'.reorgs = node.reorgs + 1 /\ UNCHANGED <<db, ix, hvars>>
<1>1. node \in NodeType /\ node.reorgs \in Nat
  BY ChainAssumption DEF TypeInv, TypeOK, NodeType
<1>2. CASE UNCHANGED node
  BY <1>1, <1>2 DEF NodeHash
<1>3. CASE NodeMoves /\ UNCHANGED hvars
  BY <1>1, <1>3, ReorgCount DEF NodeMoves
<1>4. QED
  BY <1>2, <1>3
  DEF HNext, Backfill, HbFails, PollFails, Poll, Prune, Filler, Start, Killed, BeginPoll,
      FetchBlock, CommitBlock, Advance, CheckHeader, FetchReplacement, CommitReplacement,
      ListGaps, RetryGap, CommitRecovered, EndPoll, FillerList, FillerAsk, FillerCommit,
      FillerEnd, vars

LEMMA ReorganizedStep ==
    ASSUME NoSkipInv, OneInv', NotReorganized, ReplacesByCurrent, [HNext]_<<vars, hvars>>
    PROVE  NotReorganized' /\ ReplacesByCurrent'
<1>1. [Next]_vars /\ TypeInv
  BY StepOfLoop DEF NoSkipInv, OneInv
<1>2. /\ node.reorgs \in Nat
      /\ \/ node'.reorgs = node.reorgs /\ \A h : NodeHash(h)' = NodeHash(h)
         \/ node'.reorgs = node.reorgs + 1 /\ UNCHANGED <<db, ix, hvars>>
  BY <1>1, NodeCounts
<1>3. NotReorganized'
  <2>. SUFFICES ASSUME node'.reorgs = 0
                PROVE  /\ \A h \in Heights : Shows(h)' # NoHash => Shows(h)' = NodeHash(h)'
                       /\ ix'.pc \notin {"replace", "swap"}
                       /\ ix'.pc = "store" => ix'.hash = NodeHash(ix.h)'
    BY DEF NotReorganized
  <2>1. node.reorgs = 0 /\ \A h : NodeHash(h)' = NodeHash(h)
    BY <1>2
  <2>2. /\ \A h \in Heights : Shows(h) # NoHash => Shows(h) = NodeHash(h)
        /\ ix.pc \notin {"replace", "swap"}
        /\ ix.pc = "store" => ix.hash = NodeHash(ix.h)
    BY <2>1 DEF NotReorganized
  <2>3. ASSUME NEW h \in Heights, Shows(h)' # NoHash PROVE Shows(h)' = NodeHash(h)'
    <3>1. CASE Shows(h)' = Shows(h)
      BY <2>1, <2>2, <2>3, <3>1
    <3>2. CASE (CommitBlock \/ CommitReplacement) /\ h = ix.h /\ Shows(h)' = ix.hash
      BY <2>1, <2>2, <3>2 DEF CommitBlock, CommitReplacement
    <3>. QED  BY <1>1, <3>1, <3>2, ShownSteps
  <2>4. ix.h \in Heights
    BY <1>1 DEF TypeInv, TypeOK, IxType
  <2>5. ix'.pc \notin {"replace", "swap"}
    BY <1>1, <2>2, <2>4, LoopHashes
  <2>6. ix'.pc = "store" => ix'.hash = NodeHash(ix.h)'
    BY <1>1, <2>1, <2>2, LoopHashes
  <2>. QED  BY <2>3, <2>5, <2>6
<1>4. ReplacesByCurrent'
  <2>. SUFFICES ASSUME node'.reorgs <= 1, ix'.pc = "swap"
                PROVE  ix'.hash = NodeHash(ix.h)'
    BY DEF ReplacesByCurrent
  <2>1. CASE node'.reorgs = node.reorgs /\ \A h : NodeHash(h)' = NodeHash(h)
    BY <1>1, <2>1, LoopHashes DEF ReplacesByCurrent
  <2>2. CASE node'.reorgs = node.reorgs + 1 /\ UNCHANGED ix
    <3>1. node.reorgs = 0
      BY <1>2, <2>2
    <3>. QED  BY <2>2, <3>1 DEF NotReorganized
  <2>. QED  BY <1>2, <2>1, <2>2
<1>5. QED
  BY <1>3, <1>4

\* The numbers around the archive's first block.
LEMMA BelowFirst ==
    ASSUME ProgressInv, NEW a \in ArchiveFirst
    PROVE  /\ a \in Heights /\ a \in Int /\ AnyRow(db[a]) /\ ArchiveFirst = {a}
           /\ a > 0 => a - 1 \in Heights
           /\ headers[a] = NoHash
           /\ hb.next \in Int /\ hb.h \in Int /\ hb.next \in Heights /\ hb.h \in Heights
           /\ Working => hb.next < a
<1>1. ArchiveFirst = {a} /\ a \in Heights /\ AnyRow(db[a])
  BY OneFirst, FirstIs
<1>2. a \in Int /\ hb.next \in Heights /\ hb.h \in Heights /\ hb.next \in Int /\ hb.h \in Int
  <2>1. hb.next \in Heights /\ hb.h \in Heights
    BY DEF ProgressInv, HInv, HTypeOK, HbType
  <2>. QED  BY <1>1, <2>1, HeightsAreNumbers
<1>3. a > 0 => a - 1 \in Heights
  BY <1>1, ConstantTypes DEF Heights
<1>4. headers[a] = NoHash
  BY <1>1, <1>2 DEF ProgressInv, RowsBelowArchive
<1>5. Working => hb.next + 1 <= a
  BY <1>1, LowestRecordedIs DEF ProgressInv, WorksBelowLowest, OnRecord
<1>6. QED
  BY <1>1, <1>2, <1>3, <1>4, <1>5

\* The block below one of the node's is the node's.
LEMMA NodeParent ==
    ASSUME node \in NodeType, NEW a \in Int
    PROVE  ParentOf(NodeHash(a), a) = NodeHash(a - 1)
BY ParentOnChain DEF NodeHash, NodeType

LEMMA LoopKeepsSeam ==
    ASSUME ChainInv, ProgressInv', OneInv', [HNext]_<<vars, hvars>>,
           UNCHANGED headers, UNCHANGED hb \/ ~Working'
    PROVE  SeamHolds'
<1>. USE DEF ChainInv
<1>0. /\ [Next]_vars /\ OneInv /\ TypeInv /\ node \in NodeType /\ ix.h \in Heights
      /\ Expecting' => Working'
  BY StepOfLoop DEF NoSkipInv, OneInv, TypeInv, TypeOK, IxType, Expecting, Working
<1>1. CASE ArchiveFirst = {}
  <2>1. \A h \in Heights : headers'[h] = NoHash
    BY <1>1 DEF ProgressInv, RowsBelowArchive
  <2>2. ~Working'
    <3>1. ~Working
      BY <1>1 DEF ProgressInv, WorksBelowLowest
    <3>. QED  BY <3>1 DEF Working
  <2>3. \A a \in ArchiveFirst' : a > 0 => a - 1 \in Heights
    BY ConstantTypes DEF ArchiveFirst, Lowest, Heights
  <2>. QED  BY <1>0, <2>1, <2>2, <2>3 DEF SeamHolds
<1>2. ASSUME ArchiveFirst # {} PROVE SeamHolds'
  <2>1. PICK a : a \in ArchiveFirst
    BY <1>2
  <2>2. ArchiveFirst = {a} /\ ArchiveFirst' = {a}
    BY <1>0, <1>2, <2>1, OneFirst, FirstStays
  <2>. SUFFICES ASSUME a > 0, node'.reorgs <= 1
       PROVE  LET parent == ParentOf(Shows(a)', a) IN
              /\ headers[a - 1] # NoHash => headers[a - 1] = parent
              /\ Working' /\ hb'.batch[a - 1] # NoHash => hb'.batch[a - 1] = parent
              /\ Expecting' /\ hb'.next = a - 1 =>
                   hb'.expected = parent
                     \/ (node'.reorgs = 1 /\ Shows(a)' = NodeHash(a)')
    <3>1. PICK b : b = a
      OBVIOUS
    <3>. QED  BY <2>2, <3>1 DEF SeamHolds, ParentOf, HashAt
  <2>3. /\ a \in Heights /\ a \in Int /\ AnyRow(db[a]) /\ a - 1 \in Heights
    BY <2>1, BelowFirst
  <2>4. /\ node.reorgs \in Nat
        /\ \/ node'.reorgs = node.reorgs /\ NodeHash(a)' = NodeHash(a)
           \/ node'.reorgs = node.reorgs + 1 /\ UNCHANGED <<db, ix, hvars>>
    BY <1>0, NodeCounts
  <2>. DEFINE parent == ParentOf(Shows(a), a)
  <2>5. /\ headers[a - 1] # NoHash => headers[a - 1] = parent
        /\ Working /\ hb.batch[a - 1] # NoHash => hb.batch[a - 1] = parent
        /\ Expecting /\ hb.next = a - 1 =>
             hb.expected = parent \/ (node.reorgs = 1 /\ Shows(a) = NodeHash(a))
    BY <2>1, <2>4 DEF SeamHolds
  <2>6. Expecting' => Expecting /\ Working /\ Working' /\ UNCHANGED hb
    BY DEF Expecting, Working
  <2>7. Working' => Working /\ UNCHANGED hb
    BY DEF Working
  <2>8. CASE Shows(a)' = Shows(a) /\ node'.reorgs = node.reorgs
    BY <2>4, <2>5, <2>6, <2>7, <2>8
  <2>9. CASE node'.reorgs = node.reorgs + 1 /\ UNCHANGED <<db, ix, hvars>>
    <3>1. node.reorgs # 1 /\ Shows(a)' = Shows(a)
      BY <2>4, <2>9 DEF Shows
    <3>. QED  BY <2>5, <2>6, <2>7, <3>1
  <2>10. CASE Shows(a)' # Shows(a) /\ node'.reorgs = node.reorgs
    <3>1. (CommitBlock \/ CommitReplacement) /\ a = ix.h /\ Shows(a)' = ix.hash
      BY <1>0, <2>3, <2>10, ShownSteps
    <3>2. ~CommitBlock
      BY <1>0, <2>3, <3>1 DEF CommitBlock, OneInv, FreshAbove, WorksAbove
    <3>3. ix.pc = "swap" /\ node.reorgs <= 1
      BY <2>10, <3>1, <3>2 DEF CommitReplacement
    <3>4. Shows(a)' = NodeHash(a) /\ node.reorgs = 1
      BY <2>4, <3>1, <3>3 DEF ReplacesByCurrent, NotReorganized
    <3>5. ParentOf(Shows(a)', a) = NodeHash(a - 1)
      BY <1>0, <2>3, <3>4, NodeParent
    <3>6. /\ headers[a - 1] # NoHash => headers[a - 1] = NodeHash(a - 1)
          /\ hb.batch[a - 1] # NoHash => hb.batch[a - 1] = NodeHash(a - 1)
      BY <2>3 DEF FinalInv
    <3>7. NodeHash(a)' = NodeHash(a)
      BY <2>4, <2>10
    <3>. QED  BY <2>7, <2>10, <3>4, <3>5, <3>6, <3>7
  <2>. QED  BY <2>4, <2>8, <2>9, <2>10
<1>3. QED
  BY <1>1, <1>2

\* A step of the thread, with the archive's first block and the node as they are.
LEMMA ThreadKeepsSeam ==
    ASSUME ChainInv, Backfill \/ HbFails, UNCHANGED vars
    PROVE  SeamHolds'
<1>. USE DEF ChainInv
<1>0. /\ UNCHANGED <<db, node>> /\ node \in NodeType /\ hb \in HbType
      /\ ArchiveFirst' = ArchiveFirst /\ \A h : Shows(h)' = Shows(h)
  BY DEF vars, NoSkipInv, OneInv, TypeInv, TypeOK, FinalInv, HInv, HTypeOK, ArchiveFirst, Shows
<1>. SUFFICES ASSUME NEW a \in ArchiveFirst, a > 0, node.reorgs <= 1
     PROVE  LET parent == ParentOf(Shows(a), a) IN
            /\ headers'[a - 1] # NoHash => headers'[a - 1] = parent
            /\ Working' /\ hb'.batch[a - 1] # NoHash => hb'.batch[a - 1] = parent
            /\ Expecting' /\ hb'.next = a - 1 =>
                 hb'.expected = parent \/ (node.reorgs = 1 /\ Shows(a) = NodeHash(a))
  BY <1>0 DEF SeamHolds, NodeHash
<1>1. /\ a \in Heights /\ a \in Int /\ AnyRow(db[a]) /\ a - 1 \in Heights
      /\ headers[a] = NoHash
      /\ hb.next \in Int /\ hb.h \in Int /\ hb.next \in Heights /\ hb.h \in Heights
      /\ Working => hb.next < a
  BY BelowFirst
<1>. DEFINE parent == ParentOf(Shows(a), a)
<1>2. /\ headers[a - 1] # NoHash => headers[a - 1] = parent
      /\ Working /\ hb.batch[a - 1] # NoHash => hb.batch[a - 1] = parent
      /\ Expecting /\ hb.next = a - 1 =>
           hb.expected = parent \/ (node.reorgs = 1 /\ Shows(a) = NodeHash(a))
  BY DEF SeamHolds
<1>. HIDE DEF parent
<1>. SUFFICES /\ headers'[a - 1] # NoHash => headers'[a - 1] = parent
              /\ Working' /\ hb'.batch[a - 1] # NoHash => hb'.batch[a - 1] = parent
              /\ Expecting' /\ hb'.next = a - 1 =>
                   hb'.expected = parent \/ (node.reorgs = 1 /\ Shows(a) = NodeHash(a))
  BY DEF parent
<1>3. ASSUME UNCHANGED headers, hb' = HbAt("begin") \/ hb' = HbAt("done")
      PROVE  /\ headers'[a - 1] # NoHash => headers'[a - 1] = parent
             /\ ~Working' /\ ~Expecting'
  BY <1>2, <1>3, FreshThread DEF Working, Expecting
<1>4. CASE HbFails
  BY <1>3, <1>4 DEF HbFails, AfterError
<1>5. CASE HbBegin
  <2>1. UNCHANGED headers
    BY <1>5 DEF HbBegin
  <2>2. CASE hb' # HbAt("done")
    <3>1. PICK low \in LowestRecorded :
               hb' = [HbAt("tip") EXCEPT !.next = low - 1,
                                         !.expected = ParentOf(RowAt(low), low)]
      BY <1>5, <2>2 DEF HbBegin
    <3>2. /\ hb'.pc = "tip" /\ hb'.batch = HbAt("tip").batch /\ hb'.next = low - 1
          /\ hb'.expected = ParentOf(RowAt(low), low)
      BY <3>1 DEF HbAt
    <3>3. low \in Int
      BY <3>1, HeightsAreNumbers DEF LowestRecorded, Lowest
    <3>4. hb'.next = a - 1 => low = a
      BY <1>1, <3>2, <3>3
    <3>5. RowAt(a) = Shows(a)
      BY <1>1 DEF RowAt, Shows
    <3>6. hb'.next = a - 1 => hb'.expected = parent
      BY <3>2, <3>4, <3>5 DEF parent
    <3>. QED  BY <1>1, <1>2, <2>1, <3>2, <3>6, FreshThread
  <2>. QED  BY <1>3, <2>1, <2>2
<1>6. CASE HbTip \/ HbCheck
  <2>1. /\ UNCHANGED headers /\ hb'.next = hb.next /\ hb'.batch = hb.batch
        /\ hb'.expected = hb.expected /\ hb.pc \in {"tip", "check"}
    BY <1>0, <1>6 DEF HbTip, HbCheck, HbType
  <2>2. Working /\ Expecting
    BY <2>1 DEF Working, Expecting
  <2>. QED  BY <1>2, <2>1, <2>2
<1>7. CASE HbFetch
  <2>0. UNCHANGED headers /\ hb.pc = "fetch" /\ Working
    BY <1>7 DEF HbFetch, Working
  <2>1. CASE hb' = AfterError(hb)
    BY <1>3, <2>0, <2>1 DEF AfterError
  <2>2. CASE hb' = [hb EXCEPT !.pc = "commit"]
    <3>1. hb'.pc = "commit" /\ hb'.batch = hb.batch
      BY <1>0, <2>2 DEF HbType
    <3>. QED  BY <1>2, <2>0, <3>1 DEF Expecting
  <2>3. CASE /\ Fits(hb.h, hb.expected)
             /\ hb' = [hb EXCEPT
                        !.pc = IF hb.h = BatchLow(hb.next) THEN "commit" ELSE "fetch",
                        !.h = Monus(hb.h, 1),
                        !.expected = ParentOf(NodeHash(hb.h), hb.h),
                        !.batch[hb.h] = NodeHash(hb.h)]
    <3>1. /\ hb'.next = hb.next /\ hb'.h = Monus(hb.h, 1)
          /\ hb'.batch = [hb.batch EXCEPT ![hb.h] = NodeHash(hb.h)]
          /\ hb'.pc = IF hb.h = BatchLow(hb.next) THEN "commit" ELSE "fetch"
      BY <1>0, <2>3 DEF HbType
    <3>2. /\ BatchLow(hb.next) <= hb.h /\ hb.h <= hb.next
          /\ 0 <= BatchLow(hb.next) /\ BatchLow(hb.next) \in Int /\ 0 <= hb.h
      BY <1>1, <2>0, BatchLowIs, HeightsAreNumbers DEF ProgressInv, WorksBelowLowest
    <3>3. ~Expecting'
      <4>1. hb.h # BatchLow(hb.next) => hb'.h < hb'.next
        BY <1>1, <3>1, <3>2 DEF Monus
      <4>2. hb'.h < hb'.next => hb'.h # hb'.next
        <5>1. Monus(hb.h, 1) \in Int
          BY <1>1 DEF Monus
        <5>. QED  BY <1>1, <3>1, <5>1
      <4>. QED  BY <3>1, <4>1, <4>2 DEF Expecting
    <3>4. CASE hb.h # a - 1
      <4>1. hb'.batch[a - 1] = hb.batch[a - 1]
        BY <1>0, <1>1, <3>1, <3>4 DEF HbType
      <4>. QED  BY <1>2, <2>0, <3>3, <4>1
    <3>5. CASE hb.h = a - 1
      <4>1. hb.next = a - 1 /\ Expecting
        BY <1>1, <2>0, <3>2, <3>5 DEF Expecting
      <4>2. hb'.batch[a - 1] = NodeHash(a - 1) /\ NodeHash(a - 1) = hb.expected
        BY <1>0, <1>1, <2>3, <3>1, <3>5 DEF HbType, Fits
      <4>3. Shows(a) = NodeHash(a) => NodeHash(a - 1) = parent
        BY <1>0, <1>1, NodeParent DEF parent
      <4>4. hb'.batch[a - 1] = parent
        BY <1>2, <4>1, <4>2, <4>3
      <4>. QED  BY <1>2, <2>0, <3>3, <4>4
    <3>. QED  BY <3>4, <3>5
  <2>. QED  BY <1>7, <2>1, <2>2, <2>3 DEF HbFetch
<1>8. CASE HbCommit
  <2>0. Working /\ hb.pc = "commit"
    BY <1>8 DEF HbCommit, Working
  <2>1. CASE hb' = AfterError(hb) /\ UNCHANGED headers
    BY <1>3, <2>1 DEF AfterError
  <2>2. CASE headers' = [h \in Heights |-> Inserted(h)]
    <3>1. headers'[a - 1] # NoHash => headers'[a - 1] = parent
      <4>1. headers'[a - 1] = Inserted(a - 1)
        BY <1>1, <2>2
      <4>. QED  BY <1>2, <2>0, <4>1 DEF Inserted
    <3>2. hb' = HbAt("done") \/ hb' = AfterError(hb) => ~Working' /\ ~Expecting'
      BY FreshThread DEF Working, Expecting, AfterError
    <3>3. CASE hb' = [hb EXCEPT !.pc = "tip", !.next = BatchLow(hb.next) - 1, !.batch = NoRows]
      <4>1. hb'.next = BatchLow(hb.next) - 1 /\ hb'.batch = NoRows
        BY <1>0, <3>3 DEF HbType
      <4>2. BatchLow(hb.next) <= hb.next /\ BatchLow(hb.next) \in Int
        BY <1>1, BatchLowIs, HeightsAreNumbers
      <4>3. hb'.next # a - 1
        BY <1>1, <2>0, <4>1, <4>2
      <4>4. hb'.batch[a - 1] = NoHash
        BY <1>1, <4>1 DEF NoRows
      <4>. QED  BY <3>1, <4>3, <4>4
    <3>. QED  BY <1>8, <3>1, <3>2, <3>3 DEF HbCommit
  <2>. QED  BY <1>8, <2>1, <2>2 DEF HbCommit
<1>9. QED
  BY <1>4, <1>5, <1>6, <1>7, <1>8 DEF Backfill

LEMMA ChainStep ==
    ASSUME "advance" \notin InterruptAt, ~NodeMayShrink, MaxReorgDepth <= FinalDepth,
           ChainInv, [HNext]_<<vars, hvars>>
    PROVE  ChainInv'
<1>1. ProgressInv' /\ FinalInv' /\ NoSkipInv' /\ OneInv'
  BY StepOfLoop, ProgressStep, FinalStep, NoSkipStep DEF ChainInv, NoSkipInv
<1>2. NotReorganized' /\ ReplacesByCurrent'
  BY <1>1, ReorganizedStep DEF ChainInv
<1>3. SeamHolds'
  <2>1. CASE (Backfill \/ HbFails) /\ UNCHANGED vars
    BY <2>1, ThreadKeepsSeam
  <2>2. CASE UNCHANGED headers /\ (UNCHANGED hb \/ hb' = HbAt("begin") \/ hb' = HbAt("off"))
    <3>1. UNCHANGED hb \/ ~Working'
      BY <2>2, FreshThread DEF Working
    <3>. QED  BY <1>1, <2>2, <3>1, LoopKeepsSeam
  <2>. QED  BY <2>1, <2>2 DEF HNext, hvars
<1>4. QED
  BY <1>1, <1>2, <1>3 DEF ChainInv

LEMMA ChainInit == HInit => ChainInv
<1>. SUFFICES ASSUME HInit PROVE ChainInv
  OBVIOUS
<1>1. ProgressInv /\ FinalInv /\ NoSkipInv
  BY ProgressInit, FinalInit, NoSkipInit DEF HInit
<1>2. \A h \in Heights : Shows(h) = NoHash /\ ~AnyRow(db[h])
  <2>1. \A h \in Heights : db[h] = EmptyShelf
    BY DEF HInit, Init
  <2>2. ~AnyRow(EmptyShelf) /\ ~AnyCanonical(EmptyShelf)
    BY DEF EmptyShelf, AnyRow, AnyCanonical, HasRow, IsCanonical, Absent
  <2>. QED  BY <2>1, <2>2, NoCanonicalHash DEF Shows
<1>3. ix.pc = "down"
  BY LoopPlaces DEF HInit, Init
<1>4. ArchiveFirst = {}
  BY <1>2 DEF ArchiveFirst, Lowest
<1>5. QED
  BY <1>1, <1>2, <1>3, <1>4 DEF ChainInv, NotReorganized, ReplacesByCurrent, SeamHolds

LEMMA ChainFormed == ChainInv => HeadersFormChain
<1>. SUFFICES ASSUME ChainInv, NEW h \in Heights, headers[h] # NoHash
              PROVE  /\ \A g \in Heights : AnyRow(db[g]) => h < g
                     /\ RowAt(h + 1) # NoHash
                     /\ headers[h + 1] # NoHash \/ node.reorgs <= 1
                          => headers[h] = ParentOf(RowAt(h + 1), h + 1)
  BY DEF HeadersFormChain
<1>. USE DEF ChainInv
<1>1. PICK a \in ArchiveFirst : h < a
  BY DEF ProgressInv, RowsBelowArchive
<1>2. /\ a \in Heights /\ a \in Int /\ AnyRow(db[a]) /\ ArchiveFirst = {a}
      /\ headers[a] = NoHash /\ h \in Int /\ 0 <= h
  BY BelowFirst, HeightsAreNumbers
<1>3. \A g \in Heights : AnyRow(db[g]) => a <= g
  BY <1>2, FirstIs
<1>4. \A g \in Heights : AnyRow(db[g]) => h < g
  BY <1>1, <1>2, <1>3, HeightsAreNumbers
<1>5. h + 1 \in Heights /\ OnRecord(h + 1) /\ (h + 1) - 1 = h
  BY <1>2 DEF ProgressInv, NoHole
<1>6. CASE headers[h + 1] # NoHash
  <2>1. RowAt(h + 1) = headers[h + 1]
    BY <1>6 DEF RowAt
  <2>2. headers[h] = NodeHash(h) /\ headers[h + 1] = NodeHash(h + 1)
    BY <1>5, <1>6 DEF FinalInv
  <2>3. ParentOf(NodeHash(h + 1), h + 1) = NodeHash(h)
    <3>1. node \in NodeType /\ h + 1 \in Int
      BY <1>2 DEF NoSkipInv, OneInv, TypeInv, TypeOK
    <3>. QED  BY <1>5, <3>1, NodeParent
  <2>. QED  BY <1>4, <1>6, <2>1, <2>2, <2>3
<1>7. CASE headers[h + 1] = NoHash
  <2>1. h + 1 = a
    <3>1. AnyRow(db[h + 1])
      BY <1>5, <1>7 DEF OnRecord
    <3>2. a <= h + 1
      BY <1>3, <1>5, <3>1
    <3>. QED  BY <1>1, <1>2, <3>2
  <2>2. RowAt(h + 1) = Shows(a) /\ Shows(a) # NoHash
    BY <1>2, <2>1, FirstIsShown, ConstantTypes DEF RowAt, Shows
  <2>3. node.reorgs <= 1 => headers[h] = ParentOf(Shows(a), a)
    <3>1. a > 0 /\ a - 1 = h
      BY <1>2, <2>1
    <3>. QED  BY <3>1 DEF SeamHolds
  <2>. QED  BY <1>4, <1>7, <2>1, <2>2, <2>3
<1>8. QED
  BY <1>6, <1>7

\* The header-only rows reach up to the archive's first block without a hole or an overlap,
\* and each is the parent of the one above; the highest is the parent of the archive's first
\* block, whichever block the loop has put there, as long as the node has reorganized at most
\* once (the thread goes on expecting the parent of a block the loop may have replaced).  The
\* protocol's reorg limit is within FINAL_DEPTH, the node's tip does not fall, and the loop
\* is not cut short between a block's commit and the commit of last_processed_height.
THEOREM HeadersFormChainHolds ==
    ASSUME "advance" \notin InterruptAt, ~NodeMayShrink, MaxReorgDepth <= FinalDepth
    PROVE  HSpec => []HeadersFormChain
<1>1. ChainInv /\ [HNext]_<<vars, hvars>> => ChainInv'
  BY ChainStep
<1>2. QED
  BY <1>1, ChainInit, ChainFormed, PTL DEF HSpec
=============================================================================
