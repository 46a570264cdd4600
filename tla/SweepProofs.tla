----------------------------- MODULE SweepProofs -----------------------------
(***************************************************************************)
(* Theorems about LiveSweep.tla for every chain, every set of coins and    *)
(* every division into segments: what the sweep may flag as spent, and     *)
(* what a segment it has committed is worth.                               *)
(***************************************************************************)
EXTENDS LiveSweep, FiniteSetTheorems, TLAPS

-----------------------------------------------------------------------------
(* Constants and counting.                                                 *)

LEMMA ConstantTypes ==
    /\ Main \in Chains /\ NoHash \notin Chains
    /\ MaxHeight \in Nat /\ StartTip \in Heights /\ MaxReorgs \in Nat
    /\ \A c \in Chains : ForkAt[c] \in Nat
    /\ 0 \in Heights /\ MaxHeight \in Heights
    /\ \A h \in Heights : h \in Nat /\ h \in Int /\ 0 <= h /\ h <= MaxHeight
BY ChainAssumption, SweepAssumption DEF Heights

LEMMA NodeHashType ==
    ASSUME node \in NodeType, NEW h
    PROVE  NodeHash(h) \in Chains
BY ConstantTypes DEF NodeHash, HashAt, NodeType

LEMMA CoinsOfSegment ==
    ASSUME NEW seg, NEW coins \in SUBSET Coins
    PROVE  In(seg, coins) \subseteq Coins /\ IsFiniteSet(In(seg, coins))
<1>1. In(seg, coins) \subseteq Coins
  BY DEF In
<1>2. QED
  BY <1>1, SweepAssumption, FS_Subset

\* What the blocks of a chain create and spend are coins.
LEMMA LiveIsCoins ==
    ASSUME node \in NodeType
    PROVE  Live \subseteq Coins
<1>1. \A h \in 0..node.tip : h \in Heights /\ HashAt(node.chain, h) \in Chains
  BY ConstantTypes DEF NodeType, Heights, HashAt
<1>2. CreatedUpTo(node.chain, node.tip) \subseteq Coins
  BY <1>1, SweepAssumption DEF CreatedUpTo
<1>3. QED
  BY <1>2 DEF Live

LEMMA StateMapType ==
    ASSUME node \in NodeType
    PROVE  StateMap \in [Segments -> Nat]
<1>1. \A seg \in Segments : IsFiniteSet(In(seg, Live))
  BY LiveIsCoins, CoinsOfSegment
<1>2. \A seg \in Segments : Cardinality(In(seg, Live)) \in Nat
  BY <1>1, FS_CardinalityType
<1>3. QED
  BY <1>2 DEF StateMap

\* What has been created, or spent, stays so as the chain grows.
LEMMA UpToGrows ==
    ASSUME NEW c, NEW g \in Int, NEW h \in Int, g <= h
    PROVE  /\ CreatedUpTo(c, g) \subseteq CreatedUpTo(c, h)
           /\ SpentUpTo(c, g) \subseteq SpentUpTo(c, h)
<1>1. 0..g \subseteq 0..h
  OBVIOUS
<1>2. QED
  BY <1>1 DEF CreatedUpTo, SpentUpTo

-----------------------------------------------------------------------------
(* Types.                                                                  *)

Reading == {"pace", "read", "commit"}

\* The balances are left out: a sum over a set is beyond the provers.
SweepInv ==
    /\ node \in NodeType
    /\ shown \in [Heights -> Chains \cup {NoHash}]
    /\ bodies \in [Heights -> SUBSET Chains]
    /\ processed \in Heights \cup {NoHeight}
    /\ flagged \subseteq Heights \X Chains \X Coins
    /\ foreign \subseteq Coins
    /\ sw \in SwType
    /\ \A c \in sw.left \cup sw.live : SegmentOf[c] \in sw.seg
    /\ calm \in BOOLEAN
    /\ \A a, b \in sw.seg : a = b
    /\ sw.pc = "commit" => sw.left = {}
    /\ \A h \in Heights : shown[h] # NoHash => h <= processed

LEMMA NumberTypes ==
    ASSUME SweepInv
    PROVE  /\ node.tip \in Heights /\ node.tip \in Int /\ node.chain \in Chains
           /\ sw.start \in Heights /\ sw.start \in Int
<1>1. node.tip \in Heights /\ node.chain \in Chains /\ sw.start \in Heights
  BY DEF SweepInv, NodeType, SwType
<1>2. QED
  BY <1>1, ConstantTypes

LEMMA SwAtType ==
    ASSUME NEW pc \in {"idle", "tip", "segment", "balances", "matched"}
    PROVE  /\ SwAt(pc) \in SwType /\ SwAt(pc).pc = pc
           /\ SwAt(pc).left = {} /\ SwAt(pc).live = {} /\ SwAt(pc).seg = {}
BY ConstantTypes DEF SwAt, SwType

LEMMA NodeTypeStep ==
    ASSUME node \in NodeType, NodeStep
    PROVE  /\ node' \in NodeType
           /\ node'.reorgs = 0 => /\ node.reorgs = 0 /\ node'.chain = node.chain
                                  /\ node.tip <= node'.tip
<1>1. CASE NodeExtend
  BY <1>1, ConstantTypes DEF NodeExtend, NodeType, Heights
<1>2. CASE \E c \in Chains : NodeReorg(c)
  <2>1. PICK c \in Chains : NodeReorg(c)
    BY <1>2
  <2>2. SplitAt(node.chain, c) \in Nat
    BY ConstantTypes DEF SplitAt, NodeType
  <2>3. PICK t \in SplitAt(node.chain, c)..MaxHeight :
          node' = [chain |-> c, tip |-> t, reorgs |-> node.reorgs + 1]
    BY <2>1 DEF NodeReorg
  <2>4. t \in Heights /\ node.reorgs + 1 \in 0..MaxReorgs /\ node.reorgs + 1 # 0
    BY <2>1, <2>2, <2>3, ConstantTypes DEF NodeReorg, NodeType, Heights
  <2>5. QED
    BY <2>3, <2>4 DEF NodeType
<1>3. QED
  BY <1>1, <1>2 DEF NodeStep

\* No other step leads into a segment's read, or to a segment that has been committed.
LEMMA OutsideRead ==
    ASSUME SweepInv,
           \/ SwFails \/ SwBegin \/ SwMatched \/ SwBalances \/ SwCompare
           \/ SwTip \/ SwWait \/ SwMap \/ SwConfirm
    PROVE  sw'.pc \notin Reading /\ (sw'.pc = "segment" => sw'.seg = {})
<1>1. CASE SwFails \/ SwBegin \/ SwMatched
  BY <1>1, SwAtType DEF SwFails, SwBegin, SwMatched, Reading
<1>2. CASE SwBalances
  BY <1>2, SwAtType DEF SwBalances, SwType, Reading
<1>3. CASE SwCompare
  <2>1. /\ SwAt("segment").pc = "segment" /\ SwAt("matched").pc = "matched"
        /\ SwAt("idle").pc = "idle"
        /\ SwAt("segment").seg = {}
    BY SwAtType
  <2>2. \/ sw' = SwAt("idle")
        \/ \E keep : sw' = [SwAt("matched") EXCEPT !.keep = keep]
        \/ \E d : sw' = [SwAt("segment") EXCEPT !.todo = d]
    BY <1>3 DEF SwCompare
  <2>. QED  BY <2>1, <2>2, SwAtType DEF SwType, Reading
<1>4. CASE SwTip \/ SwWait \/ SwMap \/ SwConfirm
  <2>1. sw'.pc \in {"wait", "map", "confirm", "compare", "tip"}
    <3>1. CASE SwTip
      BY <3>1 DEF SwTip, SweepInv, SwType
    <3>2. CASE SwWait
      BY <3>2 DEF SwWait, SweepInv, SwType
    <3>3. CASE SwMap
      BY <3>3 DEF SwMap, SweepInv, SwType
    <3>4. CASE SwConfirm
      BY <3>4 DEF SwConfirm, SweepInv, SwType
    <3>. QED  BY <1>4, <3>1, <3>2, <3>3, <3>4
  <2>. QED  BY <2>1 DEF Reading
<1>5. QED
  BY <1>1, <1>2, <1>3, <1>4

\* A step of the sweep in memory.
LEMMA SweepTypes ==
    ASSUME SweepInv, Sweep
    PROVE  /\ sw' \in SwType
           /\ \A c \in sw'.left \cup sw'.live : SegmentOf[c] \in sw'.seg
           /\ \A a, b \in sw'.seg : a = b
           /\ sw'.pc = "commit" => sw'.left = {}
           /\ calm' \in BOOLEAN
<1>. USE DEF SweepInv
<1>1. CASE SwBegin \/ SwMatched \/ SwBalances
  <2>1. CASE SwBegin
    BY <2>1, SwAtType DEF SwBegin
  <2>2. CASE SwMatched
    BY <2>2, SwAtType DEF SwMatched
  <2>3. CASE SwBalances
    <3>1. PICK keep \in BOOLEAN : sw' = [SwAt("tip") EXCEPT !.checking = TRUE, !.keep = keep]
      <4>. DEFINE b == LiveBalance'
      <4>1. sw' = [SwAt("tip") EXCEPT !.checking = TRUE, !.keep = b > 0]
        BY <2>3 DEF SwBalances
      <4>2. (b > 0) \in BOOLEAN
        OBVIOUS
      <4>. HIDE DEF b
      <4>. QED  BY <4>1, <4>2
    <3>2. calm' = calm
      BY <2>3 DEF SwBalances
    <3>. QED  BY <3>1, <3>2, SwAtType DEF SwType
  <2>. QED  BY <1>1, <2>1, <2>2, <2>3
<1>2. CASE SwTip
  <2>1. sw' \in SwType /\ sw'.pc = "wait"
    BY <1>2 DEF SwTip, SwType, NodeType
  <2>2. sw'.left = sw.left /\ sw'.live = sw.live /\ sw'.seg = sw.seg
    BY <1>2 DEF SwTip, SwType
  <2>. QED  BY <1>2, <2>1, <2>2 DEF SwTip, Settled
<1>3. CASE SwWait
  BY <1>3 DEF SwWait, SwType, Unchanged
<1>4. CASE SwMap
  BY <1>4, StateMapType DEF SwMap, SwType
<1>5. CASE SwConfirm
  <2>1. PICK pc \in {"compare", "tip"} : sw' = [sw EXCEPT !.pc = pc]
    BY <1>5 DEF SwConfirm
  <2>. QED  BY <1>5, <2>1 DEF SwConfirm, SwType
<1>6. CASE SwCompare
  <2>1. PICK d \in SUBSET Segments :
          sw' = IF ~sw.checking THEN [SwAt("segment") EXCEPT !.todo = d]
                ELSE IF d = {} THEN [SwAt("matched") EXCEPT !.keep = sw.keep]
                ELSE SwAt("idle")
    BY <1>6 DEF SwCompare, Differing
  <2>2. [SwAt("segment") EXCEPT !.todo = d] \in SwType
    BY SwAtType DEF SwType
  <2>3. [SwAt("matched") EXCEPT !.keep = sw.keep] \in SwType
    BY SwAtType DEF SwType
  <2>4. sw' \in SwType
    BY <2>1, <2>2, <2>3, SwAtType
  <2>5. sw'.left = {} /\ sw'.live = {} /\ sw'.seg = {}
    BY <2>1, SwAtType DEF SwType
  <2>. QED  BY <1>6, <2>4, <2>5 DEF SwCompare
<1>7. CASE SwSegment
  <2>1. CASE sw' = SwAt("balances") /\ calm' = calm
    BY <2>1, SwAtType
  <2>2. CASE /\ \E seg \in Lowest(sw.todo) :
                  sw' = [sw EXCEPT !.pc = "pace", !.todo = @ \ {seg}, !.seg = {seg},
                                   !.start = node.tip, !.left = Slots(seg), !.live = {}]
             /\ calm' = Settled
    <3>1. PICK seg \in Lowest(sw.todo) :
            sw' = [sw EXCEPT !.pc = "pace", !.todo = @ \ {seg}, !.seg = {seg},
                             !.start = node.tip, !.left = Slots(seg), !.live = {}]
      BY <2>2
    <3>2. seg \in Segments /\ Slots(seg) \subseteq Coins /\ node.tip \in Heights
      BY DEF Lowest, SwType, Slots, In, NodeType
    <3>3. sw' \in SwType /\ sw'.seg = {seg} /\ sw'.left = Slots(seg) /\ sw'.live = {}
          /\ sw'.pc = "pace"
      BY <3>1, <3>2 DEF SwType
    <3>. QED  BY <2>2, <3>3 DEF Slots, In, Settled
  <2>. QED  BY <1>7, <2>1, <2>2 DEF SwSegment
<1>8. CASE SwPace
  BY <1>8 DEF SwPace, SwType, Unchanged
<1>9. CASE SwRead
  <2>1. CASE \E c \in Lowest(sw.left) :
               sw' = [sw EXCEPT !.left = @ \ {c},
                                !.live = IF c \in Live THEN @ \cup {c} ELSE @]
    <3>1. PICK c \in Lowest(sw.left) :
            sw' = [sw EXCEPT !.left = @ \ {c}, !.live = IF c \in Live THEN @ \cup {c} ELSE @]
      BY <2>1
    <3>2. c \in sw.left /\ c \in Coins /\ SegmentOf[c] \in sw.seg
      BY DEF Lowest, SwType
    <3>3. PICK l \in SUBSET Coins :
            /\ sw' = [sw EXCEPT !.left = @ \ {c}, !.live = l]
            /\ l \subseteq sw.live \cup {c}
      <4>1. (IF c \in Live THEN sw.live \cup {c} ELSE sw.live) \in SUBSET Coins
        BY <3>2 DEF SwType
      <4>. QED  BY <3>1, <4>1
    <3>4. sw' \in SwType /\ sw'.left = sw.left \ {c} /\ sw'.live = l /\ sw'.seg = sw.seg
          /\ sw'.pc = sw.pc
      BY <3>3 DEF SwType
    <3>. QED  BY <1>9, <3>2, <3>3, <3>4 DEF SwRead
  <2>2. CASE sw.left = {} /\ sw' = [sw EXCEPT !.pc = "commit"]
    BY <1>9, <2>2 DEF SwRead, SwType
  <2>. QED  BY <1>9, <2>1, <2>2 DEF SwRead
<1>10. CASE SwCommit
  <2>1. sw' = [SwAt("segment") EXCEPT !.todo = sw.todo, !.seg = sw.seg] /\ calm' = calm
    BY <1>10 DEF SwCommit
  <2>2. sw' \in SwType /\ sw'.left = {} /\ sw'.live = {} /\ sw'.seg = sw.seg
    BY <2>1, SwAtType DEF SwType
  <2>. QED  BY <2>1, <2>2
<1>11. QED
  BY <1>1, <1>2, <1>3, <1>4, <1>5, <1>6, <1>7, <1>8, <1>9, <1>10 DEF Sweep

\* A step of the recording side: rows and bodies keep their types, and nothing is shown
\* above last_processed_height.
LEMMA RecordingTypes ==
    ASSUME SweepInv, RecordNext \/ RecordReplacement \/ FillGap
    PROVE  /\ shown' \in [Heights -> Chains \cup {NoHash}]
           /\ bodies' \in [Heights -> SUBSET Chains]
           /\ processed' \in Heights \cup {NoHeight}
           /\ \A h \in Heights : shown'[h] # NoHash => h <= processed'
           /\ node' = node /\ calm' = FALSE /\ UNCHANGED <<flagged, foreign, sw>>
<1>. USE DEF SweepInv
<1>1. ASSUME NEW h \in Heights, NEW body, Write(h, body)
      PROVE  /\ shown' = [shown EXCEPT ![h] = NodeHash(h)] /\ NodeHash(h) \in Chains
             /\ bodies' \in [Heights -> SUBSET Chains]
  BY <1>1, NodeHashType DEF Write
<1>2. CASE RecordNext
  <2>1. PICK h \in Heights, body \in BOOLEAN :
          /\ h = IF processed = NoHeight THEN node.tip ELSE processed + 1
          /\ Write(h, body)
          /\ processed' = h
    <3>1. \A h : BodyAnswers(h) \subseteq BOOLEAN
      BY DEF BodyAnswers
    <3>. QED  BY <1>2, <3>1 DEF RecordNext
  <2>2. \A g \in Heights : shown[g] # NoHash => g <= h
    <3>. SUFFICES ASSUME NEW g \in Heights, shown[g] # NoHash PROVE g <= h
      OBVIOUS
    <3>1. g <= processed /\ g \in Int /\ 0 <= g
      BY ConstantTypes
    <3>2. processed # NoHeight
      BY <3>1 DEF NoHeight
    <3>3. processed \in Int /\ h = processed + 1
      BY <2>1, <3>2, ConstantTypes
    <3>. QED  BY ONLY <3>1, <3>3
  <2>3. h <= h
    BY ConstantTypes
  <2>. QED  BY <1>1, <1>2, <2>1, <2>2, <2>3 DEF RecordNext, Disturbs
<1>3. CASE RecordReplacement
  <2>1. PICK h \in Heights : \E body \in BodyAnswers(h) : shown[h] # NoHash /\ Write(h, body)
    BY <1>3 DEF RecordReplacement
  <2>2. PICK body \in BodyAnswers(h) : shown[h] # NoHash /\ Write(h, body)
    BY <2>1
  <2>. QED  BY <1>1, <1>3, <2>2 DEF RecordReplacement, Disturbs
<1>4. CASE FillGap
  <2>1. PICK h \in Heights :
          shown[h] # NoHash /\ bodies' = [bodies EXCEPT ![h] = @ \cup {shown[h]}]
    BY <1>4 DEF FillGap
  <2>2. shown[h] \in Chains
    BY <2>1
  <2>. QED  BY <1>4, <2>1, <2>2 DEF FillGap, Disturbs
<1>5. QED
  BY <1>2, <1>3, <1>4

\* Rows that a segment's transaction flags are rows of recorded blocks.
LEMMA GoneRows ==
    ASSUME SweepInv, NEW seg, NEW live, NEW start
    PROVE  /\ Gone(seg, live, start) \subseteq Heights \X Chains \X Coins
           /\ \A u \in Gone(seg, live, start) :
                 /\ u[1] \in Heights /\ u[1] <= start /\ shown[u[1]] # NoHash
                 /\ u[3] \in Creates[shown[u[1]]][u[1]]
                 /\ u[3] \notin live /\ SegmentOf[u[3]] = seg
<1>. SUFFICES ASSUME NEW u \in Gone(seg, live, start)
              PROVE  /\ u \in Heights \X Chains \X Coins
                     /\ u[1] \in Heights /\ u[1] <= start /\ shown[u[1]] # NoHash
                     /\ u[3] \in Creates[shown[u[1]]][u[1]]
                     /\ u[3] \notin live /\ SegmentOf[u[3]] = seg
  OBVIOUS
<1>1. u \in UnspentRows(start) /\ SegmentOf[u[3]] = seg /\ u[3] \notin live
  BY DEF Gone
<1>2. PICK h \in Recorded(start) : u \in Outputs(h)
  BY <1>1 DEF UnspentRows
<1>3. PICK c \in Creates[shown[h]][h] : u = <<h, shown[h], c>>
  BY <1>2 DEF Outputs
<1>4. h \in Heights /\ h <= start /\ shown[h] # NoHash /\ shown[h] \in Chains
  BY <1>2 DEF Recorded, SweepInv
<1>5. c \in Coins
  BY <1>3, <1>4, SweepAssumption
<1>6. QED
  BY <1>1, <1>3, <1>4, <1>5

LEMMA SweepInvStep == SweepInv /\ [Next]_vars => SweepInv'
<1>. SUFFICES ASSUME SweepInv, [Next]_vars PROVE SweepInv'
  OBVIOUS
<1>. USE DEF SweepInv
<1>1. CASE NodeMoves
  BY <1>1, NodeTypeStep DEF NodeMoves, Disturbs, recVars
<1>2. CASE RecordNext \/ RecordReplacement \/ FillGap
  <2>1. calm' \in BOOLEAN
    BY <1>2, RecordingTypes
  <2>. QED  BY <1>2, <2>1, RecordingTypes
<1>3. CASE RefreshAsk \/ RefreshCommit \/ ClearFlags \/ UNCHANGED vars
  <2>1. UNCHANGED <<node, shown, bodies, processed, foreign, sw, calm>>
    BY <1>3 DEF RefreshAsk, RefreshCommit, ClearFlags, vars, recVars
  <2>2. flagged' \subseteq flagged
    BY <1>3 DEF RefreshAsk, RefreshCommit, ClearFlags, vars, WithoutRecordedSpend
  <2>. QED  BY <2>1, <2>2
<1>4. CASE SwFails
  BY <1>4, SwAtType DEF SwFails, recVars
<1>5. CASE Sweep
  <2>1. UNCHANGED <<node, shown, bodies, processed>>
    BY <1>5
    DEF Sweep, SwBegin, SwTip, SwWait, SwMap, SwConfirm, SwCompare, SwSegment, SwPace, SwRead,
        SwCommit, SwBalances, SwMatched, Unchanged, recVars
  <2>2. flagged' \subseteq Heights \X Chains \X Coins /\ foreign' \subseteq Coins
    <3>1. CASE SwCommit
      <4>1. PICK seg \in sw.seg :
              /\ foreign' = ForeignAfter(seg, sw.live)
              /\ flagged' = (flagged \ Back(seg, sw.live)) \cup Gone(seg, sw.live, sw.start)
        BY <3>1 DEF SwCommit
      <4>2. sw.live \subseteq Coins
        BY DEF SwType
      <4>. QED  BY <4>1, <4>2, GoneRows DEF ForeignAfter
    <3>2. CASE SwBalances
      BY <3>2 DEF SwBalances, WithoutRecordedSpend
    <3>3. CASE UNCHANGED <<flagged, foreign>>
      BY <3>3
    <3>. QED
      BY <1>5, <3>1, <3>2, <3>3
      DEF Sweep, SwBegin, SwTip, SwWait, SwMap, SwConfirm, SwCompare, SwSegment, SwPace, SwRead,
          SwMatched, Unchanged
  <2>. QED  BY <1>5, <2>1, <2>2, SweepTypes
<1>6. QED
  BY <1>1, <1>2, <1>3, <1>4, <1>5 DEF Next, Loop, Recording

LEMMA SweepInvInit == Init => SweepInv
<1>. SUFFICES ASSUME Init PROVE SweepInv
  OBVIOUS
<1>1. node \in NodeType
  BY ConstantTypes DEF Init, NodeInit, NodeType
<1>2. QED
  BY <1>1, SwAtType DEF Init, SweepInv

-----------------------------------------------------------------------------
(* Only spent coins are flagged.                                           *)

\* As long as the node extends the one chain: every block on record is its block, and what
\* a read has not found, of the coins older than its start, is spent by now.
FlagBody ==
    /\ \A h \in Heights : shown[h] # NoHash => shown[h] = NodeHash(h)
    /\ sw.pc \in Reading =>
          /\ sw.start <= node.tip
          /\ \A c \in CreatedUpTo(node.chain, sw.start) \cap Coins :
                SegmentOf[c] \in sw.seg /\ c \notin sw.left \cup sw.live
                    => c \in SpentUpTo(node.chain, node.tip)
    /\ \A r \in flagged : r[3] \in SpentUpTo(node.chain, node.tip)

FlagInv == SweepInv /\ (node.reorgs = 0 => FlagBody)

\* One getSlot without a reorganization so far.
LEMMA ReadFlags ==
    ASSUME SweepInv, FlagBody, SwRead
    PROVE  FlagBody'
<1>1. /\ node' = node /\ shown' = shown /\ flagged' = flagged /\ sw.pc \in Reading
      /\ sw \in SwType
  BY DEF SwRead, Unchanged, recVars, Reading, SweepInv
<1>2. sw'.start = sw.start /\ sw'.seg = sw.seg
  BY <1>1 DEF SwRead, SwType
<1>3. ASSUME NEW c \in Coins, SegmentOf[c] \in sw'.seg, c \notin sw'.left \cup sw'.live,
             c \in CreatedUpTo(node.chain, sw'.start)
      PROVE  c \in SpentUpTo(node.chain, node.tip)
  <2>1. CASE c \notin sw.left \cup sw.live
    BY <1>1, <1>2, <1>3, <2>1 DEF FlagBody
  <2>2. CASE c \in sw.left \cup sw.live
    <3>1. c \notin Live
      <4>1. CASE sw' = [sw EXCEPT !.pc = "commit"]
        BY <1>1, <1>3, <2>2, <4>1 DEF SwType
      <4>2. ASSUME NEW d,
                   sw' = [sw EXCEPT !.left = @ \ {d},
                                    !.live = IF d \in Live THEN @ \cup {d} ELSE @]
            PROVE  c \notin Live
        <5>1. /\ sw'.left = sw.left \ {d}
              /\ sw'.live = IF d \in Live THEN sw.live \cup {d} ELSE sw.live
          BY <1>1, <4>2 DEF SwType
        <5>. QED  BY <1>3, <2>2, <5>1
      <4>. QED  BY <4>1, <4>2 DEF SwRead
    <3>2. sw.start \in Int /\ node.tip \in Int /\ sw.start <= node.tip
      BY <1>1, NumberTypes DEF FlagBody
    <3>3. c \in CreatedUpTo(node.chain, node.tip)
      BY <1>2, <1>3, <3>2, UpToGrows
    <3>. QED  BY <3>1, <3>3 DEF Live
  <2>. QED  BY <2>1, <2>2
<1>4. (\A h \in Heights : shown[h] # NoHash => shown[h] = NodeHash(h))'
  BY <1>1 DEF FlagBody, NodeHash
<1>5. (\A r \in flagged : r[3] \in SpentUpTo(node.chain, node.tip))'
  BY <1>1 DEF FlagBody
<1>6. sw'.start <= node'.tip
  BY <1>1, <1>2 DEF FlagBody
<1>7. \A c \in CreatedUpTo(node'.chain, sw'.start) \cap Coins :
        SegmentOf[c] \in sw'.seg /\ c \notin sw'.left \cup sw'.live
            => c \in SpentUpTo(node'.chain, node'.tip)
  BY <1>1, <1>3
<1>8. QED
  BY <1>4, <1>5, <1>6, <1>7 DEF FlagBody

\* A segment's transaction flags what was created up to the start of the read, was not
\* read live, and so is spent.
LEMMA CommitFlags ==
    ASSUME SweepInv, FlagBody, SwCommit
    PROVE  FlagBody'
<1>1. /\ node' = node /\ shown' = shown /\ sw.pc = "commit" /\ sw.left = {} /\ sw'.pc = "segment"
      /\ sw.start \in Int
  <2>1. sw'.pc = "segment"
    BY SwAtType DEF SwCommit, SwType
  <2>2. sw.start \in Int
    BY ConstantTypes DEF SweepInv, SwType
  <2>. QED  BY <2>1, <2>2 DEF SwCommit, recVars, SweepInv
<1>2. PICK seg \in sw.seg :
        flagged' = (flagged \ Back(seg, sw.live)) \cup Gone(seg, sw.live, sw.start)
  BY DEF SwCommit
<1>3. ASSUME NEW u \in Gone(seg, sw.live, sw.start)
      PROVE  u[3] \in SpentUpTo(node.chain, node.tip)
  <2>1. /\ u[1] \in Heights /\ u[1] <= sw.start /\ shown[u[1]] # NoHash
        /\ u[3] \in Creates[shown[u[1]]][u[1]] /\ u[3] \in Coins
        /\ u[3] \notin sw.live /\ SegmentOf[u[3]] = seg
    BY GoneRows
  <2>2. u[1] \in 0..sw.start /\ shown[u[1]] = HashAt(node.chain, u[1])
    <3>1. u[1] \in Nat
      BY <2>1, ConstantTypes
    <3>2. u[1] \in 0..sw.start
      BY <1>1, <2>1, <3>1
    <3>3. shown[u[1]] = NodeHash(u[1])
      BY <2>1 DEF FlagBody
    <3>. QED  BY <3>2, <3>3 DEF NodeHash
  <2>3. u[3] \in CreatedUpTo(node.chain, sw.start)
    BY <2>1, <2>2 DEF CreatedUpTo
  <2>. QED  BY <1>1, <1>2, <2>1, <2>3 DEF FlagBody, Reading
<1>4. (\A r \in flagged : r[3] \in SpentUpTo(node.chain, node.tip))'
  BY <1>1, <1>2, <1>3 DEF FlagBody
<1>5. (\A h \in Heights : shown[h] # NoHash => shown[h] = NodeHash(h))'
  BY <1>1 DEF FlagBody, NodeHash
<1>6. QED
  BY <1>1, <1>4, <1>5 DEF FlagBody, Reading

LEMMA FlagStep == FlagInv /\ [Next]_vars => FlagInv'
<1>. SUFFICES ASSUME FlagInv, [Next]_vars PROVE FlagInv'
  OBVIOUS
<1>1. SweepInv /\ SweepInv'
  BY SweepInvStep DEF FlagInv
<1>. SUFFICES ASSUME node'.reorgs = 0 PROVE FlagBody'
  BY <1>1 DEF FlagInv
<1>. USE DEF FlagBody
<1>2. CASE NodeMoves
  <2>1. FlagBody /\ node'.chain = node.chain /\ node.tip <= node'.tip
    BY <1>1, <1>2, NodeTypeStep DEF NodeMoves, FlagInv, SweepInv
  <2>2. node.tip \in Int /\ node'.tip \in Int /\ sw.start \in Int
    BY <1>1, ConstantTypes DEF SweepInv, NodeType, SwType
  <2>3. SpentUpTo(node.chain, node.tip) \subseteq SpentUpTo(node.chain, node'.tip)
    BY <2>1, <2>2, UpToGrows
  <2>4. shown' = shown /\ sw' = sw /\ flagged' = flagged
    BY <1>2 DEF NodeMoves, Disturbs, recVars
  <2>5. sw.pc \in Reading => sw.start <= node'.tip
    BY <2>1, <2>2
  <2>. QED  BY <2>1, <2>3, <2>4, <2>5 DEF NodeHash
<1>3. CASE ~NodeMoves
  <2>1. node' = node
    BY <1>3
    DEF Next, Loop, Recording, RecordNext, RecordReplacement, RefreshCommit, RefreshAsk, FillGap,
        ClearFlags, Sweep, SwBegin, SwTip, SwWait, SwMap, SwConfirm, SwCompare, SwSegment, SwPace,
        SwRead, SwCommit, SwBalances, SwMatched, SwFails, Unchanged, vars
  <2>2. FlagBody
    BY <2>1 DEF FlagInv
  <2>3. CASE RecordNext \/ RecordReplacement
    <3>1. PICK h \in Heights : shown' = [shown EXCEPT ![h] = NodeHash(h)]
      BY <2>3 DEF RecordNext, RecordReplacement, Write
    <3>2. sw' = sw /\ flagged' = flagged
      BY <2>3 DEF RecordNext, RecordReplacement, Disturbs
    <3>. QED  BY <1>1, <2>1, <2>2, <3>1, <3>2 DEF NodeHash, SweepInv
  <2>4. CASE FillGap \/ RefreshAsk \/ RefreshCommit \/ ClearFlags \/ UNCHANGED vars
    <3>1. shown' = shown /\ sw' = sw /\ flagged' \subseteq flagged
      BY <2>4
      DEF FillGap, Disturbs, RefreshAsk, RefreshCommit, ClearFlags, WithoutRecordedSpend, vars,
          recVars
    <3>. QED  BY <2>1, <2>2, <3>1 DEF NodeHash
  <2>5. CASE SwFails \/ SwBegin \/ SwMatched \/ SwBalances \/ SwCompare
    <3>1. shown' = shown /\ flagged' \subseteq flagged
      BY <2>5
      DEF SwFails, SwBegin, SwMatched, SwBalances, SwCompare, WithoutRecordedSpend, Unchanged,
          recVars
    <3>2. sw'.pc \notin Reading
      BY <1>1, <2>5, OutsideRead
    <3>. QED  BY <2>1, <2>2, <3>1, <3>2 DEF NodeHash
  <2>6. CASE SwTip \/ SwWait \/ SwMap \/ SwConfirm
    <3>1. shown' = shown /\ flagged' = flagged
      BY <2>6 DEF SwTip, SwWait, SwMap, SwConfirm, Unchanged, recVars
    <3>2. sw'.pc \notin Reading
      BY <1>1, <2>6, OutsideRead
    <3>. QED  BY <2>1, <2>2, <3>1, <3>2 DEF NodeHash
  <2>7. CASE SwSegment
    <3>1. shown' = shown /\ flagged' = flagged
      BY <2>7 DEF SwSegment, Unchanged, recVars
    <3>2. CASE sw'.pc \notin Reading
      BY <2>1, <2>2, <3>1, <3>2 DEF NodeHash
    <3>3. CASE \E seg : sw' = [sw EXCEPT !.pc = "pace", !.todo = @ \ {seg}, !.seg = {seg},
                                 !.start = node.tip, !.left = Slots(seg), !.live = {}]
      <4>1. PICK seg : sw' = [sw EXCEPT !.pc = "pace", !.todo = @ \ {seg}, !.seg = {seg},
                                 !.start = node.tip, !.left = Slots(seg), !.live = {}]
        BY <3>3
      <4>2. sw'.start = node.tip /\ sw'.seg = {seg} /\ sw'.left = Slots(seg)
        BY <1>1, <4>1 DEF SweepInv, SwType
      <4>3. \A c \in Coins : SegmentOf[c] \in sw'.seg => c \in sw'.left
        BY <4>2 DEF Slots, In
      <4>4. node.tip <= node.tip
        <5>1. node.tip \in Int
          BY <1>1, NumberTypes
        <5>. QED  BY ONLY <5>1
      <4>5. sw'.start <= node'.tip
        BY <2>1, <4>2, <4>4
      <4>. QED  BY <2>1, <2>2, <3>1, <4>3, <4>5 DEF NodeHash
    <3>. QED  BY <2>7, <3>2, <3>3, SwAtType DEF SwSegment, Reading
  <2>8. CASE SwPace
    <3>1. /\ shown' = shown /\ flagged' = flagged /\ sw.pc \in Reading
          /\ sw' = [sw EXCEPT !.pc = "read"]
      BY <2>8 DEF SwPace, Unchanged, recVars, Reading
    <3>2. /\ sw'.start = sw.start /\ sw'.seg = sw.seg /\ sw'.left = sw.left
          /\ sw'.live = sw.live
      BY <1>1, <3>1 DEF SweepInv, SwType
    <3>. QED  BY <2>1, <2>2, <3>1, <3>2 DEF NodeHash
  <2>9. CASE SwRead \/ SwCommit
    BY <1>1, <2>2, <2>9, ReadFlags, CommitFlags
  <2>. QED
    BY <1>3, <2>3, <2>4, <2>5, <2>6, <2>7, <2>8, <2>9 DEF Next, Loop, Recording, Sweep
<1>4. QED
  BY <1>2, <1>3

LEMMA FlagInit == Init => FlagInv
BY SweepInvInit, SwAtType DEF Init, FlagInv, FlagBody, Reading

\* An output flagged as spent in a gap is spent on the node's chain, as long as the node has
\* not reorganized: scan_live_state judges a segment only by outputs older than its read.
THEOREM FlaggedIsSpentHolds == Spec => []FlaggedIsSpent
<1>1. FlagInv => FlaggedIsSpent
  BY DEF FlagInv, FlagBody, FlaggedIsSpent, Live
<1>2. QED
  BY <1>1, FlagInit, FlagStep, PTL DEF Spec

-----------------------------------------------------------------------------
(* A segment is exact when it is committed.                                *)

\* The output rows on record.
Rows == UNION {Outputs(h) : h \in Recorded(MaxHeight)}

LEMMA RowShape ==
    ASSUME SweepInv, NEW r
    PROVE  r \in Rows <=>
             \E h \in Recorded(MaxHeight) : \E c \in Creates[shown[h]][h] : r = <<h, shown[h], c>>
BY DEF Rows, Outputs

LEMMA RecordedShape ==
    ASSUME SweepInv, NEW max, NEW h \in Recorded(max)
    PROVE  /\ h \in Heights /\ h <= max /\ h <= processed
           /\ shown[h] \in Chains /\ shown[h] \in bodies[h]
           /\ Creates[shown[h]][h] \subseteq Coins
<1>1. h \in Heights /\ h <= max /\ shown[h] # NoHash /\ shown[h] \in bodies[h]
  BY DEF Recorded
<1>2. h <= processed /\ shown[h] \in Chains
  BY <1>1 DEF SweepInv
<1>3. Creates[shown[h]][h] \subseteq Coins
  BY <1>1, <1>2, SweepAssumption
<1>4. QED
  BY <1>1, <1>2, <1>3

\* When everything is recorded and nothing of it replaced, the record is a part of the
\* node's chain.
LEMMA SettledRecord ==
    ASSUME SweepInv, Settled
    PROVE  /\ Recorded(MaxHeight) = Recorded(node.tip)
           /\ \A h \in Recorded(MaxHeight) :
                 h \in 0..node.tip /\ shown[h] = HashAt(node.chain, h)
           /\ SpentOnRecord(MaxHeight) = SpentOnRecord(node.tip)
           /\ UnspentRows(MaxHeight) = UnspentRows(node.tip)
           /\ SpentOnRecord(MaxHeight) \subseteq SpentUpTo(node.chain, node.tip)
<1>1. processed = node.tip /\ \A h \in Heights : shown[h] # NoHash => shown[h] = NodeHash(h)
  BY DEF Settled
<1>2. ASSUME NEW h \in Heights, shown[h] # NoHash
      PROVE  h <= MaxHeight /\ h <= node.tip
  BY <1>1, <1>2, ConstantTypes DEF SweepInv
<1>3. Recorded(MaxHeight) = Recorded(node.tip)
  BY <1>2 DEF Recorded
<1>4. ASSUME NEW h \in Recorded(MaxHeight)
      PROVE  h \in 0..node.tip /\ shown[h] = HashAt(node.chain, h)
  <2>1. h \in Heights /\ shown[h] # NoHash
    BY DEF Recorded
  <2>2. h \in Nat /\ h <= node.tip /\ node.tip \in Int
    BY <1>2, <2>1, ConstantTypes, NumberTypes
  <2>3. h \in 0..node.tip
    BY ONLY <2>2
  <2>. QED  BY <1>1, <2>1, <2>3 DEF NodeHash
<1>5. SpentOnRecord(MaxHeight) = SpentOnRecord(node.tip)
  BY <1>3 DEF SpentOnRecord
<1>6. UnspentRows(MaxHeight) = UnspentRows(node.tip)
  BY <1>3, <1>5 DEF UnspentRows
<1>7. SpentOnRecord(MaxHeight) \subseteq SpentUpTo(node.chain, node.tip)
  BY <1>4 DEF SpentOnRecord, SpentUpTo
<1>8. QED
  BY <1>3, <1>4, <1>5, <1>6, <1>7

\* A creation id is given once, so a recorded coin has one row.
LEMMA OneRowPerCoin ==
    ASSUME SweepInv, Settled, NEW r \in Rows, NEW q \in Rows, r[3] = q[3]
    PROVE  r = q
<1>1. PICK g \in Recorded(MaxHeight), c \in Coins :
        c \in Creates[shown[g]][g] /\ r = <<g, shown[g], c>>
  BY RowShape, RecordedShape
<1>2. PICK h \in Recorded(MaxHeight), d \in Coins :
        d \in Creates[shown[h]][h] /\ q = <<h, shown[h], d>>
  BY RowShape, RecordedShape
<1>3. c = d
  BY <1>1, <1>2
<1>4. /\ shown[g] = HashAt(node.chain, g) /\ shown[h] = HashAt(node.chain, h)
      /\ g \in Heights /\ h \in Heights /\ node.chain \in Chains
  BY SettledRecord, RecordedShape, NumberTypes
<1>5. c \in Creates[HashAt(node.chain, g)][g] \cap Creates[HashAt(node.chain, h)][h]
  BY <1>1, <1>2, <1>3, <1>4
<1>6. g = h
  BY <1>4, <1>5, SweepAssumption
<1>7. QED
  BY <1>1, <1>2, <1>3, <1>6

\* So the rows of some coins are as many as the recorded ones among these.
LEMMA CountRows ==
    ASSUME SweepInv, Settled, NEW L \in SUBSET Coins
    PROVE  /\ {r[3] : r \in {q \in Rows : q[3] \in L}} = L \cap RecordedIds
           /\ Cardinality({q \in Rows : q[3] \in L}) = Cardinality(L \cap RecordedIds)
<1>. DEFINE rows == {q \in Rows : q[3] \in L}
            ids  == L \cap RecordedIds
            f    == [r \in rows |-> r[3]]
<1>1. \A r \in rows : r[3] \in ids
  <2>. SUFFICES ASSUME NEW r \in rows PROVE r[3] \in ids
    OBVIOUS
  <2>1. PICK h \in Recorded(MaxHeight), c \in Coins :
          c \in Creates[shown[h]][h] /\ r = <<h, shown[h], c>>
    BY RowShape, RecordedShape
  <2>2. h \in Heights
    BY RecordedShape
  <2>. QED  BY <2>1, <2>2 DEF RecordedIds
<1>2. \A c \in ids : \E r \in rows : r[3] = c
  <2>. SUFFICES ASSUME NEW c \in ids PROVE \E r \in rows : r[3] = c
    OBVIOUS
  <2>1. PICK h \in Recorded(MaxHeight) : c \in Creates[shown[h]][h]
    BY DEF RecordedIds
  <2>2. <<h, shown[h], c>> \in Rows
    BY <2>1, RowShape
  <2>. QED  BY <2>2
<1>3. \A r, q \in rows : r[3] = q[3] => r = q
  BY OneRowPerCoin
<1>4. IsFiniteSet(ids)
  BY SweepAssumption, FS_Subset
<1>. HIDE DEF rows, ids
<1>5. f \in Injection(rows, ids)
  BY <1>1, <1>3 DEF Injection, IsInjective
<1>6. f \in Surjection(rows, ids)
  BY <1>1, <1>2 DEF Surjection
<1>7. Cardinality(rows) = Cardinality(ids)
  <2>. HIDE DEF f
  <2>. QED  BY <1>4, <1>5, <1>6, FS_Injection
<1>8. {r[3] : r \in rows} = ids
  BY <1>1, <1>2
<1>9. QED
  BY <1>7, <1>8 DEF rows, ids

\* The record as a segment's transaction leaves it.
LEMMA RecordKept ==
    ASSUME SweepInv, UNCHANGED recVars
    PROVE  /\ SpentOnRecord(MaxHeight)' = SpentOnRecord(MaxHeight)
           /\ UnspentRows(MaxHeight)' =
                {r \in Rows : r \notin flagged' /\ r[3] \notin SpentOnRecord(MaxHeight)}
           /\ UnspentForeign(MaxHeight)' = foreign' \ SpentOnRecord(MaxHeight)
<1>1. shown' = shown /\ bodies' = bodies
  BY DEF recVars
<1>2. Recorded(MaxHeight)' = Recorded(MaxHeight)
  BY <1>1 DEF Recorded
<1>3. SpentOnRecord(MaxHeight)' = SpentOnRecord(MaxHeight)
  BY <1>1, <1>2 DEF SpentOnRecord
<1>4. \A h : Outputs(h)' = Outputs(h)
  BY <1>1 DEF Outputs
<1>5. UNION {Outputs(h)' : h \in Recorded(MaxHeight)'} = Rows
  BY <1>2, <1>4 DEF Rows
<1>6. QED
  BY <1>3, <1>5 DEF UnspentRows, UnspentForeign

\* The picture of one segment is the node's live coins of it.
Exact(seg) ==
    /\ In(seg, Picture) = In(seg, Live)
    /\ OwnCount(seg, MaxHeight) = Cardinality(In(seg, Live))

\* A read that nothing disturbed: it began at the tip at which everything is recorded, and
\* holds the live coins of the slots it has looked at.
UndisturbedRead ==
    /\ Settled
    /\ sw.start = node.tip
    /\ sw.live = {c \in Live : SegmentOf[c] \in sw.seg /\ c \notin sw.left}

ExactInv ==
    /\ SweepInv
    /\ calm /\ sw.pc \in Reading => UndisturbedRead
    /\ calm /\ sw.pc = "segment" => \A seg \in sw.seg : Exact(seg)

\* The rows of the segment that are unflagged afterwards are those of its live coins.
LEMMA CommittedRows ==
    ASSUME SweepInv, UndisturbedRead, sw.pc = "commit", UNCHANGED recVars, NEW seg \in sw.seg,
           flagged' = (flagged \ Back(seg, sw.live)) \cup Gone(seg, sw.live, sw.start)
    PROVE  {r \in UnspentRows(MaxHeight)' : SegmentOf[r[3]] = seg} =
             {r \in Rows : r[3] \in sw.live}
<1>1. \A c \in sw.live : SegmentOf[c] = seg /\ c \notin SpentOnRecord(MaxHeight)
  BY SettledRecord DEF UndisturbedRead, SweepInv, Live
<1>2. UnspentRows(MaxHeight)' =
        {r \in Rows : r \notin flagged' /\ r[3] \notin SpentOnRecord(MaxHeight)}
  BY RecordKept
<1>3. ASSUME NEW r \in Rows, r[3] \in sw.live
      PROVE  r \in UnspentRows(MaxHeight)' /\ SegmentOf[r[3]] = seg
  <2>1. r \notin Gone(seg, sw.live, sw.start)
    BY <1>3 DEF Gone
  <2>2. r \in flagged => r \in Back(seg, sw.live)
    BY <1>1, <1>3 DEF Back
  <2>. QED  BY <1>1, <1>2, <1>3, <2>1, <2>2
<1>4. ASSUME NEW r \in UnspentRows(MaxHeight)', SegmentOf[r[3]] = seg
      PROVE  r \in Rows /\ r[3] \in sw.live
  <2>1. r \in Rows /\ r \notin flagged' /\ r[3] \notin SpentOnRecord(MaxHeight)
    BY <1>2
  <2>. SUFFICES ASSUME r[3] \notin sw.live PROVE FALSE
    BY <2>1
  <2>2. r \notin flagged
    BY <2>1 DEF Back
  <2>3. r \in UnspentRows(MaxHeight)
    BY <2>1, <2>2 DEF UnspentRows, Rows
  <2>4. r \in UnspentRows(sw.start)
    BY <2>3, SettledRecord DEF UndisturbedRead
  <2>. QED  BY <1>4, <2>1, <2>4 DEF Gone
<1>5. QED
  BY <1>3, <1>4

\* One transaction makes its segment exact.
LEMMA CommitExact ==
    ASSUME SweepInv, UndisturbedRead, SwCommit
    PROVE  \A seg \in sw'.seg : Exact(seg)'
<1>. DEFINE L == sw.live
<1>1. /\ sw.pc = "commit" /\ sw.left = {} /\ UNCHANGED recVars /\ node' = node
      /\ L \subseteq Coins /\ sw'.seg = sw.seg
  <2>1. sw'.seg = sw.seg
    BY SwAtType DEF SwCommit, SwType
  <2>2. sw.pc = "commit" /\ UNCHANGED recVars /\ node' = node
    BY DEF SwCommit
  <2>. QED  BY <2>1, <2>2 DEF SweepInv, SwType
<1>2. PICK seg \in sw.seg :
        /\ foreign' = ForeignAfter(seg, sw.live)
        /\ flagged' = (flagged \ Back(seg, sw.live)) \cup Gone(seg, sw.live, sw.start)
  BY DEF SwCommit
<1>3. In(seg, Live) = L
  BY <1>1, <1>2 DEF UndisturbedRead, SweepInv, In
<1>4. {r \in UnspentRows(MaxHeight)' : SegmentOf[r[3]] = seg} = {r \in Rows : r[3] \in L}
  BY <1>1, <1>2, CommittedRows
<1>5. {c \in UnspentForeign(MaxHeight)' : SegmentOf[c] = seg} = L \ RecordedIds
  <2>1. UnspentForeign(MaxHeight)' = foreign' \ SpentOnRecord(MaxHeight)
    BY <1>1, RecordKept
  <2>2. \A c \in L : c \notin SpentOnRecord(MaxHeight) /\ SegmentOf[c] = seg
    BY <1>3, SettledRecord DEF UndisturbedRead, Live, In
  <2>3. \A c \in foreign : SegmentOf[c] = seg => c \in Slots(seg)
    BY DEF SweepInv, Slots, In
  <2>. QED  BY <1>2, <2>1, <2>2, <2>3 DEF ForeignAfter
<1>6. /\ {r[3] : r \in {q \in Rows : q[3] \in L}} = L \cap RecordedIds
      /\ Cardinality({q \in Rows : q[3] \in L}) = Cardinality(L \cap RecordedIds)
  BY <1>1, CountRows DEF UndisturbedRead
<1>7. In(seg, Picture)' = L
  <2>1. {c \in {r[3] : r \in UnspentRows(MaxHeight)'} : SegmentOf[c] = seg} = L \cap RecordedIds
    BY <1>4, <1>6
  <2>2. Picture' = {r[3] : r \in UnspentRows(MaxHeight)'} \cup UnspentForeign(MaxHeight)'
    BY DEF Picture
  <2>3. {c \in Picture' : SegmentOf[c] = seg} = (L \cap RecordedIds) \cup (L \ RecordedIds)
    BY <1>5, <2>1, <2>2
  <2>. QED  BY <2>3 DEF In
<1>8. OwnCount(seg, MaxHeight)' = Cardinality(L)
  <2>1. OwnCount(seg, MaxHeight)' =
          Cardinality({r \in UnspentRows(MaxHeight)' : SegmentOf[r[3]] = seg})
            + Cardinality({c \in UnspentForeign(MaxHeight)' : SegmentOf[c] = seg})
    BY DEF OwnCount, In
  <2>2. OwnCount(seg, MaxHeight)' = Cardinality(L \cap RecordedIds) + Cardinality(L \ RecordedIds)
    BY <1>4, <1>5, <1>6, <2>1
  <2>3. IsFiniteSet(L)
    BY <1>1, SweepAssumption, FS_Subset
  <2>4. /\ Cardinality(L \ RecordedIds) = Cardinality(L) - Cardinality(L \cap RecordedIds)
        /\ Cardinality(L) \in Nat /\ Cardinality(L \cap RecordedIds) \in Nat
    BY <2>3, FS_Difference, FS_Intersection, FS_CardinalityType
  <2>. QED  BY <2>2, <2>4
<1>9. In(seg, Live)' = L
  BY <1>1, <1>3 DEF In, Live
<1>10. \A s \in sw'.seg : s = seg
  BY <1>1, <1>2 DEF SweepInv
<1>11. \A s \in sw'.seg : s = seg => Exact(s)'
  BY <1>7, <1>8, <1>9 DEF Exact
<1>12. QED
  BY <1>10, <1>11

\* A flag whose spend is on record hides nothing: dropping it leaves the picture as it was.
LEMMA PictureKept ==
    ASSUME SweepInv, UNCHANGED <<node, recVars, foreign>>,
           flagged' = flagged \/ flagged' = WithoutRecordedSpend(flagged)
    PROVE  /\ Settled' = Settled
           /\ \A seg : Exact(seg)' = Exact(seg)
<1>1. UNCHANGED recVars /\ node' = node /\ foreign' = foreign
  OBVIOUS
<1>2. Settled' = Settled
  BY <1>1 DEF Settled, recVars, NodeHash
<1>3. UnspentRows(MaxHeight)' = UnspentRows(MaxHeight)
  <2>1. UnspentRows(MaxHeight)' =
          {r \in Rows : r \notin flagged' /\ r[3] \notin SpentOnRecord(MaxHeight)}
    BY <1>1, RecordKept
  <2>2. UnspentRows(MaxHeight) =
          {r \in Rows : r \notin flagged /\ r[3] \notin SpentOnRecord(MaxHeight)}
    BY DEF UnspentRows, Rows
  <2>3. \A r : r[3] \notin SpentOnRecord(MaxHeight) => (r \in flagged' <=> r \in flagged)
    BY DEF WithoutRecordedSpend
  <2>. QED  BY <2>1, <2>2, <2>3
<1>4. UnspentForeign(MaxHeight)' = UnspentForeign(MaxHeight)
  BY <1>1, RecordKept DEF UnspentForeign
<1>5. Live' = Live
  BY <1>1 DEF Live
<1>6. Picture' = Picture
  BY <1>3, <1>4 DEF Picture
<1>7. \A seg : OwnCount(seg, MaxHeight)' = OwnCount(seg, MaxHeight)
  BY <1>3, <1>4 DEF OwnCount, In
<1>8. \A seg : In(seg, Picture)' = In(seg, Picture) /\ In(seg, Live)' = In(seg, Live)
  BY <1>5, <1>6 DEF In
<1>9. QED
  BY <1>2, <1>7, <1>8 DEF Exact

\* block_count before a segment is read: nothing has been looked at yet.
LEMMA ReadBegins ==
    ASSUME SweepInv, SwSegment, calm', sw'.pc \in Reading
    PROVE  UndisturbedRead'
<1>1. sw' # SwAt("balances")
  BY SwAtType DEF Reading
<1>2. PICK seg \in Lowest(sw.todo) :
        sw' = [sw EXCEPT !.pc = "pace", !.todo = @ \ {seg}, !.seg = {seg},
                         !.start = node.tip, !.left = Slots(seg), !.live = {}]
  BY <1>1 DEF SwSegment
<1>3. Settled /\ UNCHANGED <<node, recVars>>
  BY <1>1 DEF SwSegment, Unchanged
<1>4. Settled' /\ Live' = Live /\ node' = node
  BY <1>3 DEF Settled, recVars, NodeHash, Live
<1>5. sw'.start = node.tip /\ sw'.seg = {seg} /\ sw'.left = Slots(seg) /\ sw'.live = {}
  BY <1>2 DEF SweepInv, SwType
<1>6. \A c \in Live : SegmentOf[c] = seg => c \in Slots(seg)
  BY LiveIsCoins DEF SweepInv, Slots, In
<1>7. sw'.live = {c \in Live' : SegmentOf[c] \in sw'.seg /\ c \notin sw'.left}
  BY <1>4, <1>5, <1>6
<1>8. QED
  BY <1>4, <1>5, <1>7 DEF UndisturbedRead

\* One getSlot.
LEMMA ReadGoesOn ==
    ASSUME SweepInv, UndisturbedRead, SwPace \/ SwRead
    PROVE  UndisturbedRead'
<1>1. UNCHANGED <<node, recVars>>
  BY DEF SwPace, SwRead, Unchanged
<1>2. Settled' = Settled /\ Live' = Live /\ node' = node
  BY <1>1 DEF Settled, recVars, NodeHash, Live
<1>3. CASE \E pc \in {"read", "commit"} : sw' = [sw EXCEPT !.pc = pc]
  <2>1. /\ sw'.start = sw.start /\ sw'.seg = sw.seg /\ sw'.left = sw.left
        /\ sw'.live = sw.live
    BY <1>3 DEF SweepInv, SwType
  <2>. QED  BY <1>2, <2>1 DEF UndisturbedRead
<1>4. CASE \E c \in Lowest(sw.left) :
             sw' = [sw EXCEPT !.left = @ \ {c},
                              !.live = IF c \in Live THEN @ \cup {c} ELSE @]
  <2>1. PICK c \in Lowest(sw.left) :
          sw' = [sw EXCEPT !.left = @ \ {c}, !.live = IF c \in Live THEN @ \cup {c} ELSE @]
    BY <1>4
  <2>2. c \in sw.left /\ SegmentOf[c] \in sw.seg
    BY DEF Lowest, SweepInv
  <2>3. /\ sw'.start = sw.start /\ sw'.seg = sw.seg /\ sw'.left = sw.left \ {c}
        /\ sw'.live = IF c \in Live THEN sw.live \cup {c} ELSE sw.live
    BY <2>1 DEF SweepInv, SwType
  <2>4. sw'.live = {d \in Live : SegmentOf[d] \in sw.seg /\ d \notin sw'.left}
    BY <2>2, <2>3 DEF UndisturbedRead
  <2>. QED  BY <1>2, <2>3, <2>4 DEF UndisturbedRead
<1>5. QED
  BY <1>3, <1>4 DEF SwPace, SwRead

LEMMA ExactStep == ExactInv /\ [Next]_vars => ExactInv'
<1>. SUFFICES ASSUME ExactInv, [Next]_vars PROVE ExactInv'
  OBVIOUS
<1>1. SweepInv /\ SweepInv'
  BY SweepInvStep DEF ExactInv
<1>2. CASE calm' = FALSE
  BY <1>1, <1>2 DEF ExactInv
<1>3. CASE NodeMoves \/ RecordNext \/ RecordReplacement \/ FillGap
  BY <1>2, <1>3 DEF NodeMoves, RecordNext, RecordReplacement, FillGap, Disturbs
<1>4. CASE RefreshAsk \/ RefreshCommit \/ ClearFlags \/ UNCHANGED vars
  <2>1. /\ UNCHANGED <<node, recVars, foreign>> /\ sw' = sw /\ calm' = calm
        /\ flagged' = flagged \/ flagged' = WithoutRecordedSpend(flagged)
    BY <1>4 DEF RefreshAsk, RefreshCommit, ClearFlags, vars, recVars
  <2>2. Live' = Live /\ node' = node
    BY <2>1 DEF Live
  <2>3. calm' /\ sw'.pc \in Reading => UndisturbedRead'
    BY <1>1, <2>1, <2>2, PictureKept DEF ExactInv, UndisturbedRead
  <2>4. calm' /\ sw'.pc = "segment" => \A seg \in sw'.seg : Exact(seg)'
    BY <1>1, <2>1, PictureKept DEF ExactInv
  <2>. QED  BY <1>1, <2>3, <2>4 DEF ExactInv
<1>5. CASE SwFails \/ SwBegin \/ SwMatched \/ SwBalances \/ SwCompare
  BY <1>1, <1>5, OutsideRead DEF ExactInv
<1>6. CASE SwTip \/ SwWait \/ SwMap \/ SwConfirm
  BY <1>1, <1>6, OutsideRead DEF ExactInv
<1>7. CASE SwSegment
  <2>1. sw'.pc # "segment"
    BY <1>1, <1>7, SwAtType DEF SwSegment, SweepInv, SwType
  <2>. QED  BY <1>1, <1>7, <2>1, ReadBegins DEF ExactInv
<1>8. CASE SwPace \/ SwRead
  <2>1. sw.pc \in Reading /\ calm' = calm /\ sw'.pc # "segment"
    BY <1>1, <1>8 DEF SwPace, SwRead, Unchanged, SweepInv, SwType, Reading
  <2>. QED  BY <1>1, <1>8, <2>1, ReadGoesOn DEF ExactInv
<1>9. CASE SwCommit
  <2>1. sw.pc \in Reading /\ calm' = calm
    BY <1>9 DEF SwCommit, Reading
  <2>2. sw'.pc \notin Reading
    BY <1>9, SwAtType DEF SwCommit, SwType, Reading
  <2>. QED  BY <1>1, <1>9, <2>1, <2>2, CommitExact DEF ExactInv
<1>10. QED
  BY <1>3, <1>4, <1>5, <1>6, <1>7, <1>8, <1>9 DEF Next, Loop, Recording, Sweep

LEMMA ExactInit == Init => ExactInv
BY SweepInvInit, SwAtType DEF Init, ExactInv, Reading

\* A segment that was read while nothing moved, with everything recorded, is exact when its
\* transaction commits and stays so until something moves: replace_state_slots,
\* unmark_live_outputs and the marking of the missing outputs together leave the coins the
\* node holds, each counted once.
THEOREM ReadSegmentIsExactHolds == Spec => []ReadSegmentIsExact
<1>1. ExactInv => ReadSegmentIsExact
  BY DEF ExactInv, Exact, ReadSegmentIsExact
<1>2. QED
  BY <1>1, ExactInit, ExactStep, PTL DEF Spec
=============================================================================
