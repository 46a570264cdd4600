------------------------------ MODULE ApiProofs ------------------------------
(***************************************************************************)
(* Theorems about Api.tla for every chain set, page, window, age limit and *)
(* finality depth, and for every commit between the statements of a        *)
(* request.                                                                *)
(***************************************************************************)
EXTENDS Api, TLAPS

LEMMA ConstantTypes ==
    /\ Main \in Chains /\ NoHash \notin Chains
    /\ MaxHeight \in Nat /\ StartTip \in Heights
    /\ MaxReorgs \in Nat /\ MaxReorgDepth \in Nat /\ MaxFills \in Nat /\ MaxClock \in Nat
    /\ RecheckDepth \in Nat /\ WindowSize \in Nat \ {0} /\ PageSize \in Nat \ {0}
    /\ FinalConfirmations \in Nat /\ MaxReorgDepth < FinalConfirmations
    /\ \A c \in Chains : ForkAt[c] \in Nat /\ 0 < ForkAt[c]
    /\ 0 \in Heights /\ Heights \subseteq Nat
BY ChainAssumption, ApiAssumption DEF Heights

-----------------------------------------------------------------------------
(* Types.                                                                  *)

LEMMA NodeTypeStep ==
    ASSUME node \in NodeType, NodeStep
    PROVE  node' \in NodeType
<1>1. CASE NodeExtend
  BY <1>1, ConstantTypes DEF NodeExtend, NodeType, Heights
<1>2. CASE \E c \in Chains : NodeReorg(c)
  <2>1. PICK c \in Chains : NodeReorg(c)
    BY <1>2
  <2>2. SplitAt(node.chain, c) \in Nat
    BY ConstantTypes DEF SplitAt, NodeType
  <2>3. PICK t \in SplitAt(node.chain, c)..MaxHeight :
          node' = [chain |-> c, tip |-> t, reorgs |-> node.reorgs + 1]
    BY <2>1 DEF NodeReorg
  <2>4. t \in Heights /\ node.reorgs + 1 \in 0..MaxReorgs
    BY <2>1, <2>2, <2>3, ConstantTypes DEF NodeReorg, NodeType, Heights
  <2>. QED  BY <2>3, <2>4 DEF NodeType
<1>. QED  BY <1>1, <1>2 DEF NodeStep

LEMMA NodeHashType ==
    ASSUME node \in NodeType, NEW h
    PROVE  NodeHash(h) \in Chains
BY ConstantTypes DEF NodeHash, HashAt, NodeType

LEMMA NothingType == Nothing \in Held
BY ConstantTypes DEF Nothing, Held

LEMMA OutdatedType ==
    ASSUME NEW x \in Held, clock \in 0..MaxClock
    PROVE  Outdated(x) \in Held
BY DEF Outdated, Held

\* The window's heights are heights of the chain.
LEMMA WindowHeights ==
    ASSUME NEW tip \in Heights
    PROVE  /\ WindowOf(tip) \subseteq Heights
           /\ \A h \in WindowOf(tip) : h + FinalConfirmations <= tip
<1>. DEFINE end == tip - FinalConfirmations
<1>1. tip \in Nat /\ tip <= MaxHeight /\ end \in Int /\ end <= tip
  BY ConstantTypes DEF Heights
<1>2. CASE end < WindowSize - 1
  BY <1>2 DEF WindowOf
<1>3. CASE ~(end < WindowSize - 1)
  <2>1. WindowOf(tip) = end - (WindowSize - 1)..end
    BY <1>3 DEF WindowOf
  <2>. QED  BY <1>1, <1>3, <2>1, ConstantTypes DEF Heights
<1>. QED  BY <1>2, <1>3

\* A request asks only what its endpoint asks.
OwnSteps ==
    /\ kind \in Figures \cup {"history"} => req.pc \in {"none", "read", "store"}
    /\ kind \in {"block", "page"} => req.pc \in {"none", "mark"}
    /\ kind = "window" => req.pc \in {"none", "fetch"}

TypeInv == ATypeOK /\ OwnSteps

LEMMA TypeInit == Init => TypeInv
<1>. SUFFICES ASSUME Init PROVE TypeInv
  OBVIOUS
<1>. USE ConstantTypes, ApiAssumption DEF Init
<1>1. node \in NodeType
  BY ChainAssumption DEF NodeInit, NodeType
<1>2. lowest \in Heights
  BY DEF Heights
<1>3. arch \in [Heights -> Chains \cup {NoHash}]
  OBVIOUS
<1>4. cache \in Held /\ req \in Held /\ answer \in Held /\ req.pc = "none"
  BY NothingType DEF Nothing
<1>. QED
  BY <1>1, <1>2, <1>3, <1>4 DEF TypeInv, ATypeOK, OwnSteps

\* What a commit does to what readers hold.
LEMMA CommittedType ==
    ASSUME TypeInv, Committed
    PROVE  /\ node' \in NodeType /\ clock' \in 0..MaxClock /\ kind' \in Kinds
           /\ cache' \in Held /\ req' \in Held /\ answer' \in Held
           /\ OwnSteps'
<1>1. node' = node /\ clock' = clock /\ kind' = kind /\ answer' = answer
  BY DEF Committed
<1>2. cache' \in Held /\ req' \in Held
  BY OutdatedType DEF Committed, TypeInv, ATypeOK
<1>3. req'.pc = req.pc
  BY DEF Committed, Outdated, TypeInv, ATypeOK, Held
<1>. QED
  BY <1>1, <1>2, <1>3 DEF TypeInv, ATypeOK, OwnSteps

LEMMA WriterType == TypeInv /\ Writer => TypeInv'
<1>. SUFFICES ASSUME TypeInv, Writer PROVE TypeInv'
  OBVIOUS
<1>. USE DEF TypeInv, ATypeOK
<1>1. CASE BeginPoll
  <2>1. loop' \in [pc : {"idle", "ingest", "recheck"}, tip : Heights]
    BY <1>1 DEF BeginPoll, NodeType
  <2>. QED  BY <1>1, <2>1 DEF BeginPoll, OwnSteps
<1>2. CASE RecordBlock
  <2>1. last + 1 \in Heights
    BY <1>2, ConstantTypes DEF RecordBlock, Heights
  <2>2. arch' \in [Heights -> Chains \cup {NoHash}]
    BY <1>2, NodeHashType DEF RecordBlock
  <2>. QED  BY <1>2, <2>1, <2>2, CommittedType DEF RecordBlock
<1>3. CASE ReplaceBlock
  <2>0. PICK h \in Replaced : arch' = [arch EXCEPT ![h] = NodeHash(h)]
    BY <1>3 DEF ReplaceBlock
  <2>1. arch' \in [Heights -> Chains \cup {NoHash}]
    <3>1. NodeHash(h) \in Chains
      BY NodeHashType
    <3>. QED  BY <2>0, <3>1
  <2>. QED  BY <1>3, <2>1, CommittedType DEF ReplaceBlock
<1>4. CASE EndPoll \/ BreakOff
  BY <1>4 DEF EndPoll, BreakOff, OwnSteps
<1>5. CASE CopyHeader
  <2>1. lowest' \in Heights
    BY <1>5, ConstantTypes DEF CopyHeader, Heights
  <2>2. HashAt(node.chain, lowest') \in Chains
    BY ConstantTypes DEF HashAt, NodeType
  <2>3. arch' \in [Heights -> Chains \cup {NoHash}]
    BY <1>5, <2>2 DEF CopyHeader
  <2>. QED  BY <1>5, <2>1, <2>3, CommittedType DEF CopyHeader
<1>6. CASE ChangeOther
  <2>1. fills' \in 0..MaxFills
    BY <1>6, ConstantTypes DEF ChangeOther
  <2>. QED  BY <1>6, <2>1, CommittedType DEF ChangeOther
<1>. QED
  BY <1>1, <1>2, <1>3, <1>4, <1>5, <1>6 DEF Writer

LEMMA RequestType == TypeInv /\ Request => TypeInv'
<1>. SUFFICES ASSUME TypeInv, Request PROVE TypeInv'
  OBVIOUS
<1>. USE DEF TypeInv, ATypeOK
<1>1. CASE LookUp
  <2>1. CASE Fresh(cache)
    <3>1. answer' = [cache EXCEPT !.at = clock, !.tip = last, !.lowest = lowest] /\ req' = req
      BY <1>1, <2>1 DEF LookUp
    <3>2. answer' \in Held
      BY <3>1 DEF Held
    <3>. QED  BY <1>1, <3>1, <3>2 DEF LookUp, OwnSteps
  <2>2. CASE ~Fresh(cache)
    <3>1. /\ req' = [Nothing EXCEPT !.pc = "read", !.tip = last, !.lowest = lowest, !.at = clock]
          /\ answer' = answer
      BY <1>1, <2>2 DEF LookUp
    <3>2. req' \in Held /\ req'.pc = "read"
      BY <3>1, NothingType DEF Held
    <3>. QED  BY <1>1, <3>1, <3>2 DEF LookUp, OwnSteps, Figures
  <2>. QED  BY <2>1, <2>2
<1>2. CASE MakeFigures
  <2>1. req' \in Held /\ req'.pc = "store"
    BY <1>2 DEF MakeFigures, Held
  <2>. QED  BY <1>2, <2>1 DEF MakeFigures, OwnSteps
<1>3. CASE StoreFigures
  <2>1. cache' \in Held /\ answer' \in Held
    BY <1>3 DEF StoreFigures, Key, Held
  <2>2. req' \in Held /\ req'.pc = "none"
    BY <1>3, NothingType DEF StoreFigures, Nothing
  <2>. QED  BY <1>3, <2>1, <2>2 DEF StoreFigures, OwnSteps
<1>4. CASE ReadRows
  <2>1. PICK top \in Heights :
          LET rows == IF kind = "block" THEN {top} ELSE Monus(top + 1, PageSize)..top IN
          /\ \A h \in rows : arch[h] # NoHash
          /\ req' = [Nothing EXCEPT !.pc = "mark", !.upTo = top,
                                    !.blocks = {<<h, arch[h]>> : h \in rows},
                                    !.quiet = (unseen = "none"), !.tip = last,
                                    !.reorgs = node.reorgs]
    BY <1>4 DEF ReadRows
  <2>. DEFINE rows == IF kind = "block" THEN {top} ELSE Monus(top + 1, PageSize)..top
  <2>2. rows \subseteq Heights
    BY ConstantTypes DEF Monus, Heights
  <2>3. {<<h, arch[h]>> : h \in rows} \subseteq Blocks
    BY <2>1, <2>2 DEF Blocks
  <2>4. node.reorgs \in 0..MaxReorgs
    BY DEF NodeType
  <2>5. req' \in Held /\ req'.pc = "mark"
    BY <2>1, <2>3, <2>4, NothingType DEF Held
  <2>. QED  BY <1>4, <2>5 DEF ReadRows, OwnSteps, Figures
<1>5. CASE MarkFinal
  <2>1. answer' \in Held
    BY <1>5 DEF MarkFinal, Held
  <2>2. req' \in Held /\ req'.pc = "none"
    BY <1>5, NothingType DEF MarkFinal, Nothing
  <2>. QED  BY <1>5, <2>1, <2>2 DEF MarkFinal, OwnSteps
<1>6. CASE AskWindow
  <2>1. CASE cache.tip = node.tip
    BY <1>6, <2>1 DEF AskWindow, OwnSteps
  <2>2. CASE cache.tip # node.tip
    <3>1. /\ req' = [Nothing EXCEPT !.pc = "fetch", !.tip = node.tip, !.todo = WindowOf(node.tip)]
          /\ answer' = answer
      BY <1>6, <2>2 DEF AskWindow
    <3>2. WindowOf(node.tip) \subseteq Heights /\ node.tip \in Heights
      BY WindowHeights DEF NodeType
    <3>3. req' \in Held /\ req'.pc = "fetch"
      BY <3>1, <3>2, NothingType DEF Held
    <3>. QED  BY <1>6, <3>1, <3>3 DEF AskWindow, OwnSteps, Figures
  <2>. QED  BY <2>1, <2>2
<1>7. CASE FetchHeader
  <2>1. PICK h \in req.todo :
          req' = [req EXCEPT !.todo = @ \ {h}, !.blocks = @ \cup {<<h, NodeHash(h)>>}]
    BY <1>7 DEF FetchHeader
  <2>2. <<h, NodeHash(h)>> \in Blocks
    BY NodeHashType DEF Held, Blocks
  <2>3. req' \in Held /\ req'.pc = req.pc
    BY <2>1, <2>2 DEF Held
  <2>. QED  BY <1>7, <2>3 DEF FetchHeader, OwnSteps
<1>8. CASE StoreWindow
  <2>1. cache' \in Held /\ answer' \in Held
    BY <1>8 DEF StoreWindow, Held
  <2>2. req' \in Held /\ req'.pc = "none"
    BY <1>8, NothingType DEF StoreWindow, Nothing
  <2>. QED  BY <1>8, <2>1, <2>2 DEF StoreWindow, OwnSteps
<1>. QED
  BY <1>1, <1>2, <1>3, <1>4, <1>5, <1>6, <1>7, <1>8 DEF Request

LEMMA TypeStep == TypeInv /\ [Next]_vars => TypeInv'
<1>. SUFFICES ASSUME TypeInv, [Next]_vars PROVE TypeInv'
  OBVIOUS
<1>1. CASE UNCHANGED vars
  BY <1>1 DEF vars, TypeInv, ATypeOK, OwnSteps
<1>2. CASE NodeMoves
  BY <1>2, NodeTypeStep DEF NodeMoves, TypeInv, ATypeOK, OwnSteps
<1>3. CASE Tick
  <2>1. clock' \in 0..MaxClock
    BY <1>3, ConstantTypes DEF Tick, TypeInv, ATypeOK
  <2>. QED  BY <1>3, <2>1 DEF Tick, TypeInv, ATypeOK, OwnSteps
<1>. QED
  BY <1>1, <1>2, <1>3, WriterType, RequestType DEF Next

\* What a request, a cache entry and an answer hold has the types of serve.rs, the lowest
\* row never falls below genesis, and a request takes only its own endpoint's steps.
THEOREM ApiTypeCorrect == Spec => []ATypeOK
<1>1. TypeInv => ATypeOK
  BY DEF TypeInv
<1>. QED  BY <1>1, TypeInit, TypeStep, PTL DEF Spec

-----------------------------------------------------------------------------
(* Figures.                                                                *)

FigureKinds == Figures \cup {"history"}

\* Every figure under way, cached or given reaches at least the tip it is labelled with:
\* the label is read first, and last_processed_height only grows.
ReachInv ==
    /\ TypeInv
    /\ kind \in FigureKinds =>
         /\ req.pc \in {"read", "store"} => req.tip \in Heights /\ req.tip <= last
         /\ req.pc = "store" => req.tip <= req.upTo
         /\ cache.tip # NoHash => cache.tip <= cache.upTo
         /\ answer.tip # NoHash => answer.tip <= answer.upTo

\* One endpoint is asked in a behaviour.
LEMMA KindKept == [Next]_vars => kind' = kind
<1>1. CASE UNCHANGED vars \/ NodeMoves \/ Tick \/ BeginPoll \/ EndPoll \/ BreakOff
  BY <1>1 DEF vars, NodeMoves, Tick, BeginPoll, EndPoll, BreakOff
<1>2. CASE RecordBlock \/ ReplaceBlock \/ CopyHeader \/ ChangeOther
  BY <1>2 DEF RecordBlock, ReplaceBlock, CopyHeader, ChangeOther, Committed
<1>3. CASE LookUp \/ MakeFigures \/ StoreFigures \/ ReadRows \/ MarkFinal
  BY <1>3 DEF LookUp, MakeFigures, StoreFigures, ReadRows, MarkFinal
<1>4. CASE AskWindow \/ FetchHeader \/ StoreWindow
  BY <1>4 DEF AskWindow, FetchHeader, StoreWindow
<1>. QED
  BY <1>1, <1>2, <1>3, <1>4 DEF Next, Writer, Request

LEMMA ReachInit == Init => ReachInv
BY TypeInit DEF Init, ReachInv, Nothing

\* A commit leaves what is held alone but for its history.
LEMMA CommittedKeeps ==
    ASSUME TypeInv, Committed
    PROVE  /\ kind' = kind /\ answer' = answer /\ clock' = clock /\ node' = node
           /\ cache' = Outdated(cache) /\ req' = Outdated(req)
           /\ cache'.tip = cache.tip /\ cache'.upTo = cache.upTo /\ cache'.at = cache.at
           /\ req'.pc = req.pc /\ req'.tip = req.tip /\ req'.upTo = req.upTo
           /\ req'.at = req.at /\ req'.blocks = req.blocks /\ req'.todo = req.todo
           /\ cache'.blocks = cache.blocks
           /\ req'.quiet = req.quiet /\ req'.reorgs = req.reorgs
BY DEF TypeInv, ATypeOK, Committed, Outdated, Held

LEMMA ReachStep == ReachInv /\ [Next]_vars => ReachInv'
<1>. SUFFICES ASSUME ReachInv, [Next]_vars PROVE ReachInv'
  OBVIOUS
<1>0. TypeInv /\ TypeInv' /\ kind' = kind
  BY TypeStep, KindKept DEF ReachInv
<1>. SUFFICES ASSUME kind \in FigureKinds PROVE ReachInv'
  BY <1>0 DEF ReachInv
<1>a. /\ last \in Nat /\ cache \in Held /\ req \in Held /\ answer \in Held
      /\ last \in Heights /\ lowest \in Heights /\ req.pc \in {"none", "read", "store"}
  BY <1>0, ConstantTypes DEF TypeInv, ATypeOK, OwnSteps, FigureKinds
<1>. USE DEF ReachInv
<1>1. CASE UNCHANGED vars
  BY <1>0, <1>1 DEF vars
<1>2. CASE NodeMoves \/ Tick \/ BeginPoll \/ EndPoll \/ BreakOff
  <2>1. UNCHANGED <<last, kind, cache, req, answer>>
    BY <1>2 DEF NodeMoves, Tick, BeginPoll, EndPoll, BreakOff
  <2>. QED  BY <1>0, <2>1
<1>3. CASE RecordBlock \/ ReplaceBlock \/ CopyHeader \/ ChangeOther
  <2>1. last' \in {last, last + 1} /\ Committed
    BY <1>3 DEF RecordBlock, ReplaceBlock, CopyHeader, ChangeOther
  <2>2. req.pc \in {"read", "store"} => req'.tip \in Heights /\ req'.tip <= last'
    <3>1. CASE req.pc \in {"read", "store"}
      <4>1. req.tip \in Heights /\ req.tip \in Nat /\ req.tip <= last
        BY <3>1, ConstantTypes
      <4>2. req'.tip = req.tip
        BY <1>0, <2>1, CommittedKeeps
      <4>. QED  BY <1>a, <2>1, <4>1, <4>2
    <3>. QED  BY <3>1
  <2>. QED  BY <1>0, <2>1, <2>2, CommittedKeeps
<1>4. CASE LookUp
  <2>1. CASE Fresh(cache)
    <3>1. answer' = [cache EXCEPT !.at = clock, !.tip = last, !.lowest = lowest] /\ req' = req
      BY <1>4, <2>1 DEF LookUp
    <3>2. cache.tip = last /\ answer'.tip = last /\ answer'.upTo = cache.upTo
      BY <1>a, <2>1, <3>1 DEF Fresh, Held
    <3>. QED  BY <1>0, <1>4, <3>1, <3>2 DEF LookUp
  <2>2. CASE ~Fresh(cache)
    <3>1. req'.pc = "read" /\ req'.tip = last
      BY <1>4, <2>2 DEF LookUp, Nothing
    <3>. QED  BY <1>0, <1>4, <1>a, <2>2, <3>1 DEF LookUp
  <2>. QED  BY <2>1, <2>2
<1>5. CASE MakeFigures
  <2>1. req'.tip = req.tip /\ req'.upTo = last
    BY <1>5, <1>a DEF MakeFigures, Held
  <2>. QED  BY <1>0, <1>5, <2>1 DEF MakeFigures
<1>6. CASE StoreFigures
  <2>1. /\ cache'.tip = req.tip /\ cache'.upTo = req.upTo
        /\ answer'.tip = req.tip /\ answer'.upTo = req.upTo /\ req'.pc = "none"
    BY <1>6, <1>a DEF StoreFigures, Key, Held, Nothing
  <2>. QED  BY <1>0, <1>6, <2>1 DEF StoreFigures
<1>7. CASE ReadRows \/ MarkFinal \/ AskWindow \/ FetchHeader \/ StoreWindow
  <2>1. kind \notin {"block", "page", "window"}
    BY DEF FigureKinds, Figures
  <2>. QED  BY <1>7, <1>a, <2>1 DEF ReadRows, MarkFinal, AskWindow, FetchHeader, StoreWindow
<1>. QED
  BY <1>1, <1>2, <1>3, <1>4, <1>5, <1>6, <1>7 DEF Next, Writer, Request

\* Figures are never behind the tip they were asked for: cached_chain_stats, get_miners
\* and the two others read the tip before they make the figures, so a block recorded in
\* between makes an entry that is passed over, not one that is short.
THEOREM FiguresReachTheTipHolds == Spec => []FiguresReachTheTip
<1>1. ReachInv => FiguresReachTheTip
  BY DEF ReachInv, FiguresReachTheTip, FigureKinds
<1>. QED  BY <1>1, ReachInit, ReachStep, PTL DEF Spec

\* A request is made and answered within a second, and an entry was true when it was made.
AgeInv ==
    /\ TypeInv
    /\ kind \in Figures =>
         /\ req.pc # "none" => req.at = clock
         /\ req.pc = "store" => req.outdated \in {Never, clock}
         /\ cache.at <= clock
         /\ cache.outdated # Never => cache.at <= cache.outdated
         /\ answer.outdated # Never => answer.at - answer.outdated < MaxAge[kind]

LEMMA AgeInit == Init => AgeInv
BY TypeInit, ConstantTypes DEF Init, AgeInv, Nothing

LEMMA AgeStep == AgeInv /\ [Next]_vars => AgeInv'
<1>. SUFFICES ASSUME AgeInv, [Next]_vars PROVE AgeInv'
  OBVIOUS
<1>0. TypeInv /\ TypeInv' /\ kind' = kind
  BY TypeStep, KindKept DEF AgeInv
<1>. SUFFICES ASSUME kind \in Figures PROVE AgeInv'
  BY <1>0 DEF AgeInv
<1>a. /\ cache \in Held /\ req \in Held /\ answer \in Held /\ clock \in 0..MaxClock
      /\ req.pc \in {"none", "read", "store"} /\ MaxClock \in Nat
      /\ MaxAge[kind] \in Nat /\ 0 < MaxAge[kind] /\ Never \notin 0..MaxClock
  BY <1>0, ConstantTypes, ApiAssumption DEF TypeInv, ATypeOK, OwnSteps
<1>. USE DEF AgeInv
<1>1. CASE UNCHANGED vars
  BY <1>0, <1>1 DEF vars
<1>2. CASE NodeMoves \/ BeginPoll \/ EndPoll \/ BreakOff
  <2>1. UNCHANGED <<clock, kind, cache, req, answer>>
    BY <1>2 DEF NodeMoves, BeginPoll, EndPoll, BreakOff
  <2>. QED  BY <1>0, <2>1
<1>3. CASE RecordBlock \/ ReplaceBlock \/ CopyHeader \/ ChangeOther
  <2>1. Committed
    BY <1>3 DEF RecordBlock, ReplaceBlock, CopyHeader, ChangeOther
  <2>2. /\ cache'.outdated = IF cache.outdated = Never THEN clock ELSE cache.outdated
        /\ req'.outdated = IF req.outdated = Never THEN clock ELSE req.outdated
    BY <1>a, <2>1 DEF Committed, Outdated, Held
  <2>. QED  BY <1>0, <1>a, <2>1, <2>2, CommittedKeeps
<1>4. CASE Tick
  <2>1. clock' = clock + 1 /\ req.pc = "none" /\ UNCHANGED <<kind, cache, req, answer>>
    BY <1>4 DEF Tick
  <2>2. cache.at <= clock'
    BY <1>a, <2>1 DEF Held
  <2>. QED  BY <1>0, <2>1, <2>2
<1>5. CASE LookUp
  <2>1. CASE Fresh(cache)
    <3>1. /\ answer' = [cache EXCEPT !.at = clock, !.tip = last, !.lowest = lowest]
          /\ UNCHANGED <<clock, kind, cache, req>>
      BY <1>5, <2>1 DEF LookUp
    <3>2. answer'.at = clock /\ answer'.outdated = cache.outdated
      BY <1>a, <3>1 DEF Held
    <3>3. clock - cache.at < MaxAge[kind]
      BY <2>1 DEF Fresh
    <3>4. cache.at \in 0..MaxClock /\ (cache.outdated # Never => cache.outdated \in 0..MaxClock)
      BY <1>a DEF Held
    <3>5. cache.outdated # Never => clock - cache.outdated < MaxAge[kind]
      BY <1>a, <3>3, <3>4
    <3>. QED  BY <1>0, <3>1, <3>2, <3>5
  <2>2. CASE ~Fresh(cache)
    <3>1. req'.pc = "read" /\ req'.at = clock /\ UNCHANGED <<clock, kind, cache, answer>>
      BY <1>5, <2>2 DEF LookUp, Nothing
    <3>. QED  BY <1>0, <3>1
  <2>. QED  BY <2>1, <2>2
<1>6. CASE MakeFigures
  <2>1. /\ req'.at = req.at /\ req'.outdated = Never /\ req.pc = "read"
        /\ UNCHANGED <<clock, kind, cache, answer>>
    BY <1>6, <1>a DEF MakeFigures, Held
  <2>. QED  BY <1>0, <2>1
<1>7. CASE StoreFigures
  <2>1. /\ cache'.at = req.at /\ cache'.outdated = req.outdated
        /\ answer'.at = req.at /\ answer'.outdated = req.outdated
        /\ req'.pc = "none" /\ req.pc = "store" /\ UNCHANGED <<clock, kind>>
    BY <1>7, <1>a DEF StoreFigures, Key, Held, Nothing
  <2>. QED  BY <1>0, <1>a, <2>1
<1>8. CASE ReadRows \/ MarkFinal \/ AskWindow \/ FetchHeader \/ StoreWindow
  <2>1. kind \notin {"block", "page", "window"}
    BY DEF Figures
  <2>. QED  BY <1>8, <1>a, <2>1 DEF ReadRows, MarkFinal, AskWindow, FetchHeader, StoreWindow
<1>. QED
  BY <1>1, <1>2, <1>3, <1>4, <1>5, <1>6, <1>7, <1>8 DEF Next, Writer, Request

\* Figures given were true less than their age limit ago, whatever was recorded,
\* replaced, filled or pruned since (CHAIN_STATS_MAX_AGE_SECONDS and its like).
THEOREM FiguresAreRecentHolds == Spec => []FiguresAreRecent
<1>1. AgeInv => FiguresAreRecent
  BY DEF AgeInv, FiguresAreRecent
<1>. QED  BY <1>1, AgeInit, AgeStep, PTL DEF Spec

-----------------------------------------------------------------------------
(* What the node can no longer replace.                                    *)

\* Deeper than a reorganization reaches.
Settled(h) == h + FinalConfirmations <= node.tip + 1

\* Two chains agree below the height at which they split.
LEMMA AgreeBelowSplit ==
    ASSUME NEW c \in Chains, NEW d \in Chains, c # d, NEW h \in Heights, h < SplitAt(c, d)
    PROVE  HashAt(c, h) = HashAt(d, h)
BY ConstantTypes DEF HashAt, SplitAt

\* Whatever the node does, a settled height stays settled and keeps its block.
LEMMA SettledStays ==
    ASSUME ~NodeMayShrink, node \in NodeType, NodeStep, NEW h \in Heights, Settled(h)
    PROVE  Settled(h)' /\ NodeHash(h)' = NodeHash(h)
<1>. USE ConstantTypes
<1>0. node.tip \in Nat /\ node.chain \in Chains /\ h \in Nat
  BY DEF NodeType
<1>1. CASE NodeExtend
  <2>1. node'.tip = node.tip + 1 /\ node'.chain = node.chain
    BY <1>0, <1>1 DEF NodeExtend, NodeType
  <2>. QED  BY <1>0, <2>1 DEF Settled, NodeHash
<1>2. CASE \E c \in Chains : NodeReorg(c)
  <2>1. PICK c \in Chains : NodeReorg(c)
    BY <1>2
  <2>2. SplitAt(node.chain, c) \in Nat
    BY <1>0 DEF SplitAt
  <2>3. PICK t \in SplitAt(node.chain, c)..MaxHeight :
           /\ node.tip <= t
           /\ node' = [chain |-> c, tip |-> t, reorgs |-> node.reorgs + 1]
    BY <2>1 DEF NodeReorg
  <2>4. c # node.chain /\ node.tip + 1 - SplitAt(node.chain, c) <= MaxReorgDepth
    BY <2>1 DEF NodeReorg
  <2>5. node'.tip = t /\ node'.chain = c /\ t \in Nat
    BY <2>2, <2>3
  <2>6. h < SplitAt(node.chain, c)
    BY <1>0, <2>2, <2>4 DEF Settled
  <2>7. HashAt(node.chain, h) = HashAt(c, h)
    BY <1>0, <2>4, <2>6, AgreeBelowSplit
  <2>8. Settled(h)'
    BY <1>0, <2>3, <2>5 DEF Settled
  <2>. QED  BY <2>5, <2>7, <2>8 DEF NodeHash
<1>3. QED
  BY <1>1, <1>2 DEF NodeStep

\* The tip never falls.
LEMMA TipStays ==
    ASSUME ~NodeMayShrink, node \in NodeType, NodeStep
    PROVE  node'.tip \in Nat /\ node.tip \in Nat /\ node.tip <= node'.tip
<1>. USE ConstantTypes
<1>1. CASE NodeExtend
  BY <1>1 DEF NodeExtend, NodeType
<1>2. CASE \E c \in Chains : NodeReorg(c)
  <2>1. PICK c \in Chains : NodeReorg(c)
    BY <1>2
  <2>2. SplitAt(node.chain, c) \in Nat
    BY DEF SplitAt, NodeType
  <2>3. PICK t \in SplitAt(node.chain, c)..MaxHeight :
           /\ node.tip <= t
           /\ node' = [chain |-> c, tip |-> t, reorgs |-> node.reorgs + 1]
    BY <2>1 DEF NodeReorg
  <2>4. t \in Nat /\ node'.tip = t
    BY <2>2, <2>3
  <2>5. node.tip \in Nat
    BY DEF NodeType
  <2>. QED  BY <2>3, <2>4, <2>5
<1>. QED  BY <1>1, <1>2 DEF NodeStep

\* The node's own block, at a settled height.
Permanent(b) == Settled(b[1]) /\ b[2] = NodeHash(b[1])

LEMMA PermanentStays ==
    ASSUME ~NodeMayShrink, node \in NodeType, NodeStep, NEW b \in Blocks, Permanent(b)
    PROVE  Permanent(b)'
<1>1. b[1] \in Heights
  BY DEF Blocks
<1>. QED  BY <1>1, SettledStays DEF Permanent

-----------------------------------------------------------------------------
(* The window of final headers.                                            *)

WindowInv ==
    /\ TypeInv
    /\ kind = "window" =>
         /\ \A h \in req.todo : Settled(h)
         /\ \A b \in req.blocks \cup cache.blocks \cup answer.blocks : Permanent(b)

LEMMA WindowInit == Init => WindowInv
BY TypeInit DEF Init, WindowInv, Nothing

\* Nothing it depends on moves, or only what readers do not see.
LEMMA WindowKept ==
    ASSUME WindowInv, TypeInv', UNCHANGED <<node, kind>>,
           req'.todo \subseteq req.todo,
           req'.blocks \subseteq req.blocks, cache'.blocks \subseteq cache.blocks \cup req.blocks,
           answer'.blocks \subseteq answer.blocks \cup cache.blocks \cup req.blocks
    PROVE  WindowInv'
<1>1. \A h \in req.todo : Settled(h)' = Settled(h)
  BY DEF Settled
<1>2. \A b : Permanent(b)' = Permanent(b)
  BY DEF Permanent, Settled, NodeHash
<1>. QED  BY <1>1, <1>2 DEF WindowInv

LEMMA WindowStep == ~NodeMayShrink /\ WindowInv /\ [Next]_vars => WindowInv'
<1>. SUFFICES ASSUME ~NodeMayShrink, WindowInv, [Next]_vars PROVE WindowInv'
  OBVIOUS
<1>0. TypeInv /\ TypeInv' /\ kind' = kind
  BY TypeStep, KindKept DEF WindowInv
<1>. SUFFICES ASSUME kind = "window" PROVE WindowInv'
  BY <1>0 DEF WindowInv
<1>a. /\ node \in NodeType /\ cache \in Held /\ req \in Held /\ answer \in Held
      /\ req.pc \in {"none", "fetch"}
  BY <1>0 DEF TypeInv, ATypeOK, OwnSteps
<1>1. CASE UNCHANGED vars
  BY <1>0, <1>1, WindowKept DEF vars
<1>2. CASE NodeMoves
  <2>1. NodeStep /\ UNCHANGED <<cache, req, answer>>
    BY <1>2 DEF NodeMoves
  <2>2. \A h \in req.todo : h \in Heights
    BY <1>a DEF Held
  <2>3. \A b \in req.blocks \cup cache.blocks \cup answer.blocks : b \in Blocks
    BY <1>a DEF Held
  <2>4. \A h \in req.todo : Settled(h)'
    BY <1>a, <2>1, <2>2, SettledStays DEF WindowInv
  <2>5. \A b \in req.blocks \cup cache.blocks \cup answer.blocks : Permanent(b)'
    BY <1>a, <2>1, <2>3, PermanentStays DEF WindowInv
  <2>. QED  BY <1>0, <2>1, <2>4, <2>5 DEF WindowInv
<1>3. CASE Tick \/ BeginPoll \/ EndPoll \/ BreakOff
  <2>1. UNCHANGED <<node, kind, cache, req, answer>>
    BY <1>3 DEF Tick, BeginPoll, EndPoll, BreakOff
  <2>. QED  BY <1>0, <2>1, WindowKept
<1>4. CASE RecordBlock \/ ReplaceBlock \/ CopyHeader \/ ChangeOther
  <2>1. Committed
    BY <1>4 DEF RecordBlock, ReplaceBlock, CopyHeader, ChangeOther
  <2>. QED  BY <1>0, <2>1, CommittedKeeps, WindowKept
<1>5. CASE LookUp \/ MakeFigures \/ StoreFigures \/ ReadRows \/ MarkFinal
  BY <1>5, <1>a DEF LookUp, MakeFigures, StoreFigures, ReadRows, MarkFinal, Figures
<1>6. CASE AskWindow
  <2>1. CASE answer' = cache /\ UNCHANGED <<node, kind, cache, req>>
    BY <1>0, <2>1, WindowKept
  <2>2. CASE /\ req' = [Nothing EXCEPT !.pc = "fetch", !.tip = node.tip,
                                       !.todo = WindowOf(node.tip)]
             /\ UNCHANGED <<node, kind, cache, answer>>
    <3>1. req'.blocks = {} /\ req'.todo = WindowOf(node.tip)
      BY <2>2 DEF Nothing
    <3>2. node.tip \in Heights /\ node.tip \in Nat
      BY <1>a, ConstantTypes DEF NodeType
    <3>3. \A h \in WindowOf(node.tip) : Settled(h)
      <4>1. TAKE h \in WindowOf(node.tip)
      <4>2. h \in Nat /\ h + FinalConfirmations <= node.tip
        BY <3>2, WindowHeights, ConstantTypes
      <4>. QED  BY <3>2, <4>2, ConstantTypes DEF Settled
    <3>4. \A h \in req'.todo : Settled(h)'
      BY <2>2, <3>1, <3>3 DEF Settled
    <3>5. \A b : Permanent(b)' = Permanent(b)
      BY <2>2 DEF Permanent, Settled, NodeHash
    <3>. QED  BY <1>0, <2>2, <3>1, <3>4, <3>5 DEF WindowInv
  <2>. QED  BY <1>6, <2>1, <2>2 DEF AskWindow
<1>7. CASE FetchHeader
  <2>1. PICK h \in req.todo :
          req' = [req EXCEPT !.todo = @ \ {h}, !.blocks = @ \cup {<<h, NodeHash(h)>>}]
    BY <1>7 DEF FetchHeader
  <2>2. req'.todo \subseteq req.todo /\ req'.blocks = req.blocks \cup {<<h, NodeHash(h)>>}
    BY <1>a, <2>1 DEF Held
  <2>3. Permanent(<<h, NodeHash(h)>>)
    BY DEF WindowInv, Permanent
  <2>4. UNCHANGED <<node, kind, cache, answer>>
    BY <1>7 DEF FetchHeader
  <2>5. (\A b : Permanent(b)' = Permanent(b)) /\ (\A g : Settled(g)' = Settled(g))
    BY <2>4 DEF Permanent, Settled, NodeHash
  <2>. QED  BY <1>0, <2>2, <2>3, <2>4, <2>5 DEF WindowInv
<1>8. CASE StoreWindow
  <2>1. /\ cache'.blocks = req.blocks /\ answer'.blocks = req.blocks
        /\ req'.blocks = {} /\ req'.todo = {} /\ UNCHANGED <<node, kind>>
    BY <1>8, <1>a DEF StoreWindow, Nothing, Held
  <2>. QED  BY <1>0, <2>1, WindowKept
<1>. QED
  BY <1>1, <1>2, <1>3, <1>4, <1>5, <1>6, <1>7, <1>8 DEF Next, Writer, Request

\* The cached window holds the chain's headers whatever the node did between the calls of
\* finalized_window and since, as long as its tip does not fall: it begins FINAL_CONFIRMATIONS
\* below the tip it read.
THEOREM WindowIsPermanentHolds ==
    ASSUME NodeMayShrink = FALSE
    PROVE  Spec => []WindowIsPermanent
<1>1. ~NodeMayShrink
  OBVIOUS
<1>2. WindowInv => WindowIsPermanent
  BY DEF WindowInv, WindowIsPermanent, Permanent
<1>3. WindowInv /\ [Next]_vars => WindowInv'
  BY <1>1, WindowStep
<1>. QED  BY <1>2, <1>3, WindowInit, PTL DEF Spec

-----------------------------------------------------------------------------
(* Answers marked final.                                                   *)

\* A replaced block on record.
Stale(h) == arch[h] # NoHash /\ arch[h] # NodeHash(h)

\* The loop works within the chain.  A poll begun after the last reorganization has every
\* replaced block in the window it re-checks, so when it completes none is left, and none
\* comes back before the next one.
ArchiveInv ==
    /\ last <= node.tip /\ loop.tip <= node.tip /\ lowest <= last
    /\ \A h \in Heights : arch[h] # NoHash => h <= last
    /\ StaleWithinReach
    /\ unseen = "none" => \A h \in Heights : ~Stale(h)
    /\ unseen = "polled" =>
         /\ loop.pc # "idle"
         /\ \A h \in Heights : Stale(h) => h \in Monus(loop.tip, RecheckDepth)..loop.tip

\* What was read with nothing stale is the chain's until it reorganizes, and what is out of
\* a reorganization's reach from the tip of that moment stays the chain's.
ReaderInv ==
    kind \in {"block", "page"} =>
         /\ req.pc = "mark" =>
              /\ \A b \in req.blocks : b[1] <= req.upTo
              /\ req.tip \in Heights /\ req.tip <= last /\ req.reorgs <= node.reorgs
         /\ req.pc = "mark" /\ req.quiet =>
              \A b \in req.blocks :
                  \/ node.reorgs = req.reorgs
                  \/ b[1] + FinalConfirmations <= req.tip + 1
                  => b[2] = NodeHash(b[1])
         /\ answer.quiet => \A b \in answer.blocks : Permanent(b)

FinalInv == TypeInv /\ ArchiveInv /\ ReaderInv

LEMMA FinalInit == Init => FinalInv
<1>. SUFFICES ASSUME Init PROVE FinalInv
  OBVIOUS
<1>. USE ConstantTypes, ApiAssumption DEF Init
<1>1. \A h \in Heights : NodeHash(h) = Main /\ arch[h] \in {Main, NoHash}
  BY DEF NodeInit, NodeHash, HashAt
<1>2. \A h \in Heights : arch[h] # NoHash => h <= last
  OBVIOUS
<1>3. node.tip = StartTip
  BY DEF NodeInit
<1>4. StaleWithinReach /\ \A h \in Heights : ~Stale(h)
  BY <1>1 DEF StaleWithinReach, Stale
<1>5. StartTip \in Nat /\ lowest <= last
  OBVIOUS
<1>6. ArchiveInv
  BY <1>2, <1>3, <1>4, <1>5 DEF ArchiveInv
<1>7. ReaderInv
  BY DEF ReaderInv, Nothing
<1>. QED  BY <1>6, <1>7, TypeInit DEF FinalInv

\* The steps that neither the node nor the archive takes part in.
LEMMA ArchiveKept ==
    ASSUME ArchiveInv, UNCHANGED <<node, arch, last, lowest, loop, unseen>>
    PROVE  ArchiveInv'
BY DEF ArchiveInv, StaleWithinReach, Stale, NodeHash

\* A commit that writes the chain's block makes nothing stale.
LEMMA WriteOnChain ==
    ASSUME ArchiveInv, NEW r \in Heights, UNCHANGED node,
           arch \in [Heights -> Chains \cup {NoHash}],
           arch' = [arch EXCEPT ![r] = NodeHash(r)]
    PROVE  /\ \A h \in Heights : arch'[h] = IF h = r THEN NodeHash(r) ELSE arch[h]
           /\ \A h \in Heights : Stale(h)' => Stale(h)
           /\ StaleWithinReach'
BY DEF ArchiveInv, StaleWithinReach, Stale, NodeHash

LEMMA ArchiveStep ==
    ASSUME ~NodeMayShrink, TypeInv, ArchiveInv, [Next]_vars
    PROVE  ArchiveInv'
<1>. USE ConstantTypes
<1>a. /\ node \in NodeType /\ node.tip \in Nat /\ last \in Nat /\ lowest \in Nat
      /\ last \in Heights /\ lowest \in Heights
      /\ loop \in [pc : {"idle", "ingest", "recheck"}, tip : Heights] /\ loop.tip \in Nat
      /\ arch \in [Heights -> Chains \cup {NoHash}] /\ unseen \in {"none", "new", "polled"}
  BY DEF TypeInv, ATypeOK, NodeType
<1>b. \A h \in Heights : h \in Nat
  OBVIOUS
<1>1. CASE Tick \/ Request \/ UNCHANGED vars
  <2>1. UNCHANGED <<node, arch, last, lowest, loop, unseen>>
    BY <1>1 DEF Tick, Request, LookUp, MakeFigures, StoreFigures, ReadRows, MarkFinal,
                AskWindow, FetchHeader, StoreWindow, vars
  <2>. QED  BY <2>1, ArchiveKept
<1>2. CASE NodeMoves
  <2>1. node'.tip \in Nat /\ node.tip <= node'.tip
    BY <1>2, <1>a, TipStays DEF NodeMoves
  <2>2. /\ UNCHANGED <<arch, last, lowest, loop>> /\ StaleWithinReach'
        /\ unseen' = IF node'.chain = node.chain THEN unseen ELSE "new"
    BY <1>2 DEF NodeMoves
  <2>3. last <= node'.tip /\ loop.tip <= node'.tip
    BY <1>a, <2>1 DEF ArchiveInv
  <2>4. CASE node'.chain = node.chain
    <3>1. \A h : Stale(h)' = Stale(h)
      BY <2>2, <2>4 DEF Stale, NodeHash
    <3>. QED  BY <2>2, <2>3, <2>4, <3>1 DEF ArchiveInv
  <2>5. CASE node'.chain # node.chain
    BY <2>2, <2>3, <2>5 DEF ArchiveInv
  <2>. QED  BY <2>4, <2>5
<1>3. CASE BeginPoll
  <2>1. /\ UNCHANGED <<node, arch, last, lowest>> /\ loop.pc = "idle"
        /\ loop' = [pc |-> "ingest", tip |-> node.tip]
        /\ unseen' = IF unseen = "new" THEN "polled" ELSE unseen
    BY <1>3 DEF BeginPoll
  <2>2. StaleWithinReach' /\ \A h : Stale(h)' = Stale(h)
    BY <2>1 DEF ArchiveInv, StaleWithinReach, Stale, NodeHash
  <2>3. ASSUME NEW h \in Heights, Stale(h)
        PROVE  h \in Monus(node.tip, RecheckDepth)..node.tip
    <3>0. h <= last /\ last <= node.tip
      BY <2>3 DEF ArchiveInv, Stale
    <3>1. h <= node.tip /\ h \in Nat
      BY <1>a, <1>b, <3>0
    <3>2. node.tip <= h + RecheckDepth
      BY <2>3, <3>1 DEF ArchiveInv, StaleWithinReach, Stale
    <3>. QED  BY <1>a, <3>1, <3>2 DEF Monus
  <2>. QED  BY <1>a, <2>1, <2>2, <2>3 DEF ArchiveInv
<1>4. CASE RecordBlock
  <2>1. /\ UNCHANGED <<node, lowest, loop, unseen>> /\ loop.pc = "ingest" /\ last < loop.tip
        /\ last' = last + 1
        /\ arch' = [arch EXCEPT ![last + 1] = NodeHash(last + 1)]
    BY <1>4 DEF RecordBlock, Committed
  <2>2. last + 1 \in Heights /\ last' <= node.tip /\ lowest <= last'
    BY <1>a, <2>1 DEF ArchiveInv, Heights
  <2>3. /\ \A h \in Heights : arch'[h] = IF h = last + 1 THEN NodeHash(h) ELSE arch[h]
        /\ \A h \in Heights : Stale(h)' => Stale(h)
        /\ StaleWithinReach'
    BY <1>a, <2>1, <2>2, WriteOnChain
  <2>4. \A h \in Heights : arch'[h] # NoHash => h <= last'
    BY <1>a, <1>b, <2>1, <2>3 DEF ArchiveInv
  <2>. QED  BY <2>1, <2>2, <2>3, <2>4 DEF ArchiveInv
<1>5. CASE ReplaceBlock
  <2>1. /\ UNCHANGED <<node, last, lowest, unseen>>
        /\ loop' = [loop EXCEPT !.pc = "recheck"]
    BY <1>5 DEF ReplaceBlock, Committed
  <2>2. PICK r \in Replaced : arch' = [arch EXCEPT ![r] = NodeHash(r)]
    BY <1>5 DEF ReplaceBlock
  <2>3. r \in Heights /\ arch[r] # NoHash
    BY <1>a, <2>2 DEF Replaced, Monus, Heights
  <2>4. /\ \A h \in Heights : arch'[h] = IF h = r THEN NodeHash(r) ELSE arch[h]
        /\ \A h \in Heights : Stale(h)' => Stale(h)
        /\ StaleWithinReach'
    BY <1>a, <2>1, <2>2, <2>3, WriteOnChain
  <2>5. \A h \in Heights : arch'[h] # NoHash => h <= last'
    BY <2>1, <2>3, <2>4 DEF ArchiveInv
  <2>6. loop'.tip = loop.tip /\ loop'.pc = "recheck"
    BY <1>a, <2>1
  <2>. QED  BY <2>1, <2>4, <2>5, <2>6 DEF ArchiveInv
<1>6. CASE EndPoll
  <2>1. /\ UNCHANGED <<node, arch, last, lowest>> /\ Replaced = {}
        /\ loop'.tip = loop.tip
        /\ unseen' = IF unseen = "polled" THEN "none" ELSE unseen
    BY <1>6, <1>a DEF EndPoll
  <2>2. StaleWithinReach' /\ \A h : Stale(h)' = Stale(h)
    BY <2>1 DEF ArchiveInv, StaleWithinReach, Stale, NodeHash
  <2>3. ASSUME unseen = "polled", NEW h \in Heights
        PROVE  ~Stale(h)
    BY <2>1, <2>3 DEF ArchiveInv, Stale, Replaced
  <2>. QED  BY <1>a, <2>1, <2>2, <2>3 DEF ArchiveInv
<1>7. CASE BreakOff
  <2>1. /\ UNCHANGED <<node, arch, last, lowest>> /\ loop'.tip = loop.tip
        /\ unseen' = IF unseen = "polled" THEN "new" ELSE unseen
    BY <1>7, <1>a DEF BreakOff
  <2>2. StaleWithinReach' /\ \A h : Stale(h)' = Stale(h)
    BY <2>1 DEF ArchiveInv, StaleWithinReach, Stale, NodeHash
  <2>. QED  BY <1>a, <2>1, <2>2 DEF ArchiveInv
<1>8. CASE CopyHeader
  <2>1. /\ UNCHANGED <<node, last, loop, unseen>> /\ 0 < lowest /\ lowest' = lowest - 1
        /\ arch' = [arch EXCEPT ![lowest - 1] = NodeHash(lowest - 1)]
    BY <1>8 DEF CopyHeader, Committed, NodeHash
  <2>2. lowest - 1 \in Heights /\ lowest' <= last
    BY <1>a, <2>1 DEF ArchiveInv, Heights
  <2>3. /\ \A h \in Heights : arch'[h] = IF h = lowest - 1 THEN NodeHash(h) ELSE arch[h]
        /\ \A h \in Heights : Stale(h)' => Stale(h)
        /\ StaleWithinReach'
    BY <1>a, <2>1, <2>2, WriteOnChain
  <2>4. \A h \in Heights : arch'[h] # NoHash => h <= last'
    BY <1>a, <1>b, <2>1, <2>2, <2>3 DEF ArchiveInv
  <2>. QED  BY <2>1, <2>2, <2>3, <2>4 DEF ArchiveInv
<1>9. CASE ChangeOther
  <2>1. UNCHANGED <<node, arch, last, lowest, loop, unseen>>
    BY <1>9 DEF ChangeOther, Committed
  <2>. QED  BY <2>1, ArchiveKept
<1>. QED
  BY <1>1, <1>2, <1>3, <1>4, <1>5, <1>6, <1>7, <1>8, <1>9 DEF Next, Writer

\* The steps after which a reader has nothing it had not before, and the node stood still.
LEMMA ReaderKept ==
    ASSUME ReaderInv, UNCHANGED <<node, kind, answer>>,
           req'.pc = req.pc, req'.upTo = req.upTo, req'.blocks = req.blocks,
           req'.tip = req.tip, req'.quiet = req.quiet, req'.reorgs = req.reorgs,
           last \in Nat, last' \in {last, last + 1}
    PROVE  ReaderInv'
<1>1. \A b : Permanent(b)' = Permanent(b) /\ NodeHash(b[1])' = NodeHash(b[1])
  BY DEF Permanent, Settled, NodeHash
<1>2. ASSUME req.pc = "mark", kind \in {"block", "page"}
      PROVE  req.tip <= last'
  <2>1. req.tip \in Nat /\ req.tip <= last
    BY <1>2, ConstantTypes DEF ReaderInv
  <2>. QED  BY <2>1
<1>. QED  BY <1>1, <1>2 DEF ReaderInv

\* A reorganization is counted, and new blocks change nothing below them.
LEMMA ReorgsCounted ==
    ASSUME node \in NodeType, NodeStep
    PROVE  /\ node.reorgs \in Nat /\ node'.reorgs \in Nat /\ node.reorgs <= node'.reorgs
           /\ node'.reorgs = node.reorgs => node'.chain = node.chain
<1>. USE ConstantTypes
<1>1. CASE NodeExtend
  BY <1>1 DEF NodeExtend, NodeType
<1>2. CASE \E c \in Chains : NodeReorg(c)
  <2>1. node'.reorgs = node.reorgs + 1
    BY <1>2 DEF NodeReorg
  <2>. QED  BY <2>1 DEF NodeType
<1>. QED  BY <1>1, <1>2 DEF NodeStep

LEMMA ReaderStep ==
    ASSUME ~NodeMayShrink, TypeInv, ArchiveInv, ReaderInv, [Next]_vars
    PROVE  ReaderInv'
<1>0. kind' = kind
  BY KindKept
<1>. SUFFICES ASSUME kind \in {"block", "page"} PROVE ReaderInv'
  BY <1>0 DEF ReaderInv
<1>a. /\ node \in NodeType /\ cache \in Held /\ req \in Held /\ answer \in Held
      /\ req.pc \in {"none", "mark"} /\ last \in Nat /\ last \in Heights /\ node.tip \in Nat
      /\ arch \in [Heights -> Chains \cup {NoHash}]
  BY ConstantTypes DEF TypeInv, ATypeOK, OwnSteps, NodeType
<1>b. node.reorgs \in Nat /\ req.reorgs \in Nat
  BY <1>a, ConstantTypes DEF NodeType, Held
<1>1. CASE UNCHANGED vars
  BY <1>1, <1>a, ReaderKept DEF vars
<1>2. CASE NodeMoves
  <2>1. NodeStep /\ UNCHANGED <<last, req, answer>>
    BY <1>2 DEF NodeMoves
  <2>2. \A b \in answer.blocks \cup req.blocks : b \in Blocks /\ b[1] \in Heights
    BY <1>a DEF Held, Blocks
  <2>3. answer.quiet => \A b \in answer.blocks : Permanent(b)'
    BY <1>a, <2>1, <2>2, PermanentStays DEF ReaderInv
  <2>4. req.pc = "mark" => req.reorgs <= node'.reorgs
    BY <1>a, <1>b, <2>1, ReorgsCounted DEF ReaderInv
  <2>5. ASSUME req.pc = "mark", req.quiet, NEW b \in req.blocks,
               node'.reorgs = req.reorgs \/ b[1] + FinalConfirmations <= req.tip + 1
        PROVE  b[2] = NodeHash(b[1])'
    <3>1. CASE node'.reorgs = req.reorgs
      <4>1. node.reorgs = req.reorgs
        BY <1>a, <1>b, <2>1, <2>5, <3>1, ReorgsCounted DEF ReaderInv
      <4>2. node'.chain = node.chain
        BY <1>a, <2>1, <3>1, <4>1, ReorgsCounted
      <4>3. b[2] = NodeHash(b[1])
        BY <2>5, <4>1 DEF ReaderInv
      <4>. QED  BY <4>2, <4>3 DEF NodeHash
    <3>2. CASE b[1] + FinalConfirmations <= req.tip + 1
      <4>1. req.tip \in Nat /\ req.tip <= node.tip
        <5>1. req.tip \in Heights /\ req.tip <= last /\ last <= node.tip
          BY <2>5 DEF ReaderInv, ArchiveInv
        <5>2. req.tip \in Nat
          BY <5>1, ConstantTypes
        <5>. QED  BY <1>a, <5>1, <5>2
      <4>2. b[1] \in Nat
        BY <2>2, ConstantTypes
      <4>3. Settled(b[1])
        BY <1>a, <3>2, <4>1, <4>2, ConstantTypes DEF Settled
      <4>4. b[2] = NodeHash(b[1])
        BY <2>5, <3>2 DEF ReaderInv
      <4>. QED  BY <1>a, <2>1, <2>2, <4>3, <4>4, SettledStays
    <3>. QED  BY <2>5, <3>1, <3>2
  <2>. QED  BY <1>0, <2>1, <2>3, <2>4, <2>5 DEF ReaderInv
<1>3. CASE Tick \/ BeginPoll \/ EndPoll \/ BreakOff
  <2>1. UNCHANGED <<node, kind, answer, req, last>>
    BY <1>3 DEF Tick, BeginPoll, EndPoll, BreakOff
  <2>. QED  BY <1>a, <2>1, ReaderKept
<1>4. CASE RecordBlock \/ ReplaceBlock \/ CopyHeader \/ ChangeOther
  <2>1. Committed /\ last' \in {last, last + 1}
    BY <1>4 DEF RecordBlock, ReplaceBlock, CopyHeader, ChangeOther
  <2>. QED  BY <1>a, <2>1, CommittedKeeps, ReaderKept
<1>5. CASE LookUp \/ MakeFigures \/ StoreFigures \/ AskWindow \/ FetchHeader \/ StoreWindow
  BY <1>5, <1>a DEF LookUp, MakeFigures, StoreFigures, AskWindow, FetchHeader, StoreWindow,
                    Figures
<1>6. CASE ReadRows
  <2>1. PICK top \in Heights :
          LET rows == IF kind = "block" THEN {top} ELSE Monus(top + 1, PageSize)..top IN
          /\ \A h \in rows : arch[h] # NoHash
          /\ req' = [Nothing EXCEPT !.pc = "mark", !.upTo = top,
                                    !.blocks = {<<h, arch[h]>> : h \in rows},
                                    !.quiet = (unseen = "none"), !.tip = last,
                                    !.reorgs = node.reorgs]
    BY <1>6 DEF ReadRows
  <2>. DEFINE rows == IF kind = "block" THEN {top} ELSE Monus(top + 1, PageSize)..top
  <2>2. \A h \in rows : h \in Heights /\ h <= top /\ arch[h] # NoHash
    BY <2>1, ConstantTypes DEF Monus, Heights
  <2>3. /\ req'.quiet = (unseen = "none") /\ req'.upTo = top
        /\ req'.tip = last /\ req'.reorgs = node.reorgs
        /\ req'.blocks = {<<h, arch[h]>> : h \in rows}
    BY <2>1 DEF Nothing
  <2>4. UNCHANGED <<node, last, answer>>
    BY <1>6 DEF ReadRows
  <2>5. \A b \in req'.blocks : b[1] <= req'.upTo
    BY <2>2, <2>3
  <2>6. unseen = "none" => \A b \in req'.blocks : b[2] = NodeHash(b[1])
    BY <2>2, <2>3 DEF ArchiveInv, Stale
  <2>7. \A b : Permanent(b)' = Permanent(b) /\ NodeHash(b[1])' = NodeHash(b[1])
    BY <2>4 DEF Permanent, Settled, NodeHash
  <2>8. req'.tip \in Heights /\ req'.tip <= last' /\ req'.reorgs <= node'.reorgs
    BY <1>a, <1>b, <2>3, <2>4
  <2>. QED  BY <1>0, <2>3, <2>4, <2>5, <2>6, <2>7, <2>8 DEF ReaderInv
<1>7. CASE MarkFinal
  <2>1. UNCHANGED node /\ req.pc = "mark" /\ req'.pc = "none"
    BY <1>7 DEF MarkFinal, Nothing
  <2>2. \A b : Permanent(b)' = Permanent(b)
    BY <2>1 DEF Permanent, Settled, NodeHash
  <2>3. CASE ~Final(req.upTo)
    <3>1. answer' = answer
      BY <1>7, <2>3 DEF MarkFinal
    <3>. QED  BY <1>0, <2>1, <2>2, <3>1 DEF ReaderInv
  <2>4. CASE Final(req.upTo)
    <3>1. /\ answer'.blocks = req.blocks
          /\ answer'.quiet = (req.quiet /\ (node.reorgs = req.reorgs \/ last = req.tip))
      BY <1>7, <1>a, <2>4 DEF MarkFinal, Held
    <3>2. ASSUME req.quiet, node.reorgs = req.reorgs \/ last = req.tip, NEW b \in req.blocks
          PROVE  Permanent(b)
      <4>1. b[1] <= req.upTo /\ b[1] \in Nat /\ req.upTo \in Nat
        BY <1>a, <2>1, ConstantTypes DEF ReaderInv, Held, Blocks
      <4>2. last - req.upTo + 1 >= FinalConfirmations /\ last <= node.tip
        BY <2>4 DEF Final, ArchiveInv
      <4>3. b[1] + FinalConfirmations <= last + 1 /\ b[1] + FinalConfirmations <= node.tip + 1
        BY <1>a, <4>1, <4>2, ConstantTypes
      <4>4. b[2] = NodeHash(b[1])
        BY <2>1, <3>2, <4>3 DEF ReaderInv
      <4>. QED  BY <4>3, <4>4 DEF Permanent, Settled
    <3>. QED  BY <1>0, <2>1, <2>2, <3>1, <3>2 DEF ReaderInv
  <2>. QED  BY <2>3, <2>4
<1>. QED
  BY <1>1, <1>2, <1>3, <1>4, <1>5, <1>6, <1>7 DEF Next, Writer, Request

\* What get_block, get_tx and a full page of get_blocks mark as final for browsers and
\* proxies is the chain's for ever, when the loop had worked off every reorganization at the
\* reading of the rows, not both a reorganization and new blocks came between them and
\* indexed_tip, and the node's tip does not fall: FINAL_CONFIRMATIONS counted from
\* last_processed_height is out of reach of a reorganization of the node.
THEOREM FinalAnswersStandHolds ==
    ASSUME NodeMayShrink = FALSE
    PROVE  Spec => []FinalAnswersStand
<1>1. ~NodeMayShrink
  OBVIOUS
<1>2. FinalInv => FinalAnswersStand
  BY DEF FinalInv, ReaderInv, FinalAnswersStand, Permanent
<1>3. FinalInv /\ [Next]_vars => FinalInv'
  BY <1>1, TypeStep, ArchiveStep, ReaderStep DEF FinalInv
<1>. QED  BY <1>2, <1>3, FinalInit, PTL DEF Spec
=============================================================================
