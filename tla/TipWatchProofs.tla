---------------------------- MODULE TipWatchProofs ----------------------------
(***************************************************************************)
(* Proofs about TipWatch.tla: what is kept of an arrival time once it is   *)
(* on record, whoever writes next (note_sightings, fill_seen_from_peers).  *)
(***************************************************************************)
EXTENDS TipWatch, TLAPS

\* Every block has a place for its time.
SeenInv == seen = [b \in Blocks |-> seen[b]]

LEMMA SeenInit == Init => SeenInv
<1>. SUFFICES ASSUME Init PROVE SeenInv
  OBVIOUS
<1>1. seen = [b \in Blocks |-> NoTime]
  BY DEF Init
<1>. QED
  BY <1>1 DEF SeenInv

\* Where there is a time already, set_tip_seen and adopt_tip_seen leave it.
LEMMA WritersKeep ==
    ASSUME NEW old, old # NoTime
    PROVE  /\ \A at : SetTipSeen(old, at) = old
           /\ AdoptTipSeen(old) = old
BY DEF SetTipSeen, AdoptTipSeen

\* Only the loop and the peer thread write times.
LEMMA Writers ==
    ASSUME [Next]_vars
    PROVE  NoteSightings \/ Peer \/ UNCHANGED seen
<1>1. CASE NodeMoves
  BY <1>1 DEF NodeMoves, loopVars
<1>2. CASE Watch
  BY <1>2 DEF Watch, Look, Walk, Handle, loopVars
<1>3. CASE Loop
  BY <1>3 DEF Loop, Poll
<1>4. CASE Peer
  BY <1>4
<1>5. CASE UNCHANGED vars
  BY <1>5 DEF vars
<1>. QED
  BY <1>1, <1>2, <1>3, <1>4, <1>5 DEF Next

LEMMA SeenStep == SeenInv /\ [Next]_vars => SeenInv'
<1>. SUFFICES ASSUME SeenInv, [Next]_vars PROVE SeenInv'
  OBVIOUS
<1>1. CASE NoteSightings
  <2>. DEFINE After(b) == IF b \in rows /\ b \in {s.block : s \in Elements(list)}
                            THEN SetTipSeen(seen[b], FirstAt(b)) ELSE seen[b]
  <2>1. seen' = [b \in Blocks |-> After(b)]
    BY <1>1 DEF NoteSightings
  <2>. HIDE DEF After
  <2>. QED  BY <2>1 DEF SeenInv
<1>2. CASE Peer
  <2>1. PICK x \in rows : seen' = [seen EXCEPT ![x] = AdoptTipSeen(@)]
    BY <1>2 DEF Peer
  <2>. QED  BY <2>1 DEF SeenInv
<1>3. CASE UNCHANGED seen
  BY <1>3 DEF SeenInv
<1>. QED
  BY <1>1, <1>2, <1>3, Writers

LEMMA StepKeepsTimes ==
    ASSUME SeenInv, [Next]_vars, NEW b \in Blocks, seen[b] # NoTime
    PROVE  seen'[b] = seen[b]
<1>1. CASE NoteSightings
  <2>1. seen'[b] = IF b \in rows /\ b \in {s.block : s \in Elements(list)}
                     THEN SetTipSeen(seen[b], FirstAt(b)) ELSE seen[b]
    BY <1>1 DEF NoteSightings
  <2>2. SetTipSeen(seen[b], FirstAt(b)) = seen[b]
    BY WritersKeep
  <2>. QED  BY <2>1, <2>2
<1>2. CASE Peer
  <2>1. PICK x \in rows : seen' = [seen EXCEPT ![x] = AdoptTipSeen(@)]
    BY <1>2 DEF Peer
  <2>2. b \in DOMAIN seen
    BY DEF SeenInv
  <2>3. AdoptTipSeen(seen[b]) = seen[b]
    BY WritersKeep
  <2>. QED  BY <2>1, <2>2, <2>3
<1>3. CASE UNCHANGED seen
  BY <1>3
<1>. QED
  BY <1>1, <1>2, <1>3, Writers

\* A block keeps the time it was given (set_tip_seen, adopt_tip_seen), whatever the watcher
\* sights again, however late a peer's answer comes, and however the node moves.
THEOREM TimeIsKeptHolds == Spec => TimeIsKept
<1>1. SeenInv /\ [Next]_vars
        => [\A b \in Blocks : seen[b] # NoTime => seen'[b] = seen[b]]_vars
  BY StepKeepsTimes
<1>. QED
  BY <1>1, SeenInit, SeenStep, PTL DEF Spec, TimeIsKept
===============================================================================
