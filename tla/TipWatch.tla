------------------------------- MODULE TipWatch -------------------------------
(***************************************************************************)
(* The tip watcher of permanode/src/indexer.rs (tip_watch_thread), the      *)
(* sightings it hands to the recording loop (note_sightings) and the        *)
(* arrival times on record (core/src/db.rs: set_tip_seen, adopt_tip_seen).  *)
(*                                                                         *)
(* Time is counted in looks: clock is the number of looks at which the      *)
(* watcher found a new tip, and a sighting carries the number of its look.  *)
(* Of the loop only the blocks it records matter: a poll is one step.       *)
(***************************************************************************)
EXTENDS NodeChain, Sequences

CONSTANTS
    NoTime,       \* tip_seen_at_ms is NULL
    PeerTime,     \* an arrival time taken over from a peer
    NoTip,        \* the watcher has not looked yet
    TipWalk,      \* TIP_WALK
    KnownMax,     \* KNOWN_MAX
    MaxTroubles,  \* bound: calls of the watcher that fail, polls that end early, expiries
    MaxAsks       \* bound: arrival times taken from a peer

ASSUME WatchAssumption ==
    /\ NoTime \notin Nat /\ PeerTime \notin Nat /\ NoTime # PeerTime
    /\ NoTip \notin Heights \X Chains
    /\ TipWalk \in Nat /\ KnownMax \in Nat
    /\ MaxTroubles \in Nat /\ MaxAsks \in Nat

Blocks == Heights \X Chains

VARIABLES
    w,        \* the watcher: [pc, tip, h, fresh, last, known]
    list,     \* Sightings: [block, at], oldest first
    loop,     \* the recording loop: waiting, or about to note sightings
    rows,     \* blocks on record
    seen,     \* [Blocks -> tip_seen_at_ms]
    used,     \* [calls, polls, expiries, asks]: how often each bounded event happened
    clock,    \* looks that found a new tip
    learned,  \* history: the tip the first look found
    arrived,  \* history: [Blocks -> values of clock at which the block came on the node's chain]
    crossed   \* history: a reorganization fell into a walk

watchVars == <<w, clock>>
loopVars  == <<loop, rows, seen>>
vars == <<node, w, list, loop, rows, seen, used, clock, learned, arrived, crossed>>

Block(h) == <<h, NodeHash(h)>>
Elements(s) == {s[i] : i \in DOMAIN s}

-----------------------------------------------------------------------------
WTypeOK ==
    /\ node \in NodeType
    /\ w \in [pc : {"idle", "walk", "done"}, tip : Blocks \cup {NoTip}, h : Heights,
              fresh : Seq(Blocks), last : Blocks \cup {NoTip}, known : Seq(Blocks)]
    /\ Len(w.known) <= KnownMax /\ Len(w.fresh) <= TipWalk + 1
    /\ list \in Seq([block : Blocks, at : Nat])
    /\ loop \in {"wait", "note"}
    /\ rows \subseteq Blocks
    /\ seen \in [Blocks -> Nat \cup {NoTime, PeerTime}]
    /\ used \in [calls : Nat, polls : Nat, expiries : Nat, asks : 0..MaxAsks]
    /\ used.calls + used.polls + used.expiries <= MaxTroubles
    /\ clock \in Nat /\ learned \in Blocks \cup {NoTip}
    /\ arrived \in [Blocks -> SUBSET Nat] /\ crossed \in BOOLEAN

\* Whether a call, a poll or the ten minutes may still go wrong.
Trouble == used.calls + used.polls + used.expiries < MaxTroubles

OnChain == {Block(h) : h \in 0..node.tip}

Init ==
    /\ NodeInit
    /\ w = [pc |-> "idle", tip |-> NoTip, h |-> 0, fresh |-> <<>>, last |-> NoTip, known |-> <<>>]
    /\ list = <<>> /\ loop = "wait"
    /\ rows = {}
    /\ seen = [b \in Blocks |-> NoTime]
    /\ used = [calls |-> 0, polls |-> 0, expiries |-> 0, asks |-> 0]
    /\ clock = 0 /\ learned = NoTip
    /\ arrived = [b \in Blocks |-> {}] /\ crossed = FALSE

NodeMoves ==
    /\ NodeStep
    /\ crossed' = (crossed \/ (w.pc # "idle" /\ node'.chain # node.chain))
    /\ arrived' = [b \in Blocks |->
                      arrived[b] \cup IF b \in OnChain' \ OnChain THEN {clock} ELSE {}]
    /\ UNCHANGED <<watchVars, list, loopVars, used, learned>>

-----------------------------------------------------------------------------
(* tip_watch_thread.                                                       *)

\* get_chain_info: a tip that is not the last one begins a walk.
Look ==
    /\ w.pc = "idle" /\ w.last # Block(node.tip)
    /\ w' = [w EXCEPT !.pc = "walk", !.tip = Block(node.tip), !.h = node.tip,
                      !.fresh = <<Block(node.tip)>>]
    /\ UNCHANGED <<node, list, loopVars, used, clock, learned, arrived, crossed>>

\* Variants the runs must reject: a known block does not end the walk; the walk is not limited.
Passes_Known(b) == TRUE
\* Whether the walk goes on below a block: one already handled ends it.
Passes(b) == b \notin Elements(w.known)

Walking == w.h > 0 /\ w.tip[1] - w.h < TipWalk

\* get_block_header of the block below; no answer ends the walk.
Walk ==
    /\ w.pc = "walk" /\ Walking
    /\ \E ok \in IF Trouble THEN BOOLEAN ELSE {TRUE} :
         LET b == Block(w.h - 1) IN
         /\ w' = IF ok /\ HasHeader(w.h - 1) /\ Passes(b)
                   THEN [w EXCEPT !.h = @ - 1, !.fresh = Append(@, b)]
                   ELSE [w EXCEPT !.h = @ - 1, !.pc = "done"]
         /\ used' = IF ok THEN used ELSE [used EXCEPT !.calls = @ + 1]
    /\ UNCHANGED <<node, list, loopVars, clock, learned, arrived, crossed>>

\* The newest KnownMax of the hashes handled.
Remember(known, fresh) ==
    LET all == known \o SelectSeq(fresh, LAMBDA b : b \notin Elements(known))
    IN SubSeq(all, Monus(Len(all), KnownMax) + 1, Len(all))

\* Variant the runs must reject: the first look reports what was there before it.
Reported_Always == TRUE

\* The first look only learns where the chain stands.
Reported == w.last # NoTip

\* What the walk passed is sighted at this moment; the loop is woken.
Handle ==
    /\ w.pc = "done" \/ (w.pc = "walk" /\ ~Walking)
    /\ list' = IF Reported
                 THEN list \o [i \in DOMAIN w.fresh |-> [block |-> w.fresh[i], at |-> clock]]
                 ELSE list
    /\ w' = [w EXCEPT !.pc = "idle", !.tip = NoTip, !.h = 0, !.fresh = <<>>, !.last = w.tip,
                      !.known = Remember(w.known, w.fresh)]
    /\ clock' = clock + 1
    /\ learned' = IF Reported THEN learned ELSE w.tip
    /\ UNCHANGED <<node, loopVars, used, arrived, crossed>>

Watch == Look \/ Walk \/ Handle

-----------------------------------------------------------------------------
(* The loop: poll_once, then note_sightings.                                *)

\* poll_once, after the poll interval or woken by the watcher: every height up to the tip
\* has the node's block then.  One that fails ends early.
Poll ==
    /\ loop = "wait"
    /\ \E last \in IF Trouble THEN (StartTip - 1)..node.tip ELSE {node.tip} :
         /\ rows' = rows \cup {Block(h) : h \in StartTip..last}
         /\ used' = IF last = node.tip THEN used ELSE [used EXCEPT !.polls = @ + 1]
    /\ loop' = "note"
    /\ UNCHANGED <<node, watchVars, list, seen, learned, arrived, crossed>>

\* Variants the runs must reject: a later sighting overwrites; a peer's time overwrites.
SetTipSeen_Last(old, at)      == at
AdoptTipSeen_Overwriting(old) == PeerTime

\* set_tip_seen: kept once.
SetTipSeen(old, at) == IF old = NoTime THEN at ELSE old

\* adopt_tip_seen: only where there is none.
AdoptTipSeen(old) == IF old = NoTime THEN PeerTime ELSE old

\* Variant the runs must reject: a sighting whose block is not on record yet is given up.
Waiting_None(sightings) == <<>>

\* Sightings whose block is not on record stay.
Waiting(sightings) == SelectSeq(sightings, LAMBDA s : s.block \notin rows)

FirstAt(b) == list[CHOOSE i \in DOMAIN list :
                      list[i].block = b /\ \A j \in DOMAIN list : list[j].block = b => i <= j].at

\* note_sightings; the oldest of those that wait may be ten minutes old.
NoteSightings ==
    /\ loop = "note"
    /\ seen' = [b \in Blocks |->
                   IF b \in rows /\ b \in {s.block : s \in Elements(list)}
                     THEN SetTipSeen(seen[b], FirstAt(b)) ELSE seen[b]]
    /\ LET waiting == Waiting(list) IN
       \E old \in IF Trouble THEN 0..Len(waiting) ELSE {0} :
         /\ list' = SubSeq(waiting, old + 1, Len(waiting))
         /\ used' = IF old = 0 THEN used ELSE [used EXCEPT !.expiries = @ + 1]
    /\ loop' = "wait"
    /\ UNCHANGED <<node, watchVars, rows, learned, arrived, crossed>>

Loop == Poll \/ NoteSightings

-----------------------------------------------------------------------------
(* The peer thread: fill_seen_from_peers.                                   *)

\* blocks_missing_seen, the request to a peer, adopt_tip_seen: by the time the answer is
\* written, a block that had no time may have one.
Peer ==
    /\ used.asks < MaxAsks
    /\ \E b \in rows : seen' = [seen EXCEPT ![b] = AdoptTipSeen(@)]
    /\ used' = [used EXCEPT !.asks = @ + 1]
    /\ UNCHANGED <<node, watchVars, list, loop, rows, learned, arrived, crossed>>

-----------------------------------------------------------------------------
Next == NodeMoves \/ Watch \/ Loop \/ Peer

Spec == Init /\ [][Next]_vars

\* Both threads are endless loops.
FairSpec == Spec /\ WF_vars(Watch) /\ WF_vars(Loop)

-----------------------------------------------------------------------------
(* Properties.                                                             *)

\* "Everything it passes arrived at this moment": the time a block is given is that of the
\* look that followed an arrival of the block, or the one after if it arrived during a look.
EveryTimeIsAnArrival ==
    \A b \in Blocks : \A at \in 0..clock :
        seen[b] = at => \E moment \in arrived[b] : at \in moment..(moment + 1)

\* It holds as long as no call failed in a walk and no reorganization fell into one.  A walk
\* cut short leaves blocks below it unhandled, a walk over two chains those of the first: they
\* are new to a later walk, when a reorganization makes it pass there.
TimeIsAnArrival == used.calls = 0 /\ ~crossed => EveryTimeIsAnArrival

\* A block keeps the time it was given, through reorganizations back to it, sightings that
\* waited and answers of peers that come late.
TimeIsKept == [][\A b \in Blocks : seen[b] # NoTime => seen'[b] = seen[b]]_vars

\* Once the node rests, the block at its tip has a time: no sighting and no wake-up is lost
\* between the two threads.  The tip found at start has none.
TipGetsTime ==
    <>[](\/ used.expiries > 0
         \/ Block(node.tip) = learned
         \/ seen[Block(node.tip)] # NoTime)
=============================================================================
