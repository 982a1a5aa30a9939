-------------------------------- MODULE Shadow --------------------------------
(* services/shadow_service.py with shadow_replay.py, shadow_engine.py and    *)
(* shadow_outcome.py: the worker of the Live process that decides once per   *)
(* closed M5 candle, from live snapshots or from those it reads back after a *)
(* restart or an overflow, and the worker that settles what it decided.      *)
(*                                                                           *)
(* Candle c is forming while now = c and is closed after.  A snapshot is its *)
(* number, in the order of (timestamp, id); it belongs to the candle that    *)
(* was forming when it was taken.  The worker's memory is the record mem;    *)
(* a step ends at an await, and a database call is atomic.                   *)
EXTENDS Integers, Sequences, FiniteSets

CONSTANTS
  Contexts,     \* what the features of a snapshot may show
  Market,       \* the candles: their class, relative to the trades that are open
  Capacity,     \* of the queue (8)
  PageSize,     \* _catchup_page_size (50)
  Batch,        \* snapshots that a catch-up puts into the queue (2)
  Horizon,      \* shadow_outcome_horizon_bars (12)
  OutcomeLimit, \* outcomes that one evaluation lists (2000)
  MaxSnapshot,  \* bound: snapshots
  MaxTrouble    \* bound: failed database calls, and restarts of Live

ASSUME ShadowAssumption ==
  /\ {Capacity, PageSize, Batch, Horizon, OutcomeLimit, MaxSnapshot} \subseteq Nat \ {0}
  /\ MaxTrouble \in Nat
  /\ Market \in Seq({"quiet", "target", "stop", "both"})

VARIABLES
  closed,    \* candles of the market that have closed
  stored,    \* candles: how many closed ones the database has
  held,      \* state.candles: the last candle of the Live process
  shot,      \* market_snapshots: the candle each was taken in
  inbox,     \* the snapshot that is stored and not yet submitted
  mem,       \* memory of the decision worker
  pc,        \* where its task is
  page,      \* the snapshots it has read, with the candle each shows
  decided,   \* shadow_decisions
  outcome,   \* shadow_outcomes
  trouble,
  accepted,  \* history: candles this process has put into its queue
  readAs     \* history: the candle each snapshot showed when it was last read

market == <<closed, stored, held>>
worker == <<mem, pc, page>>
history == <<accepted, readAs>>
vars == <<market, shot, inbox, worker, decided, outcome, trouble, history>>

MaxCandle == Len(Market)
Candles == 1..MaxCandle
Least(a, b) == IF a <= b THEN a ELSE b
now == closed + 1
Sides == {"BUY", "SELL"}
Pending == "PENDING"
Terminal == {"TP_HIT", "SL_HIT", "AMBIGUOUS", "EXPIRED"}

Item == [key : Candles, shot : 1..MaxSnapshot]
NoItem == [key |-> 0, shot |-> 0]
Keys(items) == {items[i].key : i \in DOMAIN items}
NoDecision == [shot |-> 0, side |-> "none"]
Decided == {k \in Candles : decided[k] # NoDecision}

Memories == [queue : Seq(Item), queued : SUBSET Candles, deferred : SUBSET Candles,
             completed : SUBSET Candles, pending : Seq(Item), needs : BOOLEAN,
             cursor : 0..MaxSnapshot, more : BOOLEAN, current : Item \cup {NoItem}]
Pages == [items : Seq(Item), rows : 0..PageSize, more : BOOLEAN, known : SUBSET Candles]
Fresh == [queue |-> <<>>, queued |-> {}, deferred |-> {}, completed |-> {}, pending |-> <<>>,
          needs |-> TRUE, cursor |-> 0, more |-> TRUE, current |-> NoItem]

TypeOK ==
  /\ closed \in 0..MaxCandle
  /\ stored \in 0..closed /\ held \in 0..stored
  /\ shot \in Seq(Candles) /\ Len(shot) <= MaxSnapshot
  /\ inbox \in Item \cup {NoItem}
  /\ mem \in Memories /\ Len(mem.queue) <= Capacity
  /\ pc \in {"start", "get", "load", "filter", "exist", "merge", "publish"}
  /\ page \in Pages
  /\ decided \in [Candles -> [shot : 0..MaxSnapshot, side : Sides \cup {"none", "NO_TRADE"}]]
  /\ outcome \in [Candles -> Terminal \cup {"none", Pending}]
  /\ trouble \in 0..MaxTrouble
  /\ accepted \subseteq Candles
  /\ readAs \in [1..MaxSnapshot -> 0..MaxCandle]

NoPage == [items |-> <<>>, rows |-> 0, more |-> FALSE, known |-> {}]

Init ==
  /\ closed = 0 /\ stored = 0 /\ held = 0
  /\ shot = <<>> /\ inbox = NoItem
  /\ mem = Fresh /\ pc = "start" /\ page = NoPage
  /\ decided = [k \in Candles |-> NoDecision]
  /\ outcome = [k \in Candles |-> "none"]
  /\ trouble = 0
  /\ accepted = {} /\ readAs = [i \in 1..MaxSnapshot |-> 0]

Trouble == trouble < MaxTrouble /\ trouble' = trouble + 1

-------------------------------------------------------------------------------
(* The market and the other tasks of the Live process.                       *)

CandleCloses ==
  /\ now <= MaxCandle
  /\ closed' = now
  /\ UNCHANGED <<stored, held, shot, inbox, worker, decided, outcome, trouble, history>>

\* The candle worker stores the closed candles one by one, and gives them to
\* the account worker when all are stored.
StoreCandle ==
  /\ stored < closed
  /\ stored' = stored + 1
  /\ UNCHANGED <<closed, held, shot, inbox, worker, decided, outcome, trouble, history>>

HoldCandles ==
  /\ held < stored /\ stored = closed
  /\ held' = stored
  /\ UNCHANGED <<closed, stored, shot, inbox, worker, decided, outcome, trouble, history>>

\* The account worker stores a snapshot, publishes what changed, and submits it.
Capture ==
  /\ inbox = NoItem
  /\ held > 0 /\ now <= MaxCandle
  /\ Len(shot) < MaxSnapshot
  /\ shot' = Append(shot, now)
  /\ inbox' = [key |-> held, shot |-> Len(shot) + 1]
  /\ UNCHANGED <<market, worker, decided, outcome, trouble, history>>

Known(k) == k \in mem.queued \cup mem.completed \cup {mem.current.key}

Submit ==
  /\ inbox # NoItem
  /\ inbox' = NoItem
  /\ LET k == inbox.key
         room == Len(mem.queue) < Capacity
     IN  /\ mem' = IF Known(k) THEN mem
                   ELSE IF room THEN [mem EXCEPT !.queue = Append(@, inbox), !.queued = @ \cup {k}]
                   ELSE [mem EXCEPT !.deferred = @ \cup {k}, !.needs = TRUE]
         /\ accepted' = IF ~Known(k) /\ room THEN accepted \cup {k} ELSE accepted
  /\ UNCHANGED <<market, shot, pc, page, decided, outcome, trouble, readAs>>

-------------------------------------------------------------------------------
(* The decision: the first check that fails makes it NO_TRADE.               *)

Direction(c) ==
  IF c.h4 \in Sides /\ {c.h1, c.m15, c.m5} = {c.h4} THEN c.h4 ELSE "NO_TRADE"

Evaluate(c) ==
  IF c.valid /\ c.volatility = "normal" /\ ~c.refused THEN Direction(c) ELSE "NO_TRADE"

\* Mutant: the decision is written over the stored one.
PersistOverwrites(k, row) == decided' = [decided EXCEPT ![k] = row]

\* persist keeps the row that is there.
Persist(k, row) ==
  decided' = IF decided[k] = NoDecision THEN [decided EXCEPT ![k] = row] ELSE decided

-------------------------------------------------------------------------------
(* Catch-up.                                                                 *)

\* Mutant: the whole page goes into the queue.
EnqueueUnbounded(m) ==
  [m EXCEPT !.queue = @ \o m.pending, !.queued = @ \cup Keys(m.pending),
            !.deferred = @ \ Keys(m.pending), !.pending = <<>>, !.needs = m.more]

\* Mutant: catch-up goes on while something is deferred.
EnqueueUntilEmpty(m) ==
  LET n == Least(Batch, Least(Len(m.pending), Capacity - Len(m.queue)))
      moved == SubSeq(m.pending, 1, n)
      rest == SubSeq(m.pending, n + 1, Len(m.pending))
  IN  [m EXCEPT !.queue = @ \o moved, !.queued = @ \cup Keys(moved), !.deferred = @ \ Keys(moved),
                !.pending = rest, !.needs = rest # <<>> \/ m.more \/ m.deferred # {}]

\* _enqueue_catchup_batch, with the flag that is set behind it.
Enqueue(m) ==
  LET n == Least(Batch, Least(Len(m.pending), Capacity - Len(m.queue)))
      moved == SubSeq(m.pending, 1, n)
      rest == SubSeq(m.pending, n + 1, Len(m.pending))
  IN  [m EXCEPT !.queue = @ \o moved, !.queued = @ \cup Keys(moved),
                !.deferred = @ \ Keys(moved), !.pending = rest,
                !.needs = rest # <<>> \/ m.more]

\* _catch_up, up to its first await: m is the memory it finds.
CatchUp(m) ==
  /\ pc' = IF m.needs /\ Len(m.queue) < Capacity /\ m.pending = <<>> THEN "load" ELSE "get"
  /\ mem' = IF m.needs /\ Len(m.queue) < Capacity /\ m.pending # <<>> THEN Enqueue(m) ELSE m
  /\ accepted' = accepted \cup mem'.queued
  /\ page' = NoPage

Start ==
  /\ pc = "start"
  /\ CatchUp(mem)
  /\ UNCHANGED <<market, shot, inbox, decided, outcome, trouble, readAs>>

\* The queue was empty for a second.
Timeout ==
  /\ pc = "get" /\ mem.queue = <<>> /\ mem.needs
  /\ CatchUp(mem)
  /\ UNCHANGED <<market, shot, inbox, decided, outcome, trouble, readAs>>

\* A snapshot is rebuilt from the candles stored up to its time.
Shows(i) == Least(stored, shot[i])
PageAfter(cursor) ==
  LET last == Least(cursor + PageSize, Len(shot))
      ids == [j \in 1..(last - cursor) |-> cursor + j]
      items == [j \in DOMAIN ids |-> [key |-> Shows(ids[j]), shot |-> ids[j]]]
  IN  [items |-> items, rows |-> last - cursor, more |-> last < Len(shot), known |-> {}]

Load ==
  /\ pc = "load"
  /\ page' = PageAfter(mem.cursor) /\ pc' = "filter"
  /\ UNCHANGED <<market, shot, inbox, mem, decided, outcome, trouble, history>>

\* The items at the indices I, in their order.
Picked(items, I) ==
  {[j \in DOMAIN q |-> items[q[j]]] :
     q \in {r \in [1..Cardinality(I) -> I] : /\ \A i \in I : \E j \in DOMAIN r : r[j] = i
                                            /\ \A i, j \in DOMAIN r : i < j => r[i] < r[j]}}

\* The rows are in the order of their candles as they are in that of their
\* time, so the sort of _order_catch_up_rows leaves them.
NewKeys(items) ==
  {i \in DOMAIN items : /\ ~Known(items[i].key) /\ items[i].key \notin Keys(mem.pending)
                        /\ \A j \in 1..(i - 1) : items[j].key # items[i].key}

\* The end of _catch_up: the cursor moves past the page.  A page without rows
\* has no cursor, and the next one begins again.
Moves(m) ==
  LET n == Enqueue([m EXCEPT !.cursor = IF page.rows = 0 THEN 0 ELSE @ + page.rows,
                             !.more = page.more])
  IN  /\ mem' = n
      /\ accepted' = accepted \cup n.queued
      /\ pc' = "get" /\ page' = NoPage

Filter ==
  /\ pc = "filter"
  /\ readAs' = [i \in DOMAIN readAs |-> IF i - mem.cursor \in DOMAIN page.items
                                         THEN page.items[i - mem.cursor].key ELSE readAs[i]]
  /\ \E cands \in Picked(page.items, NewKeys(page.items)) :
       IF cands = <<>>
       THEN Moves(mem)
       ELSE /\ pc' = "exist" /\ page' = [page EXCEPT !.items = cands]
            /\ UNCHANGED <<mem, accepted>>
  /\ UNCHANGED <<market, shot, inbox, decided, outcome, trouble>>

Exist ==
  /\ pc = "exist"
  /\ page' = [page EXCEPT !.known = Decided \cap Keys(page.items)] /\ pc' = "merge"
  /\ UNCHANGED <<market, shot, inbox, mem, decided, outcome, trouble, history>>

\* Mutant: known and new candles are confused.
MergeWithoutDecided ==
  /\ pc = "merge"
  /\ Moves([mem EXCEPT !.completed = @ \cup Keys(page.items)])
  /\ UNCHANGED <<market, shot, inbox, decided, outcome, trouble, readAs>>

\* Meanwhile the account worker may have submitted what is merged here.
Merge ==
  /\ pc = "merge"
  /\ \E new \in Picked(page.items, {i \in DOMAIN page.items : page.items[i].key \notin page.known}) :
       Moves([mem EXCEPT !.completed = @ \cup page.known, !.deferred = @ \ page.known, !.pending = new])
  /\ UNCHANGED <<market, shot, inbox, decided, outcome, trouble, readAs>>

\* Mutant: the cursor moves although a read failed.
ReadFailsBehindCursor ==
  /\ pc \in {"load", "exist"} /\ Trouble
  /\ mem' = [mem EXCEPT !.needs = TRUE, !.cursor = @ + page.rows] /\ pc' = "get" /\ page' = NoPage
  /\ UNCHANGED <<market, shot, inbox, decided, outcome, history>>

\* A read fails: the cursor stays.
ReadFails ==
  /\ pc \in {"load", "exist"} /\ Trouble
  /\ mem' = [mem EXCEPT !.needs = TRUE] /\ pc' = "get" /\ page' = NoPage
  /\ UNCHANGED <<market, shot, inbox, decided, outcome, history>>

-------------------------------------------------------------------------------
(* _run and _process.                                                        *)

Taken == [mem EXCEPT !.queue = Tail(@), !.queued = @ \ {Head(mem.queue).key}]

\* Decides, and stores the decision; the publication that may follow awaits.
Process ==
  /\ pc = "get" /\ mem.queue # <<>>
  /\ \E c \in Contexts :
       LET x == Head(mem.queue)
       IN  /\ Persist(x.key, [shot |-> x.shot, side |-> Evaluate(c)])
           /\ mem' = [Taken EXCEPT !.current = x]
  /\ pc' = "publish"
  /\ UNCHANGED <<market, shot, inbox, page, outcome, trouble, history>>

Completes ==
  /\ pc = "publish"
  /\ CatchUp([mem EXCEPT !.completed = @ \cup {mem.current.key}, !.current = NoItem,
                         !.deferred = @ \ {mem.current.key}])
  /\ UNCHANGED <<market, shot, inbox, decided, outcome, trouble, readAs>>

\* Mutant: a snapshot that failed is dropped.
KeepLast(x) == mem.pending

\* The decision fails, or the health record behind it: the snapshot is kept.
Keep(x) == IF x.key \in Keys(mem.pending) THEN mem.pending ELSE <<x>> \o mem.pending

ProcessFails ==
  /\ pc = "get" /\ mem.queue # <<>> /\ Trouble
  /\ LET x == Head(mem.queue)
     IN  /\ \/ \E c \in Contexts : Persist(x.key, [shot |-> x.shot, side |-> Evaluate(c)])
            \/ UNCHANGED decided
         /\ CatchUp([Taken EXCEPT !.pending = Keep(x), !.needs = TRUE])
  /\ UNCHANGED <<market, shot, inbox, outcome, readAs>>

-------------------------------------------------------------------------------
(* The outcome worker.                                                       *)

EnsurePending ==
  /\ \E k \in Decided : decided[k].side \in Sides /\ outcome[k] = "none"
  /\ outcome' = [k \in Candles |->
       IF k \in Decided /\ decided[k].side \in Sides /\ outcome[k] = "none" THEN Pending ELSE outcome[k]]
  /\ UNCHANGED <<market, shot, inbox, worker, decided, trouble, history>>

\* It lists the oldest outcomes, the settled ones among them.
Listed == {k \in Candles : outcome[k] # "none"
             /\ Cardinality({j \in Candles : j < k /\ outcome[j] # "none"}) < OutcomeLimit}

Verdict(side, class) ==
  IF class = "both" THEN "AMBIGUOUS" ELSE IF class = "target" THEN "TP_HIT" ELSE "SL_HIT"

\* Mutant: the candle of the decision counts.
ResultWithOwn(k, upTo) ==
  LET last == Least(k + Horizon, upTo)
      hits == {c \in k..last : Market[c] # "quiet"}
  IN  IF hits # {}
        THEN Verdict(decided[k].side, Market[CHOOSE c \in hits : \A d \in hits : c <= d])
        ELSE IF last < k + Horizon THEN Pending ELSE "EXPIRED"

\* evaluate_decision over the candles after k, up to upTo.
Result(k, upTo) ==
  LET last == Least(k + Horizon, upTo)
      hits == {c \in (k + 1)..last : Market[c] # "quiet"}
  IN  IF hits # {}
        THEN Verdict(decided[k].side, Market[CHOOSE c \in hits : \A d \in hits : c <= d])
        ELSE IF last < k + Horizon THEN Pending ELSE "EXPIRED"

\* Candles are only added and only this worker writes outcomes, so the read of
\* the candles and the update behind it are one step.
Update ==
  /\ \E k \in Listed : outcome[k] = Pending /\ outcome' = [outcome EXCEPT ![k] = Result(k, stored)]
  /\ UNCHANGED <<market, shot, inbox, worker, decided, trouble, history>>

-------------------------------------------------------------------------------
(* Live ends and starts again: the memory is gone, and the synchronization   *)
(* stores the candles that closed meanwhile.                                 *)
Restart ==
  /\ Trouble
  /\ stored' = closed /\ held' = closed
  /\ inbox' = NoItem /\ mem' = Fresh /\ pc' = "start" /\ page' = NoPage
  /\ accepted' = {} /\ readAs' = [i \in DOMAIN readAs |-> 0]
  /\ UNCHANGED <<closed, shot, decided, outcome>>

Decide == Start \/ Timeout \/ Load \/ Filter \/ Exist \/ Merge \/ Process \/ Completes
Settle == EnsurePending \/ Update
Feed == StoreCandle \/ HoldCandles \/ Submit

Next ==
  \/ CandleCloses \/ StoreCandle \/ HoldCandles \/ Capture \/ Submit
  \/ Start \/ Timeout \/ Load \/ Filter \/ Exist \/ Merge \/ ReadFails
  \/ Process \/ Completes \/ ProcessFails
  \/ EnsurePending \/ Update
  \/ Restart

Spec == Init /\ [][Next]_vars

-------------------------------------------------------------------------------
(* CandlesAreKept.                                                                   *)

Tracked == Keys(mem.queue) \cup Keys(mem.pending) \cup {mem.current.key} \cup Decided

\* What was put into the queue is decided, or is still waiting somewhere:
\* _process keeps a snapshot that failed.
AcceptedIsKept == accepted \subseteq Tracked

\* The cursor passes a snapshot only when the candle it showed is decided or
\* waits: _catch_up moves it behind its last await.
NothingSkipped == \A i \in 1..mem.cursor : readAs[i] \in Tracked \cup {0}

\* A candle that the worker takes for completed has a decision in the database.
CompletedIsDecided == mem.completed \subseteq Decided

\* A decision is never replaced, whoever decides the candle again.
DecisionsAreFinal == [][\A k \in Decided : decided'[k] = decided[k]]_decided

\* An outcome is what the complete history of the market says of the first
\* candle that settles the trade, and evaluate_once never changes it.
Settles(k, c) ==
  /\ k < c /\ c <= k + Horizon /\ c <= closed
  /\ Market[c] # "quiet"
  /\ \A d \in Candles : k < d /\ d < c => Market[d] = "quiet"

OutcomeIsFirst ==
  \A k \in Candles :
    /\ outcome[k] = "EXPIRED" => k + Horizon <= closed /\ \A c \in Candles : ~Settles(k, c)
    /\ outcome[k] \in Terminal \ {"EXPIRED"} =>
         \E c \in Candles : Settles(k, c) /\ outcome[k] = Verdict(decided[k].side, Market[c])

\* A catch-up ends: it does not go round the stored snapshots for ever.
CatchUpEnds == []<>~mem.needs

\* What was put into the queue is decided in the end, unless Live dies.
AcceptedIsDecided == []<>(accepted \subseteq Decided)

\* No decision has seen a candle that was not closed when its snapshot was
\* taken: the report of phase 2.0.3 says that catch-up has no look-ahead.  The
\* code does not keep it.
NoLookAhead == \A k \in Decided : k < shot[decided[k].shot]

\* A candle that did not fit into the queue is on its way to be caught up: the
\* code does not keep it.
DeferredReturns ==
  mem.deferred # {} => mem.needs \/ pc \in {"start", "load", "filter", "exist", "merge"}

\* The tasks of the event loop go on; the market and the snapshots need not.
Fairness ==
  /\ WF_vars(Decide \/ ReadFails \/ ProcessFails) /\ WF_vars(Submit)
  /\ WF_vars(StoreCandle) /\ WF_vars(Settle)
FairSpec == Spec /\ Fairness

\* What holds in every state: what was accepted, passed by the cursor or
\* completed is decided or on its way, and a settled outcome is that of the
\* first candle that hits.
CandlesAreKept ==
  TypeOK /\ AcceptedIsKept /\ NothingSkipped /\ CompletedIsDecided /\ OutcomeIsFirst

\* Catch-up ends, and every accepted candle is decided.
CatchesUp == CatchUpEnds /\ AcceptedIsDecided
===============================================================================
