-------------------------- MODULE LiveEngine_proofs --------------------------
(* Proofs about LiveEngine, for every bound and lookback; about LiveMonitor, *)
(* for every bound and every finite set of positions; and about Gateway,     *)
(* for every set of worker tasks.                                            *)
EXTENDS LiveEngine, FiniteSetTheorems, TLAPS

(* Going to another await keeps pc and line well typed, and moves one task.  *)
LEMMA GoesMoves ==
  ASSUME TypeOK, NEW t \in Tasks, NEW place \in Awaits, Goes(t, place), pc[t] \in Gated => Served(t)
  PROVE  /\ pc' \in [Tasks -> Awaits] /\ line' \in Seq(Tasks)
         /\ pc'[t] = place
         /\ \A u \in Tasks \ {t} : pc'[u] = pc[u]
  <1>1. pc' = [pc EXCEPT ![t] = place] /\ pc \in [Tasks -> Awaits] /\ line \in Seq(Tasks)
    BY DEF TypeOK, Goes
  <1>2. (IF pc[t] \in Gated THEN Tail(line) ELSE line) \in Seq(Tasks)
    BY <1>1 DEF Served
  <1>3. (IF place \in Gated THEN <<t>> ELSE <<>>) \in Seq(Tasks)
    OBVIOUS
  <1>4. line' \in Seq(Tasks)
    BY <1>2, <1>3 DEF Goes
  <1> QED
    BY <1>1, <1>4

(* A failing worker closes the gateway or ends.                              *)
LEMMA FailsMoves ==
  ASSUME TypeOK, NEW w \in Workers, NEW n \in Nat, NEW state \in RuntimeStates, Fails(w, n, state),
         pc[w] \in Gated => Served(w)
  PROVE  /\ pc' \in [Tasks -> Awaits] /\ line' \in Seq(Tasks)
         /\ pc'[w] \in {"close", "dead"}
         /\ \A u \in Tasks \ {w} : pc'[u] = pc[u]
         /\ runtime' \in {state, "DISCONNECTED"}
         /\ faults' \in 0..MaxFaults /\ deaths' = deaths
  <1>1. w \in Tasks /\ "close" \in Awaits /\ "dead" \in Awaits /\ MaxFaults \in Nat /\ faults \in Nat
    BY LiveAssumption DEF Tasks, Awaits, TypeOK
  <1>2. CASE Goes(w, "close") /\ runtime' = "DISCONNECTED" /\ Faults(n)
    <2>1. faults' \in 0..MaxFaults /\ deaths' = deaths
      BY <1>1, <1>2 DEF Faults
    <2> QED
      BY <1>1, <1>2, <2>1, GoesMoves
  <1>3. CASE Goes(w, "dead") /\ runtime' \in {state, "DISCONNECTED"} /\ Faults(n + 1)
    <2>1. faults' \in 0..MaxFaults /\ deaths' = deaths
      BY <1>1, <1>3 DEF Faults
    <2> QED
      BY <1>1, <1>3, <2>1, GoesMoves
  <1> QED
    BY <1>2, <1>3 DEF Fails

Candled == CursorCovers /\ BehindMarket /\ ToldOnce
Placed == OneSynchronizes /\ DownIsDown

(* A worker that stays outside of _reconnect disturbs nobody's place.        *)
LEMMA PlaceKept ==
  ASSUME IInv, NEW w \in Workers, pc' \in [Tasks -> Awaits], lock' = lock,
         pc[w] \notin Syncing \cup {"down"}, pc'[w] \notin Syncing \cup {"down"},
         \A u \in Tasks \ {w} : pc'[u] = pc[u], runtime' # "DOWN"
  PROVE  Placed'
  BY DEF IInv, OneSynchronizes, DownIsDown, Placed, Tasks, Workers

(* ---------------------------- a worker's cycle --------------------------- *)

LEMMA WakeStep ==
  ASSUME IInv, NEW w \in Workers, Wake(w)
  PROVE  IInv'
  <1>1. w \in Tasks /\ (IF connected THEN "call" ELSE "queue") \in Awaits /\ pc[w] \notin Gated
    BY DEF Tasks, Awaits, Wake, Gated
  <1>2. /\ pc' \in [Tasks -> Awaits] /\ line' \in Seq(Tasks) /\ pc'[w] \in {"call", "queue"}
        /\ \A u \in Tasks \ {w} : pc'[u] = pc[u]
    BY <1>1, GoesMoves DEF Wake, IInv
  <1>3. TypeOK'
    BY <1>2 DEF IInv, TypeOK, Wake, memory, bounds
  <1>4. Candled'
    BY DEF IInv, Candled, CursorCovers, BehindMarket, ToldOnce, Wake, memory
  <1>5. runtime' # "DOWN" /\ lock' = lock
    BY <1>1 DEF IInv, DownIsDown, Wake
  <1>6. Placed'
    BY <1>2, <1>5, PlaceKept DEF Wake, Syncing
  <1> QED
    BY <1>3, <1>4, <1>6 DEF IInv, Candled, Placed

(* A cycle that fails.                                                       *)
LEMMA FailureStep ==
  ASSUME IInv, NEW w \in Workers, NEW n \in Nat, Fails(w, n, runtime), pc[w] \in {"call", "rest"}, Served(w),
         batch' \in {0, batch}, closed' = closed, connected' = connected, back' = back, lock' = lock,
         window' \in {window, batch}, submitted' = submitted,
         stored' \subseteq Candles, told' \in [Candles -> Nat], cursor' \in 0..MaxCandles, Candled'
  PROVE  IInv'
  <1>1. runtime \in RuntimeStates /\ runtime # "DOWN" /\ w \in Tasks
    BY DEF IInv, TypeOK, DownIsDown, Tasks
  <1>2. /\ pc' \in [Tasks -> Awaits] /\ line' \in Seq(Tasks) /\ pc'[w] \in {"close", "dead"}
        /\ \A u \in Tasks \ {w} : pc'[u] = pc[u]
        /\ runtime' \in {runtime, "DISCONNECTED"}
        /\ faults' \in 0..MaxFaults /\ deaths' = deaths
    BY <1>1, FailsMoves DEF IInv
  <1>3. TypeOK'
    BY <1>1, <1>2, LiveAssumption, SMTT(30) DEF IInv, TypeOK, RuntimeStates, Candles
  <1>4. Placed'
    BY <1>1, <1>2, PlaceKept DEF Syncing
  <1> QED
    BY <1>3, <1>4 DEF IInv, Candled, Placed

LEMMA CallFails ==
  ASSUME IInv, NEW w \in Workers, CallDisconnected(w) \/ CallRaises(w)
  PROVE  IInv'
  <1>1. /\ pc[w] \in {"call", "rest"} /\ Served(w) /\ batch' \in {0, batch}
        /\ Fails(w, 0, runtime) \/ Fails(w, 1, runtime)
        /\ UNCHANGED <<closed, connected, back, lock, window, cursor, stored, told, submitted>>
    BY DEF CallDisconnected, CallRaises
  <1>2. stored' \subseteq Candles /\ told' \in [Candles -> Nat] /\ cursor' \in 0..MaxCandles
    BY <1>1 DEF IInv, TypeOK
  <1>3. Candled'
    BY <1>1, LiveAssumption DEF IInv, TypeOK, Candled, CursorCovers, BehindMarket, ToldOnce, Candles
  <1> QED
    BY <1>1, <1>2, <1>3, FailureStep

(* A cycle that goes on: only line, pc, and what candles are known change.   *)
LEMMA ProgressStep ==
  ASSUME IInv, NEW w \in Workers, NEW place \in {"sleep", "rest"}, Goes(w, place),
         pc[w] \in {"call", "rest"}, Served(w),
         closed' = closed, connected' = connected, back' = back, lock' = lock, runtime' = runtime,
         faults' = faults, deaths' = deaths,
         stored' \subseteq Candles, told' \in [Candles -> Nat],
         window' \in {window, batch}, batch' \in {0, batch, closed},
         submitted' \in {submitted, window}, cursor' \in {cursor, closed}, Candled'
  PROVE  IInv'
  <1>1. w \in Tasks /\ place \in Awaits /\ runtime # "DOWN"
    BY DEF Tasks, Awaits, IInv, DownIsDown
  <1>2. /\ pc' \in [Tasks -> Awaits] /\ line' \in Seq(Tasks) /\ pc'[w] = place
        /\ \A u \in Tasks \ {w} : pc'[u] = pc[u]
    BY <1>1, GoesMoves DEF IInv
  <1>3. TypeOK'
    BY <1>2, LiveAssumption, SMTT(30) DEF IInv, TypeOK, Candles
  <1>4. Placed'
    BY <1>1, <1>2, PlaceKept DEF Syncing
  <1> QED
    BY <1>3, <1>4 DEF IInv, Candled, Placed

LEMMA AccountStep ==
  ASSUME IInv, AccountReads
  PROVE  IInv'
  <1>1. /\ "account" \in Workers /\ pc["account"] \in {"call", "rest"} /\ Served("account")
        /\ UNCHANGED <<closed, connected, back, lock, window, batch, cursor, told>>
    BY DEF AccountReads, Answered, Workers
  <1>2. stored' \subseteq Candles /\ told' \in [Candles -> Nat] /\ cursor' \in 0..MaxCandles
    BY <1>1 DEF IInv, TypeOK, AccountReads, SnapshotCandles
  <1>3. submitted' \in {submitted, window}
    BY DEF AccountReads
  <1>4. Candled'
    BY <1>1, <1>3, LiveAssumption DEF IInv, TypeOK, Candled, CursorCovers, BehindMarket, ToldOnce, Candles
  <1>5. CASE submitted' = window /\ Goes("account", "sleep") /\ UNCHANGED <<runtime, bounds>>
    <2>1. runtime' = runtime /\ faults' = faults /\ deaths' = deaths
      BY <1>5 DEF bounds
    <2> QED
      BY <1>1, <1>2, <1>3, <1>4, <1>5, <2>1, ProgressStep
  <1>6. CASE Fails("account", 1, runtime) /\ UNCHANGED submitted
    BY <1>1, <1>2, <1>4, <1>6, FailureStep
  <1> QED
    BY <1>5, <1>6 DEF AccountReads

(* Announcing unseen candles up to the cursor announces none of them twice.  *)
LEMMA Announced ==
  ASSUME IInv, NEW seen \in SUBSET Unseen, told' = Count(seen), closed' = closed,
         window' = window, batch' \in {batch, closed}, submitted' = submitted,
         cursor' \in 0..MaxCandles, cursor <= cursor', cursor' <= closed, \A c \in seen : c <= cursor'
  PROVE  Candled' /\ told' \in [Candles -> Nat]
  <1>1. told \in [Candles -> Nat] /\ told' \in [Candles -> Nat]
    BY DEF IInv, TypeOK, Count
  <1>2. \A c \in Candles : told'[c] = told[c] + (IF c \in seen THEN 1 ELSE 0)
    BY DEF Count
  <1>3. \A c \in seen : c \in Candles /\ told[c] = 0
    BY <1>1, LiveAssumption DEF IInv, TypeOK, CursorCovers, Unseen, Candles
  <1>4. cursor \in Nat /\ cursor' \in Nat /\ \A c \in Candles : c \in Nat /\ told[c] \in Nat
    BY <1>1, LiveAssumption DEF IInv, TypeOK, Candles
  <1>5. \A c \in Candles : told[c] <= 1 /\ (told[c] > 0 => c <= cursor)
    BY DEF IInv, ToldOnce, CursorCovers
  <1>6. ToldOnce'
    BY <1>2, <1>3, <1>4, <1>5 DEF ToldOnce, Candles
  <1>7. CursorCovers'
    <2> SUFFICES ASSUME NEW c \in Candles, told'[c] > 0
                 PROVE  c <= cursor'
      BY DEF CursorCovers, Candles
    <2>1. CASE c \in seen
      BY <2>1
    <2>2. CASE c \notin seen
      BY <1>2, <1>4, <1>5, <2>2
    <2> QED
      BY <2>1, <2>2
  <1>8. BehindMarket'
    BY LiveAssumption DEF IInv, TypeOK, BehindMarket, Candles
  <1> QED
    BY <1>1, <1>6, <1>7, <1>8 DEF Candled

LEMMA CandlesReadStep ==
  ASSUME IInv, CandlesRead
  PROVE  IInv'
  <1>1. /\ "candles" \in Workers /\ pc["candles"] \in {"call", "rest"} /\ Served("candles")
        /\ UNCHANGED <<closed, connected, back, lock, window, submitted>>
    BY DEF CandlesRead, Answered, Workers
  <1>2. /\ cursor \in 0..MaxCandles /\ closed \in 1..MaxCandles /\ cursor <= closed /\ MaxCandles \in Nat
        /\ Unseen \subseteq Candles /\ \A c \in Unseen : c \in Nat /\ cursor < c /\ c <= closed
    BY LiveAssumption DEF IInv, TypeOK, BehindMarket, Unseen, Candles
  <1>3. CASE /\ batch' = closed
             /\ stored' = stored \cup Unseen
             /\ cursor' = IF Unseen = {} THEN cursor ELSE closed
             /\ told' = Count(Unseen)
             /\ Goes("candles", "rest")
             /\ UNCHANGED <<runtime, bounds>>
    <2>1. cursor' \in 0..MaxCandles /\ cursor <= cursor' /\ cursor' <= closed /\ \A c \in Unseen : c <= cursor'
      BY <1>2, <1>3
    <2>2. Candled' /\ told' \in [Candles -> Nat]
      BY <1>1, <1>3, <2>1, Announced
    <2>3. stored' \subseteq Candles /\ runtime' = runtime /\ faults' = faults /\ deaths' = deaths
      BY <1>2, <1>3 DEF IInv, TypeOK, bounds
    <2> QED
      BY <1>1, <1>3, <2>2, <2>3, ProgressStep
  <1>4. ASSUME NEW c \in Unseen,
               LET before == {d \in Unseen : d < c}
                   last == IF before = {} THEN cursor ELSE c - 1
               IN /\ told' = Count(before)
                  /\ \/ stored' = stored \cup before \cup {c} /\ cursor' \in {last, c}
                     \/ stored' = stored \cup before /\ cursor' = last
                  /\ Fails("candles", 1, runtime)
                  /\ UNCHANGED batch
        PROVE  IInv'
    <2> DEFINE before == {d \in Unseen : d < c}
               last == IF before = {} THEN cursor ELSE c - 1
    <2>1. told' = Count(before) /\ Fails("candles", 1, runtime) /\ batch' = batch
      BY <1>4
    <2>2. stored' \subseteq stored \cup Unseen /\ cursor' \in {last, c}
      BY <1>4
    <2>3. cursor' \in 0..MaxCandles /\ cursor <= cursor' /\ cursor' <= closed /\ \A d \in before : d <= cursor'
      BY <1>2, <2>2
    <2>4. Candled' /\ told' \in [Candles -> Nat]
      BY <1>1, <2>1, <2>3, Announced
    <2>5. stored' \subseteq Candles
      BY <1>2, <2>2 DEF IInv, TypeOK
    <2> QED
      BY <1>1, <2>1, <2>3, <2>4, <2>5, FailureStep
  <1> QED
    BY <1>3, <1>4 DEF CandlesRead

LEMMA CandlesDoneStep ==
  ASSUME IInv, CandlesDone
  PROVE  IInv'
  <1>1. /\ "candles" \in Workers /\ pc["candles"] \in {"call", "rest"} /\ Served("candles")
        /\ window' = batch /\ batch' = 0
        /\ UNCHANGED <<closed, connected, back, lock, cursor, stored, told, submitted>>
    BY DEF CandlesDone, Answered, Workers
  <1>2. stored' \subseteq Candles /\ told' \in [Candles -> Nat] /\ cursor' \in 0..MaxCandles
    BY <1>1 DEF IInv, TypeOK
  <1>3. Candled'
    BY <1>1, LiveAssumption DEF IInv, TypeOK, Candled, CursorCovers, BehindMarket, ToldOnce, Candles
  <1>4. CASE Goes("candles", "sleep") /\ UNCHANGED <<runtime, bounds>>
    <2>1. runtime' = runtime /\ faults' = faults /\ deaths' = deaths
      BY <1>4 DEF bounds
    <2> QED
      BY <1>1, <1>2, <1>3, <1>4, <2>1, ProgressStep
  <1>5. CASE Fails("candles", 1, runtime)
    BY <1>1, <1>2, <1>3, <1>5, FailureStep
  <1> QED
    BY <1>4, <1>5 DEF CandlesDone

(* ------------------------------ reconnecting ----------------------------- *)

LEMMA CloseStep ==
  ASSUME IInv, NEW w \in Workers, Close(w)
  PROVE  IInv'
  <1>1. w \in Tasks /\ "queue" \in Awaits /\ runtime # "DOWN"
    BY DEF Tasks, Awaits, IInv, DownIsDown, Close
  <1>2. /\ pc' \in [Tasks -> Awaits] /\ line' \in Seq(Tasks) /\ pc'[w] = "queue"
        /\ \A u \in Tasks \ {w} : pc'[u] = pc[u]
    BY <1>1, GoesMoves DEF Close, IInv
  <1>3. TypeOK'
    BY <1>1, <1>2 DEF IInv, TypeOK, Close, memory, bounds, Tasks
  <1>4. Candled'
    BY DEF IInv, Candled, CursorCovers, BehindMarket, ToldOnce, Close, memory
  <1>5. Placed'
    BY <1>1, <1>2, PlaceKept DEF Close, Syncing
  <1> QED
    BY <1>3, <1>4, <1>5 DEF IInv, Candled, Placed

(* A worker that takes the lock enters _reconnect; nobody else is in it.     *)
LEMMA PlaceTaken ==
  ASSUME IInv, NEW w \in Workers, pc' \in [Tasks -> Awaits], lock = "free", lock' = w,
         pc[w] # "down", pc'[w] \in Syncing, \A u \in Tasks \ {w} : pc'[u] = pc[u], runtime' # "DOWN"
  PROVE  Placed'
  BY DEF IInv, OneSynchronizes, DownIsDown, Placed, Tasks, Workers, Syncing

(* A worker that releases the lock has left _reconnect.                      *)
LEMMA PlaceReleased ==
  ASSUME IInv, NEW w \in Workers, pc' \in [Tasks -> Awaits], lock' = "free",
         pc[w] \in Syncing, pc'[w] \notin Syncing \cup {"down"},
         \A u \in Tasks \ {w} : pc'[u] = pc[u], runtime' # "DOWN"
  PROVE  Placed'
  BY DEF IInv, OneSynchronizes, DownIsDown, Placed, Tasks, Workers, Syncing

(* A task that stays in _reconnect, or in the boot's first attempt.          *)
LEMMA PlaceSyncing ==
  ASSUME IInv, NEW t \in Tasks, pc' \in [Tasks -> Awaits],
         lock' = lock \/ (t = "boot" /\ lock' = t),
         pc[t] \in Syncing, pc'[t] \in Syncing,
         \A u \in Tasks \ {t} : pc'[u] = pc[u], runtime' # "DOWN"
  PROVE  Placed'
  BY DEF IInv, OneSynchronizes, DownIsDown, Placed, Tasks, Workers, Syncing

(* Going on is going to sleep, to a call, or to nothing at the boot.         *)
LEMMA ResumesMoves ==
  ASSUME IInv, NEW w \in Workers, Resumes(w), pc[w] \notin Gated
  PROVE  /\ pc' \in [Tasks -> Awaits] /\ line' \in Seq(Tasks) /\ pc'[w] \in {"call", "sleep"}
         /\ \A u \in Tasks \ {w} : pc'[u] = pc[u]
         /\ back' \in [Tasks -> {"call", "sleep", "initial"}]
         /\ \A u \in Workers : back'[u] # "initial"
  <1>1. w \in Tasks /\ back[w] \in Awaits /\ back[w] \in {"call", "sleep"}
    BY DEF Tasks, Awaits, IInv, TypeOK
  <1> QED
    BY <1>1, GoesMoves DEF Resumes, IInv, TypeOK

LEMMA ReconnectStep ==
  ASSUME IInv, NEW w \in Workers, Reconnect(w)
  PROVE  IInv'
  <1>1. /\ pc[w] = "queue" /\ lock = "free" /\ w \in Tasks /\ pc[w] \notin Gated
        /\ runtime # "DOWN" /\ "retry" \in Awaits /\ "dead" \in Awaits
        /\ UNCHANGED <<closed, connected, window, batch, cursor, stored, told, submitted>>
    BY DEF Reconnect, Tasks, Gated, IInv, DownIsDown, Awaits, memory
  <1>2. Candled'
    BY <1>1 DEF IInv, Candled, CursorCovers, BehindMarket, ToldOnce
  <1>3. CASE connected /\ Resumes(w) /\ UNCHANGED <<lock, runtime, bounds>>
    <2>1. TypeOK'
      BY <1>1, <1>3, ResumesMoves DEF IInv, TypeOK, bounds
    <2>2. Placed'
      BY <1>1, <1>3, ResumesMoves, PlaceKept DEF Syncing
    <2> QED
      BY <1>2, <2>1, <2>2 DEF IInv, Candled, Placed
  <1>4. CASE Goes(w, "retry") /\ lock' = w /\ runtime' = "RECONNECTING" /\ UNCHANGED <<back, bounds>>
    <2>1. /\ pc' \in [Tasks -> Awaits] /\ line' \in Seq(Tasks) /\ pc'[w] = "retry"
          /\ \A u \in Tasks \ {w} : pc'[u] = pc[u]
      BY <1>1, <1>4, GoesMoves DEF IInv
    <2>2. TypeOK'
      BY <1>1, <1>4, <2>1 DEF IInv, TypeOK, bounds, RuntimeStates
    <2>3. Placed'
      BY <1>1, <1>4, <2>1, PlaceTaken DEF Syncing
    <2> QED
      BY <1>2, <2>2, <2>3 DEF IInv, Candled, Placed
  <1>5. CASE Fails(w, 1, "RECONNECTING") /\ UNCHANGED <<back, lock>>
    <2>1. /\ pc' \in [Tasks -> Awaits] /\ line' \in Seq(Tasks) /\ pc'[w] \in {"close", "dead"}
          /\ \A u \in Tasks \ {w} : pc'[u] = pc[u]
          /\ runtime' \in {"RECONNECTING", "DISCONNECTED"}
          /\ faults' \in 0..MaxFaults /\ deaths' = deaths
      <3>1. "RECONNECTING" \in RuntimeStates
        BY DEF RuntimeStates
      <3> QED
        BY <1>1, <1>5, <3>1, FailsMoves DEF IInv
    <2>2. TypeOK'
      BY <1>1, <1>5, <2>1 DEF IInv, TypeOK, RuntimeStates
    <2>3. Placed'
      BY <1>1, <1>5, <2>1, PlaceKept DEF Syncing
    <2> QED
      BY <1>2, <2>2, <2>3 DEF IInv, Candled, Placed
  <1>6. CASE Ends(w) /\ runtime' = "RECONNECTING" /\ Faults(1) /\ UNCHANGED lock
    <2>1. /\ pc' \in [Tasks -> Awaits] /\ line' \in Seq(Tasks) /\ pc'[w] = "dead"
          /\ \A u \in Tasks \ {w} : pc'[u] = pc[u]
      BY <1>1, <1>6, GoesMoves DEF IInv, Ends
    <2>2. faults' \in 0..MaxFaults /\ deaths' = deaths
      BY <1>6, LiveAssumption DEF Faults, IInv, TypeOK
    <2>3. TypeOK'
      BY <1>1, <1>6, <2>1, <2>2 DEF IInv, TypeOK, RuntimeStates, Ends, Tasks
    <2>4. Placed'
      BY <1>1, <1>6, <2>1, PlaceKept DEF Syncing
    <2> QED
      BY <1>2, <2>3, <2>4 DEF IInv, Candled, Placed
  <1> QED
    BY <1>3, <1>4, <1>5, <1>6 DEF Reconnect

LEMMA RetryStep ==
  ASSUME IInv, NEW t \in Tasks, Retry(t) \/ SyncConnects(t) \/ SyncDisconnected(t)
  PROVE  IInv'
  <1>1. PICK place \in {"connect", "read", "retry"} : Goes(t, place)
    BY DEF Retry, SyncConnects, SyncDisconnected
  <1>2. /\ pc[t] \in Syncing /\ runtime # "DOWN" /\ place \in Awaits /\ place \in Syncing
        /\ pc[t] \in Gated => Served(t)
        /\ connected' \in BOOLEAN
        /\ UNCHANGED <<closed, back, lock, runtime, window, batch, cursor, stored, told, submitted, faults, deaths>>
    BY DEF Retry, SyncConnects, SyncDisconnected, Syncing, Gated, Awaits, IInv, TypeOK, DownIsDown, memory, bounds
  <1>3. /\ pc' \in [Tasks -> Awaits] /\ line' \in Seq(Tasks) /\ pc'[t] = place
        /\ \A u \in Tasks \ {t} : pc'[u] = pc[u]
    BY <1>1, <1>2, GoesMoves DEF IInv
  <1>4. TypeOK'
    BY <1>2, <1>3 DEF IInv, TypeOK
  <1>5. Candled'
    BY <1>2 DEF IInv, Candled, CursorCovers, BehindMarket, ToldOnce
  <1>6. Placed'
    BY <1>2, <1>3, PlaceSyncing
  <1> QED
    BY <1>4, <1>5, <1>6 DEF IInv, Candled, Placed

(* What a synchronization may do to what is known of candles: forget that    *)
(* those up to the newest closed one were not announced.                     *)
LEMMA Overtaken ==
  ASSUME IInv, closed' = closed, told' = told, submitted' = submitted, batch' = batch,
         cursor' \in {cursor, closed}, window' \in {window, closed}
  PROVE  Candled' /\ cursor' \in 0..MaxCandles /\ window' \in 0..MaxCandles
  <1>1. cursor' \in 0..MaxCandles /\ window' \in 0..MaxCandles
    BY LiveAssumption DEF IInv, TypeOK, Candles
  <1>2. Candled'
    BY LiveAssumption DEF IInv, TypeOK, Candled, CursorCovers, BehindMarket, ToldOnce, Candles
  <1> QED
    BY <1>1, <1>2

LEMMA SyncReadsStep ==
  ASSUME IInv, NEW t \in Tasks, SyncReads(t)
  PROVE  IInv'
  <1>1. /\ pc[t] = "read" /\ Served(t) /\ Goes(t, "announce") /\ "announce" \in Awaits /\ runtime # "DOWN"
        /\ UNCHANGED <<closed, connected, back, lock, runtime, batch, told, submitted, faults, deaths>>
        /\ cursor' = closed /\ window' = closed /\ stored' = stored \cup SnapshotCandles(closed)
    BY DEF SyncReads, Answered, Awaits, IInv, DownIsDown, bounds
  <1>2. /\ pc' \in [Tasks -> Awaits] /\ line' \in Seq(Tasks) /\ pc'[t] = "announce"
        /\ \A u \in Tasks \ {t} : pc'[u] = pc[u]
    BY <1>1, GoesMoves DEF IInv
  <1>3. Candled' /\ cursor' \in 0..MaxCandles /\ window' \in 0..MaxCandles
    BY <1>1, Overtaken
  <1>4. TypeOK'
    BY <1>1, <1>2, <1>3 DEF IInv, TypeOK, SnapshotCandles
  <1>5. Placed'
    BY <1>1, <1>2, PlaceSyncing DEF Syncing
  <1> QED
    BY <1>3, <1>4, <1>5 DEF IInv, Candled, Placed

LEMMA SyncRaisesStep ==
  ASSUME IInv, NEW t \in Tasks, SyncRaises(t)
  PROVE  IInv'
  <1>1. /\ pc[t] \in Syncing /\ (pc[t] \in Gated => Served(t))
        /\ Goes(t, "retry") /\ "retry" \in Awaits /\ runtime # "DOWN"
        /\ UNCHANGED <<closed, batch, told, submitted>>
    BY DEF SyncRaises, Syncing, Gated, Awaits, IInv, DownIsDown
  <1>2. /\ pc' \in [Tasks -> Awaits] /\ line' \in Seq(Tasks) /\ pc'[t] = "retry"
        /\ \A u \in Tasks \ {t} : pc'[u] = pc[u]
    BY <1>1, GoesMoves DEF IInv
  <1>3. /\ cursor' \in {cursor, closed} /\ window' \in {window, closed}
        /\ stored' \in {stored, stored \cup SnapshotCandles(closed)}
    BY DEF SyncRaises
  <1>4. Candled' /\ cursor' \in 0..MaxCandles /\ window' \in 0..MaxCandles
    BY <1>1, <1>3, Overtaken
  <1>5. faults' \in 0..MaxFaults /\ deaths' = deaths
    BY LiveAssumption DEF SyncRaises, Faults, IInv, TypeOK
  <1>6. stored' \subseteq Candles
    BY <1>3 DEF IInv, TypeOK, SnapshotCandles
  <1>7. CASE back[t] = "initial"
    <2>1. /\ t = "boot" /\ lock' = t /\ connected' = FALSE /\ runtime' = "RECONNECTING"
          /\ back' = [back EXCEPT ![t] = "call"]
      BY <1>7 DEF SyncRaises, IInv, TypeOK, Tasks
    <2>2. TypeOK'
      BY <1>1, <1>2, <1>4, <1>5, <1>6, <2>1 DEF IInv, TypeOK, Tasks, RuntimeStates
    <2>3. Placed'
      BY <1>1, <1>2, <2>1, PlaceSyncing DEF Syncing
    <2> QED
      BY <1>4, <2>2, <2>3 DEF IInv, Candled, Placed
  <1>8. CASE back[t] # "initial"
    <2>1. UNCHANGED <<connected, runtime, lock, back>>
      BY <1>8 DEF SyncRaises
    <2>2. TypeOK'
      BY <1>1, <1>2, <1>4, <1>5, <1>6, <2>1 DEF IInv, TypeOK
    <2>3. Placed'
      BY <1>1, <1>2, <2>1, PlaceSyncing DEF Syncing
    <2> QED
      BY <1>4, <2>2, <2>3 DEF IInv, Candled, Placed
  <1> QED
    BY <1>7, <1>8

LEMMA SyncEscapesStep ==
  ASSUME IInv, NEW w \in Workers, SyncEscapes(w)
  PROVE  IInv'
  <1>1. /\ pc[w] \in Syncing /\ (pc[w] \in Gated => Served(w)) /\ w \in Tasks
        /\ lock' = "free" /\ runtime # "DOWN" /\ runtime \in RuntimeStates /\ "dead" \in Awaits
        /\ UNCHANGED <<closed, connected, window, batch, cursor, stored, told, submitted>>
    BY DEF SyncEscapes, Syncing, Gated, Awaits, Tasks, IInv, TypeOK, DownIsDown, memory
  <1>2. Candled'
    BY <1>1 DEF IInv, Candled, CursorCovers, BehindMarket, ToldOnce
  <1>3. CASE Fails(w, 2, runtime) /\ UNCHANGED back
    <2>1. /\ pc' \in [Tasks -> Awaits] /\ line' \in Seq(Tasks) /\ pc'[w] \in {"close", "dead"}
          /\ \A u \in Tasks \ {w} : pc'[u] = pc[u]
          /\ runtime' \in {runtime, "DISCONNECTED"}
          /\ faults' \in 0..MaxFaults /\ deaths' = deaths
      BY <1>1, <1>3, FailsMoves DEF IInv
    <2>2. TypeOK'
      BY <1>1, <1>3, <2>1 DEF IInv, TypeOK, RuntimeStates
    <2>3. Placed'
      BY <1>1, <2>1, PlaceReleased DEF Syncing
    <2> QED
      BY <1>2, <2>2, <2>3 DEF IInv, Candled, Placed
  <1>4. CASE Ends(w) /\ Faults(2) /\ UNCHANGED runtime
    <2>1. /\ pc' \in [Tasks -> Awaits] /\ line' \in Seq(Tasks) /\ pc'[w] = "dead"
          /\ \A u \in Tasks \ {w} : pc'[u] = pc[u]
      BY <1>1, <1>4, GoesMoves DEF IInv, Ends
    <2>2. faults' \in 0..MaxFaults /\ deaths' = deaths
      BY <1>4, LiveAssumption DEF Faults, IInv, TypeOK
    <2>3. TypeOK'
      BY <1>1, <1>4, <2>1, <2>2 DEF IInv, TypeOK, Ends, Tasks
    <2>4. Placed'
      BY <1>1, <1>4, <2>1, PlaceReleased DEF Syncing
    <2> QED
      BY <1>2, <2>3, <2>4 DEF IInv, Candled, Placed
  <1> QED
    BY <1>3, <1>4 DEF SyncEscapes

LEMMA SyncDoneStep ==
  ASSUME IInv, NEW t \in Tasks, SyncDone(t)
  PROVE  IInv'
  <1>1. /\ pc[t] = "announce" /\ runtime' = "CONNECTED" /\ runtime # "DOWN"
        /\ UNCHANGED <<closed, connected, window, batch, cursor, stored, told, submitted, faults, deaths>>
    BY DEF SyncDone, IInv, DownIsDown, memory, bounds
  <1>2. Candled'
    BY <1>1 DEF IInv, Candled, CursorCovers, BehindMarket, ToldOnce
  <1>3. CASE t = "boot"
    <2>1. /\ pc' = [u \in Tasks |-> IF u = "boot" THEN "down" ELSE "sleep"]
          /\ back' = FromBoot /\ line' = <<>>
      BY <1>3 DEF SyncDone
    <2>2. \A w \in Workers : lock # w
      BY <1>1, <1>3 DEF IInv, OneSynchronizes, Syncing
    <2>3. lock' = "free"
      BY <1>3, <2>2 DEF SyncDone, IInv, TypeOK, Tasks
    <2>4. TypeOK'
      BY <1>1, <2>1, <2>3 DEF IInv, TypeOK, Tasks, Workers, Awaits, FromBoot, RuntimeStates
    <2>5. Placed'
      BY <1>1, <2>1, <2>3 DEF Placed, OneSynchronizes, DownIsDown, Syncing, Tasks, Workers
    <2> QED
      BY <1>2, <2>4, <2>5 DEF IInv, Candled, Placed
  <1>4. CASE t # "boot"
    <2>1. t \in Workers /\ lock = t /\ lock' = "free" /\ Resumes(t) /\ pc[t] \notin Gated
      BY <1>1, <1>4 DEF SyncDone, IInv, OneSynchronizes, Syncing, Tasks, Gated
    <2>2. TypeOK'
      BY <1>1, <2>1, ResumesMoves DEF IInv, TypeOK, RuntimeStates
    <2>3. Placed'
      BY <1>1, <2>1, ResumesMoves, PlaceReleased DEF Syncing
    <2> QED
      BY <1>2, <2>2, <2>3 DEF IInv, Candled, Placed
  <1> QED
    BY <1>3, <1>4

(* --------------------------- process and market -------------------------- *)

LEMMA ProcessStep ==
  ASSUME IInv, Die \/ Restart
  PROVE  IInv'
  <1>1. CASE Die
    <2>1. 0 \in 0..MaxCandles /\ line' \in Seq(Tasks) /\ connected' \in BOOLEAN
      <3>1. line' = <<>> /\ connected' = FALSE
        BY <1>1 DEF Die
      <3>2. connected' \in BOOLEAN
        BY <3>1, Zenon
      <3>3. 0 \in 0..MaxCandles /\ line' \in Seq(Tasks)
        BY <3>1, LiveAssumption, SMT
      <3> QED
        BY <3>2, <3>3
    <2>2. /\ pc' \in [Tasks -> Awaits] /\ back' \in [Tasks -> {"call", "sleep", "initial"}]
          /\ \A w \in Workers : back'[w] # "initial"
      BY <1>1 DEF Die, Tasks, Workers, Awaits, FromBoot
    <2>3. deaths' \in 0..MaxDeaths
      BY <1>1, LiveAssumption DEF Die, IInv, TypeOK
    <2>4. TypeOK'
      BY <1>1, <2>1, <2>2, <2>3 DEF Die, IInv, TypeOK, RuntimeStates
    <2>5. Candled'
      BY <1>1, LiveAssumption DEF Die, IInv, TypeOK, Candled, CursorCovers, BehindMarket, ToldOnce, Candles
    <2>6. Placed'
      BY <1>1 DEF Die, Placed, OneSynchronizes, DownIsDown, Syncing, Tasks, Workers
    <2> QED
      BY <2>4, <2>5, <2>6 DEF IInv, Candled, Placed
  <1>2. CASE Restart
    <2>1. TypeOK'
      BY <1>2 DEF Restart, IInv, TypeOK, RuntimeStates, Awaits, Tasks, Workers, Booting, memory, bounds
    <2>2. Candled'
      BY <1>2 DEF Restart, IInv, Candled, CursorCovers, BehindMarket, ToldOnce, memory
    <2>3. Placed'
      BY <1>2 DEF Restart, IInv, Placed, OneSynchronizes, DownIsDown, Syncing, Tasks, Workers, Booting
    <2> QED
      BY <2>1, <2>2, <2>3 DEF IInv, Candled, Placed
  <1> QED
    BY <1>1, <1>2

LEMMA CandleStep ==
  ASSUME IInv, CandleCloses
  PROVE  IInv'
  <1>1. TypeOK'
    BY LiveAssumption DEF CandleCloses, IInv, TypeOK, Candles, memory, bounds
  <1>2. Candled'
    BY LiveAssumption DEF CandleCloses, IInv, TypeOK, Candled, CursorCovers, BehindMarket, ToldOnce, Candles, memory
  <1>3. Placed'
    BY DEF CandleCloses, IInv, Placed, OneSynchronizes, DownIsDown
  <1> QED
    BY <1>1, <1>2, <1>3 DEF IInv, Candled, Placed

(* ------------------------------- theorems -------------------------------- *)

LEMMA Inductive ==
  ASSUME IInv, [Next]_vars
  PROVE  IInv'
  <1>1. ASSUME NEW w \in Workers, Wake(w) \/ Calls(w) \/ Close(w) \/ Reconnect(w) \/ SyncEscapes(w)
        PROVE  IInv'
    <2>1. CASE Calls(w)
      BY <2>1, CallFails, AccountStep, CandlesReadStep, CandlesDoneStep DEF Calls
    <2> QED
      BY <1>1, <2>1, WakeStep, CloseStep, ReconnectStep, SyncEscapesStep
  <1>2. ASSUME NEW t \in Tasks, Syncs(t)
        PROVE  IInv'
    BY <1>2, RetryStep, SyncRaisesStep, SyncReadsStep, SyncDoneStep DEF Syncs
  <1>3. CASE UNCHANGED vars
    BY <1>3 DEF vars, memory, bounds, IInv, TypeOK, ToldOnce, CursorCovers, BehindMarket,
                OneSynchronizes, DownIsDown
  <1> QED
    BY <1>1, <1>2, <1>3, ProcessStep, CandleStep DEF Next

LEMMA Initial ==
  ASSUME Init
  PROVE  IInv
  <1>0. /\ 1 \in 1..MaxCandles /\ 0 \in 0..MaxCandles /\ 0 \in 0..MaxFaults /\ 0 \in 0..MaxDeaths
        /\ <<"boot">> \in Seq(Tasks)
    BY LiveAssumption DEF Tasks
  <1>1. TypeOK
    BY <1>0 DEF Init, TypeOK, Candles, Awaits, Tasks, Workers, Booting, FromBoot, RuntimeStates
  <1>2. ToldOnce /\ CursorCovers /\ BehindMarket
    BY DEF Init, ToldOnce, CursorCovers, BehindMarket, Candles
  <1>3. OneSynchronizes /\ DownIsDown
    BY DEF Init, OneSynchronizes, DownIsDown, Booting, Syncing, Tasks, Workers
  <1> QED
    BY <1>1, <1>2, <1>3 DEF IInv

(* The inductive invariant: announced candles are behind the cursor, the     *)
(* cursor behind the market, and one task synchronizes under the lock.       *)
THEOREM Invariance == Spec => []IInv
  BY Initial, Inductive, PTL DEF Spec

(* Every reachable state is well typed.                                      *)
THEOREM TypeCorrect == Spec => []TypeOK
  <1>1. IInv => TypeOK
    BY DEF IInv
  <1> QED
    BY <1>1, Invariance, PTL

(* No candle is announced twice, whatever restarts and reconnections.        *)
THEOREM CandlesAreToldOnce == Spec => []ToldOnce
  <1>1. IInv => ToldOnce
    BY DEF IInv
  <1> QED
    BY <1>1, Invariance, PTL

(* Two tasks never synchronize with MT5 at the same time.                    *)
THEOREM SynchronizationIsExclusive == Spec => []OneSynchronizes
  <1>1. IInv => OneSynchronizes
    BY DEF IInv
  <1> QED
    BY <1>1, Invariance, PTL

(* The feed announces candles once and synchronizes alone, for every bound.  *)
THEOREM FeedIsSoundAlways == Spec => []FeedIsSound
  BY TypeCorrect, CandlesAreToldOnce, SynchronizationIsExclusive, PTL DEF FeedIsSound
------------------------------------------------------------------------------
(* LiveMonitor, whose memory, program counter and published events are here  *)
(* known, at and published: what LiveEngine calls memory, pc and told is     *)
(* something else.                                                           *)
CONSTANTS Tickets, MaxEvents

VARIABLES broker, known, table, at, queue, published, old, late, worker,
          watch, scan, stale, row, events

Monitor == INSTANCE LiveMonitor WITH memory <- known, pc <- at, told <- published

InQueue(p) == \E i \in DOMAIN queue : queue[i][1] = p

(* The queue has one event of a position, and only while it is published.    *)
OneEventEach == \A i, j \in DOMAIN queue : queue[i][1] = queue[j][1] => i = j
QueueIsHeld == queue # <<>> => at["tick"] = "publish"

(* What memory has seen was opened; what it has not seen and the broker has  *)
(* not closed is neither told nor about to be.                               *)
KnownWasOpened == \A p \in Tickets : known[p] # "none" => broker[p] # "none"
UnseenIsUntold ==
  \A p \in Tickets : known[p] = "none" /\ broker[p] # "closed" => published[p] = <<>> /\ ~InQueue(p)

(* An opening waits only before anything is told; an end waits, or is told   *)
(* as the last event, only when the position is closed and forgotten.        *)
OpeningIsFirst ==
  \A i \in DOMAIN queue : queue[i][2] = "open" => published[queue[i][1]] = <<>>
EndIsClosed ==
  \A i \in DOMAIN queue :
    queue[i][2] = "gone" => broker[queue[i][1]] = "closed" /\ known[queue[i][1]] = "none"
ToldEndIsLast ==
  \A p \in Tickets : \A i \in DOMAIN published[p] :
    published[p][i] = "gone" => broker[p] = "closed" /\ known[p] = "none" /\ ~InQueue(p)

Story ==
  /\ OneEventEach /\ QueueIsHeld /\ KnownWasOpened /\ UnseenIsUntold
  /\ OpeningIsFirst /\ EndIsClosed /\ ToldEndIsLast /\ Monitor!StoriesAreSound

(* The part of the state the story is about.                                 *)
plot == <<broker, known, queue, published>>

(* A step that leaves the plot alone; the tick worker publishes or is idle.  *)
LEMMA StoryStutters ==
  ASSUME Story, UNCHANGED plot, at'["tick"] = at["tick"] \/ queue = <<>>
  PROVE  Story'
  <1>1. QueueIsHeld'
    BY DEF Story, QueueIsHeld, plot
  <1>2. (OneEventEach /\ KnownWasOpened /\ OpeningIsFirst /\ EndIsClosed)'
    BY DEF Story, OneEventEach, KnownWasOpened, OpeningIsFirst, EndIsClosed, plot
  <1>3. (UnseenIsUntold /\ ToldEndIsLast)'
    BY DEF Story, UnseenIsUntold, ToldEndIsLast, InQueue, plot
  <1>4. Monitor!StoriesAreSound'
    BY DEF Story, Monitor!StoriesAreSound, plot
  <1> QED
    BY <1>1, <1>2, <1>3, <1>4 DEF Story

(* The account worker, or a synchronization, replaces the memory silently.   *)
LEMMA StorySurvivesRefresh ==
  ASSUME Monitor!TypeOK, Story, known' = Monitor!View, UNCHANGED <<broker, queue, published>>,
         at'["tick"] = at["tick"] \/ queue = <<>>
  PROVE  Story'
  <1>1. QueueIsHeld' /\ OneEventEach' /\ OpeningIsFirst'
    BY DEF Story, QueueIsHeld, OneEventEach, OpeningIsFirst
  <1>2. \A p \in Tickets : known'[p] = IF broker[p] = "closed" THEN "none" ELSE broker[p]
    BY DEF Monitor!View
  <1>3. KnownWasOpened'
    BY <1>2 DEF KnownWasOpened
  <1>4. UnseenIsUntold'
    BY <1>2 DEF Story, UnseenIsUntold, KnownWasOpened, InQueue
  <1>5. \A i \in DOMAIN queue : queue[i][1] \in Tickets
    BY DEF Monitor!TypeOK
  <1>6. EndIsClosed' /\ ToldEndIsLast'
    BY <1>2, <1>5 DEF Story, EndIsClosed, ToldEndIsLast, InQueue
  <1>7. Monitor!StoriesAreSound'
    BY DEF Story, Monitor!StoriesAreSound
  <1> QED
    BY <1>1, <1>3, <1>4, <1>6, <1>7 DEF Story

(* The rest of the queue is lost.                                            *)
LEMMA StorySurvivesLoss ==
  ASSUME Story, queue' = <<>>, UNCHANGED <<broker, known, published>>
  PROVE  Story'
  <1>1. DOMAIN queue' = {}
    OBVIOUS
  <1>2. OneEventEach' /\ QueueIsHeld' /\ OpeningIsFirst' /\ EndIsClosed'
    BY <1>1 DEF OneEventEach, QueueIsHeld, OpeningIsFirst, EndIsClosed
  <1>3. KnownWasOpened' /\ Monitor!StoriesAreSound'
    BY DEF Story, KnownWasOpened, Monitor!StoriesAreSound
  <1>4. UnseenIsUntold' /\ ToldEndIsLast'
    BY <1>1 DEF Story, UnseenIsUntold, ToldEndIsLast, InQueue
  <1> QED
    BY <1>2, <1>3, <1>4 DEF Story

(* The broker opens, changes or closes a position.                           *)
LEMMA StorySurvivesTrade ==
  ASSUME Monitor!TypeOK, Story, NEW p \in Tickets, Monitor!Trades(p)
  PROVE  Story'
  <1>1. PICK next \in {"first", "second", "closed"} :
          /\ IF broker[p] = "none" THEN next = "first" ELSE next # broker[p] /\ broker[p] # "closed"
          /\ broker' = [broker EXCEPT ![p] = next]
    BY DEF Monitor!Trades
  <1>2. UNCHANGED <<known, queue, published, at>>
    BY DEF Monitor!Trades
  <1>3. /\ \A r \in Tickets : broker[r] # "none" => broker'[r] # "none"
        /\ \A r \in Tickets : broker[r] = "closed" => broker'[r] = "closed"
    BY <1>1 DEF Monitor!TypeOK
  <1>4. QueueIsHeld' /\ OneEventEach' /\ OpeningIsFirst' /\ Monitor!StoriesAreSound'
    BY <1>2 DEF Story, QueueIsHeld, OneEventEach, OpeningIsFirst, Monitor!StoriesAreSound
  <1>5. KnownWasOpened' /\ UnseenIsUntold'
    BY <1>2, <1>3 DEF Story, KnownWasOpened, UnseenIsUntold, InQueue
  <1>6. \A i \in DOMAIN queue : queue[i][1] \in Tickets
    BY DEF Monitor!TypeOK
  <1>7. EndIsClosed' /\ ToldEndIsLast'
    BY <1>2, <1>3, <1>6 DEF Story, EndIsClosed, ToldEndIsLast, InQueue
  <1> QED
    BY <1>4, <1>5, <1>7 DEF Story

(* The tick worker publishes the next event of its queue.                    *)
LEMMA StorySurvivesPublication ==
  ASSUME Monitor!TypeOK, Story, Monitor!TickPublishes
  PROVE  Story'
  <1>1. queue \in Seq(Tickets \X Monitor!Kinds) /\ published \in [Tickets -> Seq(Monitor!Kinds)]
    BY DEF Monitor!TypeOK
  <1>a. queue[1] \in Tickets \X Monitor!Kinds
    BY <1>1 DEF Monitor!TickPublishes
  <1>b. PICK p \in Tickets, kind \in Monitor!Kinds : p = queue[1][1] /\ kind = queue[1][2]
    BY <1>a
  <1>2. queue # <<>> /\ at["tick"] = "publish" /\ queue' = Tail(queue)
        /\ published' = [published EXCEPT ![p] = Append(@, kind)] /\ UNCHANGED <<broker, known, at>>
    BY <1>b DEF Monitor!TickPublishes
  <1>3. 1 \in DOMAIN queue
    BY <1>1, <1>2
  <1>4. \A i \in DOMAIN queue' : i + 1 \in DOMAIN queue /\ i + 1 # 1 /\ queue'[i] = queue[i + 1]
    BY <1>1, <1>2
  <1>5. published[p] \in Seq(Monitor!Kinds) /\ published'[p] = Append(published[p], kind)
        /\ \A r \in Tickets \ {p} : published'[r] = published[r]
    BY <1>1, <1>2, <1>3
  <1>6. \A i \in DOMAIN queue' : queue'[i][1] # p /\ queue'[i][1] \in Tickets
    <2> SUFFICES ASSUME NEW i \in DOMAIN queue' PROVE queue'[i][1] # p /\ queue'[i][1] \in Tickets
      OBVIOUS
    <2>1. i + 1 \in DOMAIN queue /\ i + 1 # 1 /\ queue'[i] = queue[i + 1]
      BY <1>4
    <2> QED
      BY <1>1, <1>3, <1>b, <2>1 DEF Story, OneEventEach
  <1>7. ~InQueue(p)' /\ \A r \in Tickets : InQueue(r)' => InQueue(r)
    BY <1>4, <1>6 DEF InQueue
  <1>8. OneEventEach' /\ QueueIsHeld'
    <2>1. QueueIsHeld'
      BY <1>2 DEF QueueIsHeld
    <2>2. ASSUME NEW i \in DOMAIN queue', NEW j \in DOMAIN queue', queue'[i][1] = queue'[j][1] PROVE i = j
      <3>1. i + 1 = j + 1
        BY <1>4, <2>2 DEF Story, OneEventEach
      <3>2. i \in Int /\ j \in Int
        BY <1>1, <1>2
      <3> QED
        BY <3>1, <3>2
    <2> QED
      BY <2>1, <2>2 DEF OneEventEach
  <1>9. KnownWasOpened'
    BY <1>2 DEF Story, KnownWasOpened
  <1>10. InQueue(p)
    BY <1>3, <1>b DEF InQueue
  <1>11. UnseenIsUntold'
    BY <1>2, <1>5, <1>7, <1>10 DEF Story, UnseenIsUntold
  <1>12. OpeningIsFirst'
    BY <1>4, <1>5, <1>6 DEF Story, OpeningIsFirst
  <1>13. EndIsClosed'
    BY <1>2, <1>4 DEF Story, EndIsClosed
  <1>14. \A i \in DOMAIN published[p] : published[p][i] # "gone"
    BY <1>3, <1>10 DEF Story, ToldEndIsLast
  <1>15. kind = "gone" => broker[p] = "closed" /\ known[p] = "none"
    BY <1>3, <1>b DEF Story, EndIsClosed
  <1>16. kind = "open" => published[p] = <<>>
    BY <1>3, <1>b DEF Story, OpeningIsFirst
  <1>17. ToldEndIsLast'
    <2> SUFFICES ASSUME NEW r \in Tickets, NEW i \in DOMAIN published'[r], published'[r][i] = "gone"
                 PROVE  broker'[r] = "closed" /\ known'[r] = "none" /\ ~InQueue(r)'
      BY DEF ToldEndIsLast
    <2>1. CASE r = p
      <3>1. kind = "gone"
        BY <1>5, <1>14, <2>1, SMTT(30)
      <3> QED
        BY <1>2, <1>7, <1>15, <2>1, <3>1
    <2>2. CASE r # p
      BY <1>2, <1>5, <1>7, <2>2 DEF Story, ToldEndIsLast
    <2> QED
      BY <2>1, <2>2
  <1>18. Monitor!StoriesAreSound'
    <2> SUFFICES ASSUME NEW r \in Tickets, NEW i \in DOMAIN published'[r]
                 PROVE  /\ published'[r][i] = "open" => i = 1
                        /\ published'[r][i] = "gone" => i = Len(published'[r])
      BY DEF Monitor!StoriesAreSound
    <2>1. CASE r = p
      <3>1. CASE i = Len(published[p]) + 1
        BY <1>5, <1>16, <2>1, <3>1
      <3>2. CASE i # Len(published[p]) + 1
        <4>1. i \in DOMAIN published[p] /\ published'[p][i] = published[p][i]
          BY <1>5, <2>1, <3>2
        <4> QED
          BY <1>3, <1>14, <2>1, <4>1 DEF Story, Monitor!StoriesAreSound
      <3> QED
        BY <3>1, <3>2
    <2>2. CASE r # p
      BY <1>5, <2>2 DEF Story, Monitor!StoriesAreSound
    <2> QED
      BY <2>1, <2>2
  <1> QED
    BY <1>8, <1>9, <1>11, <1>12, <1>13, <1>17, <1>18 DEF Story

(* The instance's sets are the library's.                                    *)
LEMMA SameFinite ==
  ASSUME NEW S
  PROVE  /\ Monitor!IsFiniteSet(S) <=> IsFiniteSet(S)
         /\ Monitor!Cardinality(S) = Cardinality(S)
  BY DEF Monitor!IsFiniteSet, IsFiniteSet, Monitor!Cardinality, Cardinality

(* SetToSeqs: the orders of a finite set.                                    *)
LEMMA SetToSeqsOrders ==
  ASSUME Monitor!MonitorAssumption, NEW S \in SUBSET Tickets, NEW q \in Monitor!SetToSeqs(S)
  PROVE  /\ q \in Seq(S)
         /\ \A i, j \in DOMAIN q : q[i] = q[j] => i = j
  <1>1. IsFiniteSet(S)
    BY SameFinite, FS_Subset DEF Monitor!MonitorAssumption
  <1>2. Cardinality(S) \in Nat
    BY <1>1, FS_CardinalityType
  <1>3. q \in [1..Cardinality(S) -> S] /\ \A i, j \in 1..Cardinality(S) : i # j => q[i] # q[j]
    BY SameFinite DEF Monitor!SetToSeqs
  <1> QED
    BY <1>2, <1>3

(* What the tick worker queues: one event of each position whose memory      *)
(* differs, an opening of the unseen, an end of the seen.                    *)
LEMMA ComparisonIsSound ==
  ASSUME Monitor!MonitorAssumption, NEW new, Monitor!Compares(new)
  PROVE  /\ queue' \in Seq(Tickets \X Monitor!Kinds)
         /\ OneEventEach'
         /\ \A i \in DOMAIN queue' :
              /\ known[queue'[i][1]] # new[queue'[i][1]]
              /\ queue'[i][2] = "open" => known[queue'[i][1]] = "none"
              /\ queue'[i][2] = "gone" => known[queue'[i][1]] # "none" /\ new[queue'[i][1]] = "none"
  <1> DEFINE S == {p \in Tickets : known[p] # new[p]}
  <1>1. PICK q \in Monitor!SetToSeqs(S) : queue' = [i \in DOMAIN q |-> <<q[i], Monitor!Kind(q[i], new)>>]
    BY DEF Monitor!Compares
  <1>2. q \in Seq(S) /\ \A i, j \in DOMAIN q : q[i] = q[j] => i = j
    BY SetToSeqsOrders
  <1>3. \A p \in Tickets : Monitor!Kind(p, new) \in Monitor!Kinds
    BY DEF Monitor!Kind, Monitor!Kinds
  <1>4. DOMAIN q = 1..Len(q) /\ Len(q) \in Nat /\ \A i \in DOMAIN q : q[i] \in S
    BY <1>2
  <1>5. queue' \in Seq(Tickets \X Monitor!Kinds) /\ DOMAIN queue' = DOMAIN q
    BY <1>1, <1>3, <1>4
  <1>6. \A i \in DOMAIN q : queue'[i][1] = q[i] /\ queue'[i][2] = Monitor!Kind(q[i], new)
    BY <1>1
  <1>7. OneEventEach'
    BY <1>2, <1>5, <1>6 DEF OneEventEach
  <1> QED
    BY <1>4, <1>5, <1>6, <1>7 DEF Monitor!Kind

(* The tick worker compares what it reads with the memory and queues the     *)
(* differences.                                                              *)
LEMMA StorySurvivesReading ==
  ASSUME Monitor!MonitorAssumption, Monitor!TypeOK, Story, Monitor!TickReads
  PROVE  queue' \in Seq(Tickets \X Monitor!Kinds) /\ Story'
  <1>1. /\ at["tick"] = "call" /\ Monitor!Compares(Monitor!View) /\ known' = Monitor!View
        /\ at' = [at EXCEPT !["tick"] = "publish"] /\ UNCHANGED <<broker, published>>
    BY DEF Monitor!TickReads, Monitor!Goes
  <1>2. PICK q : queue' = q
    OBVIOUS
  <1>3. /\ q \in Seq(Tickets \X Monitor!Kinds)
        /\ OneEventEach'
        /\ \A i \in DOMAIN q :
             /\ known[q[i][1]] # Monitor!View[q[i][1]]
             /\ q[i][2] = "open" => known[q[i][1]] = "none"
             /\ q[i][2] = "gone" => known[q[i][1]] # "none" /\ Monitor!View[q[i][1]] = "none"
    BY <1>1, <1>2, ComparisonIsSound
  <1>4. \A p \in Tickets : Monitor!View[p] = IF broker[p] = "closed" THEN "none" ELSE broker[p]
    BY DEF Monitor!View
  <1>5. \A i \in DOMAIN q : q[i][1] \in Tickets
    BY <1>3
  <1>6. queue = <<>>
    BY <1>1 DEF Story, QueueIsHeld
  <1>7. \A p \in Tickets : InQueue(p)' => known[p] # Monitor!View[p]
    BY <1>2, <1>3 DEF InQueue
  <1>8. OneEventEach'
    BY <1>3
  <1>9. QueueIsHeld'
    BY <1>1 DEF QueueIsHeld, Monitor!TypeOK, Monitor!Workers
  <1>10. KnownWasOpened'
    BY <1>1, <1>4 DEF KnownWasOpened
  <1>11. UnseenIsUntold'
    BY <1>1, <1>4, <1>7 DEF Story, UnseenIsUntold, KnownWasOpened
  <1>12. OpeningIsFirst'
    <2> SUFFICES ASSUME NEW i \in DOMAIN q, q[i][2] = "open" PROVE published'[q[i][1]] = <<>>
      BY <1>2 DEF OpeningIsFirst
    <2>1. known[q[i][1]] = "none" /\ broker[q[i][1]] # "closed"
      BY <1>3, <1>4, <1>5
    <2> QED
      BY <1>1, <1>5, <2>1 DEF Story, UnseenIsUntold
  <1>13. EndIsClosed'
    <2> SUFFICES ASSUME NEW i \in DOMAIN q, q[i][2] = "gone"
                 PROVE  broker'[q[i][1]] = "closed" /\ known'[q[i][1]] = "none"
      BY <1>2 DEF EndIsClosed
    <2>1. known[q[i][1]] # "none" /\ Monitor!View[q[i][1]] = "none"
      BY <1>3
    <2> QED
      BY <1>1, <1>4, <1>5, <2>1 DEF Story, KnownWasOpened
  <1>14. ToldEndIsLast'
    BY <1>1, <1>4, <1>7 DEF Story, ToldEndIsLast
  <1>15. Monitor!StoriesAreSound'
    BY <1>1 DEF Story, Monitor!StoriesAreSound
  <1> QED
    BY <1>2, <1>3, <1>8, <1>9, <1>10, <1>11, <1>12, <1>13, <1>14, <1>15 DEF Story

(* Going to another await, an exception and its handling keep the workers    *)
(* well typed.                                                               *)
LEMMA GoesIsTyped ==
  ASSUME Monitor!TypeOK, NEW w \in Monitor!Workers,
         NEW place \in Monitor!Awaits,
         Monitor!Goes(w, place)
  PROVE  /\ at' \in [Monitor!Workers -> Monitor!Awaits]
         /\ \A v \in Monitor!Workers \ {w} : at'[v] = at[v]
         /\ at'[w] = place
  BY DEF Monitor!TypeOK, Monitor!Goes

LEMMA CountIsTyped ==
  ASSUME Monitor!MonitorAssumption, Monitor!TypeOK, NEW n \in Nat, Monitor!Count(n)
  PROVE  events' \in 0 .. MaxEvents
  BY DEF Monitor!MonitorAssumption, Monitor!TypeOK, Monitor!Count

LEMMA RaisesIsTyped ==
  ASSUME Monitor!MonitorAssumption, Monitor!TypeOK, NEW w \in Monitor!Workers,
         Monitor!Raises(w) \/ (Monitor!Fails(w) /\ UNCHANGED events) \/ (Monitor!Count(1) /\ Monitor!Ends(w))
  PROVE  /\ at' \in [Monitor!Workers -> Monitor!Awaits]
         /\ \A v \in Monitor!Workers \ {w} : at'[v] = at[v]
         /\ worker' \in [Monitor!Workers -> {"none", "CONNECTED", "DEGRADED"}]
         /\ connected' \in BOOLEAN
         /\ late' \subseteq Monitor!Workers
         /\ events' \in 0 .. MaxEvents
  <1>1. events' \in 0 .. MaxEvents
    <2>1. CASE Monitor!Count(1) \/ Monitor!Count(2)
      <3>1. 1 \in Nat /\ 2 \in Nat
        OBVIOUS
      <3> QED
        BY <2>1, <3>1, CountIsTyped, Zenon
    <2>2. CASE UNCHANGED events
      BY <2>2 DEF Monitor!TypeOK
    <2> QED
      BY <2>1, <2>2 DEF Monitor!Raises
  <1>2. CASE Monitor!Fails(w)
    <2>1. /\ worker' = [worker EXCEPT ![w] = "DEGRADED"] /\ connected' = FALSE /\ late' = late \ {w}
          /\ Monitor!Goes(w, "reconnect")
      BY <1>2 DEF Monitor!Fails
    <2>2. connected' \in BOOLEAN
      BY <2>1, Zenon
    <2> QED
      BY <1>1, <2>1, <2>2, GoesIsTyped DEF Monitor!TypeOK, Monitor!Awaits
  <1>3. CASE Monitor!Ends(w)
    <2>1. /\ late' = late \ {w} /\ Monitor!Goes(w, "dead")
          /\ \/ UNCHANGED <<worker, connected>>
             \/ worker' = [worker EXCEPT ![w] = "DEGRADED"] /\ connected' \in {connected, FALSE}
      BY <1>3 DEF Monitor!Ends
    <2>2. connected' \in BOOLEAN
      BY <2>1, Zenon DEF Monitor!TypeOK
    <2>3. worker' \in [Monitor!Workers -> {"none", "CONNECTED", "DEGRADED"}]
      BY <2>1 DEF Monitor!TypeOK
    <2> QED
      BY <1>1, <2>1, <2>2, <2>3, GoesIsTyped DEF Monitor!TypeOK, Monitor!Awaits
  <1> QED
    BY <1>2, <1>3 DEF Monitor!Raises

(* What is read of the broker is typed.                                      *)
LEMMA ViewIsTyped ==
  ASSUME Monitor!TypeOK PROVE Monitor!View \in [Tickets -> Monitor!Seen]
  BY DEF Monitor!TypeOK, Monitor!View, Monitor!Seen

(* The invariant of LiveMonitor, and what every action has to show.          *)
MonitorInv == Monitor!TypeOK /\ Story

(* A worker's step: the tick worker is the only one that leaves "publish".   *)
LEMMA WakingKeeps ==
  ASSUME MonitorInv, NEW w \in Monitor!Workers, Monitor!Wake(w) PROVE MonitorInv'
  <1>1. /\ at[w] = "sleep" /\ late' = late \ {w} /\ Monitor!Goes(w, IF connected THEN "call" ELSE "rejoin")
        /\ UNCHANGED <<Monitor!positions, connected, old, worker, Monitor!watchdog, events>>
    BY DEF Monitor!Wake
  <1>2. at' \in [Monitor!Workers -> Monitor!Awaits]
        /\ \A v \in Monitor!Workers \ {w} : at'[v] = at[v]
    BY <1>1, GoesIsTyped DEF MonitorInv, Monitor!Awaits
  <1>3. at'["tick"] = at["tick"] \/ queue = <<>>
    BY <1>1, <1>2 DEF MonitorInv, Story, QueueIsHeld, Monitor!Workers
  <1>4. UNCHANGED plot
    BY <1>1 DEF Monitor!positions, plot
  <1>5. Monitor!TypeOK'
    BY <1>1, <1>2 DEF MonitorInv, Monitor!TypeOK, Monitor!positions, Monitor!watchdog
  <1> QED
    BY <1>3, <1>4, <1>5, StoryStutters DEF MonitorInv

LEMMA RaisingKeeps ==
  ASSUME Monitor!MonitorAssumption, MonitorInv, NEW w \in Monitor!Workers,
         Monitor!CallRaises(w) \/ Monitor!CallDisconnected(w)
  PROVE  MonitorInv'
  <1>1. /\ at[w] \in {"call", "rejoin"}
        /\ Monitor!Raises(w) \/ (Monitor!Fails(w) /\ UNCHANGED events) \/ (Monitor!Count(1) /\ Monitor!Ends(w))
        /\ UNCHANGED <<Monitor!positions, old, Monitor!watchdog>>
    BY DEF Monitor!CallRaises, Monitor!CallDisconnected
  <1>2. /\ at' \in [Monitor!Workers -> Monitor!Awaits]
        /\ \A v \in Monitor!Workers \ {w} : at'[v] = at[v]
        /\ worker' \in [Monitor!Workers -> {"none", "CONNECTED", "DEGRADED"}]
        /\ connected' \in BOOLEAN /\ late' \subseteq Monitor!Workers /\ events' \in 0 .. MaxEvents
    <2>1. Monitor!TypeOK
      BY DEF MonitorInv
    <2> QED
      BY <1>1, <2>1, RaisesIsTyped, Zenon
  <1>3. at'["tick"] = at["tick"] \/ queue = <<>>
    BY <1>1, <1>2 DEF MonitorInv, Story, QueueIsHeld, Monitor!Workers
  <1>4. UNCHANGED plot
    BY <1>1 DEF Monitor!positions, plot
  <1>5. Monitor!TypeOK'
    BY <1>1, <1>2 DEF MonitorInv, Monitor!TypeOK, Monitor!positions, Monitor!watchdog
  <1> QED
    BY <1>3, <1>4, <1>5, StoryStutters DEF MonitorInv

LEMMA ReadingKeeps ==
  ASSUME Monitor!MonitorAssumption, MonitorInv, Monitor!TickReads PROVE MonitorInv'
  <1>1. queue' \in Seq(Tickets \X Monitor!Kinds) /\ Story'
    BY StorySurvivesReading DEF MonitorInv
  <1>2. /\ known' = Monitor!View /\ old' = old \ {"tick", "positions"} /\ Monitor!Goes("tick", "publish")
        /\ UNCHANGED <<broker, table, published, connected, late, worker, Monitor!watchdog, events>>
    BY DEF Monitor!TickReads, Monitor!Observed
  <1>3. at' \in [Monitor!Workers -> Monitor!Awaits]
    BY <1>2, GoesIsTyped DEF MonitorInv, Monitor!Workers, Monitor!Awaits
  <1>4. known' \in [Tickets -> Monitor!Seen]
    BY <1>2, ViewIsTyped DEF MonitorInv
  <1>5. old' \subseteq Monitor!Components
    BY <1>2 DEF MonitorInv, Monitor!TypeOK
  <1> QED
    BY <1>1, <1>2, <1>3, <1>4, <1>5 DEF MonitorInv, Monitor!TypeOK, Monitor!watchdog

LEMMA PublicationKeeps ==
  ASSUME MonitorInv, Monitor!TickPublishes PROVE MonitorInv'
  <1>1. Story'
    BY StorySurvivesPublication DEF MonitorInv
  <1>2. queue \in Seq(Tickets \X Monitor!Kinds) /\ published \in [Tickets -> Seq(Monitor!Kinds)]
    BY DEF MonitorInv, Monitor!TypeOK
  <1>3. /\ queue # <<>> /\ queue' = Tail(queue)
        /\ published' = [published EXCEPT ![queue[1][1]] = Append(@, queue[1][2])]
        /\ UNCHANGED <<broker, known, table, connected, at, old, late, worker, Monitor!watchdog, events>>
    BY DEF Monitor!TickPublishes
  <1>4. queue[1][1] \in Tickets /\ queue[1][2] \in Monitor!Kinds
    BY <1>2, <1>3
  <1>5. queue' \in Seq(Tickets \X Monitor!Kinds)
    BY <1>2, <1>3
  <1>6. published' \in [Tickets -> Seq(Monitor!Kinds)]
    BY <1>2, <1>3, <1>4
  <1> QED
    BY <1>1, <1>3, <1>5, <1>6 DEF MonitorInv, Monitor!TypeOK, Monitor!watchdog

LEMMA SucceedingKeeps ==
  ASSUME MonitorInv, Monitor!TickSucceeds PROVE MonitorInv'
  <1>1. /\ queue = <<>> /\ worker' = [worker EXCEPT !["tick"] = "CONNECTED"] /\ Monitor!Goes("tick", "sleep")
        /\ UNCHANGED <<Monitor!positions, connected, old, late, Monitor!watchdog, events>>
    BY DEF Monitor!TickSucceeds, Monitor!Succeeds
  <1>2. at' \in [Monitor!Workers -> Monitor!Awaits]
    BY <1>1, GoesIsTyped DEF MonitorInv, Monitor!Workers, Monitor!Awaits
  <1>3. UNCHANGED plot
    BY <1>1 DEF Monitor!positions, plot
  <1>4. Monitor!TypeOK'
    BY <1>1, <1>2 DEF MonitorInv, Monitor!TypeOK, Monitor!positions, Monitor!watchdog
  <1> QED
    BY <1>1, <1>3, <1>4, StoryStutters DEF MonitorInv

LEMMA LosingKeeps ==
  ASSUME Monitor!MonitorAssumption, MonitorInv, Monitor!TickRaises PROVE MonitorInv'
  <1>1. /\ queue' = <<>> /\ Monitor!Raises("tick")
        /\ UNCHANGED <<broker, known, table, published, old, Monitor!watchdog>>
    BY DEF Monitor!TickRaises
  <1>2. /\ at' \in [Monitor!Workers -> Monitor!Awaits]
        /\ worker' \in [Monitor!Workers -> {"none", "CONNECTED", "DEGRADED"}]
        /\ connected' \in BOOLEAN /\ late' \subseteq Monitor!Workers /\ events' \in 0 .. MaxEvents
    <2>1. Monitor!TypeOK /\ "tick" \in Monitor!Workers
      BY DEF MonitorInv, Monitor!Workers
    <2> QED
      BY <1>1, <2>1, RaisesIsTyped, Zenon
  <1>3. Story'
    BY <1>1, StorySurvivesLoss DEF MonitorInv
  <1>4. queue' \in Seq(Tickets \X Monitor!Kinds)
    BY <1>1
  <1> QED
    BY <1>1, <1>2, <1>3, <1>4 DEF MonitorInv, Monitor!TypeOK, Monitor!watchdog

LEMMA AccountKeeps ==
  ASSUME Monitor!MonitorAssumption, MonitorInv, Monitor!AccountReads PROVE MonitorInv'
  <1>1. Monitor!TypeOK /\ "account" \in Monitor!Workers /\ "account" # "tick"
    BY DEF MonitorInv, Monitor!Workers
  <1>2. /\ at["account"] = "call" /\ table' = Monitor!View
        /\ UNCHANGED <<broker, queue, published, Monitor!watchdog>>
    BY DEF Monitor!AccountReads
  <1>3. (known' = Monitor!View /\ old' = old \ {"account", "positions"}) \/ UNCHANGED <<known, old>>
    BY DEF Monitor!AccountReads, Monitor!Observed
  <1>4. /\ at' \in [Monitor!Workers -> Monitor!Awaits] /\ at'["tick"] = at["tick"]
        /\ worker' \in [Monitor!Workers -> {"none", "CONNECTED", "DEGRADED"}]
        /\ connected' \in BOOLEAN /\ late' \subseteq Monitor!Workers /\ events' \in 0 .. MaxEvents
    <2>1. CASE Monitor!Raises("account")
      <3>1. /\ at' \in [Monitor!Workers -> Monitor!Awaits]
            /\ \A v \in Monitor!Workers \ {"account"} : at'[v] = at[v]
            /\ worker' \in [Monitor!Workers -> {"none", "CONNECTED", "DEGRADED"}]
            /\ connected' \in BOOLEAN /\ late' \subseteq Monitor!Workers /\ events' \in 0 .. MaxEvents
        BY <1>1, <2>1, RaisesIsTyped, Zenon
      <3>2. at'["tick"] = at["tick"]
        BY <3>1 DEF Monitor!Workers
      <3> QED
        BY <3>1, <3>2, Zenon
    <2>2. CASE Monitor!Succeeds("account") /\ UNCHANGED <<connected, late, events>>
      <3>1. worker' = [worker EXCEPT !["account"] = "CONNECTED"] /\ Monitor!Goes("account", "sleep")
        BY <2>2 DEF Monitor!Succeeds
      <3>2. at' \in [Monitor!Workers -> Monitor!Awaits] /\ at'["tick"] = at["tick"]
        BY <1>1, <3>1, GoesIsTyped DEF Monitor!Awaits, Monitor!Workers
      <3>3. connected' \in BOOLEAN
        BY <1>1, <2>2, Zenon DEF Monitor!TypeOK
      <3> QED
        BY <1>1, <2>2, <3>1, <3>2, <3>3 DEF Monitor!TypeOK
    <2> QED
      BY <2>1, <2>2 DEF Monitor!AccountReads
  <1>5. Story'
    <2>1. CASE known' = Monitor!View
      BY <1>1, <1>2, <1>4, <2>1, StorySurvivesRefresh DEF MonitorInv
    <2>2. CASE UNCHANGED known
      BY <1>2, <1>4, <2>2, StoryStutters DEF MonitorInv, plot
    <2> QED
      BY <1>3, <2>1, <2>2
  <1>6. table' \in [Tickets -> Monitor!Seen] /\ known' \in [Tickets -> Monitor!Seen]
    BY <1>1, <1>2, <1>3, ViewIsTyped DEF Monitor!TypeOK
  <1>7. old' \subseteq Monitor!Components
    BY <1>1, <1>3 DEF Monitor!TypeOK
  <1> QED
    BY <1>1, <1>2, <1>4, <1>5, <1>6, <1>7 DEF MonitorInv, Monitor!TypeOK, Monitor!watchdog

LEMMA ReconnectionKeeps ==
  ASSUME MonitorInv, NEW w \in Monitor!Workers,
         Monitor!Finds(w) \/ Monitor!Connects(w) \/ Monitor!Synchronizes(w)
  PROVE  MonitorInv'
  <1>1. Monitor!TypeOK
    BY DEF MonitorInv
  <1>2. /\ UNCHANGED <<broker, queue, published, late, worker, Monitor!watchdog, events>>
        /\ at[w] \in {"rejoin", "reconnect", "join", "resume"}
        /\ \E place \in Monitor!Awaits : Monitor!Goes(w, place) \/ UNCHANGED at
    BY DEF Monitor!Finds, Monitor!Connects, Monitor!Synchronizes, Monitor!positions, Monitor!Awaits
  <1>3. at' \in [Monitor!Workers -> Monitor!Awaits] /\ (at'["tick"] = at["tick"] \/ queue = <<>>)
    <2>1. CASE UNCHANGED at
      BY <1>1, <2>1 DEF Monitor!TypeOK
    <2>2. ASSUME NEW place \in Monitor!Awaits, Monitor!Goes(w, place)
          PROVE  at' \in [Monitor!Workers -> Monitor!Awaits] /\ (at'["tick"] = at["tick"] \/ queue = <<>>)
      <3>1. /\ at' \in [Monitor!Workers -> Monitor!Awaits]
            /\ \A v \in Monitor!Workers \ {w} : at'[v] = at[v]
        BY <1>1, <2>2, GoesIsTyped
      <3> QED
        BY <1>2, <3>1 DEF MonitorInv, Story, QueueIsHeld, Monitor!Workers
    <2> QED
      BY <1>2, <2>1, <2>2
  <1>4. connected' \in BOOLEAN
    <2>1. connected' = TRUE \/ connected' = connected
      BY DEF Monitor!Finds, Monitor!Connects, Monitor!Synchronizes
    <2> QED
      BY <1>1, <2>1, Zenon DEF Monitor!TypeOK
  <1>5. \/ known' = Monitor!View /\ table' = Monitor!View /\ old' = old \ Monitor!Components
        \/ UNCHANGED <<known, table, old>>
    BY DEF Monitor!Finds, Monitor!Connects, Monitor!Synchronizes, Monitor!positions, Monitor!Observed
  <1>6. Story'
    <2>1. CASE known' = Monitor!View
      BY <1>1, <1>2, <1>3, <2>1, StorySurvivesRefresh DEF MonitorInv
    <2>2. CASE UNCHANGED known
      BY <1>2, <1>3, <2>2, StoryStutters DEF MonitorInv, plot
    <2> QED
      BY <1>5, <2>1, <2>2
  <1>7. known' \in [Tickets -> Monitor!Seen] /\ table' \in [Tickets -> Monitor!Seen]
        /\ old' \subseteq Monitor!Components
    BY <1>1, <1>5, ViewIsTyped DEF Monitor!TypeOK
  <1> QED
    BY <1>1, <1>2, <1>3, <1>4, <1>6, <1>7 DEF MonitorInv, Monitor!TypeOK, Monitor!watchdog

(* The watchdog, and time, do not touch the positions.                       *)
LEMMA WatchingKeeps ==
  ASSUME Monitor!MonitorAssumption, MonitorInv,
         Monitor!Round \/ Monitor!Tell \/ Monitor!WatchdogEnds
  PROVE  MonitorInv'
  <1>1. Monitor!TypeOK
    BY DEF MonitorInv
  <1>2. UNCHANGED <<Monitor!positions, connected, at, old, late>>
    BY DEF Monitor!Round, Monitor!Tell, Monitor!WatchdogEnds
  <1>3. worker' \in [Monitor!Workers -> {"none", "CONNECTED", "DEGRADED"}]
    BY <1>1 DEF Monitor!Round, Monitor!Tell, Monitor!WatchdogEnds, Monitor!Reported, Monitor!TypeOK
  <1>4. watch' \in {"sleep", "tell", "dead"} /\ scan' \subseteq DOMAIN Monitor!Data
    BY <1>1 DEF Monitor!Round, Monitor!Tell, Monitor!WatchdogEnds, Monitor!TypeOK
  <1>5. stale' \subseteq Monitor!Components
    <2>1. CASE Monitor!Tell
      <3>1. PICK i \in scan : stale' = stale \cup {Monitor!Data[i]}
        BY <2>1 DEF Monitor!Tell
      <3>2. Monitor!Data[i] \in Monitor!Components
        BY <1>1, <3>1 DEF Monitor!TypeOK, Monitor!Components
      <3> QED
        BY <1>1, <3>1, <3>2 DEF Monitor!TypeOK
    <2> QED
      BY <1>1, <2>1 DEF Monitor!Round, Monitor!WatchdogEnds, Monitor!TypeOK
  <1>6. row' \in {"none", "STALE", "CONNECTED"}
    BY <1>1 DEF Monitor!Round, Monitor!Tell, Monitor!WatchdogEnds, Monitor!Recovers, Monitor!TypeOK
  <1>7. events' \in 0 .. MaxEvents
    BY <1>1, CountIsTyped DEF Monitor!Round, Monitor!Tell, Monitor!WatchdogEnds, Monitor!TypeOK
  <1>8. Story'
    BY <1>2, StoryStutters DEF MonitorInv, Monitor!positions, plot
  <1>9. Monitor!TypeOK'
    BY <1>1, <1>2, <1>3, <1>4, <1>5, <1>6, <1>7 DEF Monitor!TypeOK, Monitor!positions
  <1> QED
    BY <1>8, <1>9 DEF MonitorInv

LEMMA TimeKeeps ==
  ASSUME Monitor!MonitorAssumption, MonitorInv,
         (\E w \in Monitor!Workers : Monitor!Slow(w)) \/ (\E d \in Monitor!Components : Monitor!Ages(d))
  PROVE  MonitorInv'
  <1>1. Monitor!TypeOK
    BY DEF MonitorInv
  <1>2. UNCHANGED <<Monitor!positions, connected, at, worker, Monitor!watchdog>>
    BY DEF Monitor!Slow, Monitor!Ages
  <1>3. late' \subseteq Monitor!Workers /\ old' \subseteq Monitor!Components
    BY <1>1 DEF Monitor!Slow, Monitor!Ages, Monitor!TypeOK
  <1>4. events' \in 0 .. MaxEvents
    <2>1. Monitor!Count(1) \/ UNCHANGED events
      BY DEF Monitor!Slow, Monitor!Ages
    <2> QED
      BY <1>1, <2>1, CountIsTyped DEF Monitor!TypeOK
  <1>5. Story'
    BY <1>2, StoryStutters DEF MonitorInv, Monitor!positions, plot
  <1>6. Monitor!TypeOK'
    BY <1>1, <1>2, <1>3, <1>4 DEF Monitor!TypeOK, Monitor!positions, Monitor!watchdog
  <1> QED
    BY <1>5, <1>6 DEF MonitorInv

LEMMA TradingKeeps ==
  ASSUME Monitor!MonitorAssumption, MonitorInv, NEW p \in Tickets, Monitor!Trades(p) PROVE MonitorInv'
  <1>1. Monitor!TypeOK
    BY DEF MonitorInv
  <1>2. /\ Monitor!Count(1)
        /\ UNCHANGED <<known, table, queue, published, connected, at, old, late, worker, Monitor!watchdog>>
    BY DEF Monitor!Trades
  <1>3. broker' \in [Tickets -> Monitor!Seen \cup {"closed"}]
    BY <1>1 DEF Monitor!Trades, Monitor!TypeOK, Monitor!Seen
  <1>4. events' \in 0 .. MaxEvents
    BY <1>1, <1>2, CountIsTyped
  <1>5. Story'
    BY StorySurvivesTrade DEF MonitorInv
  <1>6. Monitor!TypeOK'
    BY <1>1, <1>2, <1>3, <1>4 DEF Monitor!TypeOK, Monitor!watchdog
  <1> QED
    BY <1>5, <1>6 DEF MonitorInv

LEMMA MonitorInitial == ASSUME Monitor!MonitorAssumption, Monitor!Init PROVE MonitorInv
  <1>1. /\ broker \in [Tickets -> {"none", "first"}] /\ known = Monitor!View /\ table = Monitor!View
        /\ connected = TRUE /\ at = [w \in Monitor!Workers |-> "sleep"]
        /\ queue = <<>> /\ published = [p \in Tickets |-> <<>>]
        /\ old = {} /\ late = {} /\ worker = [w \in Monitor!Workers |-> "none"]
        /\ watch = "sleep" /\ scan = {} /\ stale = {} /\ row = "none" /\ events = 0
    BY DEF Monitor!Init
  <1>2. \A p \in Tickets : Monitor!View[p] = broker[p]
    BY <1>1 DEF Monitor!View
  <1>3. Monitor!TypeOK
    <2>1. connected \in BOOLEAN
      BY <1>1, Zenon
    <2>2. Monitor!View \in [Tickets -> Monitor!Seen]
      BY <1>1 DEF Monitor!View, Monitor!Seen
    <2> QED
      BY <1>1, <2>1, <2>2 DEF Monitor!TypeOK, Monitor!Seen, Monitor!Awaits, Monitor!MonitorAssumption
  <1>4. \A p \in Tickets : published[p] = <<>> /\ ~InQueue(p) /\ DOMAIN published[p] = {}
    BY <1>1 DEF InQueue
  <1>5. OneEventEach /\ QueueIsHeld /\ OpeningIsFirst /\ EndIsClosed
    BY <1>1 DEF OneEventEach, QueueIsHeld, OpeningIsFirst, EndIsClosed
  <1>6. KnownWasOpened /\ UnseenIsUntold /\ ToldEndIsLast /\ Monitor!StoriesAreSound
    BY <1>1, <1>2, <1>4 DEF KnownWasOpened, UnseenIsUntold, ToldEndIsLast, Monitor!StoriesAreSound
  <1> QED
    BY <1>3, <1>5, <1>6 DEF MonitorInv, Story

LEMMA MonitorInductive ==
  ASSUME Monitor!MonitorAssumption, MonitorInv, [Monitor!Next]_(Monitor!vars) PROVE MonitorInv'
  <1>1. CASE UNCHANGED Monitor!vars
    <2>1. UNCHANGED <<broker, known, table, queue, published, connected, at, old, late, worker,
                      watch, scan, stale, row, events>>
      BY <1>1 DEF Monitor!vars, Monitor!positions, Monitor!watchdog
    <2>2. Story'
      BY <2>1, StoryStutters DEF MonitorInv, plot
    <2>3. Monitor!TypeOK'
      BY <2>1 DEF MonitorInv, Monitor!TypeOK
    <2> QED
      BY <2>2, <2>3 DEF MonitorInv
  <1>2. ASSUME NEW w \in Monitor!Workers, Monitor!WorkerSteps(w) PROVE MonitorInv'
    BY <1>2, WakingKeeps, ReconnectionKeeps, RaisingKeeps, ReadingKeeps, PublicationKeeps,
       SucceedingKeeps, AccountKeeps DEF Monitor!WorkerSteps
  <1>3. ASSUME NEW w \in Monitor!Workers, Monitor!CallRaises(w) \/ Monitor!Slow(w) PROVE MonitorInv'
    BY <1>3, RaisingKeeps, TimeKeeps
  <1> QED
    BY <1>1, <1>2, <1>3, LosingKeeps, WatchingKeeps, TimeKeeps, TradingKeeps
    DEF Monitor!Next, Monitor!WatchdogSteps

(* The inductive invariant of LiveMonitor: what is queued and told of a      *)
(* position agrees with what memory knows and with what the broker did.      *)
THEOREM MonitorInvariance ==
  ASSUME Monitor!MonitorAssumption PROVE Monitor!Spec => []MonitorInv
  <1>1. Monitor!Init => MonitorInv
    BY MonitorInitial
  <1>2. MonitorInv /\ [Monitor!Next]_(Monitor!vars) => MonitorInv'
    BY MonitorInductive
  <1> QED
    BY <1>1, <1>2, PTL DEF Monitor!Spec

(* The published events of every position open it once and first, end it     *)
(* once and last, and tell no position gone that the broker has, for any     *)
(* number of positions and any order of reads, failures and reconnections.   *)
THEOREM StoriesStayTrue ==
  ASSUME Monitor!MonitorAssumption PROVE Monitor!Spec => []Monitor!StoriesAreTrue
  <1>1. ASSUME Story PROVE Monitor!GoneIsClosed
    BY <1>1 DEF Story, ToldEndIsLast, Monitor!GoneIsClosed
  <1>2. MonitorInv => Monitor!StoriesAreTrue
    BY <1>1 DEF MonitorInv, Story, Monitor!StoriesAreTrue
  <1> QED
    BY <1>2, MonitorInvariance, PTL

------------------------------------------------------------------------------
(* Gateway, for any set of worker tasks.  Its Workers are here Callers, and  *)
(* pc, lock and connected are where, holder and open.                        *)
CONSTANTS Callers, Diagnostic, Engine, NoTask

VARIABLES where, method, holder, ahead, thread, open, session, stopping

Mt5 == INSTANCE Gateway WITH Workers <- Callers, pc <- where, lock <- holder, connected <- open

(* Waking the first waiter changes the place of waiters only, and wakes only *)
(* one nobody is ahead of.                                                   *)
LEMMA WokenPlaces ==
  ASSUME NEW places \in [Mt5!Tasks -> Mt5!Places], NEW before
  PROVE  /\ Mt5!Woken(places, before) \in [Mt5!Tasks -> Mt5!Places]
         /\ \A t \in Mt5!Tasks :
              \/ Mt5!Woken(places, before)[t] = places[t]
              \/ places[t] = "waiting" /\ Mt5!Woken(places, before)[t] = "woken" /\ before[t] = {}
         /\ \A t \in Mt5!Tasks :
              places[t] = "waiting" /\ before[t] = {} => Mt5!Woken(places, before)[t] = "woken"
  BY DEF Mt5!Woken, Mt5!Places

LEMMA AheadType ==
  ASSUME Mt5!TypeOK, NEW t \in Mt5!Tasks
  PROVE  /\ Mt5!Without(t) \in [Mt5!Tasks -> SUBSET Mt5!Tasks]
         /\ \A u \in Mt5!Tasks : Mt5!Without(t)[u] = ahead[u] \ {t}
  BY DEF Mt5!TypeOK, Mt5!Without

LEMMA LeftPlace ==
  ASSUME NEW t \in Mt5!Tasks
  PROVE  /\ Mt5!Left(t) \in {"idle", "gone"} /\ Mt5!Left(t) \in Mt5!Places
         /\ t # Engine => Mt5!Left(t) = "idle"
  BY DEF Mt5!Left, Mt5!Places

(* ------------------------------- one step -------------------------------- *)

(* A task enters a method.                                                   *)
LEMMA EnterStep ==
  ASSUME Mt5!GatewayAssumption, Mt5!IInv, NEW t \in Mt5!Tasks, NEW m \in Mt5!Methods,
         Mt5!Enter(t, m), t = Engine => stopping
  PROVE  Mt5!IInv'
  <1> USE DEF Mt5!GatewayAssumption
  <1>1. /\ where[t] = "idle" /\ thread[t] = "none" /\ holder # t
        /\ where \in [Mt5!Tasks -> Mt5!Places] /\ thread \in [Mt5!Tasks -> Mt5!Jobs]
    BY DEF Mt5!IInv, Mt5!TypeOK, Mt5!LockIsHeld, Mt5!JobsAreOwned, Mt5!Enter
  <1>2. /\ method' = [method EXCEPT ![t] = m] /\ method' \in [Mt5!Tasks -> Mt5!Methods]
        /\ open' = open /\ session' = session /\ stopping' = stopping
    BY DEF Mt5!IInv, Mt5!TypeOK, Mt5!Enter
  <1>3. Mt5!Waiting \subseteq Mt5!Tasks
    BY DEF Mt5!Waiting
  <1>4. CASE ~Mt5!Free
    <2>1. /\ ahead' = [ahead EXCEPT ![t] = Mt5!Waiting]
          /\ where' = [where EXCEPT ![t] = "waiting"]
          /\ holder' = holder /\ thread' = thread
      BY <1>4 DEF Mt5!Enter, Mt5!Acquire
    <2>2. Mt5!TypeOK'
      BY <1>1, <1>2, <1>3, <2>1 DEF Mt5!IInv, Mt5!TypeOK, Mt5!Places
    <2>3. Mt5!LockIsHeld' /\ Mt5!JobsAreOwned' /\ Mt5!NobodyIsGone'
      BY <1>1, <1>2, <2>1 DEF Mt5!IInv, Mt5!TypeOK, Mt5!LockIsHeld, Mt5!JobsAreOwned,
         Mt5!NobodyIsGone
    <2>4. Mt5!WokenIsFirst'
      BY <1>1, <2>1 DEF Mt5!IInv, Mt5!TypeOK, Mt5!WokenIsFirst
    <2>5. Mt5!WaitersAreOrdered'
      BY <1>1, <2>1 DEF Mt5!IInv, Mt5!TypeOK, Mt5!WaitersAreOrdered, Mt5!Waiting
    <2>6. Mt5!HolderIsRight' /\ Mt5!FlagFollowsSession'
      BY <1>1, <1>2, <2>1 DEF Mt5!IInv, Mt5!TypeOK, Mt5!HolderIsRight, Mt5!FlagFollowsSession
    <2> QED
      BY <2>2, <2>3, <2>4, <2>5, <2>6 DEF Mt5!IInv
  <1>5. CASE Mt5!Free /\ Mt5!Submits(m)
    <2>1. /\ holder' = t /\ ahead' = ahead
          /\ thread' = [thread EXCEPT ![t] = "queued"]
          /\ where' = [where EXCEPT ![t] = "running"]
      BY <1>5 DEF Mt5!Enter, Mt5!Acquire
    <2>2. Mt5!TypeOK'
      BY <1>1, <1>2, <2>1 DEF Mt5!IInv, Mt5!TypeOK, Mt5!Places, Mt5!Jobs
    <2>3. holder = NoTask /\ \A u \in Mt5!Tasks : where[u] \notin {"running", "waiting", "woken"}
      BY <1>5 DEF Mt5!IInv, Mt5!LockIsHeld, Mt5!Free, Mt5!Waiting
    <2>4. Mt5!LockIsHeld' /\ Mt5!JobsAreOwned' /\ Mt5!NobodyIsGone'
      BY <1>1, <1>2, <2>1, <2>3 DEF Mt5!IInv, Mt5!TypeOK, Mt5!LockIsHeld, Mt5!JobsAreOwned,
         Mt5!NobodyIsGone
    <2>5. Mt5!WokenIsFirst' /\ Mt5!WaitersAreOrdered'
      BY <1>1, <2>1, <2>3 DEF Mt5!WokenIsFirst, Mt5!WaitersAreOrdered, Mt5!Waiting
    <2>6. Mt5!HolderIsRight'
      BY <1>1, <1>2, <1>5, <2>1, <2>3 DEF Mt5!IInv, Mt5!TypeOK, Mt5!HolderIsRight, Mt5!Submits,
         Mt5!Methods
    <2>7. Mt5!FlagFollowsSession'
      BY <1>1, <1>2, <2>1, <2>3 DEF Mt5!IInv, Mt5!TypeOK, Mt5!FlagFollowsSession
    <2> QED
      BY <2>2, <2>4, <2>5, <2>6, <2>7 DEF Mt5!IInv
  <1>6. CASE Mt5!Free /\ ~Mt5!Submits(m)
    <2>1. /\ where' = [where EXCEPT ![t] = Mt5!Left(t)]
          /\ holder' = holder /\ ahead' = ahead /\ thread' = thread
      BY <1>6 DEF Mt5!Enter, Mt5!Acquire
    <2>2. Mt5!TypeOK'
      BY <1>1, <1>2, <2>1, LeftPlace DEF Mt5!IInv, Mt5!TypeOK
    <2>3. Mt5!LockIsHeld' /\ Mt5!JobsAreOwned' /\ Mt5!NobodyIsGone'
      BY <1>1, <1>2, <2>1, LeftPlace DEF Mt5!IInv, Mt5!TypeOK, Mt5!LockIsHeld, Mt5!JobsAreOwned,
         Mt5!NobodyIsGone
    <2>4. Mt5!WokenIsFirst' /\ Mt5!WaitersAreOrdered'
      BY <1>1, <2>1, LeftPlace DEF Mt5!IInv, Mt5!TypeOK, Mt5!WokenIsFirst, Mt5!WaitersAreOrdered,
         Mt5!Waiting
    <2>5. Mt5!HolderIsRight' /\ Mt5!FlagFollowsSession'
      BY <1>1, <1>2, <2>1, LeftPlace DEF Mt5!IInv, Mt5!TypeOK, Mt5!HolderIsRight,
         Mt5!FlagFollowsSession
    <2> QED
      BY <2>2, <2>3, <2>4, <2>5 DEF Mt5!IInv
  <1> QED
    BY <1>4, <1>5, <1>6

(* While a waiter is woken, or when the lock was just released, nobody runs, *)
(* and waking the first of the remaining waiters keeps it the only one.      *)
LEMMA ReleaseKeepsOrder ==
  ASSUME Mt5!GatewayAssumption, Mt5!IInv, NEW t \in Mt5!Tasks,
         NEW p \in Mt5!Places \ {"waiting", "woken", "running"},
         where[t] \in {"woken", "running"},
         holder' = NoTask,
         ahead' \in [Mt5!Tasks -> SUBSET Mt5!Tasks],
         \A u \in Mt5!Tasks : ahead'[u] = ahead[u] \ {t} \/ (ahead'[u] = ahead[u] /\ where[t] = "running"),
         where' = Mt5!Woken([where EXCEPT ![t] = p], ahead')
  PROVE  /\ where' \in [Mt5!Tasks -> Mt5!Places]
         /\ Mt5!LockIsHeld' /\ Mt5!WokenIsFirst' /\ Mt5!WaitersAreOrdered'
         /\ where'[t] = p
         /\ \A u \in Mt5!Tasks \ {t} :
              where'[u] = where[u] \/ (where[u] = "waiting" /\ where'[u] = "woken")
  <1> USE DEF Mt5!GatewayAssumption
  <1> DEFINE places == [where EXCEPT ![t] = p]
  <1>1. where \in [Mt5!Tasks -> Mt5!Places] /\ places \in [Mt5!Tasks -> Mt5!Places]
        /\ places[t] = p /\ \A u \in Mt5!Tasks \ {t} : places[u] = where[u]
    BY DEF Mt5!IInv, Mt5!TypeOK
  <1>2. /\ where' \in [Mt5!Tasks -> Mt5!Places]
        /\ \A u \in Mt5!Tasks : \/ where'[u] = places[u]
                                \/ places[u] = "waiting" /\ where'[u] = "woken" /\ ahead'[u] = {}
    <2> HIDE DEF places
    <2>1. where' = Mt5!Woken(places, ahead')
      BY DEF places
    <2>2. Mt5!Woken(places, ahead') \in [Mt5!Tasks -> Mt5!Places]
      BY <1>1, WokenPlaces
    <2>3. \A u \in Mt5!Tasks :
             \/ Mt5!Woken(places, ahead')[u] = places[u]
             \/ places[u] = "waiting" /\ Mt5!Woken(places, ahead')[u] = "woken" /\ ahead'[u] = {}
      BY <1>1, WokenPlaces
    <2> QED
      BY <2>1, <2>2, <2>3
  <1>3. where'[t] = p
    BY <1>1, <1>2
  <1>4. \A u \in Mt5!Tasks \ {t} :
          where'[u] = where[u] \/ (where[u] = "waiting" /\ where'[u] = "woken" /\ ahead'[u] = {})
    BY <1>1, <1>2
  <1>5. \A u \in Mt5!Tasks \ {t} : where[u] # "running"
    BY DEF Mt5!IInv, Mt5!LockIsHeld, Mt5!WokenIsFirst
  <1>6. \A u \in Mt5!Tasks \ {t} : where[u] # "woken"
    <2>1. CASE where[t] = "running"
      BY <2>1 DEF Mt5!IInv, Mt5!LockIsHeld, Mt5!WokenIsFirst
    <2>2. CASE where[t] = "woken"
      BY <2>2 DEF Mt5!IInv, Mt5!WokenIsFirst, Mt5!WaitersAreOrdered, Mt5!Waiting
    <2> QED
      BY <2>1, <2>2
  <1>7. Mt5!LockIsHeld'
    BY <1>3, <1>4, <1>5 DEF Mt5!LockIsHeld
  <1>8. Mt5!WokenIsFirst'
    BY <1>3, <1>4, <1>6 DEF Mt5!WokenIsFirst
  <1>9. Mt5!WaitersAreOrdered'
    BY <1>3, <1>4, ZenonT(40) DEF Mt5!IInv, Mt5!WaitersAreOrdered, Mt5!Waiting
  <1> QED
    BY <1>2, <1>3, <1>4, <1>7, <1>8, <1>9

(* A woken waiter takes the lock.                                            *)
LEMMA TakeLockStep ==
  ASSUME Mt5!GatewayAssumption, Mt5!IInv, NEW t \in Mt5!Tasks, Mt5!TakeLock(t)
  PROVE  Mt5!IInv'
  <1> USE DEF Mt5!GatewayAssumption
  <1>1. /\ where[t] = "woken" /\ thread[t] = "none" /\ holder = NoTask
        /\ where \in [Mt5!Tasks -> Mt5!Places] /\ thread \in [Mt5!Tasks -> Mt5!Jobs]
        /\ method \in [Mt5!Tasks -> Mt5!Methods]
    BY DEF Mt5!IInv, Mt5!TypeOK, Mt5!JobsAreOwned, Mt5!WokenIsFirst, Mt5!TakeLock
  <1>2. /\ ahead' = Mt5!Without(t)
        /\ method' = method /\ open' = open
        /\ session' = session /\ stopping' = stopping
    BY DEF Mt5!TakeLock
  <1>3. ahead' \in [Mt5!Tasks -> SUBSET Mt5!Tasks] /\ \A u \in Mt5!Tasks : ahead'[u] = ahead[u] \ {t}
    BY <1>2, AheadType DEF Mt5!IInv
  <1>4. \A u \in Mt5!Tasks : where[u] # "running"
    BY <1>1 DEF Mt5!IInv, Mt5!LockIsHeld
  <1>5. \A u \in Mt5!Tasks \ {t} : where[u] # "woken"
    BY <1>1 DEF Mt5!IInv, Mt5!WokenIsFirst, Mt5!WaitersAreOrdered, Mt5!Waiting
  <1>6. CASE Mt5!Submits(method[t])
    <2>1. /\ holder' = t
          /\ thread' = [thread EXCEPT ![t] = "queued"]
          /\ where' = [where EXCEPT ![t] = "running"]
      BY <1>6 DEF Mt5!TakeLock
    <2>2. Mt5!TypeOK'
      BY <1>1, <1>2, <1>3, <2>1 DEF Mt5!IInv, Mt5!TypeOK, Mt5!Places, Mt5!Jobs
    <2>3. Mt5!LockIsHeld' /\ Mt5!JobsAreOwned' /\ Mt5!NobodyIsGone'
      BY <1>1, <1>2, <1>4, <2>1 DEF Mt5!IInv, Mt5!LockIsHeld, Mt5!JobsAreOwned, Mt5!NobodyIsGone
    <2>4. Mt5!WokenIsFirst'
      BY <1>1, <1>5, <2>1 DEF Mt5!WokenIsFirst
    <2>5. Mt5!WaitersAreOrdered'
      BY <1>1, <1>3, <2>1 DEF Mt5!IInv, Mt5!WaitersAreOrdered, Mt5!Waiting
    <2>6. Mt5!HolderIsRight'
      BY <1>1, <1>2, <1>4, <1>6, <2>1 DEF Mt5!HolderIsRight, Mt5!Submits, Mt5!Methods
    <2>7. Mt5!FlagFollowsSession'
      BY <1>1, <1>2, <2>1 DEF Mt5!IInv, Mt5!FlagFollowsSession
    <2> QED
      BY <2>2, <2>3, <2>4, <2>5, <2>6, <2>7 DEF Mt5!IInv
  <1>7. CASE ~Mt5!Submits(method[t])
    <2>1. /\ where' = Mt5!Woken([where EXCEPT ![t] = Mt5!Left(t)], Mt5!Without(t))
          /\ holder' = holder /\ thread' = thread
      BY <1>7 DEF Mt5!TakeLock
    <2>2. Mt5!Left(t) \in Mt5!Places \ {"waiting", "woken", "running"}
      BY LeftPlace
    <2>3. /\ where' \in [Mt5!Tasks -> Mt5!Places]
          /\ Mt5!LockIsHeld' /\ Mt5!WokenIsFirst' /\ Mt5!WaitersAreOrdered'
          /\ where'[t] = Mt5!Left(t)
          /\ \A u \in Mt5!Tasks \ {t} :
               where'[u] = where[u] \/ (where[u] = "waiting" /\ where'[u] = "woken")
      <3>1. where[t] \in {"woken", "running"} /\ holder' = NoTask
        BY <1>1, <2>1
      <3>2. where' = Mt5!Woken([where EXCEPT ![t] = Mt5!Left(t)], ahead')
        BY <1>2, <2>1
      <3>3. \A u \in Mt5!Tasks : ahead'[u] = ahead[u] \ {t} \/ (ahead'[u] = ahead[u] /\ where[t] = "running")
        BY <1>3
      <3> HIDE DEF Mt5!Left
      <3> QED
        BY <1>3, <2>2, <3>1, <3>2, <3>3, ReleaseKeepsOrder
    <2>4. Mt5!TypeOK'
      BY <1>1, <1>2, <1>3, <2>1, <2>3 DEF Mt5!IInv, Mt5!TypeOK
    <2>5. Mt5!JobsAreOwned'
      BY <1>1, <2>1, <2>3 DEF Mt5!IInv, Mt5!JobsAreOwned
    <2>6. Mt5!NobodyIsGone'
      <3> SUFFICES ASSUME ~stopping
                   PROVE  where'[Engine] = "idle" /\ \A u \in Mt5!Tasks : where'[u] # "gone"
        BY <1>2 DEF Mt5!NobodyIsGone
      <3>1. where[Engine] = "idle" /\ \A u \in Mt5!Tasks : where[u] # "gone"
        BY DEF Mt5!IInv, Mt5!NobodyIsGone
      <3>2. t # Engine /\ Engine \in Mt5!Tasks
        BY <1>1, <3>1 DEF Mt5!Tasks
      <3> QED
        BY <2>3, <3>1, <3>2, LeftPlace
    <2>7. Mt5!HolderIsRight' /\ Mt5!FlagFollowsSession'
      BY <1>1, <1>2, <2>1, <2>3, LeftPlace DEF Mt5!IInv, Mt5!HolderIsRight, Mt5!FlagFollowsSession
    <2> QED
      BY <2>3, <2>4, <2>5, <2>6, <2>7 DEF Mt5!IInv
  <1> QED
    BY <1>6, <1>7

(* A thread picks up the job of the lock's holder.                           *)
LEMMA JobStartsStep ==
  ASSUME Mt5!IInv, NEW t \in Mt5!Tasks, Mt5!JobStarts(t)
  PROVE  Mt5!IInv'
  <1>1. /\ thread[t] = "queued" /\ thread' = [thread EXCEPT ![t] = "inside"]
        /\ where' = where /\ method' = method /\ holder' = holder /\ ahead' = ahead
        /\ open' = open /\ session' = session /\ stopping' = stopping
    BY DEF Mt5!JobStarts
  <1>2. Mt5!TypeOK'
    BY <1>1 DEF Mt5!IInv, Mt5!TypeOK, Mt5!Jobs
  <1>3. Mt5!LockIsHeld' /\ Mt5!JobsAreOwned' /\ Mt5!NobodyIsGone'
    BY <1>1 DEF Mt5!IInv, Mt5!TypeOK, Mt5!LockIsHeld, Mt5!JobsAreOwned, Mt5!NobodyIsGone
  <1>4. Mt5!WokenIsFirst' /\ Mt5!WaitersAreOrdered' /\ Mt5!HolderIsRight'
    BY <1>1 DEF Mt5!IInv, Mt5!WokenIsFirst, Mt5!WaitersAreOrdered, Mt5!Waiting, Mt5!HolderIsRight
  <1>5. Mt5!FlagFollowsSession'
    BY <1>1 DEF Mt5!IInv, Mt5!TypeOK, Mt5!FlagFollowsSession
  <1> QED
    BY <1>2, <1>3, <1>4, <1>5 DEF Mt5!IInv

(* The job of a task returns or raises.                                      *)
LEMMA JobEndsStep ==
  ASSUME Mt5!IInv, NEW t \in Mt5!Tasks, Mt5!JobEnds(t)
  PROVE  Mt5!IInv'
  <1>1. thread[t] = "inside" /\ UNCHANGED <<where, method, holder, ahead, open, stopping>>
    BY DEF Mt5!JobEnds
  <1>2. PICK outcome \in {"done", "raised"} :
          /\ thread' = [thread EXCEPT ![t] = outcome]
          /\ session /\ method[t] = "connect" => outcome = "done"
          /\ session' = CASE method[t] = "connect" -> outcome = "done"
                          [] method[t] = "shutdown" /\ outcome = "done" -> FALSE
                          [] OTHER -> session
    BY DEF Mt5!JobEnds
  <1>3. session \in BOOLEAN /\ session' \in BOOLEAN
    BY <1>2 DEF Mt5!IInv, Mt5!TypeOK
  <1>4. Mt5!TypeOK'
    BY <1>1, <1>2, <1>3 DEF Mt5!IInv, Mt5!TypeOK, Mt5!Jobs
  <1>5. Mt5!LockIsHeld' /\ Mt5!JobsAreOwned' /\ Mt5!NobodyIsGone'
    BY <1>1, <1>2 DEF Mt5!IInv, Mt5!TypeOK, Mt5!LockIsHeld, Mt5!JobsAreOwned, Mt5!NobodyIsGone
  <1>6. Mt5!WokenIsFirst' /\ Mt5!WaitersAreOrdered' /\ Mt5!HolderIsRight'
    BY <1>1 DEF Mt5!IInv, Mt5!WokenIsFirst, Mt5!WaitersAreOrdered, Mt5!Waiting, Mt5!HolderIsRight
  <1>7. Mt5!FlagFollowsSession'
    <2> SUFFICES ASSUME ~stopping
                 PROVE  Mt5!FlagFollowsSession'
      BY <1>1 DEF Mt5!FlagFollowsSession
    <2>1. where[t] = "running" /\ holder = t /\ (open <=> method[t] # "connect")
      BY <1>1 DEF Mt5!IInv, Mt5!TypeOK, Mt5!JobsAreOwned, Mt5!NobodyIsGone, Mt5!LockIsHeld,
         Mt5!HolderIsRight
    <2>2. open => session
      BY <1>1, <2>1 DEF Mt5!IInv, Mt5!FlagFollowsSession
    <2>3. thread'[t] = outcome /\ method' = method /\ holder' = t /\ open' = open
      BY <1>1, <1>2, <2>1 DEF Mt5!IInv, Mt5!TypeOK
    <2>4. CASE method[t] = "connect"
      BY <1>2, <2>1, <2>3, <2>4 DEF Mt5!FlagFollowsSession
    <2>5. CASE method[t] = "shutdown"
      BY <1>2, <2>1, <2>2, <2>3, <2>5 DEF Mt5!FlagFollowsSession
    <2>6. CASE method[t] \notin {"connect", "shutdown"}
      BY <1>2, <2>1, <2>2, <2>3, <2>6 DEF Mt5!FlagFollowsSession
    <2> QED
      BY <2>4, <2>5, <2>6
  <1> QED
    BY <1>4, <1>5, <1>6, <1>7 DEF Mt5!IInv

(* The awaiting task resumes and releases the lock.                          *)
LEMMA ResumeStep ==
  ASSUME Mt5!GatewayAssumption, Mt5!IInv, NEW t \in Mt5!Tasks, Mt5!Resume(t)
  PROVE  Mt5!IInv'
  <1> USE DEF Mt5!GatewayAssumption
  <1>1. /\ where[t] = "running" /\ holder' = NoTask
        /\ thread' = [thread EXCEPT ![t] = "none"]
        /\ where' = Mt5!Woken([where EXCEPT ![t] = Mt5!Left(t)], ahead')
        /\ method' = method /\ ahead' = ahead /\ session' = session /\ stopping' = stopping
    BY DEF Mt5!Resume
  <1>2. Mt5!Left(t) \in Mt5!Places \ {"waiting", "woken", "running"}
    BY LeftPlace
  <1>3. /\ ahead' \in [Mt5!Tasks -> SUBSET Mt5!Tasks]
        /\ \A u \in Mt5!Tasks : ahead'[u] = ahead[u] \ {t} \/ (ahead'[u] = ahead[u] /\ where[t] = "running")
    BY <1>1 DEF Mt5!IInv, Mt5!TypeOK
  <1>4. /\ where' \in [Mt5!Tasks -> Mt5!Places]
        /\ Mt5!LockIsHeld' /\ Mt5!WokenIsFirst' /\ Mt5!WaitersAreOrdered'
        /\ where'[t] = Mt5!Left(t)
        /\ \A u \in Mt5!Tasks \ {t} :
             where'[u] = where[u] \/ (where[u] = "waiting" /\ where'[u] = "woken")
    <2>1. where[t] \in {"woken", "running"}
      BY <1>1
    <2> HIDE DEF Mt5!Left
    <2> QED
      BY <1>1, <1>2, <1>3, <2>1, ReleaseKeepsOrder
  <1>5. holder = t /\ \A u \in Mt5!Tasks \ {t} : where[u] # "running" /\ where'[u] # "running"
    BY <1>1, <1>4 DEF Mt5!IInv, Mt5!LockIsHeld
  <1>6. open' \in BOOLEAN
    BY DEF Mt5!Resume, Mt5!IInv, Mt5!TypeOK
  <1>7. Mt5!TypeOK'
    BY <1>1, <1>3, <1>4, <1>6 DEF Mt5!IInv, Mt5!TypeOK, Mt5!Jobs
  <1>8. Mt5!JobsAreOwned'
    BY <1>1, <1>4 DEF Mt5!IInv, Mt5!TypeOK, Mt5!JobsAreOwned
  <1>9. Mt5!NobodyIsGone'
    <2> SUFFICES ASSUME ~stopping
                 PROVE  where'[Engine] = "idle" /\ \A u \in Mt5!Tasks : where'[u] # "gone"
      BY <1>1 DEF Mt5!NobodyIsGone
    <2>1. where[Engine] = "idle" /\ \A u \in Mt5!Tasks : where[u] # "gone"
      BY DEF Mt5!IInv, Mt5!NobodyIsGone
    <2>2. t # Engine /\ Engine \in Mt5!Tasks
      BY <1>1, <2>1 DEF Mt5!Tasks
    <2> QED
      BY <1>4, <2>1, <2>2, LeftPlace
  <1>10. Mt5!HolderIsRight'
    BY <1>2, <1>4, <1>5 DEF Mt5!HolderIsRight
  <1>11. Mt5!FlagFollowsSession'
    <2> SUFFICES ASSUME ~stopping
                 PROVE  open' => session
      BY <1>1 DEF Mt5!FlagFollowsSession
    <2>1. CASE thread[t] = "done" /\ method[t] = "connect"
      BY <1>5, <2>1 DEF Mt5!IInv, Mt5!FlagFollowsSession
    <2>2. CASE thread[t] = "done" /\ method[t] = "shutdown"
      BY <2>2 DEF Mt5!Resume
    <2>3. CASE ~(thread[t] = "done" /\ method[t] \in {"connect", "shutdown"})
      <3>1. open' = open
        BY <2>3 DEF Mt5!Resume
      <3> QED
        BY <1>5, <2>3, <3>1 DEF Mt5!IInv, Mt5!FlagFollowsSession
    <2> QED
      BY <2>1, <2>2, <2>3
  <1> QED
    BY <1>4, <1>7, <1>8, <1>9, <1>10, <1>11 DEF Mt5!IInv

(* A worker is cancelled where it stands.                                    *)
LEMMA CancelStep ==
  ASSUME Mt5!GatewayAssumption, Mt5!IInv, NEW w \in Callers, Mt5!Cancel(w)
  PROVE  Mt5!IInv'
  <1> USE DEF Mt5!GatewayAssumption
  <1>1. /\ stopping /\ where[w] # "gone" /\ w \in Mt5!Tasks
        /\ ahead' = Mt5!Without(w)
        /\ holder' = IF holder = w THEN NoTask ELSE holder
        /\ thread' = [thread EXCEPT ![w] = IF @ = "inside" THEN @ ELSE "none"]
        /\ method' = method /\ open' = open
        /\ session' = session /\ stopping' = stopping
    BY DEF Mt5!Cancel, Mt5!Cancelled, Mt5!Tasks
  <1>2. where \in [Mt5!Tasks -> Mt5!Places] /\ thread \in [Mt5!Tasks -> Mt5!Jobs]
    BY DEF Mt5!IInv, Mt5!TypeOK
  <1>3. ahead' \in [Mt5!Tasks -> SUBSET Mt5!Tasks] /\ \A u \in Mt5!Tasks : ahead'[u] = ahead[u] \ {w}
    BY <1>1, AheadType DEF Mt5!IInv
  <1>4. /\ where' \in [Mt5!Tasks -> Mt5!Places] /\ where'[w] = "gone"
        /\ Mt5!LockIsHeld' /\ Mt5!WokenIsFirst' /\ Mt5!WaitersAreOrdered'
        /\ \A u \in Mt5!Tasks \ {w} :
             where'[u] = where[u] \/ (where[u] = "waiting" /\ where'[u] = "woken")
    <2>1. CASE where[w] \in {"woken", "running"}
      <3>1. where' = Mt5!Woken([where EXCEPT ![w] = "gone"], ahead')
        BY <1>1, <2>1 DEF Mt5!Cancel
      <3>2. holder' = NoTask
        BY <1>1, <2>1 DEF Mt5!IInv, Mt5!LockIsHeld, Mt5!WokenIsFirst
      <3>3. \A u \in Mt5!Tasks : ahead'[u] = ahead[u] \ {w} \/ (ahead'[u] = ahead[u] /\ where[w] = "running")
        BY <1>3
      <3>4. "gone" \in Mt5!Places \ {"waiting", "woken", "running"}
        BY DEF Mt5!Places
      <3> QED
        BY <1>1, <1>3, <2>1, <3>1, <3>2, <3>3, <3>4, ReleaseKeepsOrder
    <2>2. CASE where[w] \notin {"woken", "running"}
      <3>1. where' = [where EXCEPT ![w] = "gone"]
        BY <2>2 DEF Mt5!Cancel
      <3>2. holder' = holder /\ holder # w
        BY <1>1, <2>2 DEF Mt5!IInv, Mt5!LockIsHeld
      <3>3. where' \in [Mt5!Tasks -> Mt5!Places]
        BY <1>2, <3>1 DEF Mt5!Places
      <3>4. Mt5!LockIsHeld'
        BY <1>1, <1>2, <3>1, <3>2 DEF Mt5!IInv, Mt5!LockIsHeld
      <3>5. Mt5!WokenIsFirst'
        BY <1>1, <1>2, <1>3, <3>1, <3>2 DEF Mt5!IInv, Mt5!WokenIsFirst
      <3>6. Mt5!WaitersAreOrdered'
        BY <1>2, <1>3, <3>1 DEF Mt5!IInv, Mt5!WaitersAreOrdered, Mt5!Waiting
      <3> QED
        BY <1>1, <1>2, <3>1, <3>3, <3>4, <3>5, <3>6
    <2> QED
      BY <2>1, <2>2
  <1>5. Mt5!TypeOK'
    BY <1>1, <1>2, <1>3, <1>4 DEF Mt5!IInv, Mt5!TypeOK, Mt5!Jobs
  <1>6. Mt5!JobsAreOwned'
    BY <1>1, <1>2, <1>4 DEF Mt5!IInv, Mt5!JobsAreOwned
  <1>7. Mt5!NobodyIsGone' /\ Mt5!HolderIsRight' /\ Mt5!FlagFollowsSession'
    BY <1>1 DEF Mt5!NobodyIsGone, Mt5!HolderIsRight, Mt5!FlagFollowsSession
  <1> QED
    BY <1>4, <1>5, <1>6, <1>7 DEF Mt5!IInv

(* -------------------------------- theorems ------------------------------- *)

(* The inductive invariant of the gateway: who holds the lock, whose job     *)
(* runs, which waiter is woken, and what _connected says of the session.     *)
THEOREM GatewayInvariance ==
  ASSUME Mt5!GatewayAssumption PROVE Mt5!Spec => []Mt5!IInv
<1>1. ASSUME Mt5!Init PROVE Mt5!IInv
  <2>1. Mt5!TypeOK
    BY <1>1 DEF Mt5!GatewayAssumption, Mt5!Init, Mt5!TypeOK, Mt5!Places, Mt5!Methods, Mt5!Jobs
  <2>2. Mt5!LockIsHeld /\ Mt5!JobsAreOwned
    BY <1>1 DEF Mt5!GatewayAssumption, Mt5!Init, Mt5!LockIsHeld, Mt5!JobsAreOwned
  <2>3. Mt5!NobodyIsGone /\ Mt5!WokenIsFirst /\ Mt5!WaitersAreOrdered /\ Mt5!HolderIsRight
    BY <1>1 DEF Mt5!GatewayAssumption, Mt5!Init, Mt5!NobodyIsGone, Mt5!WokenIsFirst,
       Mt5!WaitersAreOrdered, Mt5!Waiting, Mt5!HolderIsRight, Mt5!Tasks
  <2>4. Mt5!FlagFollowsSession
    BY <1>1 DEF Mt5!GatewayAssumption, Mt5!Init, Mt5!FlagFollowsSession
  <2> QED
    BY <2>1, <2>2, <2>3, <2>4 DEF Mt5!IInv
<1>2. Mt5!IInv /\ [Mt5!Next]_(Mt5!vars) => Mt5!IInv'
  <2> SUFFICES ASSUME Mt5!IInv, [Mt5!Next]_(Mt5!vars)
               PROVE  Mt5!IInv'
    OBVIOUS
  <2>1. ASSUME NEW w \in Callers, Mt5!WorkerEnters(w) PROVE Mt5!IInv'
    <3>1. PICK m \in Mt5!Methods : Mt5!Enter(w, m)
      BY <2>1 DEF Mt5!WorkerEnters
    <3> QED
      BY <3>1, EnterStep DEF Mt5!GatewayAssumption, Mt5!Tasks
  <2>2. ASSUME NEW w \in Callers, Mt5!Cancel(w) PROVE Mt5!IInv'
    BY <2>2, CancelStep
  <2>3. CASE Mt5!CallIfIdle
    BY <2>3, EnterStep DEF Mt5!GatewayAssumption, Mt5!CallIfIdle, Mt5!Tasks, Mt5!Methods
  <2>4. ASSUME NEW t \in Mt5!Tasks, Mt5!TakeLock(t) PROVE Mt5!IInv'
    BY <2>4, TakeLockStep
  <2>5. ASSUME NEW t \in Mt5!Tasks, Mt5!JobStarts(t) PROVE Mt5!IInv'
    BY <2>5, JobStartsStep
  <2>6. ASSUME NEW t \in Mt5!Tasks, Mt5!JobEnds(t) PROVE Mt5!IInv'
    BY <2>6, JobEndsStep
  <2>7. ASSUME NEW t \in Mt5!Tasks, Mt5!Resume(t) PROVE Mt5!IInv'
    BY <2>7, ResumeStep
  <2>8. CASE Mt5!Stop
    BY <2>8 DEF Mt5!Stop, Mt5!IInv, Mt5!TypeOK, Mt5!LockIsHeld, Mt5!JobsAreOwned,
       Mt5!NobodyIsGone, Mt5!WokenIsFirst,
       Mt5!WaitersAreOrdered, Mt5!Waiting, Mt5!HolderIsRight, Mt5!FlagFollowsSession
  <2>9. CASE Mt5!EngineShutsDown
    BY <2>9, EnterStep DEF Mt5!GatewayAssumption, Mt5!EngineShutsDown, Mt5!Tasks, Mt5!Methods
  <2>10. CASE UNCHANGED Mt5!vars
    BY <2>10 DEF Mt5!vars, Mt5!IInv, Mt5!TypeOK, Mt5!LockIsHeld, Mt5!JobsAreOwned,
       Mt5!NobodyIsGone, Mt5!WokenIsFirst,
       Mt5!WaitersAreOrdered, Mt5!Waiting, Mt5!HolderIsRight, Mt5!FlagFollowsSession
  <2> QED
    BY <2>1, <2>2, <2>3, <2>4, <2>5, <2>6, <2>7, <2>8, <2>9, <2>10 DEF Mt5!Next, Mt5!Progress
<1> QED
  BY <1>1, <1>2, PTL DEF Mt5!Spec

(* Every reachable state of the tasks, the lock and the executor jobs is     *)
(* well typed, whatever the set of workers.                                  *)
THEOREM GatewayTypeCorrect ==
  ASSUME Mt5!GatewayAssumption PROVE Mt5!Spec => []Mt5!TypeOK
<1>1. Mt5!IInv => Mt5!TypeOK
  BY DEF Mt5!IInv
<1> QED
  BY <1>1, GatewayInvariance, PTL

(* Until the engine is stopped, no two MT5 functions run at once: a job that *)
(* is inside belongs to the holder of the lock.                              *)
THEOREM CallsAreSerialized ==
  ASSUME Mt5!GatewayAssumption PROVE Mt5!Spec => []Mt5!OneCallAtATime
<1>1. Mt5!IInv => Mt5!OneCallAtATime
  BY DEF Mt5!IInv, Mt5!OneCallAtATime, Mt5!Inside, Mt5!JobsAreOwned, Mt5!NobodyIsGone,
     Mt5!LockIsHeld
<1> QED
  BY <1>1, GatewayInvariance, PTL

(* Until the engine is stopped, a call that is inside MT5 has a session: the *)
(* check of _connected under the lock stays true while the job runs.         *)
THEOREM SessionOutlivesCalls ==
  ASSUME Mt5!GatewayAssumption PROVE Mt5!Spec => []Mt5!CallsHaveSession
<1>1. Mt5!IInv => Mt5!CallsHaveSession
  <2> SUFFICES ASSUME Mt5!IInv, ~stopping, NEW t \in Mt5!Tasks, thread[t] = "inside", method[t] = "call"
               PROVE  session
    BY DEF Mt5!CallsHaveSession, Mt5!Inside
  <2>1. where[t] = "running" /\ holder = t /\ open
    BY DEF Mt5!IInv, Mt5!JobsAreOwned, Mt5!NobodyIsGone, Mt5!LockIsHeld, Mt5!HolderIsRight
  <2> QED
    BY <2>1 DEF Mt5!IInv, Mt5!FlagFollowsSession
<1> QED
  BY <1>1, GatewayInvariance, PTL

(* The diagnostic, which only enters when the lock is free and nobody waits, *)
(* never queues: no release, cancellation or stop makes it a waiter either.  *)
THEOREM DiagnosticStaysOutOfQueue ==
  ASSUME Mt5!GatewayAssumption PROVE Mt5!Spec => []Mt5!DiagnosticNeverWaits
<1>1. Mt5!Init => Mt5!DiagnosticNeverWaits
  BY DEF Mt5!Init, Mt5!DiagnosticNeverWaits, Mt5!Tasks
<1>2. Mt5!IInv /\ Mt5!DiagnosticNeverWaits /\ [Mt5!Next]_(Mt5!vars) => Mt5!DiagnosticNeverWaits'
  <2> SUFFICES ASSUME Mt5!IInv, where[Diagnostic] \notin {"waiting", "woken"}, [Mt5!Next]_(Mt5!vars)
               PROVE  where'[Diagnostic] \notin {"waiting", "woken"}
    BY DEF Mt5!DiagnosticNeverWaits
  <2> DEFINE d == Diagnostic
  <2>1. d \in Mt5!Tasks /\ d # Engine /\ d \notin Callers /\ where \in [Mt5!Tasks -> Mt5!Places]
    BY DEF Mt5!GatewayAssumption, Mt5!IInv, Mt5!TypeOK, Mt5!Tasks
  <2>2. ASSUME NEW t \in Mt5!Tasks, t # d, NEW m, Mt5!Enter(t, m) PROVE where'[d] = where[d]
    BY <2>1, <2>2 DEF Mt5!Enter, Mt5!Acquire
  <2>3. ASSUME NEW t \in Mt5!Tasks, NEW p \in Mt5!Places \ {"waiting", "woken"}, NEW before,
               where' = Mt5!Woken([where EXCEPT ![t] = p], before)
        PROVE  where'[d] \notin {"waiting", "woken"}
    BY <2>1, <2>3 DEF Mt5!Woken
  <2>4. CASE Mt5!CallIfIdle
    <3>1. Mt5!Free /\ Mt5!Enter(d, "call")
      BY <2>4 DEF Mt5!CallIfIdle, Mt5!Free
    <3>2. where'[d] \in {"running", Mt5!Left(d)}
      BY <2>1, <3>1 DEF Mt5!Enter, Mt5!Acquire
    <3> QED
      BY <2>1, <3>2, LeftPlace
  <2>5. ASSUME NEW w \in Callers, Mt5!WorkerEnters(w) \/ Mt5!Cancel(w)
        PROVE  where'[d] \notin {"waiting", "woken"}
    <3>1. w \in Mt5!Tasks /\ w # d
      BY <2>1 DEF Mt5!Tasks
    <3>2. CASE Mt5!WorkerEnters(w)
      BY <2>2, <3>1, <3>2 DEF Mt5!WorkerEnters
    <3>3. CASE Mt5!Cancel(w)
      <4>1. \/ where' = Mt5!Woken([where EXCEPT ![w] = "gone"], Mt5!Without(w))
            \/ where' = [where EXCEPT ![w] = "gone"]
        BY <3>3 DEF Mt5!Cancel
      <4> QED
        BY <2>1, <2>3, <3>1, <4>1 DEF Mt5!Places
    <3> QED
      BY <2>5, <3>2, <3>3
  <2>6. ASSUME NEW t \in Mt5!Tasks, Mt5!Progress(t)
        PROVE  where'[d] \notin {"waiting", "woken"}
    <3>1. CASE Mt5!TakeLock(t)
      <4>1. \/ where' = [where EXCEPT ![t] = "running"]
            \/ where' = Mt5!Woken([where EXCEPT ![t] = Mt5!Left(t)], Mt5!Without(t))
        BY <3>1 DEF Mt5!TakeLock
      <4> QED
        BY <2>1, <2>3, <4>1, LeftPlace
    <3>2. CASE Mt5!JobStarts(t) \/ Mt5!JobEnds(t)
      BY <3>2 DEF Mt5!JobStarts, Mt5!JobEnds
    <3>3. CASE Mt5!Resume(t)
      BY <2>3, <3>3, LeftPlace DEF Mt5!Resume
    <3> QED
      BY <2>6, <3>1, <3>2, <3>3 DEF Mt5!Progress
  <2>7. CASE Mt5!Stop
    BY <2>7 DEF Mt5!Stop
  <2>8. CASE Mt5!EngineShutsDown
    BY <2>1, <2>2, <2>8 DEF Mt5!EngineShutsDown, Mt5!Tasks
  <2>9. CASE UNCHANGED Mt5!vars
    BY <2>9 DEF Mt5!vars
  <2> QED
    BY <2>4, <2>5, <2>6, <2>7, <2>8, <2>9 DEF Mt5!Next
<1> QED
  BY <1>1, <1>2, GatewayInvariance, PTL DEF Mt5!Spec

(* Until a stop, calls are serialized and have a session, and the diagnostic *)
(* never queues, for any set of workers.                                     *)
THEOREM CallsAreSoundAlways ==
  ASSUME Mt5!GatewayAssumption PROVE Mt5!Spec => []Mt5!CallsAreSound
  BY GatewayTypeCorrect, CallsAreSerialized, SessionOutlivesCalls,
     DiagnosticStaysOutOfQueue, PTL DEF Mt5!CallsAreSound
==============================================================================
