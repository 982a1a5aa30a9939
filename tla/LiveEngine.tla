------------------------------ MODULE LiveEngine ------------------------------
(* services/live.py: the Live process synchronizes with MT5, then polls it   *)
(* with workers that reconnect under one asyncio lock.  Candles go to        *)
(* memory, to the database, and behind a durable cursor to the event log.    *)
(* The tick worker is left out: it uses the connection as the account worker *)
(* does, and does not touch candles.                                         *)
(*                                                                           *)
(* One step is the code from one suspended await to the next: a gateway call *)
(* and what follows its answer.  (Publishing an event writes the log before  *)
(* it suspends, and a candle event never suspends.)  One timeframe stands    *)
(* for four; candles are numbered by time.                                   *)
EXTENDS Naturals, Sequences

CONSTANTS
  MaxCandles,  \* bound: candles that close
  Lookback,    \* live_candle_lookback
  MaxFaults,   \* bound: exceptions of MT5 or of the database
  MaxDeaths    \* bound: deaths of the process

ASSUME LiveAssumption ==
  /\ MaxCandles \in Nat \ {0}
  /\ Lookback \in Nat \ {0}
  /\ MaxFaults \in Nat
  /\ MaxDeaths \in Nat

VARIABLES
  closed,     \* MT5: the newest closed candle
  connected,  \* MT5Gateway.connected
  pc,         \* pc[t]: the await task t is suspended in
  line,       \* the tasks waiting for the gateway's lock, first come first served
  back,       \* back[t]: where t goes on when the connection is back
  lock,       \* the task that holds _reconnect_lock
  runtime,    \* runtime_state
  window,     \* state.candles: its newest candle
  batch,      \* the M5 series of the candle worker's current cycle
  cursor,     \* candle_cursors: last_completed_timestamp
  stored,     \* candles
  told,       \* told[c]: CANDLE_CLOSED events for c in system_events
  submitted,  \* the newest candle given to the shadow workers
  faults,     \* exceptions so far
  deaths      \* deaths so far

memory == <<window, batch>>
bounds == <<faults, deaths>>
vars == <<closed, connected, pc, line, back, lock, runtime, memory, cursor, stored, told, submitted, bounds>>

Workers == {"account", "candles"}
Tasks == Workers \cup {"boot"}     \* boot: LiveDataEngine.run up to its workers
Candles == 1..MaxCandles
Awaits == {"down", "sleep", "call", "rest", "close", "queue",
           "retry", "connect", "read", "announce", "dead"}
Gated == {"call", "rest", "close", "connect", "read"}   \* awaits of the gateway
RuntimeStates == {"STARTING", "CONNECTED", "DISCONNECTED", "RECONNECTING", "DOWN"}
Syncing == {"retry", "connect", "read", "announce"}   \* in _reconnect with the lock

TypeOK ==
  /\ closed \in Candles
  /\ connected \in BOOLEAN
  /\ pc \in [Tasks -> Awaits]
  /\ line \in Seq(Tasks)
  /\ back \in [Tasks -> {"call", "sleep", "initial"}]
  /\ \A w \in Workers : back[w] # "initial"
  /\ lock \in Tasks \cup {"free"}
  /\ runtime \in RuntimeStates
  /\ window \in 0..MaxCandles
  /\ batch \in 0..MaxCandles
  /\ cursor \in 0..MaxCandles
  /\ stored \subseteq Candles
  /\ told \in [Candles -> Nat]
  /\ submitted \in 0..MaxCandles
  /\ faults \in 0..MaxFaults
  /\ deaths \in 0..MaxDeaths

Booting == [t \in Tasks |-> IF t = "boot" THEN "connect" ELSE "down"]
FromBoot == [t \in Tasks |-> IF t = "boot" THEN "initial" ELSE "call"]

Init ==
  /\ closed = 1
  /\ connected = FALSE
  /\ pc = Booting
  /\ line = <<"boot">>
  /\ back = FromBoot
  /\ lock = "free"
  /\ runtime = "STARTING"
  /\ window = 0 /\ batch = 0
  /\ cursor = 0 /\ stored = {}
  /\ told = [c \in Candles |-> 0]
  /\ submitted = 0
  /\ faults = 0 /\ deaths = 0
------------------------------------------------------------------------------
Served(t) == line # <<>> /\ Head(line) = t

(* t, which was at the head of the line if it was in it, awaits place next.  *)
Goes(t, place) ==
  /\ pc' = [pc EXCEPT ![t] = place]
  /\ line' = (IF pc[t] \in Gated THEN Tail(line) ELSE line)
             \o (IF place \in Gated THEN <<t>> ELSE <<>>)

(* t goes on where it needed the connection.                                 *)
Resumes(t) == Goes(t, back[t]) /\ back' = [back EXCEPT ![t] = "call"]

Ends(w) == Goes(w, "dead") /\ back' = [back EXCEPT ![w] = "call"]

Faults(n) == faults + n <= MaxFaults /\ faults' = faults + n /\ UNCHANGED deaths

(* The except clause of _worker after n exceptions: record the failure, set  *)
(* DISCONNECTED, and await the gateway's shutdown.  One more, of the         *)
(* database in the clause itself, ends the worker's task for good, before    *)
(* or after runtime_state is set.                                            *)
Fails(w, n, state) ==
  \/ Goes(w, "close") /\ runtime' = "DISCONNECTED" /\ Faults(n)
  \/ Goes(w, "dead") /\ runtime' \in {state, "DISCONNECTED"} /\ Faults(n + 1)

(* The top of a worker's cycle.                                              *)
Wake(w) ==
  /\ pc[w] = "sleep"
  /\ Goes(w, IF connected THEN "call" ELSE "queue")
  /\ UNCHANGED <<closed, connected, back, lock, runtime, memory, cursor, stored, told, submitted, bounds>>

(* gateway.call raises because the gateway is not connected.                 *)
CallDisconnected(w) ==
  /\ pc[w] \in {"call", "rest"} /\ Served(w)
  /\ ~connected
  /\ Fails(w, 0, runtime)
  /\ batch' = IF w = "candles" THEN 0 ELSE batch
  /\ UNCHANGED <<closed, connected, back, lock, window, cursor, stored, told, submitted>>

(* A gateway call raises.                                                    *)
CallRaises(w) ==
  /\ pc[w] \in {"call", "rest"} /\ Served(w)
  /\ connected
  /\ Fails(w, 1, runtime)
  /\ batch' = IF w = "candles" THEN 0 ELSE batch
  /\ UNCHANGED <<closed, connected, back, lock, window, cursor, stored, told, submitted>>

Answered(t, place) == pc[t] = place /\ Served(t) /\ connected
------------------------------------------------------------------------------
(* SnapshotRepository.persist stores all candles of a snapshot but the last. *)
SnapshotCandles(newest) == {c \in Candles : c < newest}

(* Mutant: a snapshot carries no candles.                                    *)
AccountReadsWithoutCandles ==
  /\ Answered("account", "call")
  /\ submitted' = window
  /\ Goes("account", "sleep")
  /\ UNCHANGED <<closed, connected, back, lock, runtime, window, batch, cursor, stored, told, bounds>>

(* _account_loop: persist a snapshot, and give it to the shadow workers.     *)
AccountReads ==
  /\ Answered("account", "call")
  /\ stored' = stored \cup SnapshotCandles(window)
  /\ \/ submitted' = window /\ Goes("account", "sleep") /\ UNCHANGED <<runtime, bounds>>
     \/ Fails("account", 1, runtime) /\ UNCHANGED submitted
  /\ UNCHANGED <<closed, connected, back, lock, window, batch, cursor, told>>
------------------------------------------------------------------------------
(* The completed candles in the lookback window that the cursor has not seen.*)
Unseen == {c \in Candles : cursor < c /\ c <= closed /\ closed < c + Lookback}

Count(seen) == [c \in Candles |-> told[c] + (IF c \in seen THEN 1 ELSE 0)]

(* Mutant: the cursor is not advanced.                                       *)
CandlesReadWithoutCursor ==
  /\ Answered("candles", "call")
  /\ batch' = closed
  /\ stored' = stored \cup Unseen
  /\ told' = Count(Unseen)
  /\ Goes("candles", "rest")
  /\ UNCHANGED <<closed, connected, back, lock, runtime, window, cursor,
                 submitted, bounds>>

(* _candle_loop for one timeframe: store each unseen candle, advance the     *)
(* cursor, publish.  An exception leaves a prefix of that, and so does a     *)
(* death in the middle: it is an exception followed by Die.                  *)
CandlesRead ==
  /\ Answered("candles", "call")
  /\ \/ /\ batch' = closed
        /\ stored' = stored \cup Unseen
        /\ cursor' = IF Unseen = {} THEN cursor ELSE closed
        /\ told' = Count(Unseen)
        /\ Goes("candles", "rest")
        /\ UNCHANGED <<runtime, bounds>>
     \/ \E c \in Unseen :
          LET before == {d \in Unseen : d < c}
              last == IF before = {} THEN cursor ELSE c - 1
          IN /\ told' = Count(before)
             /\ \/ stored' = stored \cup before \cup {c} /\ cursor' \in {last, c}
                \/ stored' = stored \cup before /\ cursor' = last
             /\ Fails("candles", 1, runtime)
             /\ UNCHANGED batch
  /\ UNCHANGED <<closed, connected, back, lock, window, submitted>>

(* Mutant: memory keeps the candles of the last synchronization.             *)
CandlesDoneKeepingWindow ==
  /\ Answered("candles", "rest")
  /\ batch' = 0
  /\ Goes("candles", "sleep")
  /\ UNCHANGED <<closed, connected, back, lock, runtime, window, cursor, stored, told,
                 submitted, bounds>>

(* The other timeframes are read, and state.candles is replaced; recording   *)
(* the success may raise.                                                    *)
CandlesDone ==
  /\ Answered("candles", "rest")
  /\ window' = batch
  /\ batch' = 0
  /\ \/ Goes("candles", "sleep") /\ UNCHANGED <<runtime, bounds>>
     \/ Fails("candles", 1, runtime)
  /\ UNCHANGED <<closed, connected, back, lock, cursor, stored, told, submitted>>
------------------------------------------------------------------------------
(* _handle_connection_failure: the gateway is shut down, whoever uses it.    *)
Close(w) ==
  /\ pc[w] = "close" /\ Served(w)
  /\ connected' = FALSE
  /\ back' = [back EXCEPT ![w] = "sleep"]
  /\ Goes(w, "queue")
  /\ UNCHANGED <<closed, lock, runtime, memory, cursor, stored, told, submitted, bounds>>

(* Mutant: _reconnect without the lock.                                      *)
ReconnectUnlocked(w) ==
  /\ pc[w] = "queue"
  /\ \/ connected /\ Resumes(w) /\ UNCHANGED <<lock, runtime>>
     \/ ~connected /\ Goes(w, "retry") /\ lock' = w /\ runtime' = "RECONNECTING" /\ UNCHANGED back
  /\ UNCHANGED <<closed, connected, memory, cursor, stored, told, submitted, bounds>>

(* _reconnect by a task that gets the lock: nothing to do if another task    *)
(* reconnected meanwhile.  A database error there escapes.                   *)
Reconnect(w) ==
  /\ pc[w] = "queue"
  /\ lock = "free"
  /\ \/ connected /\ Resumes(w) /\ UNCHANGED <<lock, runtime, bounds>>
     \/ /\ ~connected /\ Goes(w, "retry")
        /\ lock' = w /\ runtime' = "RECONNECTING" /\ UNCHANGED <<back, bounds>>
     \/ ~connected /\ back[w] = "call" /\ Fails(w, 1, "RECONNECTING") /\ UNCHANGED <<back, lock>>
     \/ ~connected /\ back[w] = "sleep" /\ Ends(w) /\ runtime' = "RECONNECTING" /\ Faults(1)
        /\ UNCHANGED lock
  /\ UNCHANGED <<closed, connected, memory, cursor, stored, told, submitted>>

(* The reconnect loop tries (again).                                         *)
Retry(t) ==
  /\ pc[t] = "retry"
  /\ Goes(t, "connect")
  /\ UNCHANGED <<closed, connected, back, lock, runtime, memory, cursor, stored, told, submitted, bounds>>

(* _synchronize raises at a gateway call, in the database or at a publish:   *)
(* the reconnect loop sleeps.  The boot enters that loop after its first     *)
(* failure, and a shutdown of the gateway.                                   *)
SyncRaises(t) ==
  /\ (Served(t) /\ pc[t] \in {"connect", "read"}) \/ pc[t] = "announce"
  /\ Faults(1)
  /\ Goes(t, "retry")
  /\ IF back[t] = "initial"
     THEN connected' = FALSE /\ runtime' = "RECONNECTING" /\ lock' = t /\ back' = [back EXCEPT ![t] = "call"]
     ELSE UNCHANGED <<connected, runtime, lock, back>>
  /\ \/ UNCHANGED <<window, cursor, stored>>
     \/ /\ pc[t] = "read" /\ connected
        /\ stored' = stored \cup SnapshotCandles(closed)
        /\ \/ UNCHANGED <<window, cursor>>
           \/ window' = closed /\ cursor' \in {cursor, closed}
  /\ UNCHANGED <<closed, batch, told, submitted>>

(* The error handling of the reconnect loop raises: the lock is released and *)
(* the worker fails as anywhere else.                                        *)
SyncEscapes(w) ==
  /\ (Served(w) /\ pc[w] \in {"connect", "read"}) \/ pc[w] = "announce"
  /\ lock' = "free"
  /\ \/ back[w] = "call" /\ Fails(w, 2, runtime) /\ UNCHANGED back
     \/ back[w] = "sleep" /\ Ends(w) /\ Faults(2) /\ UNCHANGED runtime
  /\ UNCHANGED <<closed, connected, memory, cursor, stored, told, submitted>>

SyncConnects(t) ==
  /\ pc[t] = "connect" /\ Served(t)
  /\ connected' = TRUE
  /\ Goes(t, "read")
  /\ UNCHANGED <<closed, back, lock, runtime, memory, cursor, stored, told, submitted, bounds>>

(* Another worker shut the connection down before the reads.                 *)
SyncDisconnected(t) ==
  /\ pc[t] = "read" /\ Served(t)
  /\ ~connected
  /\ Goes(t, "retry")
  /\ UNCHANGED <<closed, connected, back, lock, runtime, memory, cursor, stored, told, submitted, bounds>>

(* The reads: persist the snapshot, replace the memory, set the cursor to    *)
(* the newest closed candle.                                                 *)
SyncReads(t) ==
  /\ Answered(t, "read")
  /\ stored' = stored \cup SnapshotCandles(closed)
  /\ window' = closed
  /\ cursor' = closed
  /\ Goes(t, "announce")
  /\ UNCHANGED <<closed, connected, back, lock, runtime, batch, told, submitted, bounds>>

(* Mutant: the state stays RECONNECTING.                                     *)
SyncDoneSilently(t) ==
  /\ pc[t] = "announce"
  /\ lock' = IF lock = t THEN "free" ELSE lock
  /\ IF t = "boot"
     THEN pc' = [u \in Tasks |-> IF u = "boot" THEN "down" ELSE "sleep"] /\ back' = FromBoot /\ line' = <<>>
     ELSE Resumes(t)
  /\ UNCHANGED <<closed, connected, runtime, memory, cursor, stored, told, submitted, bounds>>

(* Mutant: a state the enumeration does not have.                            *)
SyncDoneAsRunning(t) ==
  /\ pc[t] = "announce"
  /\ runtime' = "RUNNING"
  /\ lock' = IF lock = t THEN "free" ELSE lock
  /\ IF t = "boot"
     THEN pc' = [u \in Tasks |-> IF u = "boot" THEN "down" ELSE "sleep"] /\ back' = FromBoot /\ line' = <<>>
     ELSE Resumes(t)
  /\ UNCHANGED <<closed, connected, memory, cursor, stored, told, submitted, bounds>>

(* The events are published: CONNECTED, and the lock is free.  At the boot   *)
(* the workers are created.                                                  *)
SyncDone(t) ==
  /\ pc[t] = "announce"
  /\ runtime' = "CONNECTED"
  /\ lock' = IF lock = t THEN "free" ELSE lock
  /\ IF t = "boot"
     THEN pc' = [u \in Tasks |-> IF u = "boot" THEN "down" ELSE "sleep"] /\ back' = FromBoot /\ line' = <<>>
     ELSE Resumes(t)
  /\ UNCHANGED <<closed, connected, memory, cursor, stored, told, submitted, bounds>>
------------------------------------------------------------------------------
(* The process dies (a failing boot ends it too, and is left out); the       *)
(* database keeps what was committed.                                        *)
Die ==
  /\ runtime # "DOWN"
  /\ deaths < MaxDeaths
  /\ deaths' = deaths + 1
  /\ runtime' = "DOWN"
  /\ pc' = [t \in Tasks |-> "down"]
  /\ line' = <<>>
  /\ connected' = FALSE
  /\ lock' = "free"
  /\ window' = 0 /\ batch' = 0
  /\ back' = FromBoot
  /\ UNCHANGED <<closed, cursor, stored, told, submitted, faults>>

(* The supervisor starts Live again.                                         *)
Restart ==
  /\ runtime = "DOWN"
  /\ runtime' = "STARTING"
  /\ pc' = Booting
  /\ line' = <<"boot">>
  /\ UNCHANGED <<closed, connected, back, lock, memory, cursor, stored, told, submitted, bounds>>

CandleCloses ==
  /\ closed < MaxCandles
  /\ closed' = closed + 1
  /\ UNCHANGED <<connected, pc, line, back, lock, runtime, memory, cursor, stored, told, submitted, bounds>>

Calls(w) ==
  \/ CallDisconnected(w) \/ CallRaises(w)
  \/ w = "account" /\ AccountReads
  \/ w = "candles" /\ (CandlesRead \/ CandlesDone)

Syncs(t) == Retry(t) \/ SyncRaises(t) \/ SyncConnects(t) \/ SyncDisconnected(t) \/ SyncReads(t) \/ SyncDone(t)

Next ==
  \/ \E w \in Workers : Wake(w) \/ Calls(w) \/ Close(w) \/ Reconnect(w) \/ SyncEscapes(w)
  \/ \E t \in Tasks : Syncs(t)
  \/ Die \/ Restart
  \/ CandleCloses

Spec == Init /\ [][Next]_vars

(* The event loop runs every task; asyncio.Lock is fair; the supervisor      *)
(* restarts what it monitors.                                                *)
FairSpec ==
  /\ Spec
  /\ \A w \in Workers :
       /\ WF_vars(Wake(w)) /\ WF_vars(Calls(w)) /\ WF_vars(Close(w))
       /\ SF_vars(Reconnect(w))
  /\ \A t \in Tasks : WF_vars(Syncs(t))
  /\ WF_vars(Restart)
------------------------------------------------------------------------------
(* No candle is announced twice, whatever restarts, reconnections and errors *)
(* come between storing it, advancing the cursor and publishing.             *)
ToldOnce == \A c \in Candles : told[c] <= 1

(* What makes it inductive: the cursor covers every announced candle, and    *)
(* nobody is ahead of the market.                                            *)
CursorCovers == \A c \in Candles : told[c] > 0 => c <= cursor
BehindMarket == cursor <= closed /\ window <= closed /\ batch <= closed /\ submitted <= closed

(* One task at a time synchronizes, under the lock; only the boot's first    *)
(* attempt, when there is nobody else, needs none.                           *)
OneSynchronizes ==
  /\ \A w \in Workers : pc[w] \in Syncing <=> lock = w
  /\ lock = "boot" => pc["boot"] # "down"
  /\ pc["boot"] # "down" => pc["boot"] \in Syncing /\ \A w \in Workers : pc[w] = "down"

(* A dead process runs nothing.                                              *)
DownIsDown == runtime = "DOWN" => lock = "free" /\ \A t \in Tasks : pc[t] = "down"

(* The inductive invariant.                                                  *)
IInv == TypeOK /\ ToldOnce /\ CursorCovers /\ BehindMarket /\ OneSynchronizes /\ DownIsDown

Dead == {w \in Workers : pc[w] = "dead"}

(* Every closed candle is stored as soon as another one has closed, unless a *)
(* database error in its error handling has ended a worker.                  *)
CandlesAreStored ==
  \A c \in Candles : (closed > c) ~> (c \in stored \/ Dead # {})

(* Every closed candle, or a later one, reaches the shadow workers.          *)
ShadowIsFed ==
  \A c \in Candles : (closed >= c) ~> (submitted >= c \/ Dead # {})

(* A lost connection is always recovered, and reported as recovered.         *)
RuntimeRecovers ==
  (runtime # "CONNECTED") ~> ((runtime = "CONNECTED" /\ connected) \/ Dead # {})

(* What the documentation promises, and the code does not keep: the candles  *)
(* that closed during a downtime are announced after it, in order.  Checked  *)
(* for candles between two announced ones, inside the lookback window.       *)
NoGap ==
  \A b, c, d \in Candles :
    b < c /\ c < d /\ d < c + Lookback /\ told[b] > 0 /\ told[d] > 0 => told[c] > 0

(* Every closed candle reaches the database and the shadow workers, unless a *)
(* worker ended.                                                             *)
CandlesArrive == CandlesAreStored /\ ShadowIsFed

(* What holds in every state: a candle is announced once at most, and one task*)
(* synchronizes.                                                             *)
FeedIsSound == TypeOK /\ ToldOnce /\ OneSynchronizes
==============================================================================
