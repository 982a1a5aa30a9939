----------------------------- MODULE LiveMonitor -----------------------------
(* services/live.py: what Live knows of the open positions, and how it tells *)
(* that its knowledge is old.  The tick worker compares the positions it     *)
(* reads with those in memory and publishes the differences; the account     *)
(* worker and every synchronization replace the same memory silently; the    *)
(* watchdog compares the age of each observation, and of each worker's last  *)
(* attempt, with its limit.                                                  *)
(*                                                                           *)
(* One step is the code from one suspended await to the next.  The details   *)
(* of a reconnection are those of LiveEngine: here it is one step.           *)
EXTENDS Naturals, Sequences, FiniteSets, SequencesExt

CONSTANTS
  Tickets,     \* positions of the symbol, never opened twice
  MaxEvents    \* bound: changes at the broker, exceptions of MT5 or of the
               \* database, and waits beyond a limit, together

ASSUME MonitorAssumption ==
  IsFiniteSet(Tickets) /\ MaxEvents \in Nat

VARIABLES
  broker,    \* broker[p]: position p as MT5 has it
  memory,    \* state.positions
  table,     \* positions and position_snapshots: the rows not closed
  connected, \* MT5Gateway.connected
  pc,        \* pc[w]: the await worker w is suspended in
  queue,     \* position events the tick worker has yet to publish
  told,      \* told[p]: position events in system_events
  old,       \* data observed longer ago than data_stale_*_seconds
  late,      \* workers that attempted longer ago than worker_health_ttl
  worker,    \* worker[w]: latest health row "worker:<w>"
  watch,     \* where the watchdog is
  scan,      \* positions in Data: what its round found stale, and has yet to tell
  stale,     \* _stale_components
  row,       \* latest health row "data:tick": the others only ever say STALE
  events     \* changes, exceptions and waits so far

positions == <<broker, memory, table, queue, told>>
watchdog == <<watch, scan, stale, row>>
vars == <<positions, connected, pc, old, late, worker, watchdog, events>>

Workers == {"tick", "account"}
Data == <<"tick", "account", "positions">>    \* in the order of the watchdog
Components == {Data[i] : i \in DOMAIN Data}
Awaits == {"sleep", "call", "publish", "rejoin", "join", "reconnect", "resume", "dead"}
Kinds == {"open", "changed", "gone"}

(* A position with its volume, stops and profit: two versions stand for any. *)
Seen == {"none", "first", "second"}

TypeOK ==
  /\ broker \in [Tickets -> Seen \cup {"closed"}]
  /\ memory \in [Tickets -> Seen] /\ table \in [Tickets -> Seen]
  /\ connected \in BOOLEAN
  /\ pc \in [Workers -> Awaits]
  /\ queue \in Seq(Tickets \X Kinds)
  /\ told \in [Tickets -> Seq(Kinds)]
  /\ old \subseteq Components /\ late \subseteq Workers
  /\ worker \in [Workers -> {"none", "CONNECTED", "DEGRADED"}]
  /\ watch \in {"sleep", "tell", "dead"}
  /\ scan \subseteq DOMAIN Data /\ stale \subseteq Components
  /\ row \in {"none", "STALE", "CONNECTED"}
  /\ events \in 0 .. MaxEvents

(* Mutant: closed positions are read with the open ones.                     *)
ViewWithClosed == broker

(* read_open_positions: None is an error, and closed positions are not read. *)
View == [p \in Tickets |-> IF broker[p] = "closed" THEN "none" ELSE broker[p]]

(* LiveDataEngine.run has synchronized and creates its tasks.                *)
Init ==
  /\ broker \in [Tickets -> {"none", "first"}]
  /\ memory = View /\ table = View
  /\ connected = TRUE
  /\ pc = [w \in Workers |-> "sleep"]
  /\ queue = <<>> /\ told = [p \in Tickets |-> <<>>]
  /\ old = {} /\ late = {} /\ worker = [w \in Workers |-> "none"]
  /\ watch = "sleep" /\ scan = {} /\ stale = {}
  /\ row = "none"
  /\ events = 0

Goes(w, place) == pc' = [pc EXCEPT ![w] = place]

Count(n) == events + n <= MaxEvents /\ events' = events + n

(* now: the data a read has observed.                                        *)
Observed(read) == old' = old \ read
------------------------------------------------------------------------------
(* The top of a worker's cycle: _record_worker_attempt.                      *)
Wake(w) ==
  /\ pc[w] = "sleep"
  /\ late' = late \ {w}
  /\ Goes(w, IF connected THEN "call" ELSE "rejoin")
  /\ UNCHANGED <<positions, connected, old, worker, watchdog, events>>

(* The except clause of _worker: _record_worker_failure, and the gateway is  *)
(* shut down.                                                                *)
Fails(w) ==
  /\ worker' = [worker EXCEPT ![w] = "DEGRADED"]
  /\ connected' = FALSE /\ late' = late \ {w}
  /\ Goes(w, "reconnect")

(* An exception in that clause, before or after either effect: the task ends.*)
Ends(w) ==
  /\ \/ UNCHANGED <<worker, connected>>
     \/ worker' = [worker EXCEPT ![w] = "DEGRADED"] /\ connected' \in {connected, FALSE}
  /\ late' = late \ {w} /\ Goes(w, "dead")

(* An exception in a cycle; or a second one, in its handling.                *)
Raises(w) ==
  \/ Count(1) /\ Fails(w)
  \/ Count(2) /\ Ends(w)

(* A call of the gateway, or the start of a reconnection.                    *)
CallRaises(w) ==
  /\ pc[w] \in {"call", "rejoin"} /\ Raises(w)
  /\ UNCHANGED <<positions, old, watchdog>>

CallDisconnected(w) ==
  /\ pc[w] = "call" /\ ~connected
  /\ \/ Fails(w) /\ UNCHANGED events
     \/ Count(1) /\ Ends(w)
  /\ UNCHANGED <<positions, old, watchdog>>

(* _record_worker_success.                                                   *)
Succeeds(w) ==
  /\ worker' = [worker EXCEPT ![w] = "CONNECTED"]
  /\ Goes(w, "sleep")

(* What a comparison with what is in memory says of a position.              *)
Kind(p, new) ==
  IF memory[p] = "none" THEN "open" ELSE IF new[p] = "none" THEN "gone" ELSE "changed"

(* An event for every difference: openings and changes, then ends.           *)
Compares(new) ==
  \E q \in SetToSeqs({p \in Tickets : memory[p] # new[p]}) :
    /\ \A i, j \in DOMAIN q : i < j /\ Kind(q[i], new) = "gone" => Kind(q[j], new) = "gone"
    /\ queue' = [i \in DOMAIN q |-> <<q[i], Kind(q[i], new)>>]

(* Mutant: an error of positions_get is taken for no positions.              *)
TickReadsNothing ==
  /\ pc["tick"] = "call" /\ connected
  /\ \E new \in {View, [p \in Tickets |-> "none"]} :
       Compares(new) /\ memory' = new
  /\ Observed({"tick", "positions"})
  /\ Goes("tick", "publish")
  /\ UNCHANGED <<broker, table, told, connected, late, worker, watchdog, events>>

(* _fast_loop: read, compare and replace the memory.  A worker reads under   *)
(* the lock of the gateway and replaces the memory as it releases it: one    *)
(* step.                                                                     *)
TickReads ==
  /\ pc["tick"] = "call" /\ connected
  /\ Compares(View) /\ memory' = View
  /\ Observed({"tick", "positions"})
  /\ Goes("tick", "publish")
  /\ UNCHANGED <<broker, table, told, connected, late, worker, watchdog, events>>

(* Its next event; then _record_worker_success.  After an exception the rest *)
(* of the events is lost.                                                    *)
TickPublishes ==
  /\ pc["tick"] = "publish" /\ queue # <<>>
  /\ told' = [told EXCEPT ![queue[1][1]] = Append(@, queue[1][2])]
  /\ queue' = Tail(queue)
  /\ UNCHANGED <<broker, memory, table, connected, pc, old, late, worker, watchdog, events>>

TickSucceeds ==
  /\ pc["tick"] = "publish" /\ queue = <<>>
  /\ Succeeds("tick")
  /\ UNCHANGED <<positions, connected, old, late, watchdog, events>>

TickRaises ==
  /\ pc["tick"] = "publish" /\ queue' = <<>> /\ Raises("tick")
  /\ UNCHANGED <<broker, memory, table, told, old, watchdog>>

(* Mutant: only the risk is stored, and the position tables keep their rows. *)
AccountReadsRisk ==
  /\ pc["account"] = "call" /\ connected
  /\ memory' = View
  /\ Observed({"account", "positions"}) /\ Succeeds("account")
  /\ UNCHANGED <<broker, table, queue, told, connected, late, watchdog, events>>

(* _account_loop: one transaction stores the snapshot with its positions,    *)
(* then the memory is replaced; an exception after either.                   *)
AccountReads ==
  /\ pc["account"] = "call" /\ connected
  /\ table' = View
  /\ \/ /\ memory' = View /\ Observed({"account", "positions"})
        /\ \/ Succeeds("account") /\ UNCHANGED <<connected, late, events>>
           \/ Raises("account")
     \/ Raises("account") /\ UNCHANGED <<memory, old>>
  /\ UNCHANGED <<broker, queue, told, watchdog>>

(* _reconnect under its lock: whoever finds the gateway connected goes on.   *)
Free == \A w \in Workers : pc[w] \notin {"join", "resume"}

Finds(w) ==
  /\ pc[w] \in {"rejoin", "reconnect"} /\ Free /\ connected
  /\ Goes(w, IF pc[w] = "rejoin" THEN "call" ELSE "sleep")
  /\ UNCHANGED <<positions, connected, old, late, worker, watchdog, events>>

Connects(w) ==
  /\ ~connected /\ connected' = TRUE
  /\ \/ pc[w] = "rejoin" /\ Free /\ Goes(w, "join")
     \/ pc[w] = "reconnect" /\ Free /\ Goes(w, "resume")
     \/ pc[w] \in {"join", "resume"} /\ UNCHANGED pc
  /\ UNCHANGED <<positions, old, late, worker, watchdog, events>>

(* Mutant: the memory starts empty after a reconnection.                     *)
SynchronizesAfresh(w) ==
  /\ pc[w] \in {"join", "resume"} /\ connected
  /\ memory' = [p \in Tickets |-> "none"] /\ table' = View /\ Observed(Components)
  /\ Goes(w, IF pc[w] = "join" THEN "call" ELSE "sleep")
  /\ UNCHANGED <<broker, queue, told, connected, late, worker, watchdog, events>>

(* _synchronize reads, stores and replaces everything.                       *)
Synchronizes(w) ==
  /\ pc[w] \in {"join", "resume"} /\ connected
  /\ memory' = View /\ table' = View /\ Observed(Components)
  /\ Goes(w, IF pc[w] = "join" THEN "call" ELSE "sleep")
  /\ UNCHANGED <<broker, queue, told, connected, late, worker, watchdog, events>>
------------------------------------------------------------------------------
(* Mutant: a worker that has not come back from its attempt is left alone.   *)
NobodyReported == worker

(* The rows of the workers, with those whose attempt is too old degraded.    *)
Reported == [w \in Workers |-> IF w \in late THEN "DEGRADED" ELSE worker[w]]

(* Mutant: freshness is not told for data that was told stale.               *)
RecoversSilently == row

(* The row of a tick seen fresh again; other data recover silently.          *)
Recovers == IF "tick" \in stale \ old THEN "CONNECTED" ELSE row

(* Mutant: data told stale once are left out of every later round.           *)
RoundKeepsStale ==
  /\ watch = "sleep"
  /\ row' = Recovers
  /\ scan' = {i \in DOMAIN Data : Data[i] \in old \ stale}
  /\ watch' = IF scan' = {} THEN "sleep" ELSE "tell"
  /\ worker' = Reported
  /\ UNCHANGED <<positions, connected, pc, old, late, stale, events>>

(* A round of _watchdog_loop up to the first event it has to publish: the    *)
(* heartbeat, the late workers, and the ages, which are read once, before    *)
(* any of them is told.                                                      *)
Round ==
  /\ watch = "sleep"
  /\ row' = Recovers
  /\ stale' = stale \cap old
  /\ scan' = {i \in DOMAIN Data : Data[i] \in old \ stale}
  /\ watch' = IF scan' = {} THEN "sleep" ELSE "tell"
  /\ worker' = Reported
  /\ UNCHANGED <<positions, connected, pc, old, late, events>>

(* The STALE row and DATA_STALE of the next component.                       *)
Tell ==
  /\ watch = "tell"
  /\ \E i \in scan :
       /\ \A j \in scan : i <= j
       /\ row' = IF Data[i] = "tick" THEN "STALE" ELSE row
       /\ stale' = stale \cup {Data[i]}
       /\ scan' = scan \ {i}
  /\ watch' = IF scan' = {} THEN "sleep" ELSE "tell"
  /\ UNCHANGED <<positions, connected, pc, old, late, worker, events>>

(* Nothing in the watchdog catches an exception: its task ends.              *)
WatchdogEnds ==
  /\ watch # "dead" /\ Count(1)
  /\ watch' = "dead" /\ scan' = {}
  /\ UNCHANGED <<positions, connected, pc, old, late, worker, stale, row>>
------------------------------------------------------------------------------
(* Time passes: data, or the attempt of a worker, exceeds its limit.         *)
Slow(w) ==
  /\ w \notin late /\ late' = late \cup {w}
  /\ IF pc[w] = "dead" THEN UNCHANGED events ELSE Count(1)
  /\ UNCHANGED <<positions, connected, pc, old, worker, watchdog>>

Ages(d) ==
  /\ d \notin old /\ old' = old \cup {d}
  /\ IF d \in Workers /\ pc[d] = "dead" THEN UNCHANGED events ELSE Count(1)
  /\ UNCHANGED <<positions, connected, pc, late, worker, watchdog>>

(* The demo worker, the operator or a stop opens, changes or closes.         *)
Trades(p) ==
  /\ Count(1)
  /\ \E next \in {"first", "second", "closed"} :
       /\ IF broker[p] = "none" THEN next = "first" ELSE next # broker[p] /\ broker[p] # "closed"
       /\ broker' = [broker EXCEPT ![p] = next]
  /\ UNCHANGED <<memory, table, queue, told, connected, pc, old, late, worker, watchdog>>

WorkerSteps(w) ==
  \/ Wake(w) \/ Finds(w) \/ Connects(w) \/ Synchronizes(w) \/ CallDisconnected(w)
  \/ w = "tick" /\ (TickReads \/ TickPublishes \/ TickSucceeds)
  \/ w = "account" /\ AccountReads

WatchdogSteps == Round \/ Tell

Next ==
  \/ \E w \in Workers : WorkerSteps(w) \/ CallRaises(w) \/ Slow(w)
  \/ TickRaises
  \/ WatchdogSteps \/ WatchdogEnds
  \/ \E d \in Components : Ages(d)
  \/ \E p \in Tickets : Trades(p)

Spec == Init /\ [][Next]_vars

(* The event loop runs every task, and time passes.                          *)
FairSpec ==
  /\ Spec
  /\ \A w \in Workers : WF_vars(WorkerSteps(w))
  /\ \A w \in Workers : WF_vars(pc[w] = "dead" /\ Slow(w))
  /\ WF_vars(WatchdogSteps)
------------------------------------------------------------------------------
(* The events of a position tell a possible story, although three tasks      *)
(* replace the memory they are derived from: it opens at most once and       *)
(* first, ends at most once and last (_fast_loop, _account_loop).            *)
StoriesAreSound ==
  \A p \in Tickets : \A i \in DOMAIN told[p] :
    /\ told[p][i] = "open" => i = 1
    /\ told[p][i] = "gone" => i = Len(told[p])

(* A position is told gone only when the broker has closed it, whatever      *)
(* reads fail (read_open_positions).                                         *)
GoneIsClosed ==
  \A p \in Tickets :
    (\E i \in DOMAIN told[p] : told[p][i] = "gone") => broker[p] = "closed"

(* Memory and tables end up with the positions of the broker, through any    *)
(* order of reads, failures and reconnections, unless the account worker has *)
(* ended.                                                                    *)
RecordsConverge ==
  <>[](pc["account"] = "dead" \/ (table = View /\ memory = View))

(* Data that stay old are told stale, however often they were stale before,  *)
(* and the tick's health row then says so, unless an exception has ended the *)
(* watchdog (_watchdog_loop).                                                *)
ToldStale(d) == d \in stale /\ (d = "tick" => row = "STALE")

StaleIsTold ==
  \A d \in Components :
    d \in old ~> (ToldStale(d) \/ d \notin old \/ watch = "dead")

(* A stale tick that is read again is told connected (_watchdog_loop).       *)
TickRowFollows ==
  (row = "STALE" /\ "tick" \notin old)
    ~> (row = "CONNECTED" \/ "tick" \in old \/ watch = "dead")

(* A worker whose task has ended is reported degraded and stays so, though   *)
(* the exception that ended it kept it from saying so itself (_worker,       *)
(* _watchdog_loop).                                                          *)
DeadIsReported ==
  <>[](\A w \in Workers :
         pc[w] = "dead" => worker[w] = "DEGRADED" \/ watch = "dead")

(* What holds in every state: the published events of a position tell a      *)
(* possible story, and none is told gone that the broker has.                *)
StoriesAreTrue == TypeOK /\ StoriesAreSound /\ GoneIsClosed

(* Data that grow old are told stale, a tick that is read again connected.   *)
FreshnessIsTold == StaleIsTold /\ TickRowFollows
==============================================================================
