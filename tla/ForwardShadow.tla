----------------------------- MODULE ForwardShadow -----------------------------
(* services/forward_shadow.py with its strategies: the worker of the Live    *)
(* process that evaluates each closed M5 candle, stores a signal with its    *)
(* virtual trade, and hands it to demo execution.                            *)
(*                                                                           *)
(* A step ends at a commit or at an await.  Candles and zones are those of   *)
(* CandleHistory.  A tick stands for all that a later snapshot of the same   *)
(* candle may show differently.                                              *)
EXTENDS CandleHistory

CONSTANTS
  Ticks,
  Lookback,    \* live_candle_lookback, in candles (100)
  Capacity,    \* of the queue (8)
  Faults,      \* exceptions may occur
  MaxGen       \* bound: starts of the process

ASSUME ForwardAssumption ==
  /\ Zones \subseteq Nat
  /\ None \notin Ticks \cup Zones
  /\ \A b \in Bars : /\ b.trade \in {"OPEN", "TP", "SL", "AMBIGUOUS"}
                     /\ b.momentum \notin Zones   \* a swing is not a zone
  /\ {Age, MaxTouches, Horizon, Capacity, MaxCandle, MaxGen} \subseteq Nat \ {0}
  /\ Lookback \in Nat /\ Lookback >= Age
  /\ Faults \in BOOLEAN

VARIABLES
  session,      \* forward_validation_sessions: the one that is not in ERROR
  since,        \* its started_at
  signal,       \* forward_validation_signals, each with its forward trade
  candidate,    \* strategy_intelligence: one row per candle
  evaluation,   \* pair_zone_evaluations
  health,       \* system_health of worker:forward_shadow
  gen,          \* runtime_generation_id
  pc,           \* where the worker's task is
  queue, queued, processed,
  last,         \* _last_closed_m5
  failing,      \* _failure_count > 0
  confirmed,    \* PairZoneV1._confirmed
  invalidated,  \* PairZoneV1._invalidated
  item,         \* the snapshot being processed
  found,        \* the zone of its decision
  intelligence, \* intelligence_record is set
  handed        \* signals given to execution_handler

database == <<session, since, signal, candidate, evaluation>>
strategy == <<confirmed, invalidated>>
inbox == <<queue, queued, processed, last>>
work == <<item, found, intelligence>>
vars == <<bar, database, health, gen, pc, inbox, failing, strategy, work, handed>>

Events == {b.momentum : b \in Bars} \ {None}
Snapshots == [at : Candles, tick : Ticks]
NoItem == [at |-> 0, tick |-> None]

TradeStates == {"OPEN", "TP", "SL", "AMBIGUOUS", "EXPIRED"}
SignalRows == [setup : Zones \cup Events \cup {None}, tick : Ticks \cup {None}, trade : TradeStates]

Stages == {"down", "off", "wait", "notify", "momentum", "breakout", "pair", "link",
           "canonical", "execute", "ended"}
Awaits == {"wait", "notify", "breakout", "canonical", "execute", "ended"}

TypeOK ==
  /\ bar \in Seq(Bars) /\ closed \in 0..MaxCandle
  /\ session \in {"none", "ACTIVE", "PAUSED"}
  /\ since \in 0..(MaxCandle + 1)
  /\ signal \in [Keys -> SignalRows]
  /\ candidate \in [Candles -> {"none", "bare", "evidence", "linked"}]
  /\ evaluation \in [gen : 0..MaxGen, at : 0..MaxCandle, known : BOOLEAN, zone : Zones \cup {None}]
  /\ health \in [state : {"CONNECTED", "DEGRADED", "ERROR", "STARTING"},
                 gen : 0..MaxGen, last : 0..MaxCandle]
  /\ gen \in 0..MaxGen
  /\ pc \in Stages
  /\ queue \in Seq(Snapshots) /\ Len(queue) <= Capacity
  /\ queued \subseteq Candles
  /\ processed \subseteq Candles
  /\ last \in 0..MaxCandle
  /\ failing \in BOOLEAN
  /\ confirmed \subseteq Zones
  /\ invalidated \subseteq Zones
  /\ item \in Snapshots \cup {NoItem}
  /\ found \in Zones \cup {None}
  /\ intelligence \in BOOLEAN
  /\ handed \subseteq Keys

Init ==
  /\ bar = <<>>
  /\ session \in {"none", "PAUSED"} /\ since = 0   \* none, or one of an earlier day
  /\ signal = [k \in Keys |-> NoSignal]
  /\ candidate = [c \in Candles |-> "none"]
  /\ evaluation = [gen |-> 0, at |-> 0, known |-> FALSE, zone |-> None]
  /\ health = [state |-> "STARTING", gen |-> 0, last |-> 0]
  /\ gen = 0 /\ pc = "down"
  /\ queue = <<>> /\ queued = {} /\ processed = {} /\ last = 0 /\ failing = FALSE
  /\ confirmed = {} /\ invalidated = {}
  /\ item = NoItem /\ found = None /\ intelligence = FALSE
  /\ handed = {}
------------------------------------------------------------------------------
(* The strategies.                                                           *)
Recent(t) == {z \in Zones : z <= t /\ t - z <= Age}
Seen(z, t) == {c \in 1..t : c > z /\ c + Lookback > t}
(* Mutant: a break is looked for in the new candle only, as it is remembered.*)
LifecycleIncremental(z, t) ==
  LET those == Seen(z, t) IN
  IF z \in invalidated \/ Broken(those \cap {t}) THEN "INVALIDATED"
  ELSE IF Touches(those) > MaxTouches THEN "EXPIRED"
  ELSE IF FirstConfirmation(those) # {} THEN "CONFIRMED" ELSE "ACTIVE"

(* _lifecycle; CREATED, ACTIVE and TOUCHED make no difference here.          *)
Lifecycle(z, t) ==
  LET those == Seen(z, t) IN
  IF z \in invalidated \/ Broken(those) THEN "INVALIDATED"
  ELSE IF Touches(those) > MaxTouches THEN "EXPIRED"
  ELSE IF FirstConfirmation(those) # {} THEN "CONFIRMED" ELSE "ACTIVE"

In(lifecycle, t) == {z \in Recent(t) : Lifecycle(z, t) = lifecycle}

(* Zones confirmed by this very candle, and by no earlier evaluation.        *)
Candidates(t) == {z \in In("CONFIRMED", t) \ confirmed : t \in FirstConfirmation(Seen(z, t))}
Chosen(those) == IF those = {} THEN None ELSE CHOOSE z \in those : TRUE   \* sorted by id
Newest(those) == IF those = {} THEN None ELSE CHOOSE z \in those : \A y \in those : y <= z

(* Mutant: the newest candle is looked at.                                   *)
BreakoutOfNewest(t) == Breakout(closed)

(* What MomentumBreakoutV1 is given ends with the candle of the snapshot.    *)
BreakoutEvent(t) == Breakout(t)

(* evaluate_decision: the first candle that reaches a price decides; at the  *)
(* horizon the trade expires.                                                *)
Outcome(at) ==
  LET future == {c \in (at + 1)..(at + Horizon) : c <= closed}
      hits == {c \in future : bar[c].trade # "OPEN"}
  IN IF hits # {} THEN bar[CHOOSE c \in hits : \A d \in hits : c <= d].trade
     ELSE IF Cardinality(future) < Horizon THEN "OPEN" ELSE "EXPIRED"
------------------------------------------------------------------------------
CandleCloses ==
  /\ closed < MaxCandle
  /\ \E b \in Bars : bar' = Append(bar, b)
  /\ UNCHANGED <<database, health, gen, pc, inbox, failing, strategy, work, handed>>

Health(state) == [state |-> state, gen |-> gen, last |-> last]

(* submit, called with each snapshot of the account worker.                  *)
Accepts(t) == t \in Candles /\ pc \in Awaits /\ t = closed /\ last' = t

(* Mutant: a queue without maxsize.                                          *)
EnqueueUnbounded(t) ==
  /\ Accepts(t) /\ t \notin queued \cup processed
  /\ \E x \in Ticks : queue' = Append(queue, [at |-> t, tick |-> x])
  /\ queued' = queued \cup {t}
  /\ UNCHANGED <<bar, database, health, gen, pc, processed, failing, strategy, work, handed>>

Enqueue(t) ==
  /\ Accepts(t) /\ t \notin queued \cup processed /\ Len(queue) < Capacity
  /\ \E x \in Ticks : queue' = Append(queue, [at |-> t, tick |-> x])
  /\ queued' = queued \cup {t}
  /\ UNCHANGED <<bar, database, health, gen, pc, processed, failing, strategy, work, handed>>

AlreadyThere(t) ==
  /\ Accepts(t) /\ t \in queued \cup processed
  /\ UNCHANGED <<bar, database, health, gen, pc, queue, queued, processed, failing, strategy, work, handed>>

QueueFull(t) ==
  /\ Accepts(t) /\ t \notin queued \cup processed /\ Len(queue) = Capacity
  /\ failing' = TRUE
  /\ health' \in {health, [Health("DEGRADED") EXCEPT !.last = t]}   \* at most every 5 seconds
  /\ UNCHANGED <<bar, database, gen, pc, queue, queued, processed, strategy, work, handed>>

Heartbeat ==
  /\ pc = "wait"
  /\ health' = Health(IF failing THEN "DEGRADED" ELSE "CONNECTED")
  /\ UNCHANGED <<bar, database, gen, pc, inbox, failing, strategy, work, handed>>
------------------------------------------------------------------------------
Goes(next) == pc' = next

(* _run takes a snapshot; PairZoneV1.evaluate decides (the direction of the  *)
(* H1 candles, spread and risk may forbid the trade), and                    *)
(* _persist_pair_zone_evaluation replaces the session's row.                 *)
Take ==
  /\ pc = "wait" /\ queue # <<>>
  /\ LET t == Head(queue).at
         before == t <= since
         live == In("ACTIVE", t) \cup In("CONFIRMED", t)
     IN
     /\ item' = Head(queue) /\ queue' = Tail(queue) /\ queued' = queued \ {t}
     /\ \E z \in Candidates(t) \cup {Newest(live)} :
          /\ found' \in {None} \cup ({z} \cap {Chosen(Candidates(t))})
          /\ evaluation' = [gen |-> gen, at |-> t, known |-> ~before, zone |-> IF before THEN None ELSE z]
     /\ confirmed' = confirmed \cup In("CONFIRMED", t)
     /\ invalidated' = (invalidated \cup In("INVALIDATED", t)) \cap Recent(t)
  /\ Goes("notify")
  /\ UNCHANGED <<bar, session, since, signal, candidate, health, gen, processed, last, failing,
                 intelligence, handed>>

(* The transition was notified.  persist_intelligence_record keeps the evidence of the first evaluation,   *)
(* and raises when another evaluation found another; either is tolerated.    *)
Intelligence ==
  /\ pc = "notify" /\ item.at > since
  /\ LET incoming == IF found = None THEN "bare" ELSE "evidence"
         row == candidate[item.at]
     IN \/ /\ row = "none"
           /\ candidate' = [candidate EXCEPT ![item.at] = incoming]
           /\ intelligence' = TRUE
        \/ /\ row # "none"
           /\ intelligence' = ((row = "bare") <=> (incoming = "bare"))
           /\ UNCHANGED candidate
        \/ Faults /\ intelligence' = FALSE /\ UNCHANGED candidate
  /\ Goes("momentum")
  /\ UNCHANGED <<bar, session, since, signal, evaluation, health, gen, inbox, failing, strategy,
                 item, found, handed>>

(* _persist_signal finds the same signal, or no signal of this candle and    *)
(* of this setup (unique keys); anything else is a conflict.                 *)
Row(kind) == signal[<<kind, item.at>>]
Same(kind, setup) == Row(kind) = [Row(kind) EXCEPT !.setup = setup, !.tick = item.tick]
FreshOfCandle(kind, setup) == Row(kind).setup = None   \* mutant: no unique key on the setup
Fresh(kind, setup) == Row(kind).setup = None /\ \A c \in Candles : signal[<<kind, c>>].setup # setup
Insert(kind, setup) ==
  signal' = [signal EXCEPT ![<<kind, item.at>>] = [setup |-> setup, tick |-> item.tick, trade |-> "OPEN"]]

(* MomentumBreakoutV1.evaluate, whose spread and risk gates see the tick;    *)
(* _process_momentum_signal stores, notifies and executes.  A conflict is    *)
(* caught.                                                                   *)
Momentum ==
  /\ pc = "momentum"
  /\ LET event == BreakoutEvent(item.at) IN
     \/ /\ event # None /\ (Same("momentum", event) \/ Fresh("momentum", event))
        /\ IF Same("momentum", event) THEN UNCHANGED signal ELSE Insert("momentum", event)
        /\ handed' = handed \cup {<<"momentum", item.at>>}
        /\ Goes("breakout")
     \/ Goes("pair") /\ UNCHANGED <<signal, handed>>
  /\ UNCHANGED <<bar, session, since, candidate, evaluation, health, gen, inbox, failing, strategy, work>>

AtPair == pc \in {"pair", "breakout"}

(* Mutant: a row that exists is overwritten.                                 *)
PairSignalOverwrites ==
  /\ AtPair /\ found # None
  /\ Insert("zone", found)
  /\ Goes("link")
  /\ UNCHANGED <<bar, session, since, candidate, evaluation, health, gen, inbox, failing, strategy, work, handed>>

PairSignal ==
  /\ AtPair /\ found # None
  /\ \/ Same("zone", found) /\ UNCHANGED signal
     \/ Fresh("zone", found) /\ Insert("zone", found)
  /\ Goes("link")
  /\ UNCHANGED <<bar, session, since, candidate, evaluation, health, gen, inbox, failing, strategy, work, handed>>

(* link_intelligence_forward_provenance; without the link the signal is      *)
(* notified, and not executed.                                               *)
Link ==
  /\ pc = "link"
  /\ \/ /\ intelligence /\ candidate[item.at] \in {"evidence", "linked"}
        /\ candidate' = [candidate EXCEPT ![item.at] = "linked"]
        /\ UNCHANGED intelligence
     \/ /\ ~intelligence \/ Faults
        /\ intelligence' = FALSE
        /\ UNCHANGED candidate
  /\ Goes("canonical")
  /\ UNCHANGED <<bar, session, since, signal, evaluation, health, gen, inbox, failing, strategy,
                 item, found, handed>>

(* Mutant: signals without the link are executed too.                        *)
CanonicalUnlinked ==
  /\ pc = "canonical"
  /\ Goes("execute")
  /\ handed' = handed \cup {<<"zone", item.at>>}
  /\ UNCHANGED <<bar, database, health, gen, inbox, failing, strategy, work>>

(* canonical_signal was notified; the handler of a linked signal is called,  *)
(* and whatever it raises is tolerated.                                      *)
Canonical ==
  /\ pc = "canonical" /\ intelligence
  /\ Goes("execute")
  /\ handed' = handed \cup {<<"zone", item.at>>}
  /\ UNCHANGED <<bar, database, health, gen, inbox, failing, strategy, work>>

(* What is left of a snapshot: candles from before the session are context. *)
Last ==
  \/ pc = "notify" /\ item.at <= since
  \/ AtPair /\ found = None
  \/ pc = "canonical" /\ ~intelligence
  \/ pc = "execute"

(* Mutant: a trade expires one candle early.                                 *)
FinishExpiresEarly ==
  /\ Last
  /\ signal' = [k \in Keys |->
       IF signal[k].setup # None /\ signal[k].trade = "OPEN"
       THEN [signal[k] EXCEPT !.trade = IF Outcome(k[2]) = "OPEN" /\ closed >= k[2] + Horizon - 1
                                        THEN "EXPIRED" ELSE Outcome(k[2])]
       ELSE signal[k]]
  /\ failing' = (failing /\ item.at <= since)
  /\ health' = Health("CONNECTED")
  /\ processed' = processed \cup {item.at}
  /\ item' = NoItem /\ found' = None /\ intelligence' = FALSE
  /\ Goes("wait")
  /\ UNCHANGED <<bar, session, since, candidate, evaluation, gen, queue, queued, last, strategy, handed>>

(* _evaluate_open_trades with the candles stored by now, and the health.     *)
Finish ==
  /\ Last
  /\ signal' = [k \in Keys |->
       IF signal[k].setup # None /\ signal[k].trade = "OPEN"
       THEN [signal[k] EXCEPT !.trade = Outcome(k[2])] ELSE signal[k]]
  /\ failing' = (failing /\ item.at <= since)
  /\ health' \in {Health("CONNECTED")} \cup
       (IF item.at > since /\ ~intelligence THEN {Health("DEGRADED")} ELSE {})
  /\ processed' = processed \cup {item.at}
  /\ item' = NoItem /\ found' = None /\ intelligence' = FALSE
  /\ Goes("wait")
  /\ UNCHANGED <<bar, session, since, candidate, evaluation, gen, queue, queued, last, strategy, handed>>

(* Mutant: nothing is recorded at the end.                                   *)
EndsSilently ==
  /\ Goes("ended")
  /\ failing' = TRUE
  /\ item' = NoItem /\ found' = None /\ intelligence' = FALSE
  /\ UNCHANGED <<bar, database, health, gen, inbox, strategy, handed>>

(* What leaves _run ends the task, for as long as the process lives.         *)
Ends ==
  /\ Goes("ended")
  /\ failing' = TRUE
  /\ health' = Health("DEGRADED")
  /\ item' = NoItem /\ found' = None /\ intelligence' = FALSE
  /\ UNCHANGED <<bar, database, gen, inbox, strategy, handed>>

Conflict ==
  /\ AtPair /\ found # None
  /\ ~Same("zone", found) /\ ~Fresh("zone", found)
  /\ Ends

(* A strategy or the database raises.                                        *)
Raises == Faults /\ pc \in {"notify", "pair", "execute"} /\ Ends
------------------------------------------------------------------------------
(* start: a session is resumed or created; a changed strategy file leaves    *)
(* the worker off.                                                           *)
Start ==
  /\ pc = "down" /\ gen < MaxGen
  /\ gen' = gen + 1
  /\ \/ /\ session' = "ACTIVE"
        /\ since' = IF session = "none" THEN closed + 1 ELSE since
        /\ health' = [state |-> "CONNECTED", gen |-> gen', last |-> 0]
        /\ Goes("wait")
     \/ /\ Faults
        /\ health' = [state |-> "ERROR", gen |-> gen', last |-> 0]
        /\ Goes("off")
        /\ UNCHANGED <<session, since>>
  /\ UNCHANGED <<bar, signal, candidate, evaluation, inbox, failing, strategy, work, handed>>

Leaves ==
  /\ gen < MaxGen   \* bound: a process that can start again
  /\ Goes("down")
  /\ queue' = <<>> /\ queued' = {} /\ processed' = {} /\ last' = 0 /\ failing' = FALSE
  /\ confirmed' = {} /\ invalidated' = {}
  /\ item' = NoItem /\ found' = None /\ intelligence' = FALSE
  /\ UNCHANGED <<bar, since, signal, candidate, evaluation, health, gen, handed>>

Stop ==
  /\ pc \in Awaits \cup {"off"}
  /\ session' = IF pc = "off" THEN session ELSE "PAUSED"
  /\ Leaves

Dies == pc # "down" /\ Leaves /\ UNCHANGED session

Work ==
  \/ Take \/ Intelligence \/ Momentum \/ PairSignal \/ Link \/ Canonical \/ Finish \/ Conflict

Submit == \E t \in Candles : Enqueue(t) \/ AlreadyThere(t) \/ QueueFull(t)

Next == CandleCloses \/ Submit \/ Heartbeat \/ Work \/ Raises \/ Start \/ Stop \/ Dies

(* Candles close, the account worker submits each newest candle until it is  *)
(* taken, the worker works and the supervisor starts Live again.             *)
Fairness ==
  /\ WF_vars(CandleCloses) /\ WF_vars(Enqueue(closed)) /\ WF_vars(Work) /\ WF_vars(Start)

Spec == Init /\ [][Next]_vars /\ Fairness
------------------------------------------------------------------------------
(* Mutant: the row of another generation is shown.                           *)
ExposedAnyGeneration ==
  /\ health.state = "CONNECTED" /\ pc # "down" /\ health.gen = gen
  /\ session = "ACTIVE"
  /\ evaluation.at = health.last /\ evaluation.known

(* pair_zone_status shows the row of the running process, evaluated for the *)
(* newest candle that process has seen (staleness left out).                 *)
Exposed ==
  /\ health.state = "CONNECTED" /\ pc # "down" /\ health.gen = gen
  /\ session = "ACTIVE"
  /\ evaluation.gen = health.gen /\ evaluation.at = health.last /\ evaluation.known

(* A stored signal is what the complete history says: the first confirmation *)
(* of a zone that is not broken, however often the process lost its memory   *)
(* and whichever candles it missed.                                          *)
SignalsAreDue ==
  \A c \in Candles : LET z == signal[<<"zone", c>>].setup IN
    z # None => c > since /\ Due(z, c)

(* One signal, and so one trade and one order, per zone and per breakout.    *)
OneSignalPerSetup ==
  \A k, l \in Keys : signal[k].setup # None /\ signal[k].setup = signal[l].setup => k = l

(* A trade is settled as all the candles, also the later ones, say.          *)
SettledForGood == \A k \in Keys : Settled(k[2], signal[k].trade)

(* Signals are never rewritten, and settled trades never again.              *)
SignalsAreFinal ==
  [][\A k \in Keys : /\ signal[k].setup # None => [signal'[k] EXCEPT !.trade = signal[k].trade] = signal[k]
                     /\ signal[k].trade # "OPEN" => signal'[k].trade = signal[k].trade]_vars

(* What the handler is given is stored, and a zone's signal is linked to the *)
(* evidence of its own evaluation.                                           *)
HandedIsProved ==
  \A k \in handed : signal[k].setup # None /\ (k[1] = "zone" => candidate[k[2]] = "linked")

(* An exposed zone was evaluated by the running process at its newest        *)
(* candle, and is alive in the complete history.                             *)
StatusIsTrue ==
  Exposed => /\ evaluation.gen = gen
             /\ evaluation.zone # None => Alive(evaluation.zone, evaluation.at)

(* A worker that ended is never reported healthy.                            *)
EndedIsReported == pc = "ended" => health.state # "CONNECTED"

(* Every trade whose horizon closes is settled, unless the worker ended or   *)
(* was left off.                                                             *)
TradesSettle ==
  \A k \in Keys : k[2] + Horizon <= MaxCandle =>
    (signal[k].setup # None ~> signal[k].trade # "OPEN" \/ pc \in {"ended", "off"})

(* "restart-safe idempotency": a start does not end the worker.  The code    *)
(* does not keep it.                                                         *)
RestartIsSafe == pc # "ended"

(* What holds in every state: one signal per setup, trades settled as all    *)
(* candles say, handed signals stored and linked, a status that is true of the*)
(* history, and no ended worker that looks healthy.                          *)
SignalsAreSound ==
  /\ TypeOK /\ OneSignalPerSetup /\ SettledForGood
  /\ HandedIsProved /\ StatusIsTrue /\ EndedIsReported

(* Rows, trades and what execution is given are those of a log whose only    *)
(* reader sees the complete history: SignalLog, for a session that exists.   *)
Log == INSTANCE SignalLog WITH begun <- session # "none"

ImplementsLog == Log!Spec
==============================================================================
