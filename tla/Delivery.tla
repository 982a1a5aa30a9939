------------------------------- MODULE Delivery -------------------------------
(* events/bus.py with its two subscribers (EventRepository and the Telegram  *)
(* notifier), services/pair_zone_notifications.py, the history worker of     *)
(* services/live.py with mt5/history.py and HistoryRepository, and           *)
(* api/realtime.py: how an outcome at the broker, or a transition of a Pair  *)
(* Zone, becomes a row of system_events, a Telegram message and a message to *)
(* the dashboards.                                                           *)
(*                                                                           *)
(* An event is its identity, <<kind, of, to>>.  Those that the notification  *)
(* service publishes have an identity derived from what they are about; the  *)
(* reports of the history worker have a new one each.  A step of the Live    *)
(* process ends at an await.                                                 *)
EXTENDS Naturals, Sequences, FiniteSets

CONSTANTS
  Times,       \* the deals that close a Demo position: the time of each
  Zones,       \* identities of Pair Zones, positive numbers
  Findings,    \* what an evaluation may find: the current zone or 0, whether
               \* it was touched, and whether the previous zone is invalidated
  Overlap,     \* overlap_seconds of history_window (5)
  Delay,       \* how late MT5 may show a deal
  MaxAttempts, \* attempts of a Telegram delivery (3)
  MaxTime,     \* bound: the clock
  MaxRounds,   \* bound: history rounds whose reports are kept
  MaxCycles,   \* bound: evaluations of the forward worker
  MaxTrouble   \* bound: failed calls, and deaths of a process

ASSUME DeliveryAssumption ==
  /\ Times \in Seq(Nat) /\ Zones \subseteq Nat \ {0}
  /\ Findings \subseteq [current : Zones \cup {0}, touched : BOOLEAN, invalid : BOOLEAN]
  /\ {Overlap, Delay, MaxRounds, MaxCycles, MaxTrouble} \subseteq Nat
  /\ MaxAttempts \in Nat \ {0} /\ MaxTime \in Nat \ {0}

VARIABLES
  clock,    \* the present
  visible,  \* deals that MT5 shows
  stored,   \* broker_deals: the ones that the database has
  cursor,   \* history_cursors: time of the last deal, 0 for none
  ledger,   \* system_events
  zone,     \* the zone of the last evaluation, 0 for none
  healthy,  \* _history_health_state of the Live process
  task,     \* where the two tasks of the Live process are
  lock,     \* holder of the notification service's lock
  hub,      \* of the API process: where it polls from, and how many rows it sent
  rounds, cycles, trouble,
  alerted,  \* history: events whose delivery to Telegram was begun
  again,    \* history: those for which it was begun twice
  lost,     \* history: outcomes whose publication was given up
  shown     \* history: rows that this hub has broadcast

market == <<clock, visible>>
deals == <<stored, cursor>>
live == <<healthy, task, lock>>
bounds == <<rounds, cycles, trouble>>
alerts == <<alerted, again>>
vars == <<market, deals, ledger, zone, live, hub, bounds, alerts, lost, shown>>

Deals == DOMAIN Times
Tasks == {"history", "forward"}
Free == "free"
Reports == {"completed", "recovered", "failed"}
Kinds == {"closed", "active", "touched", "invalidated", "replaced"} \cup Reports

Closed(d) == <<"closed", d, 0>>
Active(z) == <<"active", z, 0>>
Touched(z) == <<"touched", z, 0>>
Invalidated(z) == <<"invalidated", z, 0>>
Replaced(y, z) == <<"replaced", y, z>>
Report(kind) == <<kind, rounds, 0>>

Row(event, stamp) == [event |-> event, stamp |-> stamp]
Rows == [event : Kinds \X Nat \X Nat, stamp : 0..MaxTime]
Phases == [at : {"idle", "read", "calls", "sending", "reporting"}, facts : SUBSET Deals,
           todo : Seq(Rows), attempt : 0..MaxAttempts]
Idle == [at |-> "idle", facts |-> {}, todo |-> <<>>, attempt |-> 0]
Waking == [cursor |-> 0, count |-> 0]

TypeOK ==
  /\ clock \in 1..MaxTime
  /\ visible \subseteq Deals /\ stored \subseteq visible
  /\ cursor \in 0..MaxTime
  /\ ledger \subseteq Rows
  /\ zone \in Zones \cup {0}
  /\ healthy \in BOOLEAN
  /\ task \in [Tasks -> Phases]
  /\ lock \in Tasks \cup {Free}
  /\ lock # Free => task[lock].at = "sending"
  /\ hub \in [cursor : Nat, count : Nat]
  /\ rounds \in 0..MaxRounds + 1 /\ cycles \in 0..MaxCycles /\ trouble \in 0..MaxTrouble
  /\ again \subseteq alerted /\ shown \subseteq ledger
  /\ lost \subseteq {Closed(d) : d \in Deals}

Init ==
  /\ clock = 1 /\ visible = {} /\ stored = {} /\ cursor = 0
  /\ ledger = {} /\ zone = 0
  /\ healthy = TRUE /\ task = [t \in Tasks |-> Idle] /\ lock = Free
  /\ hub = Waking
  /\ rounds = 0 /\ cycles = 0 /\ trouble = 0
  /\ alerted = {} /\ again = {} /\ lost = {} /\ shown = {}

Trouble == trouble < MaxTrouble /\ trouble' = trouble + 1 /\ UNCHANGED <<rounds, cycles>>
Goto(t, state) == task' = [task EXCEPT ![t] = state]
Events(rows) == {rows[i].event : i \in DOMAIN rows}
InLedger(e) == \E r \in ledger : r.event = e
-------------------------------------------------------------------------------
(* The market, and MT5.                                                      *)

\* A deal shows at most Delay after its time.
Tick ==
  /\ clock < MaxTime
  /\ \A d \in Deals \ visible : clock < Times[d] + Delay
  /\ clock' = clock + 1
  /\ UNCHANGED <<visible, deals, ledger, zone, live, hub, bounds, alerts, lost, shown>>

Show(d) ==
  /\ d \notin visible /\ Times[d] <= clock
  /\ visible' = visible \cup {d}
  /\ UNCHANGED <<clock, deals, ledger, zone, live, hub, bounds, alerts, lost, shown>>
-------------------------------------------------------------------------------
(* Publication: the bus calls the database subscriber, which is critical and *)
(* writes a row unless there is one, and then the Telegram subscriber.       *)

\* NOTIFIABLE_EVENT_TYPES
Notifiable(e) == e[1] # "completed"

\* Mutant: the Telegram subscriber comes first; then the other may fail.
WriteTelegramFirst(r) ==
  /\ alerted' = alerted \cup {r.event} /\ again' = again \cup ({r.event} \cap alerted)
  /\ ledger' \in {ledger, ledger \cup {r}}
\* The database subscriber of r's event, and the beginning of its delivery.
Write(r) ==
  /\ ledger' = ledger \cup {r}
  /\ IF Notifiable(r.event)
     THEN alerted' = alerted \cup {r.event} /\ again' = again \cup ({r.event} \cap alerted)
     ELSE UNCHANGED alerts

\* The database subscriber raises: the bus gives up, nobody else is called.
WriteRaises(r) == UNCHANGED <<ledger, alerts>>

Calling(t) == task[t].at = "calls" /\ task[t].todo # <<>>
Call(t) == Head(task[t].todo)
Rest(t, calls) ==
  IF t = "forward" /\ calls = <<>> THEN Idle ELSE [Idle EXCEPT !.at = "calls", !.todo = calls]
Return(t) == Goto(t, Rest(t, Tail(task[t].todo)))

\* observe_pair_zone asks, before the lock, whether the replaced zone was
\* reported as invalidated.
IsMoot(e) == e[1] = "replaced" /\ InLedger(Invalidated(e[2]))
\* Mutant: a replacement is always reported.
NeverMoot(e) == FALSE
Moot(e) == IsMoot(e)

\* Mutant: without the look into the ledger.
NeverPublished(r) == FALSE
\* _already_published.
AlreadyPublished(r) == InLedger(r.event)

Withhold(t) ==
  /\ Calling(t) /\ Moot(Call(t).event)
  /\ Return(t)
  /\ UNCHANGED <<market, deals, ledger, zone, healthy, lock, hub, bounds, alerts, lost, shown>>

\* _publish, to the first await of the delivery, which holds the lock.
Publish(t) ==
  /\ Calling(t) /\ ~Moot(Call(t).event) /\ lock = Free
  /\ IF AlreadyPublished(Call(t))
     THEN Return(t) /\ UNCHANGED <<ledger, alerts, lock>>
     ELSE /\ Write(Call(t))
          /\ Goto(t, [task[t] EXCEPT !.at = "sending", !.attempt = 1]) /\ lock' = t
  /\ UNCHANGED <<market, deals, zone, healthy, hub, bounds, lost, shown>>

\* The exception of a failed publication is swallowed: the event is given up.
PublishFails(t) ==
  /\ Calling(t) /\ ~Moot(Call(t).event) /\ lock = Free /\ ~AlreadyPublished(Call(t))
  /\ Trouble
  /\ WriteRaises(Call(t)) /\ Return(t)
  /\ lost' = lost \cup ({Call(t).event} \cap {Closed(d) : d \in Deals})
  /\ UNCHANGED <<market, deals, zone, healthy, lock, hub, shown>>

\* Mutant: the attempts are not counted.
RetriesForEver(t) == task[t].attempt
\* TelegramNotifier.send: an attempt that failed is repeated after a pause.
NextAttempt(t) == task[t].attempt + 1

Sending(t) == task[t].at \in {"sending", "reporting"}
Retry(t) ==
  /\ Sending(t) /\ NextAttempt(t) <= MaxAttempts
  /\ Goto(t, [task[t] EXCEPT !.attempt = NextAttempt(t)])
  /\ UNCHANGED <<market, deals, ledger, zone, healthy, lock, hub, bounds, alerts, lost, shown>>

\* Mutant: the lock is kept.
OverKeepingLock(t) ==
  /\ IF task[t].at = "sending" THEN Return(t) ELSE Goto(t, Idle)
  /\ UNCHANGED <<market, deals, ledger, zone, healthy, lock, hub, bounds, alerts, lost, shown>>
\* Nobody is told whether it was delivered.
Over(t) ==
  /\ IF task[t].at = "sending" THEN Return(t) /\ lock' = Free ELSE Goto(t, Idle) /\ UNCHANGED lock
  /\ UNCHANGED <<market, deals, ledger, zone, healthy, hub, bounds, alerts, lost, shown>>
Answered(t) == Sending(t) /\ Over(t)
GiveUp(t) == Sending(t) /\ NextAttempt(t) > MaxAttempts /\ Over(t)

-------------------------------------------------------------------------------
(* The history worker: _history_loop.                                        *)

history == task["history"]

\* Mutant: the window begins at the cursor.
WindowWithoutOverlap == {d \in visible : Times[d] >= cursor}
\* history_window and read_deals.
Window == {d \in visible : Times[d] + Overlap >= cursor}

Read ==
  /\ history.at = "idle"
  /\ Goto("history", [Idle EXCEPT !.at = "read", !.facts = Window])
  /\ rounds' = IF rounds <= MaxRounds THEN rounds + 1 ELSE rounds
  /\ UNCHANGED <<market, deals, ledger, zone, healthy, lock, hub, cycles, trouble, alerts, lost, shown>>

Earlier(d, e) == Times[d] < Times[e] \/ (Times[d] = Times[e] /\ d < e)
Lists(new, S) ==
  {q \in [1..Cardinality(S) -> new] : /\ \A d \in S : \E i \in DOMAIN q : q[i] = d
                                     /\ \A i, j \in DOMAIN q : i < j => Earlier(q[i], q[j])}
\* Mutant: only the last outcome of a batch is returned.
LastOutcome(new) == Lists(new, {d \in new : \A e \in new : e = d \/ Earlier(e, d)})
\* The outcomes of the deals that were not stored, as persist_deals lists them.
Outcomes(new) == Lists(new, new)

\* persist_deals and consume_reconciled_demo_outcomes.
Persist ==
  /\ history.at = "read"
  /\ \E new \in Outcomes(history.facts \ stored) :
       Goto("history", [Idle EXCEPT !.at = "calls",
                                    !.todo = [i \in DOMAIN new |-> Row(Closed(new[i]), Times[new[i]])]])
  /\ stored' = stored \cup history.facts
  /\ \/ history.facts = {} /\ UNCHANGED cursor
     \/ \E last \in history.facts :
          /\ \A d \in history.facts : Times[d] <= Times[last]
          /\ cursor' = Times[last]
  /\ UNCHANGED <<market, ledger, zone, healthy, lock, hub, bounds, alerts, lost, shown>>

\* Reports beyond the bound are neither kept nor sent.
Kept == rounds <= MaxRounds

\* The round is over: it is reported, and so is the end of a failure.
Complete ==
  /\ history.at = "calls" /\ history.todo = <<>>
  /\ healthy' = TRUE
  /\ LET completed == Row(Report("completed"), clock)
         recovered == Row(Report("recovered"), clock)
     IN IF Kept /\ ~healthy
        THEN /\ ledger' = ledger \cup {completed, recovered}
             /\ alerted' = alerted \cup {recovered.event} /\ again' = again \cup ({recovered.event} \cap alerted)
             /\ Goto("history", [Idle EXCEPT !.at = "reporting", !.attempt = 1])
        ELSE /\ ledger' = ledger \cup (IF Kept THEN {completed} ELSE {}) /\ UNCHANGED alerts
             /\ Goto("history", Idle)
  /\ UNCHANGED <<market, deals, zone, lock, hub, bounds, lost, shown>>

\* MT5 or the database raises, in a round or at its end.  The first failure is
\* reported, unless the database refuses that too.
HistoryFails ==
  /\ history.at \in {"read", "calls"} /\ (history.todo # <<>> => lock = Free)
  /\ Trouble
  /\ lost' = lost \cup Events(history.todo)
  /\ healthy' = FALSE
  /\ \/ /\ healthy /\ Kept
        /\ Write(Row(Report("failed"), clock))
        /\ Goto("history", [Idle EXCEPT !.at = "reporting", !.attempt = 1])
     \/ Goto("history", Idle) /\ UNCHANGED <<ledger, alerts>>
  /\ UNCHANGED <<market, deals, zone, lock, hub, shown>>
-------------------------------------------------------------------------------
(* The forward worker: observe_pair_zone, after each evaluation.             *)

Calls(previous, found, stamp) ==
  LET current == found.current
      events == (IF found.invalid THEN <<Invalidated(previous)>> ELSE <<>>)
                \o (IF current = 0 THEN <<>>
                    ELSE (IF previous \notin {0, current} THEN <<Replaced(previous, current)>> ELSE <<>>)
                         \o <<Active(current)>>
                         \o (IF found.touched THEN <<Touched(current)>> ELSE <<>>))
  IN [i \in DOMAIN events |-> Row(events[i], stamp)]

\* A candle has closed: its time is that of its opening.  The evaluation and
\* the zone that it found are one transaction.
Evaluate ==
  /\ task["forward"].at = "idle" /\ cycles < MaxCycles
  /\ cycles' = cycles + 1
  /\ \E found \in Findings :
       /\ found.invalid => zone # 0
       /\ zone' = found.current
       /\ Goto("forward", Rest("forward", Calls(zone, found, clock - 1)))
  /\ UNCHANGED <<market, deals, ledger, healthy, lock, hub, rounds, trouble, alerts, lost, shown>>

\* _notify_pair_zone swallows what the ledger's database raises.
NotifyFails ==
  /\ Calling("forward") /\ lock = Free
  /\ Trouble
  /\ Goto("forward", Idle)
  /\ UNCHANGED <<market, deals, ledger, zone, healthy, lock, hub, alerts, lost, shown>>

\* The Live process dies and is started again.
LiveDies ==
  /\ Trouble
  /\ lost' = lost \cup {e \in Events(history.todo) : ~InLedger(e)}
  /\ healthy' = TRUE /\ task' = [t \in Tasks |-> Idle] /\ lock' = Free
  /\ UNCHANGED <<market, deals, ledger, zone, hub, alerts, shown>>
-------------------------------------------------------------------------------
(* The hub: _poll.                                                           *)

\* Rows are read in the order of (timestamp, event id).  The identifiers of the
\* service's events have an arbitrary order; a report's timestamp is the exact
\* time of its publication, later than that of every other row of its tick.
Rank == [touched |-> 1, active |-> 2, replaced |-> 3, invalidated |-> 4, closed |-> 5,
         completed |-> 1, recovered |-> 2, failed |-> 3]
Key(r) ==
  LET e == r.event
  IN r.stamp * 1000 + (IF e[1] \in Reports THEN 500 + e[2] * 10 + Rank[e[1]] ELSE Rank[e[1]] * 10 + e[2])

\* Mutant: rows at the cursor are read again.
AboveOrAt == {r \in ledger : Key(r) >= hub.cursor}
Above == {r \in ledger : Key(r) > hub.cursor}

\* Mutant: the newest row first.
LastAbove == {r \in Above : \A s \in Above : Key(s) <= Key(r)}
FirstAbove == {r \in Above : \A s \in Above : Key(r) <= Key(s)}

\* _fetch_new_events reads up to 200 rows in a thread, and _poll broadcasts one
\* after the other: a step for each.  (What is written while a page is sent is
\* missed exactly if it would be after it.)
Poll ==
  \E r \in FirstAbove :
     /\ hub' = [cursor |-> Key(r), count |-> hub.count + 1]
     /\ shown' = shown \cup {r}
     /\ UNCHANGED <<market, deals, ledger, zone, live, bounds, alerts, lost>>

\* A new hub polls from the beginning.
ApiRestarts ==
  /\ Trouble
  /\ hub' = Waking /\ shown' = {}
  /\ UNCHANGED <<market, deals, ledger, zone, live, alerts, lost>>
-------------------------------------------------------------------------------
HistoryStep == Read \/ Persist \/ Complete
ServiceStep(t) == Withhold(t) \/ Publish(t) \/ Retry(t) \/ GiveUp(t)

Next ==
  \/ Tick \/ \E d \in Deals : Show(d)
  \/ \E t \in Tasks : ServiceStep(t) \/ Answered(t) \/ PublishFails(t)
  \/ HistoryStep \/ HistoryFails
  \/ Evaluate \/ NotifyFails
  \/ LiveDies
  \/ Poll \/ ApiRestarts

Spec == Init /\ [][Next]_vars

\* The tasks and the hub are scheduled, and a request to Telegram ends, at the
\* latest by its timeout; answers of Telegram, the clock, evaluations and
\* failures are not forced.
Fairness ==
  /\ WF_vars(HistoryStep)
  /\ \A t \in Tasks : WF_vars(ServiceStep(t))
  /\ WF_vars(Poll)
FairSpec == Spec /\ Fairness
-------------------------------------------------------------------------------
(* Properties.                                                               *)

\* "replaying a cycle or restarting the worker cannot create a notification
\* storm" (pair_zone_notifications.py, docstring): the delivery of an event is
\* begun at most once, whatever is repeated, fails or dies.
AlertedOnce == again = {}

\* What Telegram was told is on record: the dashboards can show it.
AlertIsRecorded == \A e \in alerted : InLedger(e)

\* A zone that was reported as invalidated is not reported as replaced after
\* that ("NOT_CLAIMED_INVALIDATED").
ReplacedIsNotInvalidated ==
  [][\A r \in ledger' \ ledger : r.event[1] = "replaced" => ~InLedger(Invalidated(r.event[2]))]_vars

\* A deal that was stored is reported, or will be by the round that stored it,
\* unless a failure or a death came between: no later round looks at it again.
OutcomeIsKept ==
  \A d \in stored : \/ InLedger(Closed(d)) \/ Closed(d) \in lost
                    \/ Closed(d) \in Events(history.todo)

\* The lock that serializes the notifications is free again and again: a
\* Telegram that does not answer delays the other task, and no more.
LockIsFreed == []<>(lock = Free)

\* A hub broadcasts no row twice.
ShownOnce == hub.count = Cardinality(shown)

\* Again and again all news have been passed on: every outcome that MT5 shows
\* is read and recorded, or was given up, also that of a deal which shows after
\* a later one has moved the cursor; and the reports, which are stamped when
\* they are published, have reached the dashboards.  (Events that are stamped
\* with the time of a candle or of a deal may not reach them: NothingIsMissed.)
NewsArePassedOn ==
  []<>(/\ \A d \in visible : InLedger(Closed(d)) \/ Closed(d) \in lost
       /\ \A r \in ledger : r.event[1] \in Reports => r \in shown)

\* "Event persistence and WebSocket observability remain unchanged; routing is
\* filtered only in the Telegram subscriber"
\* (PHASE_1_6_HISTORY_NOTIFICATION_ROUTING_REPORT_2026-09-22.md, line 9): the
\* hub has broadcast every row behind its cursor.  The code does not keep it.
NothingIsMissed == \A r \in ledger : Key(r) <= hub.cursor => r \in shown

\* What holds in every state: the delivery of an event is begun at most once
\* and is on record, and no row was broadcast twice.
AlertsAreSound == TypeOK /\ AlertedOnce /\ AlertIsRecorded /\ ShownOnce

\* Outcomes and reports are passed on, and the service's lock is freed, again
\* and again.
ReportsGoOn == NewsArePassedOn /\ LockIsFreed
===============================================================================
