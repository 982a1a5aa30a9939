---------------------------- MODULE Delivery_proofs ----------------------------
(* Proofs about Delivery, for any deals, zones, findings and bounds.         *)
EXTENDS Delivery, FiniteSetTheorems, TLAPS

(* What is about a zone.                                                     *)
Subjects == {"active", "touched", "invalidated", "replaced"}

PastShows == \A d \in visible : Times[d] <= clock

(* The lock is with the task that is sending, and what it sends is on record. *)
LockIsHeld ==
  \A t \in Tasks : task[t].at = "sending" =>
    lock = t /\ task[t].todo # <<>> /\ InLedger(Call(t).event)

(* The history worker announces outcomes, in its round; the forward worker   *)
(* announces zones.                                                          *)
Known(t, phase) ==
  /\ t = "history" =>
       /\ \A i \in DOMAIN phase.todo : \E d \in Deals : phase.todo[i].event = Closed(d)
       /\ phase.todo # <<>> => phase.at \in {"calls", "sending"}
       /\ phase.at = "read" => phase.facts \subseteq visible
  /\ t = "forward" => \A i \in DOMAIN phase.todo : phase.todo[i].event[1] \in Subjects

CallsAreKnown == \A t \in Tasks : Known(t, task[t])

InRound == history.at \in {"read", "calls", "sending"}

(* A round has no report before its end.                                     *)
ReportsArePast ==
  \A r \in ledger : r.event[1] \in Reports =>
    /\ r.event[2] <= rounds
    /\ InRound /\ Kept => r.event[2] # rounds

(* What the hub sent is behind its cursor.                                   *)
HubIsPast == IsFiniteSet(shown) /\ \A r \in shown : Key(r) <= hub.cursor

IInv ==
  /\ TypeOK /\ PastShows /\ LockIsHeld /\ CallsAreKnown /\ ReportsArePast /\ HubIsPast
  /\ AlertedOnce /\ AlertIsRecorded /\ ShownOnce /\ OutcomeIsKept

LEMMA Distinct ==
  /\ "history" \in Tasks /\ "forward" \in Tasks /\ Free \notin Tasks
  /\ \A t \in Tasks : t # "forward" => t = "history"
  /\ Idle \in Phases /\ Waking \in [cursor : Nat, count : Nat]
  <1>1. <<>> \in Seq(Rows) /\ 0 \in 0 .. MaxAttempts
    BY DeliveryAssumption
  <1>2. Idle \in Phases
    BY <1>1 DEF Idle, Phases
  <1> QED
    BY <1>2 DEF Tasks, Free, Waking

LEMMA DealsAreNumbers ==
  Deals \subseteq Nat /\ IsFiniteSet(Deals) /\ Times \in [Deals -> Nat]
  <1>1. Deals = 1 .. Len(Times) /\ Len(Times) \in Nat /\ \A d \in Deals : Times[d] \in Nat
    BY DeliveryAssumption DEF Deals
  <1>2. Times \in [1 .. Len(Times) -> Nat]
    BY DeliveryAssumption
  <1>3. IsFiniteSet(1 .. Len(Times))
    BY <1>1, FS_Interval
  <1> QED
    BY <1>1, <1>2, <1>3

(* The identities of the rows are numbers.                                   *)
LEMMA KeyIsNumber ==
  ASSUME NEW r \in Rows
  PROVE  Key(r) \in Nat
  <1>1. PICK e : e = r.event
    OBVIOUS
  <1>2. e \in Kinds \X Nat \X Nat /\ r.stamp \in Nat
    BY <1>1, DeliveryAssumption DEF Rows
  <1>3. \A k \in Kinds : Rank[k] \in Nat
    BY DEF Kinds, Reports, Rank
  <1>4. e[1] \in Kinds /\ e[2] \in Nat
    BY <1>2
  <1>5. PICK n, m : n = Rank[e[1]] /\ m = e[2] /\ n \in Nat /\ m \in Nat
    BY <1>3, <1>4
  <1>6. Key(r) = r.stamp * 1000 + (IF e[1] \in Reports THEN 500 + m * 10 + n ELSE n * 10 + m)
    BY <1>1, <1>5 DEF Key
  <1> QED
    BY <1>2, <1>5, <1>6

LEMMA LockIs ==
  ASSUME TypeOK
  PROVE  lock \in Tasks \cup {Free} /\ (lock # Free => lock \in Tasks /\ task[lock].at = "sending")
  <1>1. lock \in Tasks \cup {Free} /\ (lock # Free => task[lock].at = "sending")
    BY Zenon DEF TypeOK
  <1> QED
    BY <1>1

LEMMA GotoMoves ==
  ASSUME TypeOK, NEW t \in Tasks, NEW phase \in Phases, Goto(t, phase)
  PROVE  /\ task' \in [Tasks -> Phases] /\ task'[t] = phase
         /\ \A u \in Tasks : u # t => task'[u] = task[u]
  BY DEF TypeOK, Goto

LEMMA RestIs ==
  ASSUME NEW t \in Tasks, NEW calls \in Seq(Rows)
  PROVE  /\ Rest(t, calls) \in Phases /\ Rest(t, calls).todo = calls
         /\ Rest(t, calls).at \in {"idle", "calls"}
         /\ t = "history" \/ calls # <<>> => Rest(t, calls).at = "calls"
  <1>1. PICK idle : idle = [Idle EXCEPT !.at = "calls", !.todo = calls]
    OBVIOUS
  <1>2. /\ idle \in Phases /\ idle.todo = calls /\ idle.at = "calls"
        /\ Idle.todo = <<>> /\ Idle.at = "idle" /\ Idle \in Phases
    BY <1>1, Distinct DEF Idle, Phases
  <1>3. Rest(t, calls) = IF t = "forward" /\ calls = <<>> THEN Idle ELSE idle
    BY <1>1 DEF Rest
  <1> QED
    BY <1>2, <1>3

LEMMA TodoSplits ==
  ASSUME NEW q \in Seq(Rows), q # <<>>
  PROVE  /\ Head(q) \in Rows /\ Tail(q) \in Seq(Rows)
         /\ 1 \in DOMAIN q /\ q[1] = Head(q)
         /\ \A i \in DOMAIN Tail(q) : i + 1 \in DOMAIN q /\ Tail(q)[i] = q[i + 1]
         /\ Events(q) = {Head(q).event} \cup Events(Tail(q))
  <1>1. /\ Head(q) \in Rows /\ Tail(q) \in Seq(Rows)
        /\ 1 \in DOMAIN q /\ q[1] = Head(q)
        /\ \A i \in DOMAIN Tail(q) : i + 1 \in DOMAIN q /\ Tail(q)[i] = q[i + 1]
    OBVIOUS
  <1>2. \A i \in DOMAIN q : i # 1 => i - 1 \in DOMAIN Tail(q) /\ Tail(q)[i - 1] = q[i]
    OBVIOUS
  <1>3. Events(q) = {Head(q).event} \cup Events(Tail(q))
    <2>1. Events(q) \subseteq {Head(q).event} \cup Events(Tail(q))
      <3> SUFFICES ASSUME NEW i \in DOMAIN q
                   PROVE  q[i].event \in {Head(q).event} \cup Events(Tail(q))
        BY DEF Events
      <3> QED
        BY <1>1, <1>2 DEF Events
    <2>2. {Head(q).event} \cup Events(Tail(q)) \subseteq Events(q)
      BY <1>1 DEF Events
    <2> QED
      BY <2>1, <2>2
  <1> QED
    BY <1>1, <1>3

LEMMA KnownMoves ==
  ASSUME IInv, NEW t \in Tasks, NEW phase \in Phases, Goto(t, phase), Known(t, phase),
         UNCHANGED visible
  PROVE  CallsAreKnown'
  <1>1. task'[t] = phase /\ \A u \in Tasks : u # t => task'[u] = task[u]
    BY GotoMoves DEF IInv
  <1>2. ASSUME NEW u \in Tasks
        PROVE  Known(u, task[u])'
    <2>1. PICK p : p = task'[u]
      OBVIOUS
    <2>2. Known(u, p)
      BY <1>1, <2>1 DEF IInv, CallsAreKnown
    <2> QED
      BY <2>1, <2>2 DEF Known
  <1> QED
    BY <1>2 DEF CallsAreKnown

(* A task goes to another phase while nothing else that is told changes.     *)
Still == UNCHANGED <<market, deals, ledger, zone, hub, alerts, shown>>

(* The head of what a task publishes.                                        *)
LEMMA CallIs ==
  ASSUME IInv, NEW t \in Tasks, task[t].todo # <<>>
  PROVE  /\ task[t] \in Phases /\ task[t].todo \in Seq(Rows) /\ Call(t) \in Rows
         /\ 1 \in DOMAIN task[t].todo /\ task[t].todo[1] = Call(t)
         /\ t = "history" => \E d \in Deals : Call(t).event = Closed(d)
         /\ t = "forward" => Call(t).event[1] \in Subjects
         /\ Call(t).event[1] \notin Reports
         /\ t = "history" => InRound
  <1>1. task[t] \in Phases /\ task[t].todo \in Seq(Rows)
    BY DEF IInv, TypeOK, Phases
  <1>2. Call(t) \in Rows /\ 1 \in DOMAIN task[t].todo /\ task[t].todo[1] = Call(t)
    BY <1>1, TodoSplits DEF Call
  <1>3. Known(t, task[t])
    BY DEF IInv, CallsAreKnown
  <1>4. /\ t = "history" => \E d \in Deals : Call(t).event = Closed(d)
        /\ t = "forward" => Call(t).event[1] \in Subjects
        /\ t = "history" => task[t].at \in {"calls", "sending"}
    BY <1>2, <1>3 DEF Known
  <1>5. Call(t).event[1] \notin Reports
    BY <1>4, Distinct DEF Closed, Subjects, Reports
  <1> QED
    BY <1>1, <1>2, <1>4, <1>5 DEF InRound, history

(* The publication of the next event is over.                                *)
LEMMA Returns ==
  ASSUME IInv, NEW t \in Tasks, task[t].todo # <<>>, Return(t), Still, UNCHANGED rounds,
         lost \subseteq lost',
         \/ lock' = lock /\ task[t].at = "calls"
         \/ lock' = Free /\ task[t].at = "sending",
         t = "history" => InLedger(Call(t).event) \/ Call(t).event \in lost'
  PROVE  /\ task' \in [Tasks -> Phases] /\ (lock' # Free => task'[lock'].at = "sending")
         /\ LockIsHeld' /\ CallsAreKnown' /\ ReportsArePast' /\ OutcomeIsKept'
  <1>1. PICK q : q = task[t].todo
    OBVIOUS
  <1>2. q \in Seq(Rows) /\ Tail(q) \in Seq(Rows) /\ Events(q) = {Call(t).event} \cup Events(Tail(q))
        /\ \A i \in DOMAIN Tail(q) : i + 1 \in DOMAIN q /\ Tail(q)[i] = q[i + 1]
    BY <1>1, CallIs, TodoSplits DEF Call
  <1>3. PICK phase : phase = Rest(t, Tail(q))
    OBVIOUS
  <1>4. /\ phase \in Phases /\ phase.todo = Tail(q) /\ phase.at \in {"idle", "calls"}
        /\ t = "history" \/ Tail(q) # <<>> => phase.at = "calls"
    BY <1>2, <1>3, RestIs
  <1>5. Goto(t, phase)
    BY <1>1, <1>3 DEF Return
  <1>6. /\ task' \in [Tasks -> Phases] /\ task'[t] = phase
        /\ \A u \in Tasks : u # t => task'[u] = task[u]
    BY <1>4, <1>5, GotoMoves DEF IInv
  <1>7. Known(t, phase)
    <2>1. Known(t, task[t])
      BY DEF IInv, CallsAreKnown
    <2> QED
      BY <1>1, <1>2, <1>4, <2>1 DEF Known
  <1>8. CallsAreKnown'
    BY <1>4, <1>5, <1>7, KnownMoves DEF Still, market
  <1>9. \A u \in Tasks : u # t /\ task[u].at = "sending" => lock' = u
    BY Distinct DEF IInv, LockIsHeld
  <1>10. lock' # Free => task'[lock'].at = "sending"
    <2> SUFFICES ASSUME lock' # Free
                 PROVE  task'[lock'].at = "sending"
      OBVIOUS
    <2>1. lock' = lock /\ task[t].at = "calls"
      OBVIOUS
    <2>2. lock \in Tasks /\ task[lock].at = "sending"
      BY <2>1, LockIs DEF IInv
    <2>3. lock # t
      BY <2>1, <2>2
    <2> QED
      BY <1>6, <2>1, <2>2, <2>3
  <1>11. LockIsHeld'
    <2> SUFFICES ASSUME NEW u \in Tasks, task'[u].at = "sending"
                 PROVE  lock' = u /\ task'[u].todo # <<>> /\ InLedger(Head(task'[u].todo).event)
      BY DEF LockIsHeld, Call, InLedger, Still
    <2>1. u # t /\ task'[u] = task[u]
      BY <1>4, <1>6
    <2> QED
      BY <1>9, <2>1 DEF IInv, LockIsHeld, Call
  <1>12. ReportsArePast'
    <2>1. InRound' => InRound
      BY <1>4, <1>6, CallIs, Distinct DEF InRound, history
    <2> QED
      BY <2>1 DEF IInv, ReportsArePast, Still, Kept
  <1>13. OutcomeIsKept'
    <2> SUFFICES ASSUME NEW d \in stored
                 PROVE  \/ InLedger(Closed(d)) \/ Closed(d) \in lost'
                        \/ Closed(d) \in Events(history'.todo)
      BY DEF OutcomeIsKept, Still, deals, InLedger
    <2>1. InLedger(Closed(d)) \/ Closed(d) \in lost \/ Closed(d) \in Events(history.todo)
      BY DEF IInv, OutcomeIsKept
    <2>2. CASE t = "history"
      BY <1>1, <1>2, <1>4, <1>6, <2>1, <2>2 DEF history
    <2>3. CASE t # "history"
      BY <1>6, <2>1, <2>3, Distinct DEF history
    <2> QED
      BY <2>2, <2>3
  <1> QED
    BY <1>6, <1>8, <1>10, <1>11, <1>12, <1>13

(* What a step that leaves the hub alone keeps of it.                        *)
LEMMA HubStays ==
  ASSUME IInv, UNCHANGED <<hub, shown>>, ledger \subseteq ledger', ledger' \subseteq Rows
  PROVE  /\ hub' \in [cursor : Nat, count : Nat] /\ shown' \subseteq ledger'
         /\ HubIsPast' /\ ShownOnce'
  BY DEF IInv, TypeOK, HubIsPast, ShownOnce, Key

LEMMA StillKeeps ==
  ASSUME IInv, Still
  PROVE  /\ clock' \in 1..MaxTime /\ visible' \subseteq Deals /\ stored' \subseteq visible'
         /\ cursor' \in 0..MaxTime /\ ledger' \subseteq Rows /\ zone' \in Zones \cup {0}
         /\ hub' \in [cursor : Nat, count : Nat]
         /\ again' \subseteq alerted' /\ shown' \subseteq ledger'
         /\ PastShows' /\ HubIsPast' /\ AlertedOnce' /\ AlertIsRecorded' /\ ShownOnce'
  <1>1. /\ HubIsPast' /\ ShownOnce'
    BY HubStays DEF Still, IInv, TypeOK
  <1>2. PastShows' /\ AlertedOnce' /\ AlertIsRecorded'
    BY DEF Still, market, alerts, IInv, PastShows, AlertedOnce, AlertIsRecorded, InLedger
  <1> QED
    BY <1>1, <1>2 DEF Still, market, deals, alerts, IInv, TypeOK

(* What the steps leave alone stays well typed.                              *)
Counters == /\ rounds \in 0..MaxRounds + 1 /\ cycles \in 0..MaxCycles /\ trouble \in 0..MaxTrouble

LEMMA HealthyStays ==
  ASSUME TypeOK, UNCHANGED healthy
  PROVE  healthy' \in BOOLEAN
  BY Zenon DEF TypeOK

LEMMA TroubleIs ==
  ASSUME TypeOK, Trouble
  PROVE  Counters' /\ UNCHANGED <<rounds, cycles>>
  BY DeliveryAssumption DEF TypeOK, Trouble, Counters

LEMMA CountersStay ==
  ASSUME TypeOK, UNCHANGED bounds
  PROVE  Counters'
  BY DEF TypeOK, Counters, bounds

LEMMA LostStays ==
  ASSUME TypeOK, UNCHANGED lost
  PROVE  lost' \subseteq {Closed(d) : d \in Deals}
  BY DEF TypeOK

(* What the tasks keep in memory, and what was given up.                     *)
LiveTyped ==
  /\ task \in [Tasks -> Phases]
  /\ lock \in Tasks \cup {Free}
  /\ lock # Free => task[lock].at = "sending"
  /\ lost \subseteq {Closed(d) : d \in Deals}

LEMMA TypesStay ==
  ASSUME IInv, Still, LiveTyped', healthy' \in BOOLEAN, Counters'
  PROVE  TypeOK'
  BY StillKeeps, Zenon DEF TypeOK, Counters, LiveTyped

LEMMA WithholdKeeps ==
  ASSUME IInv, NEW t \in Tasks, Withhold(t)
  PROVE  IInv'
  <1>1. task[t].todo # <<>> /\ task[t].at = "calls" /\ Return(t) /\ Still /\ UNCHANGED <<lock, healthy, bounds, lost>>
    BY DEF Withhold, Calling, Still
  <1>2. t # "history"
    <2>1. Call(t).event[1] = "replaced"
      BY DEF Withhold, Moot, IsMoot
    <2> QED
      BY <1>1, <2>1, CallIs DEF Closed
  <1>3. /\ task' \in [Tasks -> Phases] /\ (lock' # Free => task'[lock'].at = "sending")
        /\ LockIsHeld' /\ CallsAreKnown' /\ ReportsArePast' /\ OutcomeIsKept'
    BY <1>1, <1>2, Returns DEF bounds
  <1>4. TypeOK'
    <2>1. LiveTyped'
      BY <1>1, <1>3, LostStays, LockIs DEF IInv, LiveTyped
    <2>2. healthy' \in BOOLEAN /\ Counters'
      BY <1>1, HealthyStays, CountersStay, Zenon DEF IInv
    <2> QED
      BY <1>1, <2>1, <2>2, TypesStay, Zenon
  <1> QED
    BY <1>1, <1>3, <1>4, StillKeeps DEF IInv

LEMMA PublishFailsKeeps ==
  ASSUME IInv, NEW t \in Tasks, PublishFails(t)
  PROVE  IInv'
  <1>1. task[t].todo # <<>> /\ task[t].at = "calls" /\ Return(t) /\ Still /\ UNCHANGED <<lock, healthy>>
        /\ Trouble /\ lost' = lost \cup ({Call(t).event} \cap {Closed(d) : d \in Deals})
    BY DEF PublishFails, Calling, Still, WriteRaises
  <1>2. t = "history" => Call(t).event \in lost'
    BY <1>1, CallIs
  <1>3. /\ task' \in [Tasks -> Phases] /\ (lock' # Free => task'[lock'].at = "sending")
        /\ LockIsHeld' /\ CallsAreKnown' /\ ReportsArePast' /\ OutcomeIsKept'
    BY <1>1, <1>2, Returns, TroubleIs DEF IInv
  <1>4. lost' \subseteq {Closed(d) : d \in Deals}
    BY <1>1 DEF IInv, TypeOK
  <1>5. TypeOK'
    <2>1. LiveTyped'
      BY <1>1, <1>3, <1>4, LockIs DEF IInv, LiveTyped
    <2>2. healthy' \in BOOLEAN /\ Counters'
      BY <1>1, HealthyStays, TroubleIs, Zenon DEF IInv
    <2> QED
      BY <1>1, <2>1, <2>2, TypesStay, Zenon
  <1> QED
    BY <1>1, <1>3, <1>5, StillKeeps DEF IInv

LEMMA OverKeeps ==
  ASSUME IInv, NEW t \in Tasks, Sending(t), Over(t)
  PROVE  IInv'
  <1>1. Still /\ UNCHANGED <<healthy, bounds, lost>>
    BY DEF Over, Still
  <1>2. CASE task[t].at = "sending"
    <2>1. Return(t) /\ lock' = Free
      BY <1>2 DEF Over
    <2>2. lock = t /\ task[t].todo # <<>> /\ InLedger(Call(t).event)
      BY <1>2 DEF IInv, LockIsHeld
    <2>3. /\ task' \in [Tasks -> Phases] /\ (lock' # Free => task'[lock'].at = "sending")
          /\ LockIsHeld' /\ CallsAreKnown' /\ ReportsArePast' /\ OutcomeIsKept'
      BY <1>1, <1>2, <2>1, <2>2, Returns DEF bounds
    <2>4. TypeOK'
      <3>1. LiveTyped'
        BY <1>1, <2>1, <2>3, LostStays DEF IInv, LiveTyped
      <3>2. healthy' \in BOOLEAN /\ Counters'
        BY <1>1, HealthyStays, CountersStay, Zenon DEF IInv
      <3> QED
        BY <1>1, <3>1, <3>2, TypesStay, Zenon
    <2> QED
      BY <1>1, <2>3, <2>4, StillKeeps DEF IInv
  <1>3. CASE task[t].at = "reporting"
    <2>1. Goto(t, Idle) /\ UNCHANGED lock
      BY <1>3 DEF Over
    <2>2. /\ task' \in [Tasks -> Phases] /\ task'[t] = Idle
          /\ \A u \in Tasks : u # t => task'[u] = task[u]
      BY <2>1, GotoMoves, Distinct DEF IInv
    <2>3. Known(t, Idle) /\ Idle.at = "idle" /\ Idle.todo = <<>>
      BY DEF Known, Idle
    <2>4. CallsAreKnown'
      BY <1>1, <2>1, <2>3, KnownMoves, Distinct DEF Still, market
    <2>5. t = "history" => history.todo = <<>>
      BY <1>3 DEF IInv, CallsAreKnown, Known, history
    <2>6. OutcomeIsKept'
      BY <1>1, <2>2, <2>3, <2>5, Distinct DEF IInv, OutcomeIsKept, Still, deals, InLedger, history, Events
    <2>7. ReportsArePast'
      <3>1. InRound' => InRound
        BY <2>2, <2>3, Distinct DEF InRound, history
      <3> QED
        BY <1>1, <3>1 DEF IInv, ReportsArePast, Still, Kept, bounds
    <2>8. lock' # Free => lock # t /\ task'[lock'].at = "sending"
      BY <1>3, <2>1, <2>2, LockIs DEF IInv
    <2>9. LockIsHeld'
      <3> SUFFICES ASSUME NEW u \in Tasks, task'[u].at = "sending"
                   PROVE  lock' = u /\ task'[u].todo # <<>> /\ InLedger(Head(task'[u].todo).event)
        BY <1>1 DEF LockIsHeld, Call, InLedger, Still
      <3>1. u # t /\ task'[u] = task[u]
        BY <2>2, <2>3
      <3> QED
        BY <2>1, <3>1 DEF IInv, LockIsHeld, Call
    <2>10. TypeOK'
      <3>1. LiveTyped'
        BY <1>1, <2>1, <2>2, <2>8, LostStays, LockIs DEF IInv, LiveTyped
      <3>2. healthy' \in BOOLEAN /\ Counters'
        BY <1>1, HealthyStays, CountersStay, Zenon DEF IInv
      <3> QED
        BY <1>1, <3>1, <3>2, TypesStay, Zenon
    <2> QED
      BY <1>1, <2>4, <2>6, <2>7, <2>9, <2>10, StillKeeps DEF IInv
  <1> QED
    BY <1>2, <1>3 DEF Sending

(* A row is added, and its delivery begins, for the first time.              *)
LEMMA WriteKeeps ==
  ASSUME IInv, NEW r \in Rows, Write(r), ~InLedger(r.event)
  PROVE  /\ ledger' = ledger \cup {r} /\ ledger' \subseteq Rows /\ InLedger(r.event)'
         /\ again' = {} /\ AlertedOnce' /\ AlertIsRecorded'
         /\ \A e : InLedger(e) => InLedger(e)'
  <1>1. ledger' = ledger \cup {r} /\ ledger' \subseteq Rows
    BY DEF Write, IInv, TypeOK
  <1>2. InLedger(r.event)' /\ \A e : InLedger(e) => InLedger(e)'
    BY <1>1 DEF InLedger
  <1>3. r.event \notin alerted
    BY DEF IInv, AlertIsRecorded
  <1>4. again' = {} /\ alerted' \subseteq alerted \cup {r.event}
    BY <1>3 DEF Write, alerts, IInv, AlertedOnce
  <1>5. AlertIsRecorded'
    BY <1>2, <1>4 DEF IInv, AlertIsRecorded
  <1> QED
    BY <1>1, <1>2, <1>4, <1>5 DEF AlertedOnce

LEMMA SendingBegins ==
  ASSUME IInv, NEW t \in Tasks, Publish(t), ~AlreadyPublished(Call(t))
  PROVE  IInv'
  <1>1. PICK r, p : r = Call(t) /\ p = [task[t] EXCEPT !.at = "sending", !.attempt = 1]
    OBVIOUS
  <1>2. /\ task[t].at = "calls" /\ task[t].todo # <<>> /\ lock = Free /\ lock' = t
        /\ Write(r) /\ ~InLedger(r.event) /\ Goto(t, p)
        /\ UNCHANGED <<market, deals, zone, healthy, hub, bounds, lost, shown>>
    BY <1>1 DEF Publish, Calling, AlreadyPublished
  <1>3. /\ task[t] \in Phases /\ r \in Rows /\ r.event[1] \notin Reports
        /\ r = Head(task[t].todo)
    BY <1>1, <1>2, CallIs DEF Call
  <1>4. /\ p \in Phases /\ p.at = "sending" /\ p.todo = task[t].todo /\ p.facts = task[t].facts
    <2>1. 1 \in 0 .. MaxAttempts
      BY DeliveryAssumption
    <2> QED
      BY <1>1, <1>3, <2>1 DEF Phases
  <1>5. /\ task' \in [Tasks -> Phases] /\ task'[t] = p
        /\ \A u \in Tasks : u # t => task'[u] = task[u]
    BY <1>2, <1>4, GotoMoves DEF IInv
  <1>6. /\ ledger' = ledger \cup {r} /\ ledger' \subseteq Rows /\ InLedger(r.event)'
        /\ again' = {} /\ AlertedOnce' /\ AlertIsRecorded'
        /\ \A e : InLedger(e) => InLedger(e)'
    BY <1>2, <1>3, WriteKeeps
  <1>7. CallsAreKnown'
    <2>1. Known(t, p)
      BY <1>2, <1>4 DEF IInv, CallsAreKnown, Known
    <2> QED
      BY <1>2, <1>4, <2>1, KnownMoves DEF market
  <1>8. LockIsHeld'
    <2> SUFFICES ASSUME NEW u \in Tasks, task'[u].at = "sending"
                 PROVE  lock' = u /\ task'[u].todo # <<>> /\ InLedger(Head(task[u].todo).event)'
      BY DEF LockIsHeld, Call
    <2>1. u = t
      BY <1>2, <1>5, Distinct DEF IInv, LockIsHeld
    <2> QED
      <3>1. Head(task'[u].todo) = r /\ task'[u].todo # <<>>
        BY <1>2, <1>3, <1>4, <1>5, <2>1
      <3> QED
        BY <1>2, <1>6, <2>1, <3>1 DEF InLedger
  <1>9. ReportsArePast'
    <2>1. InRound' => InRound
      BY <1>2, <1>5, Distinct DEF InRound, history
    <2> QED
      BY <1>2, <1>3, <1>6, <2>1 DEF IInv, ReportsArePast, Kept, bounds
  <1>10. OutcomeIsKept'
    <2>1. history'.todo = history.todo
      BY <1>4, <1>5, Distinct DEF history
    <2> QED
      BY <1>2, <1>6, <2>1 DEF IInv, OutcomeIsKept, deals
  <1>11. HubIsPast' /\ ShownOnce' /\ hub' \in [cursor : Nat, count : Nat] /\ shown' \subseteq ledger'
    BY <1>2, <1>6, HubStays
  <1>12. PastShows'
    BY <1>2 DEF IInv, PastShows, market
  <1>13. TypeOK'
    <2>1. LiveTyped'
      BY <1>2, <1>4, <1>5, LostStays DEF IInv, LiveTyped
    <2>2. healthy' \in BOOLEAN /\ Counters'
      BY <1>2, HealthyStays, CountersStay, Zenon DEF IInv
    <2>3. /\ clock' \in 1..MaxTime /\ visible' \subseteq Deals /\ stored' \subseteq visible'
          /\ cursor' \in 0..MaxTime /\ zone' \in Zones \cup {0} /\ again' \subseteq alerted'
      BY <1>2, <1>6 DEF IInv, TypeOK, market, deals
    <2> QED
      BY <1>6, <1>11, <2>1, <2>2, <2>3, Zenon DEF TypeOK, LiveTyped, Counters
  <1> QED
    BY <1>6, <1>7, <1>8, <1>9, <1>10, <1>11, <1>12, <1>13 DEF IInv

LEMMA PublishKeeps ==
  ASSUME IInv, NEW t \in Tasks, Publish(t)
  PROVE  IInv'
  <1>1. CASE AlreadyPublished(Call(t))
    <2>1. task[t].todo # <<>> /\ task[t].at = "calls" /\ Return(t) /\ Still
          /\ UNCHANGED <<lock, healthy, bounds, lost>> /\ InLedger(Call(t).event)
      BY <1>1 DEF Publish, Calling, AlreadyPublished, Still
    <2>2. /\ task' \in [Tasks -> Phases] /\ (lock' # Free => task'[lock'].at = "sending")
          /\ LockIsHeld' /\ CallsAreKnown' /\ ReportsArePast' /\ OutcomeIsKept'
      BY <2>1, Returns DEF bounds
    <2>3. LiveTyped'
      BY <2>1, <2>2, LostStays, LockIs DEF IInv, LiveTyped
    <2>4. healthy' \in BOOLEAN /\ Counters'
      BY <2>1, HealthyStays, CountersStay, Zenon DEF IInv
    <2>5. TypeOK'
      BY <2>1, <2>3, <2>4, TypesStay, Zenon
    <2> QED
      BY <2>1, <2>2, <2>5, StillKeeps DEF IInv
  <1> QED
    BY <1>1, SendingBegins

LEMMA RetryKeeps ==
  ASSUME IInv, NEW t \in Tasks, Retry(t)
  PROVE  IInv'
  <1>1. PICK p : p = [task[t] EXCEPT !.attempt = NextAttempt(t)]
    OBVIOUS
  <1>2. Goto(t, p) /\ Still /\ UNCHANGED <<healthy, lock, bounds, lost>> /\ NextAttempt(t) <= MaxAttempts
    BY <1>1 DEF Retry, Still
  <1>3. /\ p \in Phases /\ p.at = task[t].at /\ p.todo = task[t].todo /\ p.facts = task[t].facts
    <2>1. task[t] \in Phases
      BY DEF IInv, TypeOK
    <2>2. NextAttempt(t) \in 0 .. MaxAttempts
      BY <1>2, <2>1, DeliveryAssumption DEF NextAttempt, Phases
    <2> QED
      BY <1>1, <2>1, <2>2 DEF Phases
  <1>4. /\ task' \in [Tasks -> Phases] /\ task'[t] = p
        /\ \A u \in Tasks : u # t => task'[u] = task[u]
    BY <1>2, <1>3, GotoMoves DEF IInv
  <1>5. \A u \in Tasks : task'[u].at = task[u].at /\ task'[u].todo = task[u].todo
    BY <1>3, <1>4
  <1>6. CallsAreKnown'
    <2>1. Known(t, p)
      BY <1>3 DEF IInv, CallsAreKnown, Known
    <2> QED
      BY <1>2, <1>3, <2>1, KnownMoves DEF Still, market
  <1>7. LockIsHeld' /\ ReportsArePast' /\ OutcomeIsKept'
    BY <1>2, <1>5, Distinct
    DEF IInv, LockIsHeld, ReportsArePast, OutcomeIsKept, InRound, Kept, Call, history, InLedger,
        Still, deals, bounds
  <1>8. LiveTyped'
    BY <1>2, <1>4, <1>5, LostStays, LockIs DEF IInv, LiveTyped
  <1>9. healthy' \in BOOLEAN /\ Counters'
    BY <1>2, HealthyStays, CountersStay, Zenon DEF IInv
  <1>10. TypeOK'
    BY <1>2, <1>8, <1>9, TypesStay, Zenon
  <1> QED
    BY <1>2, <1>6, <1>7, <1>10, StillKeeps DEF IInv

LEMMA MarketKeeps ==
  ASSUME IInv, Tick \/ \E d \in Deals : Show(d)
  PROVE  IInv'
  <1>1. /\ UNCHANGED <<deals, ledger, zone, live, hub, bounds, alerts, lost, shown>>
        /\ visible \subseteq visible' /\ visible' \subseteq Deals
        /\ clock' \in 1..MaxTime /\ PastShows'
    <2>1. CASE Tick
      <3>1. clock' = clock + 1 /\ clock < MaxTime /\ visible' = visible
        BY <2>1 DEF Tick
      <3>2. clock \in 1 .. MaxTime /\ MaxTime \in Nat /\ visible \subseteq Deals
        BY DeliveryAssumption DEF IInv, TypeOK
      <3>3. PastShows'
        BY <3>1, <3>2, DealsAreNumbers DEF IInv, PastShows
      <3> QED
        BY <2>1, <3>1, <3>2, <3>3 DEF Tick
    <2>2. ASSUME NEW d \in Deals, Show(d)
          PROVE  /\ UNCHANGED <<deals, ledger, zone, live, hub, bounds, alerts, lost, shown>>
                 /\ visible \subseteq visible' /\ visible' \subseteq Deals
                 /\ clock' \in 1..MaxTime /\ PastShows'
      BY <2>2 DEF Show, IInv, TypeOK, PastShows
    <2> QED
      BY <2>1, <2>2
  <1>2. /\ HubIsPast' /\ ShownOnce'
    BY <1>1, HubStays DEF IInv, TypeOK
  <1>3. LockIsHeld' /\ ReportsArePast' /\ OutcomeIsKept' /\ AlertedOnce' /\ AlertIsRecorded'
    BY <1>1
    DEF IInv, LockIsHeld, ReportsArePast, OutcomeIsKept, AlertedOnce, AlertIsRecorded, InRound, Kept,
        Call, history, InLedger, deals, live, bounds, alerts
  <1>4. CallsAreKnown'
    BY <1>1 DEF IInv, CallsAreKnown, Known, live
  <1>5. healthy' \in BOOLEAN
    BY <1>1, HealthyStays, Zenon DEF IInv, live
  <1>6. Counters' /\ LiveTyped'
    BY <1>1, CountersStay, LostStays, LockIs DEF IInv, TypeOK, LiveTyped, live
  <1>7. /\ stored' \subseteq visible' /\ cursor' \in 0..MaxTime /\ ledger' \subseteq Rows
        /\ zone' \in Zones \cup {0} /\ hub' \in [cursor : Nat, count : Nat]
        /\ again' \subseteq alerted' /\ shown' \subseteq ledger'
    BY <1>1 DEF IInv, TypeOK, deals, alerts
  <1>8. TypeOK'
    BY <1>1, <1>5, <1>6, <1>7, Zenon DEF TypeOK, LiveTyped, Counters
  <1> QED
    BY <1>1, <1>2, <1>3, <1>4, <1>8 DEF IInv

(* The history worker goes on, and is not sending.                           *)
LEMMA HistoryMoves ==
  ASSUME IInv, history.at # "sending", NEW p \in Phases, p.at # "sending", Goto("history", p),
         UNCHANGED lock, ledger \subseteq ledger'
  PROVE  /\ task' \in [Tasks -> Phases] /\ task'["history"] = p
         /\ task'["forward"] = task["forward"]
         /\ lock' \in Tasks \cup {Free}
         /\ lock' # Free => task'[lock'].at = "sending"
         /\ LockIsHeld'
  <1>1. /\ task' \in [Tasks -> Phases] /\ task'["history"] = p
        /\ \A u \in Tasks : u # "history" => task'[u] = task[u]
    BY GotoMoves, Distinct DEF IInv
  <1>2. /\ lock' \in Tasks \cup {Free}
        /\ lock' # Free => lock # "history" /\ task'[lock'].at = "sending"
    BY <1>1, LockIs DEF IInv, history
  <1>3. LockIsHeld'
    <2> SUFFICES ASSUME NEW u \in Tasks, task'[u].at = "sending"
                 PROVE  lock' = u /\ task'[u].todo # <<>> /\ InLedger(Head(task[u].todo).event)'
      BY DEF LockIsHeld, Call
    <2>1. u # "history" /\ task'[u] = task[u]
      BY <1>1
    <2>2. lock = u /\ task[u].todo # <<>> /\ InLedger(Head(task[u].todo).event)
      BY <2>1 DEF IInv, LockIsHeld, Call
    <2> QED
      BY <2>1, <2>2 DEF InLedger
  <1> QED
    BY <1>1, <1>2, <1>3, Distinct

LEMMA ReadKeeps ==
  ASSUME IInv, Read
  PROVE  IInv'
  <1>1. PICK p : p = [Idle EXCEPT !.at = "read", !.facts = Window]
    OBVIOUS
  <1>2. /\ history.at = "idle" /\ Goto("history", p) /\ Still
        /\ UNCHANGED <<lock, healthy, cycles, trouble, lost>>
        /\ rounds' = IF rounds <= MaxRounds THEN rounds + 1 ELSE rounds
    BY <1>1 DEF Read, Still
  <1>3. p \in Phases /\ p.at = "read" /\ p.todo = <<>> /\ p.facts \subseteq visible
    <2>1. Window \subseteq visible /\ Window \subseteq Deals
      BY DEF Window, IInv, TypeOK
    <2> QED
      BY <1>1, <2>1, Distinct DEF Idle, Phases
  <1>4. /\ task' \in [Tasks -> Phases] /\ task'["history"] = p
        /\ task'["forward"] = task["forward"]
        /\ lock' \in Tasks \cup {Free}
        /\ lock' # Free => task'[lock'].at = "sending"
        /\ LockIsHeld'
    BY <1>2, <1>3, HistoryMoves DEF Still
  <1>5. CallsAreKnown'
    <2>1. Known("history", p)
      BY <1>3 DEF Known
    <2> QED
      BY <1>2, <1>3, <2>1, KnownMoves, Distinct DEF Still, market
  <1>6. history.todo = <<>>
    BY <1>2, Distinct DEF IInv, CallsAreKnown, Known, history
  <1>7. OutcomeIsKept'
    BY <1>2, <1>3, <1>4, <1>6 DEF IInv, OutcomeIsKept, Still, deals, InLedger, history, Events
  <1>8. ReportsArePast'
    <2>1. rounds \in Nat /\ MaxRounds \in Nat
      BY DeliveryAssumption DEF IInv, TypeOK
    <2>3. \A r \in Rows : r.event[2] \in Nat
      BY DEF Rows
    <2>4. \A r \in ledger : r.event[2] \in Nat
      BY <2>3 DEF IInv, TypeOK
    <2> SUFFICES ASSUME NEW r \in ledger, r.event[1] \in Reports
                 PROVE  r.event[2] <= rounds' /\ (rounds' <= MaxRounds => r.event[2] # rounds')
      BY <1>2 DEF ReportsArePast, Kept, Still
    <2>2. r.event[2] <= rounds
      BY DEF IInv, ReportsArePast
    <2> QED
      BY <1>2, <2>1, <2>2, <2>4
  <1>9. LiveTyped'
    BY <1>2, <1>4, LostStays DEF IInv, LiveTyped
  <1>10. Counters'
    BY <1>2, DeliveryAssumption DEF IInv, TypeOK, Counters
  <1>11. healthy' \in BOOLEAN
    BY <1>2, HealthyStays, Zenon DEF IInv
  <1>12. TypeOK'
    BY <1>2, <1>9, <1>10, <1>11, TypesStay, Zenon
  <1> QED
    BY <1>2, <1>4, <1>5, <1>7, <1>8, <1>12, StillKeeps DEF IInv

(* The outcomes of the deals that are new: each of them is announced.        *)
LEMMA OutcomesAre ==
  ASSUME IInv, NEW S \in SUBSET visible, NEW new \in Outcomes(S),
         NEW todo, todo = [i \in DOMAIN new |-> Row(Closed(new[i]), Times[new[i]])]
  PROVE  /\ todo \in Seq(Rows)
         /\ \A i \in DOMAIN todo : \E d \in Deals : todo[i].event = Closed(d)
         /\ \A d \in S : Closed(d) \in Events(todo)
  <1>1. S \subseteq Deals /\ IsFiniteSet(S)
    BY DealsAreNumbers, FS_Subset DEF IInv, TypeOK
  <1>2. Cardinality(S) \in Nat
    BY <1>1, FS_CardinalityType
  <1>3. /\ new \in [1 .. Cardinality(S) -> S] /\ DOMAIN new = 1 .. Cardinality(S)
        /\ \A d \in S : \E i \in DOMAIN new : new[i] = d
    BY DEF Outcomes, Lists
  <1>4. ASSUME NEW d \in S
        PROVE  Row(Closed(d), Times[d]) \in Rows
    <2>1. Times[d] \in 0 .. MaxTime /\ d \in Nat
      <3>1. Times[d] <= clock /\ clock \in 1 .. MaxTime /\ MaxTime \in Nat
        BY DeliveryAssumption DEF IInv, TypeOK, PastShows
      <3> QED
        BY <1>1, <3>1, DealsAreNumbers
    <2>2. Closed(d) \in Kinds \X Nat \X Nat
      BY <2>1 DEF Closed, Kinds, Reports
    <2> QED
      BY <2>1, <2>2 DEF Row, Rows
  <1>5. /\ DOMAIN todo = 1 .. Cardinality(S)
        /\ \A i \in DOMAIN todo : todo[i] = Row(Closed(new[i]), Times[new[i]]) /\ new[i] \in S
    BY <1>3
  <1>6. todo \in [1 .. Cardinality(S) -> Rows]
    BY <1>3, <1>4
  <1>7. todo \in Seq(Rows)
    BY <1>2, <1>6
  <1>8. \A i \in DOMAIN todo : todo[i].event = Closed(new[i])
    BY <1>5 DEF Row
  <1>9. ASSUME NEW d \in S
        PROVE  Closed(d) \in Events(todo)
    BY <1>3, <1>5, <1>8 DEF Events
  <1> QED
    BY <1>1, <1>5, <1>7, <1>8, <1>9

LEMMA PersistKeeps ==
  ASSUME IInv, Persist
  PROVE  IInv'
  <1>1. history.at = "read" /\ history.facts \subseteq visible /\ history.todo = <<>>
    BY Distinct DEF Persist, IInv, CallsAreKnown, Known, history
  <1>2. PICK S, new : S = history.facts \ stored /\ new \in Outcomes(S)
                      /\ Goto("history", [Idle EXCEPT !.at = "calls",
                           !.todo = [i \in DOMAIN new |-> Row(Closed(new[i]), Times[new[i]])]])
    BY DEF Persist
  <1>3. PICK todo : todo = [i \in DOMAIN new |-> Row(Closed(new[i]), Times[new[i]])]
    OBVIOUS
  <1>4. /\ todo \in Seq(Rows)
        /\ \A i \in DOMAIN todo : \E d \in Deals : todo[i].event = Closed(d)
        /\ \A d \in S : Closed(d) \in Events(todo)
    <2>1. S \in SUBSET visible
      BY <1>1, <1>2
    <2> QED
      BY <1>2, <1>3, <2>1, OutcomesAre
  <1>5. PICK p : p = [Idle EXCEPT !.at = "calls", !.todo = todo]
    OBVIOUS
  <1>6. p \in Phases /\ p.at = "calls" /\ p.todo = todo
    BY <1>4, <1>5, Distinct DEF Idle, Phases
  <1>7. /\ Goto("history", p) /\ stored' = stored \cup history.facts
        /\ UNCHANGED <<market, ledger, zone, healthy, lock, hub, bounds, alerts, lost, shown>>
    BY <1>2, <1>3, <1>5 DEF Persist
  <1>8. /\ task' \in [Tasks -> Phases] /\ task'["history"] = p
        /\ task'["forward"] = task["forward"]
        /\ lock' \in Tasks \cup {Free}
        /\ lock' # Free => task'[lock'].at = "sending"
        /\ LockIsHeld'
    BY <1>1, <1>6, <1>7, HistoryMoves
  <1>9. CallsAreKnown'
    <2>1. Known("history", p)
      BY <1>4, <1>6 DEF Known
    <2> QED
      BY <1>6, <1>7, <2>1, KnownMoves, Distinct DEF market
  <1>10. OutcomeIsKept'
    <2> SUFFICES ASSUME NEW d \in stored'
                 PROVE  InLedger(Closed(d)) \/ Closed(d) \in lost \/ Closed(d) \in Events(todo)
      BY <1>6, <1>7, <1>8 DEF OutcomeIsKept, InLedger, history
    <2>1. CASE d \in stored
      BY <1>1, <2>1 DEF IInv, OutcomeIsKept, Events
    <2>2. CASE d \notin stored
      BY <1>2, <1>4, <1>7, <2>2
    <2> QED
      BY <2>1, <2>2
  <1>11. ReportsArePast'
    <2>1. InRound
      BY <1>1 DEF InRound
    <2> QED
      BY <1>7, <2>1 DEF IInv, ReportsArePast, Kept, bounds
  <1>12. /\ HubIsPast' /\ ShownOnce' /\ hub' \in [cursor : Nat, count : Nat] /\ shown' \subseteq ledger'
    BY <1>7, HubStays DEF IInv, TypeOK
  <1>13. PastShows' /\ AlertedOnce' /\ AlertIsRecorded'
    BY <1>7 DEF IInv, PastShows, AlertedOnce, AlertIsRecorded, InLedger, market, alerts
  <1>14. cursor' \in 0..MaxTime
    <2>1. CASE UNCHANGED cursor
      BY <2>1 DEF IInv, TypeOK
    <2>2. CASE ~UNCHANGED cursor
      <3>1. PICK last \in history.facts : cursor' = Times[last]
        BY <2>2 DEF Persist
      <3>2. Times[last] <= clock /\ clock \in 1 .. MaxTime /\ MaxTime \in Nat /\ last \in Deals
        BY <1>1, DeliveryAssumption DEF IInv, TypeOK, PastShows
      <3> QED
        BY <3>1, <3>2, DealsAreNumbers
    <2> QED
      BY <2>1, <2>2
  <1>15. healthy' \in BOOLEAN /\ Counters'
    BY <1>7, HealthyStays, CountersStay, Zenon DEF IInv
  <1>16. LiveTyped'
    BY <1>7, <1>8, LostStays DEF IInv, LiveTyped
  <1>17. /\ clock' \in 1..MaxTime /\ visible' \subseteq Deals /\ stored' \subseteq visible'
         /\ ledger' \subseteq Rows /\ zone' \in Zones \cup {0} /\ again' \subseteq alerted'
    BY <1>1, <1>7 DEF IInv, TypeOK, market, alerts
  <1>18. TypeOK'
    BY <1>12, <1>14, <1>15, <1>16, <1>17, Zenon DEF TypeOK, LiveTyped, Counters
  <1> QED
    BY <1>8, <1>9, <1>10, <1>11, <1>12, <1>13, <1>18 DEF IInv

(* The reports of a round are rows, and none of them is on record before.    *)
LEMMA ReportIsNew ==
  ASSUME IInv, NEW kind \in Reports
  PROVE  /\ Row(Report(kind), clock) \in Rows /\ Row(Report(kind), clock).event = Report(kind)
         /\ Report(kind)[1] = kind /\ Report(kind)[2] = rounds
         /\ InRound /\ Kept => ~InLedger(Report(kind))
  <1>1. rounds \in Nat /\ clock \in 0 .. MaxTime
    BY DeliveryAssumption DEF IInv, TypeOK
  <1>2. Report(kind) \in Kinds \X Nat \X Nat
    BY <1>1 DEF Report, Kinds
  <1>3. Row(Report(kind), clock) \in Rows /\ Row(Report(kind), clock).event = Report(kind)
    BY <1>1, <1>2 DEF Row, Rows
  <1>4. Report(kind)[1] = kind /\ Report(kind)[2] = rounds
    BY DEF Report
  <1> QED
    BY <1>3, <1>4 DEF IInv, ReportsArePast, InLedger

(* A round ends: with p the worker announces nothing more.                   *)
LEMMA RoundEnds ==
  ASSUME IInv, history.at \in {"read", "calls"}, NEW p \in Phases, p.at \in {"idle", "reporting"},
         p.todo = <<>>, Goto("history", p), UNCHANGED <<market, deals, zone, lock, hub, rounds, shown>>,
         ledger \subseteq ledger', ledger' \subseteq Rows,
         \A r \in ledger' \ ledger : r.event[1] \in Reports /\ r.event[2] = rounds,
         lost' = lost \cup Events(history.todo), AlertedOnce', AlertIsRecorded', again' = {},
         healthy' \in BOOLEAN, Counters'
  PROVE  IInv'
  <1>1. /\ task' \in [Tasks -> Phases] /\ task'["history"] = p
        /\ task'["forward"] = task["forward"]
        /\ lock' \in Tasks \cup {Free}
        /\ lock' # Free => task'[lock'].at = "sending"
        /\ LockIsHeld'
    BY HistoryMoves
  <1>2. CallsAreKnown'
    <2>1. Known("history", p)
      BY DEF Known
    <2> QED
      BY <2>1, KnownMoves, Distinct DEF market
  <1>3. OutcomeIsKept'
    <2> SUFFICES ASSUME NEW d \in stored
                 PROVE  InLedger(Closed(d))' \/ Closed(d) \in lost'
      BY DEF OutcomeIsKept, deals
    <2>1. InLedger(Closed(d)) \/ Closed(d) \in lost \/ Closed(d) \in Events(history.todo)
      BY DEF IInv, OutcomeIsKept
    <2> QED
      BY <2>1 DEF InLedger
  <1>4. ReportsArePast'
    <2>1. ~InRound'
      BY <1>1 DEF InRound, history
    <2>2. rounds \in Nat /\ rounds' = rounds
      BY DeliveryAssumption DEF IInv, TypeOK
    <2>3. \A r \in ledger' : r.event[1] \in Reports => r.event[2] <= rounds
      BY <2>2 DEF IInv, ReportsArePast
    <2> QED
      BY <2>1, <2>2, <2>3 DEF ReportsArePast
  <1>5. /\ HubIsPast' /\ ShownOnce' /\ hub' \in [cursor : Nat, count : Nat] /\ shown' \subseteq ledger'
    BY HubStays
  <1>6. PastShows'
    BY DEF IInv, PastShows, market
  <1>7. lost' \subseteq {Closed(d) : d \in Deals}
    <2>1. \A i \in DOMAIN history.todo : \E d \in Deals : history.todo[i].event = Closed(d)
      BY Distinct DEF IInv, CallsAreKnown, Known, history
    <2>2. lost \subseteq {Closed(d) : d \in Deals}
      BY DEF IInv, TypeOK
    <2> QED
      BY <2>1, <2>2 DEF Events
  <1>8. LiveTyped'
    BY <1>1, <1>7 DEF LiveTyped
  <1>9. /\ clock' \in 1..MaxTime /\ visible' \subseteq Deals /\ stored' \subseteq visible'
        /\ cursor' \in 0..MaxTime /\ zone' \in Zones \cup {0} /\ again' \subseteq alerted'
    BY DEF IInv, TypeOK, market, deals
  <1>10. TypeOK'
    BY <1>5, <1>8, <1>9, Zenon DEF TypeOK, LiveTyped, Counters
  <1> QED
    BY <1>1, <1>2, <1>3, <1>4, <1>5, <1>6, <1>10 DEF IInv

LEMMA CompleteKeeps ==
  ASSUME IInv, Complete
  PROVE  IInv'
  <1>1. PICK c, r : c = Row(Report("completed"), clock) /\ r = Row(Report("recovered"), clock)
    OBVIOUS
  <1>2. PICK p \in Phases : p = [Idle EXCEPT !.at = "reporting", !.attempt = 1]
    <2>1. 1 \in 0 .. MaxAttempts
      BY DeliveryAssumption
    <2> QED
      BY <2>1, Distinct DEF Phases
  <1>3. /\ p.at = "reporting" /\ p.todo = <<>> /\ Idle.at = "idle" /\ Idle.todo = <<>>
    BY <1>2 DEF Idle
  <1>4. /\ history.at = "calls" /\ history.todo = <<>> /\ healthy' = TRUE /\ InRound
        /\ UNCHANGED <<market, deals, zone, lock, hub, bounds, lost, shown>>
    BY DEF Complete, InRound
  <1>5. /\ c \in Rows /\ r \in Rows /\ r.event = Report("recovered") /\ c.event[1] \in Reports
        /\ c.event[2] = rounds /\ r.event[1] \in Reports /\ r.event[2] = rounds
        /\ Kept => ~InLedger(r.event)
    BY <1>1, <1>4, ReportIsNew DEF Reports
  <1>6. lost' = lost \cup Events(history.todo)
    BY <1>4 DEF Events
  <1>7. healthy' \in BOOLEAN /\ Counters'
    <2>1. healthy' \in BOOLEAN
      BY <1>4, Zenon
    <2> QED
      BY <1>4, <2>1, CountersStay, Zenon DEF IInv
  <1>8. CASE Kept /\ ~healthy
    <2>1. /\ ledger' = ledger \cup {c, r} /\ alerted' = alerted \cup {r.event}
          /\ again' = again \cup ({r.event} \cap alerted) /\ Goto("history", p)
      BY <1>1, <1>2, <1>8 DEF Complete
    <2>2. r.event \notin alerted
      BY <1>5, <1>8 DEF IInv, AlertIsRecorded
    <2>3. again' = {} /\ AlertedOnce'
      BY <2>1, <2>2 DEF IInv, AlertedOnce
    <2>4. AlertIsRecorded'
      BY <2>1 DEF IInv, AlertIsRecorded, InLedger
    <2>5. /\ ledger \subseteq ledger' /\ ledger' \subseteq Rows
          /\ \A x \in ledger' \ ledger : x.event[1] \in Reports /\ x.event[2] = rounds
      BY <1>5, <2>1 DEF IInv, TypeOK
    <2> QED
      BY <1>3, <1>4, <1>6, <1>7, <2>1, <2>3, <2>4, <2>5, RoundEnds DEF bounds
  <1>9. CASE ~(Kept /\ ~healthy)
    <2>1. /\ ledger' = ledger \cup (IF Kept THEN {c} ELSE {}) /\ UNCHANGED alerts /\ Goto("history", Idle)
      BY <1>1, <1>9 DEF Complete
    <2>2. again' = {} /\ AlertedOnce' /\ AlertIsRecorded'
      BY <2>1 DEF IInv, AlertedOnce, AlertIsRecorded, InLedger, alerts
    <2>3. /\ ledger \subseteq ledger' /\ ledger' \subseteq Rows
          /\ \A x \in ledger' \ ledger : x.event[1] \in Reports /\ x.event[2] = rounds
      BY <1>5, <2>1 DEF IInv, TypeOK
    <2> QED
      BY <1>3, <1>4, <1>6, <1>7, <2>1, <2>2, <2>3, RoundEnds, Distinct DEF bounds
  <1> QED
    BY <1>8, <1>9

LEMMA HistoryFailsKeeps ==
  ASSUME IInv, HistoryFails
  PROVE  IInv'
  <1>1. PICK r : r = Row(Report("failed"), clock)
    OBVIOUS
  <1>2. PICK p \in Phases : p = [Idle EXCEPT !.at = "reporting", !.attempt = 1]
    <2>1. 1 \in 0 .. MaxAttempts
      BY DeliveryAssumption
    <2> QED
      BY <2>1, Distinct DEF Phases
  <1>3. /\ p.at = "reporting" /\ p.todo = <<>> /\ Idle.at = "idle" /\ Idle.todo = <<>>
    BY <1>2 DEF Idle
  <1>4. /\ history.at \in {"read", "calls"} /\ healthy' = FALSE /\ InRound /\ Trouble
        /\ UNCHANGED <<market, deals, zone, lock, hub, shown>>
        /\ lost' = lost \cup Events(history.todo)
    BY DEF HistoryFails, InRound
  <1>5. /\ r \in Rows /\ r.event[1] \in Reports /\ r.event[2] = rounds
        /\ Kept => ~InLedger(r.event)
    BY <1>1, <1>4, ReportIsNew DEF Reports
  <1>6. healthy' \in BOOLEAN /\ Counters' /\ UNCHANGED rounds
    <2>1. healthy' \in BOOLEAN
      BY <1>4, Zenon
    <2> QED
      BY <1>4, <2>1, TroubleIs, Zenon DEF IInv
  <1>7. CASE Kept /\ Write(r) /\ Goto("history", p)
    <2>1. /\ ledger' = ledger \cup {r} /\ ledger' \subseteq Rows
          /\ again' = {} /\ AlertedOnce' /\ AlertIsRecorded'
      BY <1>5, <1>7, WriteKeeps
    <2> QED
      BY <1>3, <1>4, <1>5, <1>6, <1>7, <2>1, RoundEnds
  <1>8. CASE Goto("history", Idle) /\ UNCHANGED <<ledger, alerts>>
    <2>1. again' = {} /\ AlertedOnce' /\ AlertIsRecorded' /\ ledger' \subseteq Rows
      BY <1>8 DEF IInv, TypeOK, AlertedOnce, AlertIsRecorded, InLedger, alerts
    <2> QED
      BY <1>3, <1>4, <1>6, <1>8, <2>1, RoundEnds, Distinct
  <1> QED
    BY <1>1, <1>2, <1>7, <1>8 DEF HistoryFails

(* The transitions of the zone, as rows about zones.                         *)
LEMMA CallsAre ==
  ASSUME NEW previous \in Zones \cup {0}, NEW found \in Findings, found.invalid => previous # 0,
         NEW stamp \in 0..MaxTime
  PROVE  /\ Calls(previous, found, stamp) \in Seq(Rows)
         /\ \A i \in DOMAIN Calls(previous, found, stamp) :
              Calls(previous, found, stamp)[i].event[1] \in Subjects
  <1> DEFINE About == Subjects \X Nat \X Nat
  <1>1. PICK current : current = found.current
    OBVIOUS
  <1>2. previous \in Nat /\ current \in Nat
    BY <1>1, DeliveryAssumption
  <1>3. /\ Invalidated(previous) \in About /\ Replaced(previous, current) \in About
        /\ Active(current) \in About /\ Touched(current) \in About
    BY <1>2 DEF Invalidated, Replaced, Active, Touched, Subjects
  <1> HIDE DEF About
  <1>4. PICK a, b, c : /\ a = IF found.invalid THEN <<Invalidated(previous)>> ELSE <<>>
                       /\ b = IF previous \notin {0, current} THEN <<Replaced(previous, current)>> ELSE <<>>
                       /\ c = IF found.touched THEN <<Touched(current)>> ELSE <<>>
    OBVIOUS
  <1>5. /\ a \in Seq(About) /\ b \in Seq(About) /\ c \in Seq(About)
        /\ <<Active(current)>> \in Seq(About) /\ <<>> \in Seq(About)
    BY <1>3, <1>4
  <1>6. PICK events : events = a \o (IF current = 0 THEN <<>> ELSE b \o <<Active(current)>> \o c)
    OBVIOUS
  <1>7. events \in Seq(About)
    <2>1. b \o <<Active(current)>> \o c \in Seq(About)
      BY <1>5
    <2> QED
      BY <1>5, <1>6, <2>1
  <1>8. Calls(previous, found, stamp) = [i \in DOMAIN events |-> Row(events[i], stamp)]
    BY <1>1, <1>4, <1>6 DEF Calls
  <1>9. \A e \in About : Row(e, stamp) \in Rows /\ Row(e, stamp).event = e /\ e[1] \in Subjects
    BY DEF About, Row, Rows, Subjects, Kinds
  <1>10. DOMAIN events = 1 .. Len(events) /\ Len(events) \in Nat /\ \A i \in DOMAIN events : events[i] \in About
    BY <1>7
  <1> QED
    BY <1>8, <1>9, <1>10

(* The forward worker goes on.                                               *)
LEMMA ForwardMoves ==
  ASSUME IInv, task["forward"].at # "sending", NEW p \in Phases, p.at # "sending",
         Goto("forward", p), Known("forward", p),
         UNCHANGED <<market, deals, ledger, healthy, lock, hub, rounds, alerts, lost, shown>>,
         zone' \in Zones \cup {0}, Counters'
  PROVE  IInv'
  <1>1. /\ task' \in [Tasks -> Phases] /\ task'["forward"] = p
        /\ \A u \in Tasks : u # "forward" => task'[u] = task[u]
    BY GotoMoves, Distinct DEF IInv
  <1>2. history' = history
    BY <1>1, Distinct DEF history
  <1>3. lock' # Free => task'[lock'].at = "sending"
    BY <1>1, LockIs DEF IInv
  <1>4. LockIsHeld'
    <2> SUFFICES ASSUME NEW u \in Tasks, task'[u].at = "sending"
                 PROVE  lock' = u /\ task'[u].todo # <<>> /\ InLedger(Head(task'[u].todo).event)
      BY DEF LockIsHeld, Call, InLedger
    <2>1. u # "forward" /\ task'[u] = task[u]
      BY <1>1
    <2> QED
      BY <2>1 DEF IInv, LockIsHeld, Call
  <1>5. CallsAreKnown'
    BY KnownMoves, Distinct DEF market
  <1>6. ReportsArePast' /\ OutcomeIsKept' /\ PastShows' /\ AlertedOnce' /\ AlertIsRecorded'
    BY <1>2
    DEF IInv, ReportsArePast, OutcomeIsKept, PastShows, AlertedOnce, AlertIsRecorded, InRound, Kept,
        InLedger, market, deals, alerts
  <1>7. /\ HubIsPast' /\ ShownOnce' /\ hub' \in [cursor : Nat, count : Nat] /\ shown' \subseteq ledger'
    BY HubStays DEF IInv, TypeOK
  <1>8. LiveTyped'
    BY <1>1, <1>3, LostStays, LockIs DEF IInv, LiveTyped
  <1>9. healthy' \in BOOLEAN
    BY HealthyStays, Zenon DEF IInv
  <1>10. /\ clock' \in 1..MaxTime /\ visible' \subseteq Deals /\ stored' \subseteq visible'
         /\ cursor' \in 0..MaxTime /\ ledger' \subseteq Rows /\ again' \subseteq alerted'
    BY DEF IInv, TypeOK, market, deals, alerts
  <1>11. TypeOK'
    BY <1>7, <1>8, <1>9, <1>10, Zenon DEF TypeOK, LiveTyped, Counters
  <1> QED
    BY <1>4, <1>5, <1>6, <1>7, <1>11 DEF IInv

LEMMA EvaluateKeeps ==
  ASSUME IInv, Evaluate
  PROVE  IInv'
  <1>1. PICK found \in Findings :
          /\ found.invalid => zone # 0
          /\ zone' = found.current
          /\ Goto("forward", Rest("forward", Calls(zone, found, clock - 1)))
    BY DEF Evaluate
  <1>2. clock - 1 \in 0..MaxTime /\ zone \in Zones \cup {0}
    BY DeliveryAssumption DEF IInv, TypeOK
  <1>3. PICK calls : calls = Calls(zone, found, clock - 1)
    OBVIOUS
  <1>4. calls \in Seq(Rows) /\ \A i \in DOMAIN calls : calls[i].event[1] \in Subjects
    BY <1>1, <1>2, <1>3, CallsAre
  <1>5. PICK p : p = Rest("forward", calls)
    OBVIOUS
  <1>6. p \in Phases /\ p.todo = calls /\ p.at # "sending"
    BY <1>4, <1>5, RestIs, Distinct
  <1>7. Known("forward", p)
    BY <1>4, <1>6 DEF Known
  <1>8. Counters'
    BY DeliveryAssumption DEF Evaluate, IInv, TypeOK, Counters
  <1>9. zone' \in Zones \cup {0}
    BY <1>1, DeliveryAssumption
  <1>10. Goto("forward", p) /\ task["forward"].at # "sending"
         /\ UNCHANGED <<market, deals, ledger, healthy, lock, hub, rounds, alerts, lost, shown>>
    BY <1>1, <1>3, <1>5 DEF Evaluate
  <1> QED
    BY <1>6, <1>7, <1>8, <1>9, <1>10, ForwardMoves

LEMMA NotifyFailsKeeps ==
  ASSUME IInv, NotifyFails
  PROVE  IInv'
  <1>1. /\ task["forward"].at # "sending" /\ Trouble /\ Goto("forward", Idle)
        /\ UNCHANGED <<market, deals, ledger, zone, healthy, lock, hub, alerts, lost, shown>>
    BY DEF NotifyFails, Calling
  <1>2. Known("forward", Idle) /\ Idle.at # "sending"
    BY DEF Known, Idle
  <1>3. Counters' /\ UNCHANGED rounds
    BY <1>1, TroubleIs DEF IInv
  <1>4. zone' \in Zones \cup {0}
    BY <1>1 DEF IInv, TypeOK
  <1> QED
    BY <1>1, <1>2, <1>3, <1>4, ForwardMoves, Distinct

LEMMA LiveDiesKeeps ==
  ASSUME IInv, LiveDies
  PROVE  IInv'
  <1>1. /\ Trouble /\ lost' = lost \cup {e \in Events(history.todo) : ~InLedger(e)}
        /\ healthy' = TRUE /\ task' = [t \in Tasks |-> Idle] /\ lock' = Free
        /\ Still
    BY DEF LiveDies, Still
  <1>2. /\ task' \in [Tasks -> Phases] /\ Idle.at = "idle" /\ Idle.todo = <<>>
        /\ \A t \in Tasks : task'[t] = Idle
    BY <1>1, Distinct DEF Idle
  <1>3. CallsAreKnown'
    BY <1>2 DEF CallsAreKnown, Known
  <1>4. LockIsHeld'
    BY <1>2 DEF LockIsHeld
  <1>5. Counters' /\ UNCHANGED rounds
    BY <1>1, TroubleIs DEF IInv
  <1>6. ReportsArePast'
    <2>1. ~InRound'
      BY <1>2, Distinct DEF InRound, history
    <2> QED
      BY <1>1, <1>5, <2>1 DEF IInv, ReportsArePast, Still
  <1>7. OutcomeIsKept'
    <2> SUFFICES ASSUME NEW d \in stored
                 PROVE  InLedger(Closed(d)) \/ Closed(d) \in lost'
      BY <1>1 DEF OutcomeIsKept, Still, deals, InLedger
    <2>1. InLedger(Closed(d)) \/ Closed(d) \in lost \/ Closed(d) \in Events(history.todo)
      BY DEF IInv, OutcomeIsKept
    <2> QED
      BY <1>1, <2>1
  <1>8. lost' \subseteq {Closed(d) : d \in Deals}
    <2>1. \A i \in DOMAIN history.todo : \E d \in Deals : history.todo[i].event = Closed(d)
      BY Distinct DEF IInv, CallsAreKnown, Known, history
    <2>2. lost \subseteq {Closed(d) : d \in Deals}
      BY DEF IInv, TypeOK
    <2> QED
      BY <1>1, <2>1, <2>2 DEF Events
  <1>9. LiveTyped'
    BY <1>1, <1>2, <1>8 DEF LiveTyped
  <1>10. healthy' \in BOOLEAN
    BY <1>1, Zenon
  <1>11. TypeOK'
    BY <1>1, <1>5, <1>9, <1>10, TypesStay, Zenon
  <1> QED
    BY <1>1, <1>3, <1>4, <1>6, <1>7, <1>11, StillKeeps DEF IInv

(* What the steps of the hub leave alone.                                    *)
LEMMA HubMoves ==
  ASSUME IInv, UNCHANGED <<market, deals, ledger, zone, live, alerts, lost, rounds>>, Counters',
         hub' \in [cursor : Nat, count : Nat], shown' \subseteq ledger, HubIsPast', ShownOnce'
  PROVE  IInv'
  <1>1. /\ LockIsHeld' /\ CallsAreKnown'
    <2>1. \A t \in Tasks : Known(t, task[t])'
      BY DEF IInv, CallsAreKnown, Known, market, live
    <2> QED
      BY <2>1 DEF IInv, LockIsHeld, CallsAreKnown, live, Call, InLedger
  <1>2. ReportsArePast' /\ OutcomeIsKept' /\ PastShows' /\ AlertedOnce' /\ AlertIsRecorded'
    BY DEF IInv, ReportsArePast, OutcomeIsKept, PastShows, AlertedOnce, AlertIsRecorded, InRound, Kept,
           InLedger, market, deals, alerts, live, history
  <1>3. healthy' \in BOOLEAN
    BY HealthyStays, Zenon DEF IInv, live
  <1>4. LiveTyped'
    BY LockIs DEF IInv, TypeOK, LiveTyped, live
  <1>5. /\ clock' \in 1..MaxTime /\ visible' \subseteq Deals /\ stored' \subseteq visible'
        /\ cursor' \in 0..MaxTime /\ ledger' \subseteq Rows /\ zone' \in Zones \cup {0}
        /\ again' \subseteq alerted' /\ shown' \subseteq ledger'
    BY DEF IInv, TypeOK, market, deals, alerts
  <1>6. TypeOK'
    BY <1>3, <1>4, <1>5, Zenon DEF TypeOK, LiveTyped, Counters
  <1> QED
    BY <1>1, <1>2, <1>6 DEF IInv

(* The row that a poll finds is past the hub's cursor, as no row that it sent.*)
LEMMA PollKeeps ==
  ASSUME IInv, Poll
  PROVE  IInv'
  <1>1. PICK r \in FirstAbove : /\ hub' = [cursor |-> Key(r), count |-> hub.count + 1]
                                /\ shown' = shown \cup {r}
                                /\ UNCHANGED <<market, deals, ledger, zone, live, bounds, alerts, lost>>
    BY DEF Poll
  <1>2. r \in ledger /\ Key(r) > hub.cursor
    BY DEF FirstAbove, Above
  <1>3. r \in Rows /\ hub \in [cursor : Nat, count : Nat] /\ shown \subseteq ledger /\ ledger \subseteq Rows
    BY <1>2 DEF IInv, TypeOK
  <1>4. Key(r) \in Nat /\ \A s \in shown : Key(s) \in Nat
    BY <1>3, KeyIsNumber
  <1>5. /\ IsFiniteSet(shown) /\ hub.count = Cardinality(shown)
        /\ \A s \in shown : Key(s) <= hub.cursor
    BY DEF IInv, HubIsPast, ShownOnce
  <1>6. r \notin shown
    BY <1>2, <1>3, <1>4, <1>5
  <1>7. IsFiniteSet(shown \cup {r}) /\ Cardinality(shown \cup {r}) = Cardinality(shown) + 1
    BY <1>5, <1>6, FS_AddElement
  <1>8. hub' \in [cursor : Nat, count : Nat] /\ hub'.cursor = Key(r) /\ hub'.count = hub.count + 1
    BY <1>1, <1>3, <1>4
  <1>9. \A s \in shown' : Key(s) <= Key(r)
    BY <1>1, <1>2, <1>3, <1>4, <1>5
  <1>10. HubIsPast'
    BY <1>1, <1>7, <1>8, <1>9 DEF HubIsPast, Key
  <1>11. ShownOnce'
    BY <1>1, <1>5, <1>7, <1>8 DEF ShownOnce
  <1>12. Counters'
    BY <1>1, CountersStay DEF IInv
  <1> QED
    BY <1>1, <1>2, <1>3, <1>8, <1>10, <1>11, <1>12, HubMoves DEF bounds

LEMMA ApiRestartsKeeps ==
  ASSUME IInv, ApiRestarts
  PROVE  IInv'
  <1>1. /\ Trouble /\ hub' = Waking /\ shown' = {}
        /\ UNCHANGED <<market, deals, ledger, zone, live, alerts, lost>>
    BY DEF ApiRestarts
  <1>2. HubIsPast' /\ ShownOnce'
    BY <1>1, FS_EmptySet DEF HubIsPast, ShownOnce, Waking
  <1>3. Counters' /\ UNCHANGED rounds
    BY <1>1, TroubleIs DEF IInv
  <1> QED
    BY <1>1, <1>2, <1>3, HubMoves, Distinct

LEMMA StutterKeeps ==
  ASSUME IInv, UNCHANGED vars
  PROVE  IInv'
  <1>1. HubIsPast' /\ ShownOnce' /\ hub' \in [cursor : Nat, count : Nat] /\ shown' \subseteq ledger
    BY HubStays DEF IInv, TypeOK, vars
  <1>2. Counters'
    BY CountersStay DEF IInv, vars
  <1> QED
    BY <1>1, <1>2, HubMoves DEF vars, bounds

LEMMA NextKeeps ==
  ASSUME IInv, [Next]_vars
  PROVE  IInv'
  <1>1. CASE Tick \/ \E d \in Deals : Show(d)
    BY <1>1, MarketKeeps
  <1>2. ASSUME NEW t \in Tasks, ServiceStep(t) \/ Answered(t) \/ PublishFails(t)
        PROVE  IInv'
    <2>1. CASE Withhold(t)
      BY <2>1, WithholdKeeps
    <2>2. CASE Publish(t)
      BY <2>2, PublishKeeps
    <2>3. CASE Retry(t)
      BY <2>3, RetryKeeps
    <2>4. CASE GiveUp(t) \/ Answered(t)
      BY <2>4, OverKeeps DEF GiveUp, Answered
    <2>5. CASE PublishFails(t)
      BY <2>5, PublishFailsKeeps
    <2> QED
      BY <1>2, <2>1, <2>2, <2>3, <2>4, <2>5 DEF ServiceStep
  <1>3. CASE HistoryStep \/ HistoryFails
    BY <1>3, ReadKeeps, PersistKeeps, CompleteKeeps, HistoryFailsKeeps DEF HistoryStep
  <1>4. CASE Evaluate \/ NotifyFails
    BY <1>4, EvaluateKeeps, NotifyFailsKeeps
  <1>5. CASE LiveDies
    BY <1>5, LiveDiesKeeps
  <1>6. CASE Poll \/ ApiRestarts
    BY <1>6, PollKeeps, ApiRestartsKeeps
  <1>7. CASE UNCHANGED vars
    BY <1>7, StutterKeeps
  <1> QED
    BY <1>1, <1>2, <1>3, <1>4, <1>5, <1>6, <1>7 DEF Next

LEMMA InitKeeps ==
  ASSUME Init
  PROVE  IInv
  <1>1. /\ clock = 1 /\ visible = {} /\ stored = {} /\ cursor = 0
        /\ ledger = {} /\ zone = 0 /\ healthy = TRUE /\ task = [t \in Tasks |-> Idle] /\ lock = Free
        /\ hub = Waking /\ rounds = 0 /\ cycles = 0 /\ trouble = 0
        /\ alerted = {} /\ again = {} /\ lost = {} /\ shown = {}
    BY DEF Init
  <1>2. /\ task \in [Tasks -> Phases] /\ Idle.at = "idle" /\ Idle.todo = <<>>
        /\ \A t \in Tasks : task[t] = Idle
    BY <1>1, Distinct DEF Idle
  <1>3. CallsAreKnown /\ LockIsHeld
    BY <1>2 DEF CallsAreKnown, Known, LockIsHeld
  <1>4. HubIsPast /\ ShownOnce
    BY <1>1, FS_EmptySet DEF HubIsPast, ShownOnce, Waking
  <1>5. ReportsArePast /\ OutcomeIsKept /\ PastShows /\ AlertedOnce /\ AlertIsRecorded
    BY <1>1 DEF ReportsArePast, OutcomeIsKept, PastShows, AlertedOnce, AlertIsRecorded
  <1>6. healthy \in BOOLEAN
    BY <1>1, Zenon
  <1>7. LiveTyped
    BY <1>1, <1>2 DEF LiveTyped
  <1>8. Counters
    BY <1>1, DeliveryAssumption DEF Counters
  <1>9. /\ clock \in 1..MaxTime /\ visible \subseteq Deals /\ stored \subseteq visible
        /\ cursor \in 0..MaxTime /\ ledger \subseteq Rows /\ zone \in Zones \cup {0}
        /\ hub \in [cursor : Nat, count : Nat] /\ again \subseteq alerted /\ shown \subseteq ledger
    BY <1>1, Distinct, DeliveryAssumption
  <1>10. TypeOK
    BY <1>6, <1>7, <1>8, <1>9, Zenon DEF TypeOK, LiveTyped, Counters
  <1> QED
    BY <1>3, <1>4, <1>5, <1>10 DEF IInv

(* The inductive invariant.                                                  *)
THEOREM Invariance == Spec => []IInv
  <1>1. Init => IInv
    BY InitKeeps
  <1>2. IInv /\ [Next]_vars => IInv'
    BY NextKeeps
  <1> QED
    BY <1>1, <1>2, PTL DEF Spec

(* The variables keep their types: the lock, if it is held, is with a task   *)
(* that is sending, and only outcomes are given up.                          *)
THEOREM TypeCorrect == Spec => []TypeOK
  <1>1. IInv => TypeOK
    BY DEF IInv
  <1> QED
    BY <1>1, Invariance, PTL

(* The delivery of an event to Telegram is begun at most once, whatever is   *)
(* repeated, fails or dies, and only of an event that is on record; and no   *)
(* hub broadcasts a row twice.                                               *)
THEOREM AlertsStaySound == Spec => []AlertsAreSound
  <1>1. IInv => AlertsAreSound
    BY DEF IInv, AlertsAreSound
  <1> QED
    BY <1>1, Invariance, PTL

(* A deal that was stored is on record as an outcome, or will be announced   *)
(* by the round that stored it, unless a failure or a death came between.    *)
THEOREM OutcomesStayKept == Spec => []OutcomeIsKept
  <1>1. IInv => OutcomeIsKept
    BY DEF IInv
  <1> QED
    BY <1>1, Invariance, PTL

(* A zone is reported as replaced only while it is not on record as          *)
(* invalidated.                                                              *)
NotClaimedInvalidated ==
  \A r \in ledger' \ ledger : r.event[1] = "replaced" => ~InLedger(Invalidated(r.event[2]))

LEMMA LedgerGrows ==
  ASSUME IInv, [Next]_vars
  PROVE  NotClaimedInvalidated
  <1> SUFFICES ASSUME NEW r \in ledger' \ ledger, r.event[1] = "replaced"
               PROVE  ~InLedger(Invalidated(r.event[2]))
    BY DEF NotClaimedInvalidated
  <1>1. r.event[1] \notin Reports
    BY DEF Reports
  <1>2. ASSUME NEW t \in Tasks, ServiceStep(t) \/ Answered(t) \/ PublishFails(t)
        PROVE  ~InLedger(Invalidated(r.event[2]))
    <2>1. Publish(t) /\ ledger' = ledger \cup {Call(t)} /\ ~Moot(Call(t).event)
      BY <1>2 DEF ServiceStep, Answered, PublishFails, Withhold, Publish, Retry, GiveUp, Over,
                  WriteRaises, Write
    <2>2. r = Call(t)
      BY <2>1
    <2> QED
      BY <2>1, <2>2 DEF Moot, IsMoot
  <1>3. CASE HistoryStep \/ HistoryFails
    <2>1. ASSUME Complete
          PROVE  FALSE
      <3>1. PICK c, d : c = Row(Report("completed"), clock) /\ d = Row(Report("recovered"), clock)
        OBVIOUS
      <3>2. ledger' \subseteq ledger \cup {c, d}
        BY <2>1, <3>1 DEF Complete
      <3>3. c.event[1] \in Reports /\ d.event[1] \in Reports
        BY <3>1 DEF Row, Report, Reports
      <3> QED
        BY <1>1, <3>2, <3>3
    <2>2. ASSUME HistoryFails
          PROVE  FALSE
      <3>1. PICK c : c = Row(Report("failed"), clock)
        OBVIOUS
      <3>2. ledger' \subseteq ledger \cup {c}
        BY <2>2, <3>1 DEF HistoryFails, Write
      <3>3. c.event[1] \in Reports
        BY <3>1 DEF Row, Report, Reports
      <3> QED
        BY <1>1, <3>2, <3>3
    <2>3. ledger' = ledger \/ Complete \/ HistoryFails
      BY <1>3 DEF HistoryStep, Read, Persist
    <2> QED
      BY <2>1, <2>2, <2>3
  <1>4. CASE Tick \/ (\E d \in Deals : Show(d)) \/ Evaluate \/ NotifyFails \/ LiveDies
    BY <1>4 DEF Tick, Show, Evaluate, NotifyFails, LiveDies
  <1>5. CASE Poll \/ ApiRestarts \/ UNCHANGED vars
    BY <1>5 DEF Poll, ApiRestarts, vars
  <1> QED
    BY <1>2, <1>3, <1>4, <1>5 DEF Next

THEOREM ReplacedStaysNotInvalidated == Spec => ReplacedIsNotInvalidated
  <1>1. IInv /\ [Next]_vars => NotClaimedInvalidated
    BY LedgerGrows
  <1> QED
    BY <1>1, Invariance, PTL DEF Spec, ReplacedIsNotInvalidated, NotClaimedInvalidated
===============================================================================
