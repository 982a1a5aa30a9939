------------------------- MODULE ForwardShadow_proofs -------------------------
(* Proofs about ForwardShadow, for any candles, zones, ages, horizons and    *)
(* bounds, with and without faults.                                          *)
EXTENDS ForwardShadow, FiniteSetTheorems, SequenceTheorems, TLAPS

(* ------------------------- least and greatest ---------------------------- *)

(* What CHOOSE picks in Outcome and in Newest exists.                        *)
LEMMA Least ==
  ASSUME NEW S \in SUBSET Nat, S # {}
  PROVE  \E m \in S : \A n \in S : m <= n
  <1> DEFINE R == {p \in Nat \X Nat : p[1] < p[2]}
  <1>1. IsWellFoundedOn(R, Nat)
    BY NatLessThanWellFounded DEF OpToRel
  <1>2. PICK m \in S : \A n \in S : <<n, m>> \notin R
    <2> HIDE DEF R
    <2> QED
      BY <1>1, WFMin
  <1>3. \A n \in S : ~(n < m)
    BY <1>2
  <1> QED
    BY <1>3

LEMMA Greatest ==
  ASSUME NEW t \in Nat, NEW S \in SUBSET (0..t), S # {}
  PROVE  \E m \in S : \A n \in S : n <= m
  <1> DEFINE U == {n \in 0..t : \A s \in S : s <= n}
  <1>1. t \in U /\ U # {} /\ U \in SUBSET Nat
    OBVIOUS
  <1>2. PICK m \in U : \A n \in U : m <= n
    <2> HIDE DEF U
    <2> QED
      BY <1>1, Least
  <1>3. m \in S
    <2>1. SUFFICES ASSUME m \notin S PROVE FALSE
      OBVIOUS
    <2>2. \A s \in S : s \in Nat /\ m \in Nat /\ s <= m /\ s # m
      BY <2>1
    <2>3. PICK s \in S : TRUE
      OBVIOUS
    <2>4. m \in 0..t
      OBVIOUS
    <2>5. m - 1 \in 0..t /\ \A n \in S : n <= m - 1
      BY <2>2, <2>3, <2>4
    <2>6. m - 1 \in U
      BY <2>5
    <2> QED
      BY <1>2, <2>5, <2>6
  <1> QED
    BY <1>3

(* --------------------------- the inductive invariant --------------------- *)

Busy == {"notify", "momentum", "breakout", "pair", "link", "canonical", "execute"}

(* Before the first session nothing is stored and nothing runs.              *)
NoSessionYet ==
  session = "none" => pc \in {"down", "off"} /\ \A k \in Keys : signal[k].setup = None

(* A row names a setup of its own strategy, and a candle that has closed.    *)
RowsInOrder ==
  \A k \in Keys :
    /\ signal[k].setup \in (IF k[1] = "zone" THEN Zones ELSE Events) \cup {None}
    /\ signal[k].setup = None => signal[k].trade = "OPEN"
    /\ signal[k].setup # None => k[2] <= closed

QueueIsPast == \A i \in 1..Len(queue) : queue[i].at <= closed

(* Past the session's guard, the snapshot in hand is of the session.         *)
ItemInHand ==
  /\ pc \in Busy => item \in Snapshots /\ item.at <= closed
  /\ pc \in Busy \ {"notify"} => item.at > since

(* The decision that the worker carries from one await to the next is still  *)
(* what the history up to its candle says.                                   *)
FoundIsDue ==
  found # None => item \in Snapshots /\ item.at <= closed /\ Due(found, item.at)

(* What is behind the worker is stored.                                      *)
StepsAreStored ==
  /\ pc \in {"link", "canonical"} => signal[<<"zone", item.at>>].setup # None
  /\ pc = "canonical" /\ intelligence => candidate[item.at] = "linked"

EvaluationIsTrue ==
  evaluation.zone # None => evaluation.at <= closed /\ Alive(evaluation.zone, evaluation.at)

IInv ==
  /\ TypeOK
  /\ OneSignalPerSetup /\ SettledForGood /\ HandedIsProved /\ EndedIsReported /\ SignalsAreDue
  /\ NoSessionYet /\ RowsInOrder /\ QueueIsPast /\ ItemInHand /\ FoundIsDue
  /\ StepsAreStored /\ EvaluationIsTrue

(* ------------------------------ the operators ---------------------------- *)

LEMMA TouchesType ==
  ASSUME NEW t \in Nat, NEW S \in SUBSET (1..t)
  PROVE  Touches(S) \in Nat
  <1> DEFINE U == {c \in S : Inside(c) /\ (c - 1 \in S => ~Inside(c - 1))}
  <1>1. IsFiniteSet(1..t)
    BY FS_Interval
  <1>2. U \in SUBSET (1..t)
    OBVIOUS
  <1>3. IsFiniteSet(U)
    <2> HIDE DEF U
    <2> QED
      BY <1>1, <1>2, FS_Subset
  <1>4. Cardinality(U) \in Nat
    BY <1>3, FS_CardinalityType
  <1> QED
    BY <1>4 DEF Touches

(* What was said of candles that are past is not changed by later ones.      *)
LEMMA SameHistory ==
  ASSUME NEW z, NEW c, \A i \in 1..c : bar'[i] = bar[i]
  PROVE  /\ Alive(z, c)' <=> Alive(z, c)
         /\ Due(z, c)' <=> Due(z, c)
  <1> DEFINE H == History(z, c)
  <1>1. H \subseteq 1..c
    BY DEF History
  <1>2. \A i \in H : bar'[i] = bar[i]
    BY <1>1
  <1>3. \A i \in H : Inside(i)' <=> Inside(i)
    BY <1>2 DEF Inside
  <1>4. Touches(H)' = Touches(H)
    <2>1. {i \in H : Inside(i)' /\ (i - 1 \in H => ~Inside(i - 1)')}
            = {i \in H : Inside(i) /\ (i - 1 \in H => ~Inside(i - 1))}
      <3> HIDE DEF H
      <3> QED
        BY <1>3
    <2> QED
      BY <2>1 DEF Touches, History
  <1>5. Broken(H)' <=> Broken(H)
    BY <1>2 DEF Broken, History
  <1>6. FirstConfirmation(H)' = FirstConfirmation(H)
    BY <1>2 DEF FirstConfirmation, History
  <1> QED
    BY <1>4, <1>5, <1>6 DEF Alive, Due, History

(* A zone young enough to be looked at is seen whole.                        *)
LEMMA SeenWhole ==
  ASSUME NEW t \in Nat, NEW z \in Recent(t)
  PROVE  Seen(z, t) = History(z, t) /\ z \in Zones /\ z \in Nat /\ z <= t /\ t <= z + Age
  BY ForwardAssumption DEF Recent, Seen, History

(* A zone that the strategy holds for live is alive, whatever it forgot.     *)
LEMMA LiveIsAlive ==
  ASSUME NEW t \in Nat, NEW z \in In("ACTIVE", t) \cup In("CONFIRMED", t)
  PROVE  z \in Zones /\ z <= t /\ Alive(z, t)
  <1>1. z \in Recent(t) /\ Lifecycle(z, t) \in {"ACTIVE", "CONFIRMED"}
    BY DEF In
  <1>2. Seen(z, t) = History(z, t) /\ z \in Zones /\ z \in Nat /\ z <= t /\ t <= z + Age
    BY <1>1, SeenWhole
  <1>3. Touches(History(z, t)) \in Nat
    BY TouchesType DEF History
  <1>4. ~Broken(History(z, t)) /\ ~(Touches(History(z, t)) > MaxTouches)
    <2>1. Broken(Seen(z, t)) => Lifecycle(z, t) = "INVALIDATED"
      BY DEF Lifecycle
    <2>2. Touches(Seen(z, t)) > MaxTouches => Lifecycle(z, t) \in {"INVALIDATED", "EXPIRED"}
      BY DEF Lifecycle
    <2> QED
      BY <1>1, <1>2, <2>1, <2>2
  <1> QED
    BY <1>2, <1>3, <1>4, ForwardAssumption DEF Alive

LEMMA CandidateIsDue ==
  ASSUME NEW t \in Nat, NEW z \in Candidates(t)
  PROVE  z \in Zones /\ Due(z, t)
  <1>1. z \in In("CONFIRMED", t) /\ t \in FirstConfirmation(Seen(z, t))
    BY DEF Candidates
  <1>2. z \in Zones /\ Alive(z, t)
    BY <1>1, LiveIsAlive
  <1>3. Seen(z, t) = History(z, t)
    BY <1>1, SeenWhole DEF In
  <1>4. FirstConfirmation(History(z, t)) = {t}
    BY <1>1, <1>3 DEF FirstConfirmation, History
  <1> QED
    BY <1>2, <1>4 DEF Due

LEMMA ChosenIsDue ==
  ASSUME NEW t \in Nat, Chosen(Candidates(t)) # None
  PROVE  Chosen(Candidates(t)) \in Zones /\ Due(Chosen(Candidates(t)), t)
  <1>1. Chosen(Candidates(t)) \in Candidates(t)
    BY DEF Chosen
  <1> QED
    BY <1>1, CandidateIsDue

LEMMA NewestIsAlive ==
  ASSUME NEW t \in Nat, NEW z, z = Newest(In("ACTIVE", t) \cup In("CONFIRMED", t)), z # None
  PROVE  z \in Zones /\ Alive(z, t)
  <1> DEFINE L == In("ACTIVE", t) \cup In("CONFIRMED", t)
  <1>1. L # {} /\ z = CHOOSE m \in L : \A y \in L : y <= m
    BY DEF Newest
  <1>2. \A y \in L : y \in 0..t
    <2>1. \A y \in L : y \in Zones /\ y <= t
      BY LiveIsAlive
    <2>2. \A y \in Zones : y \in Nat
      BY ForwardAssumption
    <2> HIDE DEF L
    <2>3. ASSUME NEW y \in L PROVE y \in 0..t
      <3>1. y \in Nat /\ y <= t
        BY <2>1, <2>2
      <3> QED
        BY <3>1
    <2> QED
      BY <2>3
  <1>3. \E m \in L : \A y \in L : y <= m
    <2> HIDE DEF L
    <2> QED
      BY <1>1, <1>2, Greatest
  <1>4. z \in L
    BY <1>1, <1>3
  <1> QED
    BY <1>4, LiveIsAlive

(* ------------------------------ type correctness ------------------------- *)

LEMMA Bounds ==
  /\ MaxCandle \in Nat /\ MaxGen \in Nat /\ Capacity \in Nat /\ Horizon \in Nat /\ Age \in Nat
  /\ Capacity > 0 /\ Horizon > 0 /\ MaxCandle > 0
  /\ \A z \in Zones : z \in Nat /\ z # None
  /\ \A e \in Events : e # None /\ e \notin Zones
  BY ForwardAssumption DEF Events

LEMMA ClosedType ==
  ASSUME TypeOK
  PROVE  closed \in Nat /\ closed <= MaxCandle /\ DOMAIN bar = 1..closed /\ \A c \in 1..closed : bar[c] \in Bars
  <1>1. bar \in Seq(Bars)
    BY DEF TypeOK
  <1>2. closed \in Nat /\ DOMAIN bar = 1..closed
    BY <1>1, LenProperties DEF closed
  <1>3. \A c \in 1..closed : bar[c] \in Bars
    BY <1>1, ElementOfSeq DEF closed
  <1> QED
    BY <1>2, <1>3, Bounds DEF TypeOK

(* What a later candle does to the history: nothing.                         *)
HistoryKept ==
  /\ closed \in Nat /\ closed' \in Nat /\ closed <= closed'
  /\ \A c \in 1..closed : bar'[c] = bar[c]

LEMMA NewCandle ==
  ASSUME TypeOK, CandleCloses
  PROVE  bar' \in Seq(Bars) /\ closed' = closed + 1 /\ closed' \in 0..MaxCandle /\ HistoryKept
  <1>1. PICK b \in Bars : bar' = Append(bar, b)
    BY DEF CandleCloses
  <1>2. /\ bar' \in Seq(Bars) /\ Len(bar') = Len(bar) + 1
        /\ \A c \in 1..Len(bar) : bar'[c] = bar[c]
    BY <1>1, AppendProperties DEF TypeOK
  <1>3. closed \in Nat /\ closed < MaxCandle /\ MaxCandle \in Nat
    BY ClosedType, Bounds DEF CandleCloses
  <1> QED
    BY <1>2, <1>3 DEF closed, HistoryKept

LEMMA SameCandles ==
  ASSUME TypeOK, bar' = bar
  PROVE  closed' = closed /\ HistoryKept
  BY ClosedType DEF closed, HistoryKept

LEMMA HealthType ==
  ASSUME TypeOK
  PROVE  /\ Health("CONNECTED") \in [state : {"CONNECTED", "DEGRADED", "ERROR", "STARTING"}, gen : 0..MaxGen, last : 0..MaxCandle]
         /\ Health("DEGRADED") \in [state : {"CONNECTED", "DEGRADED", "ERROR", "STARTING"}, gen : 0..MaxGen, last : 0..MaxCandle]
         /\ Health("CONNECTED").state = "CONNECTED" /\ Health("DEGRADED").state = "DEGRADED"
         /\ \A t \in 0..MaxCandle :
              /\ [Health("DEGRADED") EXCEPT !.last = t] \in [state : {"CONNECTED", "DEGRADED", "ERROR", "STARTING"}, gen : 0..MaxGen, last : 0..MaxCandle]
              /\ [Health("DEGRADED") EXCEPT !.last = t].state = "DEGRADED"
  BY DEF Health, TypeOK

LEMMA QueueGrows ==
  ASSUME TypeOK, NEW t \in Candles, NEW x \in Ticks, queue' = Append(queue, [at |-> t, tick |-> x]),
         Len(queue) < Capacity
  PROVE  /\ queue' \in Seq(Snapshots) /\ Len(queue') = Len(queue) + 1 /\ Len(queue') <= Capacity
         /\ \A i \in 1..Len(queue) : queue'[i] = queue[i]
         /\ queue'[Len(queue) + 1].at = t /\ Len(queue) \in Nat
  <1>1. [at |-> t, tick |-> x] \in Snapshots
    BY DEF Snapshots
  <1>2. queue \in Seq(Snapshots)
    BY DEF TypeOK
  <1>3. Len(queue) \in Nat
    BY <1>2, LenProperties
  <1>4. /\ queue' \in Seq(Snapshots) /\ Len(queue') = Len(queue) + 1
        /\ \A i \in 1..Len(queue) : queue'[i] = queue[i]
        /\ queue'[Len(queue) + 1] = [at |-> t, tick |-> x]
    BY <1>1, <1>2, AppendProperties
  <1> QED
    BY <1>3, <1>4, Bounds

LEMMA QueueShrinks ==
  ASSUME TypeOK, queue # <<>>, queue' = Tail(queue)
  PROVE  /\ queue' \in Seq(Snapshots) /\ Len(queue') = Len(queue) - 1 /\ Len(queue') <= Capacity
         /\ Len(queue) \in Nat /\ 1 \in 1..Len(queue)
         /\ Head(queue) = queue[1] /\ Head(queue) \in Snapshots
         /\ \A i \in 1..Len(queue') : queue'[i] = queue[i + 1]
  <1>1. queue \in Seq(Snapshots) /\ Len(queue) <= Capacity
    BY DEF TypeOK
  <1>2. Len(queue) \in Nat /\ Len(queue) # 0
    BY <1>1, EmptySeq, LenProperties
  <1>3. queue[1] \in Snapshots /\ Head(queue) = queue[1]
    BY <1>1, <1>2, ElementOfSeq
  <1>4. queue' \in Seq(Snapshots) /\ Len(queue') = Len(queue) - 1 /\ \A i \in 1..Len(queue') : queue'[i] = queue[i + 1]
    BY <1>1, <1>2, HeadTailProperties
  <1> QED
    BY <1>1, <1>2, <1>3, <1>4, Bounds

(* -------------------------------- outcomes ------------------------------- *)

LEMMA OutcomeSettles ==
  ASSUME TypeOK, NEW a \in Candles
  PROVE  Outcome(a) \in TradeStates /\ Settled(a, Outcome(a))
  <1> DEFINE future == {c \in (a + 1)..(a + Horizon) : c <= closed}
             hits == {c \in future : bar[c].trade # "OPEN"}
             first == CHOOSE c \in hits : \A d \in hits : c <= d
  <1>1. a \in Nat /\ closed \in Nat /\ Horizon \in Nat
    BY ClosedType, Bounds DEF Candles
  <1>2. future \subseteq 1..closed /\ \A c \in future : c \in Nat /\ c <= closed
    BY <1>1
  <1>3. \A c \in future : bar[c].trade \in {"OPEN", "TP", "SL", "AMBIGUOUS"}
    BY <1>2, ClosedType, ForwardAssumption
  <1>4. CASE hits # {}
    <2>1. hits \in SUBSET Nat
      BY <1>2
    <2>2. first \in hits /\ \A d \in hits : first <= d
      <3>1. \E c \in hits : \A d \in hits : c <= d
        <4> HIDE DEF hits
        <4> QED
          BY <1>4, <2>1, Least
      <3> QED
        BY <3>1
    <2>3. Outcome(a) = bar[first].trade
      BY <1>4 DEF Outcome
    <2> HIDE DEF first
    <2>4. first \in (a + 1)..closed /\ first <= a + Horizon /\ bar[first].trade \in {"TP", "SL", "AMBIGUOUS"}
      BY <1>1, <1>3, <2>2
    <2>5. ASSUME NEW d \in (a + 1)..(first - 1) PROVE bar[d].trade = "OPEN"
      <3>1. d \in future /\ d \notin hits
        BY <1>1, <2>2, <2>4
      <3> QED
        BY <3>1
    <2> QED
      BY <2>3, <2>4, <2>5 DEF Settled, TradeStates
  <1>5. CASE hits = {} /\ Cardinality(future) < Horizon
    <2>1. Outcome(a) = "OPEN"
      BY <1>5 DEF Outcome
    <2> QED
      BY <2>1 DEF Settled, TradeStates
  <1>6. CASE hits = {} /\ ~(Cardinality(future) < Horizon)
    <2>1. Outcome(a) = "EXPIRED"
      BY <1>6 DEF Outcome
    <2>2. a + Horizon <= closed
      <3>1. SUFFICES ASSUME closed < a + Horizon PROVE FALSE
        BY <1>1
      <3>2. future = (a + 1)..closed
        BY <1>1, <3>1
      <3>3. Cardinality((a + 1)..closed) = IF a + 1 > closed THEN 0 ELSE closed - (a + 1) + 1
        <4>1. a + 1 \in Int /\ closed \in Int
          BY <1>1
        <4> QED
          BY <4>1, FS_Interval
      <3>4. Cardinality(future) = Cardinality((a + 1)..closed)
        BY <3>2
      <3> HIDE DEF future
      <3> QED
        BY <1>1, <1>6, <3>1, <3>3, <3>4, Bounds
    <2>3. ASSUME NEW c \in (a + 1)..(a + Horizon) PROVE bar[c].trade = "OPEN"
      <3>1. c \in future /\ c \notin hits
        BY <1>1, <1>6, <2>2
      <3> QED
        BY <3>1
    <2> QED
      BY <2>1, <2>2, <2>3 DEF Settled, TradeStates
  <1> QED
    BY <1>4, <1>5, <1>6

(* A settled trade stays as it is whatever candles come.                     *)
LEMMA SettledStays ==
  ASSUME HistoryKept, NEW a \in Nat, NEW s, Settled(a, s)
  PROVE  Settled(a, s)'
  <1>1. closed \in Nat /\ closed' \in Nat /\ closed <= closed' /\ Horizon \in Nat
        /\ \A c \in 1..closed : bar'[c] = bar[c]
    BY Bounds DEF HistoryKept
  <1>2. CASE s = "OPEN"
    BY <1>2 DEF Settled
  <1>3. CASE s = "EXPIRED" /\ a + Horizon <= closed /\ \A c \in (a + 1)..(a + Horizon) : bar[c].trade = "OPEN"
    <2>1. \A c \in (a + 1)..(a + Horizon) : bar'[c].trade = "OPEN"
      BY <1>1, <1>3
    <2> QED
      BY <1>1, <1>3, <2>1 DEF Settled
  <1>4. CASE /\ s # "OPEN" /\ (a + Horizon <= closed \/ s # "EXPIRED")
             /\ \E c \in (a + 1)..closed : /\ c <= a + Horizon /\ bar[c].trade = s
                                           /\ \A d \in (a + 1)..(c - 1) : bar[d].trade = "OPEN"
    <2>1. PICK c \in (a + 1)..closed : /\ c <= a + Horizon /\ bar[c].trade = s
                                       /\ \A d \in (a + 1)..(c - 1) : bar[d].trade = "OPEN"
      BY <1>4
    <2>2. c \in (a + 1)..closed' /\ bar'[c].trade = s
      BY <1>1, <2>1
    <2>3. \A d \in (a + 1)..(c - 1) : bar'[d].trade = "OPEN"
      BY <1>1, <2>1
    <2>4. a + Horizon <= closed' \/ s # "EXPIRED"
      BY <1>1, <1>4
    <2> QED
      BY <1>4, <2>1, <2>2, <2>3, <2>4 DEF Settled
  <1> QED
    BY <1>2, <1>3, <1>4 DEF Settled

(* ------------------------------- the rows -------------------------------- *)

Rows == OneSignalPerSetup /\ SettledForGood /\ SignalsAreDue /\ RowsInOrder

Finality ==
  \A k \in Keys :
    /\ signal[k].setup # None => [signal'[k] EXCEPT !.trade = signal[k].trade] = signal[k]
    /\ signal[k].trade # "OPEN" => signal'[k].trade = signal[k].trade

Setups(kind) == (IF kind = "zone" THEN Zones ELSE Events) \cup {None}

LEMMA KeyType ==
  /\ \A k \in Keys : k[1] \in {"zone", "momentum"} /\ k[2] \in Candles /\ k[2] \in Nat /\ k = <<k[1], k[2]>>
  /\ \A kind \in {"zone", "momentum"}, c \in Candles :
       <<kind, c>> \in Keys /\ <<kind, c>>[1] = kind /\ <<kind, c>>[2] = c
  BY DEF Keys, Candles

LEMMA RowType ==
  ASSUME TypeOK, NEW k \in Keys
  PROVE  signal[k] \in SignalRows /\ signal[k].trade \in TradeStates
  BY DEF TypeOK, SignalRows

LEMMA SetupsDiffer ==
  ASSUME NEW j \in {"zone", "momentum"}, NEW k \in {"zone", "momentum"}, NEW s \in Setups(j), s \in Setups(k), s # None
  PROVE  j = k
  BY Bounds DEF Setups

(* No row changes, the candles may: all that was said of the rows stays.     *)
LEMMA RowsStay ==
  ASSUME TypeOK, Rows, HistoryKept, signal' = signal,
         since' = since \/ \A k \in Keys : signal[k].setup = None
  PROVE  Rows' /\ Finality
  <1>1. OneSignalPerSetup'
    BY DEF Rows, OneSignalPerSetup
  <1>2. SettledForGood'
    <2>1. \A k \in Keys : Settled(k[2], signal[k].trade)
      BY DEF Rows, SettledForGood
    <2>2. ASSUME NEW k \in Keys PROVE Settled(k[2], signal[k].trade)'
      <3>1. PICK s : s = signal[k].trade
        OBVIOUS
      <3>2. Settled(k[2], s)'
        BY <2>1, <3>1, SettledStays, KeyType
      <3>3. (signal[k].trade)' = s
        BY <3>1
      <3> QED
        BY <3>2, <3>3 DEF Settled
    <2> QED
      BY <2>2 DEF SettledForGood
  <1>3. SignalsAreDue'
    <2>1. ASSUME NEW c \in Candles, NEW z, z = signal[<<"zone", c>>].setup, z # None
          PROVE  c > since' /\ Due(z, c)'
      <3>1. <<"zone", c>> \in Keys /\ <<"zone", c>>[2] = c /\ c \in Nat
        BY KeyType DEF Candles
      <3>2. c <= closed
        BY <2>1, <3>1 DEF Rows, RowsInOrder
      <3>3. c > since /\ Due(z, c) /\ since' = since
        BY <2>1, <3>1 DEF Rows, SignalsAreDue
      <3>4. \A i \in 1..c : bar'[i] = bar[i]
        BY <3>1, <3>2 DEF HistoryKept
      <3>5. Due(z, c)'
        BY <3>3, <3>4, SameHistory
      <3> QED
        BY <3>3, <3>5
    <2> QED
      BY <2>1 DEF SignalsAreDue
  <1>4. RowsInOrder'
    BY KeyType DEF Rows, RowsInOrder, HistoryKept
  <1>5. Finality
    <2>1. ASSUME NEW k \in Keys PROVE [signal[k] EXCEPT !.trade = signal[k].trade] = signal[k]
      BY RowType DEF SignalRows
    <2> QED
      BY <2>1 DEF Finality
  <1> QED
    BY <1>1, <1>2, <1>3, <1>4, <1>5 DEF Rows

(* A row is inserted for the snapshot in hand, where neither its candle nor  *)
(* its setup has one.                                                        *)
LEMMA RowsGrow ==
  ASSUME TypeOK, Rows, bar' = bar, since' = since, item \in Snapshots, item.at <= closed,
         NEW kind \in {"zone", "momentum"}, NEW s \in Setups(kind), s # None,
         kind = "zone" => item.at > since /\ Due(s, item.at),
         Fresh(kind, s), Insert(kind, s)
  PROVE  /\ signal' \in [Keys -> SignalRows] /\ Rows' /\ Finality
         /\ <<kind, item.at>> \in Keys /\ signal'[<<kind, item.at>>].setup = s
         /\ \A k \in Keys : signal[k].setup # None => signal'[k] = signal[k]
  <1>1. PICK a : a = item.at
    OBVIOUS
  <1>2. PICK n : n = <<kind, a>>
    OBVIOUS
  <1>3. a \in Candles /\ n \in Keys /\ n[1] = kind /\ n[2] = a /\ item.tick \in Ticks
    BY <1>1, <1>2, KeyType DEF Snapshots
  <1>4. signal[n].setup = None /\ \A c \in Candles : signal[<<kind, c>>].setup # s
    BY <1>1, <1>2 DEF Fresh, Row
  <1>5. PICK r : r = [setup |-> s, tick |-> item.tick, trade |-> "OPEN"]
    OBVIOUS
  <1>6. r \in SignalRows /\ r.setup = s /\ r.trade = "OPEN"
    BY <1>3, <1>5, ForwardAssumption DEF SignalRows, Setups, TradeStates
  <1>7. signal' = [signal EXCEPT ![n] = r] /\ signal \in [Keys -> SignalRows]
    BY <1>1, <1>2, <1>5 DEF Insert, TypeOK
  <1>8. signal' \in [Keys -> SignalRows] /\ signal'[n] = r /\ \A k \in Keys : k # n => signal'[k] = signal[k]
    BY <1>3, <1>6, <1>7
  <1>9. \A k \in Keys : k # n => signal[k].setup # s
    <2>1. SUFFICES ASSUME NEW k \in Keys, k # n, signal[k].setup = s PROVE FALSE
      OBVIOUS
    <2>2. signal[k].setup \in Setups(k[1])
      BY DEF Rows, RowsInOrder, Setups
    <2>3. k[1] = kind
      BY <2>1, <2>2, SetupsDiffer, KeyType
    <2> QED
      BY <1>4, <2>1, <2>3, KeyType
  <1>10. OneSignalPerSetup'
    <2>1. SUFFICES ASSUME NEW k \in Keys, NEW l \in Keys, signal'[k].setup # None, signal'[k].setup = signal'[l].setup
                   PROVE  k = l
      BY DEF OneSignalPerSetup
    <2>2. CASE k # n /\ l # n
      BY <1>8, <2>1, <2>2 DEF Rows, OneSignalPerSetup
    <2>3. CASE k = n \/ l = n
      BY <1>6, <1>8, <1>9, <2>1, <2>3
    <2> QED
      BY <2>2, <2>3
  <1>11. SettledForGood'
    <2>1. \A k \in Keys : Settled(k[2], signal[k].trade)
      BY DEF Rows, SettledForGood
    <2>2. \A k \in Keys : Settled(k[2], signal'[k].trade)
      BY <1>6, <1>8, <2>1 DEF Settled
    <2>3. \A k \in Keys : (Settled(k[2], signal[k].trade))'
      BY <2>2, SameCandles DEF Settled
    <2> QED
      BY <2>3 DEF SettledForGood
  <1>12. SignalsAreDue'
    <2>1. ASSUME NEW c \in Candles, NEW z, z = signal'[<<"zone", c>>].setup, z # None
          PROVE  c > since' /\ Due(z, c)'
      <3>1. c > since /\ Due(z, c)
        <4>1. CASE <<"zone", c>> = n
          <5>1. kind = "zone" /\ c = a /\ z = s
            BY <1>2, <1>6, <1>8, <2>1, <4>1
          <5> QED
            BY <1>1, <5>1
        <4>2. CASE <<"zone", c>> # n
          BY <1>8, <2>1, <4>2, KeyType DEF Rows, SignalsAreDue
        <4> QED
          BY <4>1, <4>2
      <3>2. Due(z, c)'
        BY <3>1, SameHistory
      <3> QED
        BY <3>1, <3>2
    <2> QED
      BY <2>1 DEF SignalsAreDue
  <1>13. RowsInOrder'
    <2>1. ASSUME NEW k \in Keys
          PROVE  /\ signal'[k].setup \in Setups(k[1])
                 /\ signal'[k].setup = None => signal'[k].trade = "OPEN"
                 /\ signal'[k].setup # None => k[2] <= closed'
      <3>1. CASE k = n
        BY <1>1, <1>3, <1>6, <1>8, <3>1, SameCandles
      <3>2. CASE k # n
        BY <1>8, <3>2, SameCandles DEF Rows, RowsInOrder, Setups
      <3> QED
        BY <3>1, <3>2
    <2> QED
      BY <2>1 DEF RowsInOrder, Setups
  <1>14. \A k \in Keys : signal[k].setup # None => signal'[k] = signal[k]
    BY <1>4, <1>8
  <1>15. Finality
    <2>1. ASSUME NEW k \in Keys
          PROVE /\ signal[k].setup # None => [signal'[k] EXCEPT !.trade = signal[k].trade] = signal[k]
                /\ signal[k].trade # "OPEN" => signal'[k].trade = signal[k].trade
      <3>1. [signal[k] EXCEPT !.trade = signal[k].trade] = signal[k]
        BY RowType DEF SignalRows
      <3>2. signal[k].setup = None => signal[k].trade = "OPEN"
        BY DEF Rows, RowsInOrder
      <3> QED
        BY <1>14, <3>1, <3>2
    <2> QED
      BY <2>1 DEF Finality
  <1> QED
    BY <1>1, <1>2, <1>3, <1>6, <1>8, <1>10, <1>11, <1>12, <1>13, <1>14, <1>15 DEF Rows

(* Finish settles what is open as the candles by now say.                    *)
LEMMA RowsSettle ==
  ASSUME TypeOK, Rows, Finish
  PROVE  /\ signal' \in [Keys -> SignalRows] /\ Rows' /\ Finality
         /\ \A k \in Keys : signal'[k].setup = signal[k].setup
  <1>1. bar' = bar /\ since' = since /\ closed' = closed
    BY SameCandles DEF Finish
  <1>2. ASSUME NEW k \in Keys
        PROVE  /\ signal'[k] \in SignalRows /\ signal'[k].setup = signal[k].setup
               /\ [signal'[k] EXCEPT !.trade = signal[k].trade] = signal[k]
               /\ signal'[k].trade = signal[k].trade \/
                    (signal[k].setup # None /\ signal[k].trade = "OPEN" /\ signal'[k].trade = Outcome(k[2]))
    <2>1. signal[k] \in SignalRows
      BY RowType
    <2>2. Outcome(k[2]) \in TradeStates
      BY KeyType, OutcomeSettles
    <2>3. CASE signal[k].setup # None /\ signal[k].trade = "OPEN"
      <3>1. PICK o : o = Outcome(k[2])
        OBVIOUS
      <3>2. signal'[k] = [signal[k] EXCEPT !.trade = o]
        BY <2>3, <3>1 DEF Finish
      <3> QED
        BY <2>1, <2>2, <2>3, <3>1, <3>2 DEF SignalRows
    <2>4. CASE ~(signal[k].setup # None /\ signal[k].trade = "OPEN")
      <3>1. signal'[k] = signal[k]
        BY <2>4 DEF Finish
      <3>2. [signal[k] EXCEPT !.trade = signal[k].trade] = signal[k]
        BY <2>1 DEF SignalRows
      <3> QED
        BY <2>1, <3>1, <3>2
    <2> QED
      BY <2>3, <2>4
  <1>3. signal' \in [Keys -> SignalRows]
    <2>1. signal' = [k \in Keys |-> signal'[k]]
      BY DEF Finish
    <2> QED
      BY <1>2, <2>1
  <1>4. OneSignalPerSetup'
    BY <1>2, ZenonT(40) DEF Rows, OneSignalPerSetup
  <1>5. SettledForGood'
    <2>1. \A k \in Keys : Settled(k[2], signal[k].trade)
      BY DEF Rows, SettledForGood
    <2>2. ASSUME NEW k \in Keys PROVE Settled(k[2], signal'[k].trade)
      <3>1. Settled(k[2], Outcome(k[2]))
        BY KeyType, OutcomeSettles
      <3>2. CASE signal'[k].trade = signal[k].trade
        BY <2>1, <3>2
      <3>3. CASE signal'[k].trade = Outcome(k[2])
        BY <3>1, <3>3
      <3> QED
        BY <1>2, <3>2, <3>3
    <2>3. \A k \in Keys : (Settled(k[2], signal[k].trade))'
      BY <1>1, <2>2 DEF Settled
    <2> QED
      BY <2>3 DEF SettledForGood
  <1>6. SignalsAreDue'
    <2>1. ASSUME NEW c \in Candles, NEW z, z = signal'[<<"zone", c>>].setup, z # None
          PROVE  c > since' /\ Due(z, c)'
      <3>1. c > since /\ Due(z, c)
        <4>1. <<"zone", c>> \in Keys
          BY KeyType
        <4>2. signal[<<"zone", c>>].setup = z
          BY <1>2, <2>1, <4>1
        <4> QED
          BY <2>1, <4>2 DEF Rows, SignalsAreDue
      <3>2. Due(z, c)'
        BY <1>1, <3>1, SameHistory
      <3> QED
        BY <1>1, <3>1, <3>2
    <2> QED
      BY <2>1 DEF SignalsAreDue
  <1>7. RowsInOrder'
    <2>1. ASSUME NEW k \in Keys
          PROVE  /\ signal'[k].setup \in Setups(k[1])
                 /\ signal'[k].setup = None => signal'[k].trade = "OPEN"
                 /\ signal'[k].setup # None => k[2] <= closed'
      BY <1>1, <1>2 DEF Rows, RowsInOrder, Setups
    <2> QED
      BY <2>1 DEF RowsInOrder, Setups
  <1>8. Finality
    BY <1>2 DEF Finality
  <1> QED
    BY <1>2, <1>3, <1>4, <1>5, <1>6, <1>7, <1>8 DEF Rows

(* ---------------------------- the initial state -------------------------- *)

LEMMA InitIInv == Init => IInv
  <1> SUFFICES ASSUME Init PROVE IInv
    OBVIOUS
  <1>1. /\ bar = <<>> /\ queue = <<>> /\ closed = 0 /\ Len(queue) = 0
        /\ bar \in Seq(Bars) /\ queue \in Seq(Snapshots)
    BY EmptySeq DEF Init, closed
  <1>2. FALSE \in BOOLEAN
    BY Zenon
  <1>3. 0 \in 0..MaxCandle /\ 0 \in 0..MaxGen /\ 0 \in 0..(MaxCandle + 1) /\ 0 <= Capacity
    BY Bounds
  <1>4. NoSignal \in SignalRows
    BY DEF NoSignal, SignalRows, TradeStates
  <1>5. TypeOK
    <2>1. evaluation \in [gen : 0..MaxGen, at : 0..MaxCandle, known : BOOLEAN, zone : Zones \cup {None}]
      BY <1>2, <1>3 DEF Init
    <2>2. health \in [state : {"CONNECTED", "DEGRADED", "ERROR", "STARTING"}, gen : 0..MaxGen, last : 0..MaxCandle]
      BY <1>3 DEF Init
    <2>3. signal \in [Keys -> SignalRows]
      BY <1>4 DEF Init
    <2>4. failing \in BOOLEAN /\ intelligence \in BOOLEAN
      BY <1>2 DEF Init
    <2>5. candidate \in [Candles -> {"none", "bare", "evidence", "linked"}]
      BY DEF Init
    <2> QED
      BY <1>1, <1>3, <2>1, <2>2, <2>3, <2>4, <2>5 DEF Init, TypeOK, Stages
  <1>6. \A k \in Keys : signal[k].setup = None /\ signal[k].trade = "OPEN"
    BY DEF Init, NoSignal
  <1>7. OneSignalPerSetup /\ SettledForGood /\ SignalsAreDue /\ NoSessionYet /\ RowsInOrder
    BY <1>6, KeyType DEF OneSignalPerSetup, SettledForGood, Settled, SignalsAreDue, NoSessionYet, RowsInOrder, Init
  <1>8. HandedIsProved /\ EndedIsReported /\ ItemInHand /\ FoundIsDue /\ StepsAreStored /\ EvaluationIsTrue
    BY DEF Init, HandedIsProved, EndedIsReported, ItemInHand, FoundIsDue, StepsAreStored, EvaluationIsTrue, Busy
  <1>9. QueueIsPast
    BY <1>1 DEF QueueIsPast
  <1> QED
    BY <1>5, <1>7, <1>8, <1>9 DEF IInv

(* ------------------------- what a step leaves alone ---------------------- *)

LEMMA FoundStays ==
  ASSUME TypeOK, FoundIsDue, HistoryKept, found' = found, item' = item
  PROVE  FoundIsDue'
  <1>1. SUFFICES ASSUME found # None PROVE (item \in Snapshots /\ item.at <= closed /\ Due(found, item.at))'
    BY DEF FoundIsDue
  <1>2. PICK z, a : z = found /\ a = item.at
    OBVIOUS
  <1>3. item \in Snapshots /\ a \in Nat /\ a <= closed /\ Due(z, a)
    BY <1>1, <1>2 DEF FoundIsDue, Snapshots, Candles
  <1>4. Due(z, a)' /\ a <= closed'
    BY <1>3, SameHistory DEF HistoryKept
  <1> QED
    BY <1>2, <1>3, <1>4

LEMMA EvaluationStays ==
  ASSUME TypeOK, EvaluationIsTrue, HistoryKept, evaluation' = evaluation
  PROVE  EvaluationIsTrue'
  <1>1. SUFFICES ASSUME evaluation.zone # None
                 PROVE (evaluation.at <= closed /\ Alive(evaluation.zone, evaluation.at))'
    BY DEF EvaluationIsTrue
  <1>2. PICK z, a : z = evaluation.zone /\ a = evaluation.at
    OBVIOUS
  <1>3. a \in Nat /\ a <= closed /\ Alive(z, a)
    BY <1>1, <1>2, Bounds DEF EvaluationIsTrue, TypeOK
  <1>4. Alive(z, a)' /\ a <= closed'
    BY <1>3, SameHistory DEF HistoryKept
  <1> QED
    BY <1>2, <1>3, <1>4

LEMMA QueueStays ==
  ASSUME TypeOK, QueueIsPast, HistoryKept, queue' = queue
  PROVE  QueueIsPast'
  <1>1. ASSUME NEW i \in 1..Len(queue) PROVE queue[i].at <= closed'
    <2>1. queue[i] \in Snapshots
      BY ElementOfSeq DEF TypeOK
    <2>2. queue[i].at \in Nat /\ queue[i].at <= closed
      BY <2>1 DEF Snapshots, Candles, QueueIsPast
    <2> QED
      BY <2>2 DEF HistoryKept
  <1> QED
    BY <1>1 DEF QueueIsPast

(* What is given away stays stored and linked.                               *)
LEMMA HandedStays ==
  ASSUME HandedIsProved, TypeOK, handed' = handed,
         \A k \in Keys : signal[k].setup # None => signal'[k].setup # None,
         \A c \in Candles : candidate[c] = "linked" => candidate'[c] = "linked"
  PROVE  HandedIsProved'
  BY KeyType DEF HandedIsProved, TypeOK

(* The rows and what the worker carries, when neither the database nor the   *)
(* work in hand is touched.                                                  *)
LEMMA DataStays ==
  ASSUME IInv, HistoryKept, UNCHANGED <<database, work, handed>>
  PROVE  /\ OneSignalPerSetup' /\ SettledForGood' /\ SignalsAreDue' /\ RowsInOrder' /\ Finality
         /\ HandedIsProved' /\ FoundIsDue' /\ EvaluationIsTrue'
  <1>1. signal' = signal /\ since' = since /\ candidate' = candidate /\ evaluation' = evaluation
        /\ found' = found /\ item' = item /\ handed' = handed
    BY DEF database, work
  <1>2. Rows' /\ Finality
    BY <1>1, RowsStay DEF IInv, Rows
  <1>3. HandedIsProved'
    BY <1>1, HandedStays DEF IInv
  <1>4. FoundIsDue' /\ EvaluationIsTrue'
    BY <1>1, FoundStays, EvaluationStays DEF IInv
  <1> QED
    BY <1>2, <1>3, <1>4 DEF Rows

(* ------------------------------ each action ------------------------------ *)

LEMMA StepCandle ==
  ASSUME IInv, CandleCloses
  PROVE  IInv' /\ Finality
  <1>1. UNCHANGED <<database, health, gen, pc, inbox, failing, strategy, work, handed>>
    BY DEF CandleCloses
  <1>2. bar' \in Seq(Bars) /\ closed' \in 0..MaxCandle /\ HistoryKept
    BY NewCandle DEF IInv
  <1>3. TypeOK'
    BY <1>1, <1>2 DEF IInv, TypeOK, database, inbox, strategy, work
  <1>4. /\ OneSignalPerSetup' /\ SettledForGood' /\ SignalsAreDue' /\ RowsInOrder' /\ Finality
        /\ HandedIsProved' /\ FoundIsDue' /\ EvaluationIsTrue'
    BY <1>1, <1>2, DataStays
  <1>5. QueueIsPast'
    BY <1>1, <1>2, QueueStays DEF IInv, inbox
  <1>6. NoSessionYet' /\ EndedIsReported' /\ StepsAreStored'
    BY <1>1 DEF IInv, NoSessionYet, EndedIsReported, StepsAreStored, database, work
  <1>7. ItemInHand'
    <2>1. closed \in Nat /\ closed' \in Nat /\ closed <= closed'
      BY <1>2 DEF HistoryKept
    <2>2. item \in Snapshots => item.at \in Nat
      BY DEF Snapshots, Candles
    <2> QED
      BY <1>1, <2>1, <2>2 DEF IInv, ItemInHand, database, work
  <1> QED
    BY <1>3, <1>4, <1>5, <1>6, <1>7 DEF IInv

LEMMA StepEnqueue ==
  ASSUME IInv, NEW t \in Candles, Enqueue(t)
  PROVE  IInv' /\ Finality
  <1>1. /\ UNCHANGED <<bar, database, health, gen, pc, processed, failing, strategy, work, handed>>
        /\ last' = t /\ queued' = queued \cup {t} /\ t = closed /\ Len(queue) < Capacity
    BY DEF Enqueue, Accepts
  <1>2. closed' = closed /\ HistoryKept
    BY <1>1, SameCandles DEF IInv
  <1>3. PICK x \in Ticks : queue' = Append(queue, [at |-> t, tick |-> x])
    BY DEF Enqueue
  <1>4. TypeOK
    BY DEF IInv
  <1>5. /\ queue' \in Seq(Snapshots) /\ Len(queue') = Len(queue) + 1 /\ Len(queue') <= Capacity
        /\ \A i \in 1..Len(queue) : queue'[i] = queue[i]
        /\ queue'[Len(queue) + 1].at = t /\ Len(queue) \in Nat
    BY <1>1, <1>3, <1>4, QueueGrows
  <1>6. t \in 0..MaxCandle
    BY DEF Candles
  <1>7. TypeOK'
    BY <1>1, <1>2, <1>4, <1>5, <1>6 DEF TypeOK, database, strategy, work
  <1>8. /\ OneSignalPerSetup' /\ SettledForGood' /\ SignalsAreDue' /\ RowsInOrder' /\ Finality
        /\ HandedIsProved' /\ FoundIsDue' /\ EvaluationIsTrue'
    BY <1>1, <1>2, DataStays
  <1>9. QueueIsPast'
    <2>1. ASSUME NEW i \in 1..Len(queue') PROVE queue'[i].at <= closed
      <3>1. CASE i \in 1..Len(queue)
        BY <1>5, <3>1 DEF IInv, QueueIsPast
      <3>2. CASE i = Len(queue) + 1
        BY <1>1, <1>5, <1>6, <3>2
      <3> QED
        BY <1>5, <3>1, <3>2
    <2> QED
      BY <1>2, <2>1 DEF QueueIsPast
  <1>10. NoSessionYet' /\ EndedIsReported' /\ StepsAreStored' /\ ItemInHand'
    BY <1>1, <1>2 DEF IInv, NoSessionYet, EndedIsReported, StepsAreStored, ItemInHand, database, work
  <1> QED
    BY <1>7, <1>8, <1>9, <1>10 DEF IInv

LEMMA StepRefused ==
  ASSUME IInv, NEW t \in Candles, AlreadyThere(t) \/ QueueFull(t)
  PROVE  IInv' /\ Finality
  <1>1. /\ UNCHANGED <<bar, database, gen, pc, queue, queued, processed, strategy, work, handed>>
        /\ last' = t /\ failing' \in {failing, TRUE}
        /\ health' \in {health, [Health("DEGRADED") EXCEPT !.last = t]}
    BY DEF AlreadyThere, QueueFull, Accepts
  <1>2. closed' = closed /\ HistoryKept
    BY <1>1, SameCandles DEF IInv
  <1>3. TypeOK
    BY DEF IInv
  <1>4. t \in 0..MaxCandle
    BY DEF Candles
  <1>5. failing' \in BOOLEAN
    BY <1>1, <1>3, Zenon DEF TypeOK
  <1>6. health' \in [state : {"CONNECTED", "DEGRADED", "ERROR", "STARTING"}, gen : 0..MaxGen, last : 0..MaxCandle]
        /\ (health'.state = health.state \/ health'.state = "DEGRADED")
    BY <1>1, <1>3, <1>4, HealthType DEF TypeOK
  <1>7. TypeOK'
    BY <1>1, <1>2, <1>3, <1>4, <1>5, <1>6 DEF TypeOK, database, strategy, work
  <1>8. /\ OneSignalPerSetup' /\ SettledForGood' /\ SignalsAreDue' /\ RowsInOrder' /\ Finality
        /\ HandedIsProved' /\ FoundIsDue' /\ EvaluationIsTrue'
    BY <1>1, <1>2, DataStays
  <1>9. QueueIsPast'
    BY <1>1, <1>2, QueueStays DEF IInv
  <1>10. NoSessionYet' /\ StepsAreStored' /\ ItemInHand'
    BY <1>1, <1>2 DEF IInv, NoSessionYet, StepsAreStored, ItemInHand, database, work
  <1>11. EndedIsReported'
    BY <1>1, <1>6 DEF IInv, EndedIsReported
  <1> QED
    BY <1>7, <1>8, <1>9, <1>10, <1>11 DEF IInv

LEMMA StepHeartbeat ==
  ASSUME IInv, Heartbeat
  PROVE  IInv' /\ Finality
  <1>1. /\ UNCHANGED <<bar, database, gen, pc, inbox, failing, strategy, work, handed>>
        /\ pc = "wait" /\ health' \in {Health("DEGRADED"), Health("CONNECTED")}
    BY DEF Heartbeat
  <1>2. closed' = closed /\ HistoryKept
    BY <1>1, SameCandles DEF IInv
  <1>3. health' \in [state : {"CONNECTED", "DEGRADED", "ERROR", "STARTING"}, gen : 0..MaxGen, last : 0..MaxCandle]
    BY <1>1, HealthType DEF IInv
  <1>4. TypeOK'
    BY <1>1, <1>2, <1>3 DEF IInv, TypeOK, database, inbox, strategy, work
  <1>5. /\ OneSignalPerSetup' /\ SettledForGood' /\ SignalsAreDue' /\ RowsInOrder' /\ Finality
        /\ HandedIsProved' /\ FoundIsDue' /\ EvaluationIsTrue'
    BY <1>1, <1>2, DataStays
  <1>6. QueueIsPast'
    BY <1>1, <1>2, QueueStays DEF IInv, inbox
  <1>7. NoSessionYet' /\ StepsAreStored' /\ ItemInHand' /\ EndedIsReported'
    BY <1>1, <1>2 DEF IInv, NoSessionYet, StepsAreStored, ItemInHand, EndedIsReported, database, work
  <1> QED
    BY <1>4, <1>5, <1>6, <1>7 DEF IInv

LEMMA EvaluationType ==
  ASSUME NEW g \in 0..MaxGen, NEW t \in 0..MaxCandle, NEW z \in Zones \cup {None}
  PROVE  [gen |-> g, at |-> t, known |-> ~(t <= since), zone |-> z]
           \in [gen : 0..MaxGen, at : 0..MaxCandle, known : BOOLEAN, zone : Zones \cup {None}]
  BY Z3

(* The decision taken, and the status row, are what the history up to the    *)
(* candle of the snapshot says.                                              *)
LEMMA StepTake ==
  ASSUME IInv, Take
  PROVE  IInv' /\ Finality
  <1>1. PICK t : t = Head(queue).at
    OBVIOUS
  <1>2. /\ pc = "wait" /\ pc' = "notify" /\ queue # <<>> /\ queue' = Tail(queue)
        /\ item' = Head(queue) /\ queued' = queued \ {t}
        /\ confirmed' = confirmed \cup In("CONFIRMED", t)
        /\ invalidated' = (invalidated \cup In("INVALIDATED", t)) \cap Recent(t)
        /\ UNCHANGED <<bar, session, since, signal, candidate, health, gen, processed, last, failing,
                       intelligence, handed>>
    BY <1>1 DEF Take, Goes
  <1>3. PICK z \in Candidates(t) \cup {Newest(In("ACTIVE", t) \cup In("CONFIRMED", t))} :
          /\ found' \in {None} \cup ({z} \cap {Chosen(Candidates(t))})
          /\ evaluation' = [gen |-> gen, at |-> t, known |-> ~(t <= since), zone |-> IF t <= since THEN None ELSE z]
    BY <1>1 DEF Take
  <1>4. TypeOK /\ HistoryKept /\ closed' = closed
    BY <1>2, SameCandles DEF IInv
  <1>5. /\ queue' \in Seq(Snapshots) /\ Len(queue') = Len(queue) - 1 /\ Len(queue') <= Capacity
        /\ Len(queue) \in Nat /\ 1 \in 1..Len(queue)
        /\ Head(queue) = queue[1] /\ Head(queue) \in Snapshots
        /\ \A i \in 1..Len(queue') : queue'[i] = queue[i + 1]
    BY <1>2, <1>4, QueueShrinks
  <1>6. item' \in Snapshots /\ item'.at = t /\ t \in Candles /\ t \in Nat /\ t \in 0..MaxCandle /\ t <= closed
    BY <1>1, <1>2, <1>5 DEF IInv, QueueIsPast, Snapshots, Candles
  <1>7. z # None => z \in Zones /\ Alive(z, t)
    BY <1>3, <1>6, CandidateIsDue, NewestIsAlive DEF Due
  <1>8. found' # None => found' \in Zones /\ Due(found', t)
    <2>1. found' # None => found' = Chosen(Candidates(t)) /\ Chosen(Candidates(t)) # None
      BY <1>3
    <2> QED
      BY <1>6, <2>1, ChosenIsDue
  <1>9. TypeOK'
    <2>1. gen \in 0..MaxGen
      BY <1>4 DEF TypeOK
    <2>2. (IF t <= since THEN None ELSE z) \in Zones \cup {None}
      BY <1>7
    <2>3. evaluation' \in [gen : 0..MaxGen, at : 0..MaxCandle, known : BOOLEAN, zone : Zones \cup {None}]
      BY <1>3, <1>6, <2>1, <2>2, EvaluationType
    <2>4. confirmed' \subseteq Zones /\ invalidated' \subseteq Zones
      BY <1>2, <1>4 DEF TypeOK, In, Recent
    <2>5. queued' \subseteq Candles
      BY <1>2, <1>4 DEF TypeOK
    <2>6. found' \in Zones \cup {None}
      BY <1>8
    <2> QED
      BY <1>2, <1>4, <1>5, <1>6, <2>3, <2>4, <2>5, <2>6 DEF TypeOK, Stages
  <1>10. Rows' /\ Finality
    BY <1>2, <1>4, RowsStay DEF IInv, Rows
  <1>11. HandedIsProved'
    BY <1>2, <1>4, HandedStays DEF IInv
  <1>12. QueueIsPast'
    <2>1. ASSUME NEW i \in 1..Len(queue') PROVE queue'[i].at <= closed
      <3>1. i + 1 \in 1..Len(queue) /\ queue'[i] = queue[i + 1]
        BY <1>5
      <3> QED
        BY <3>1 DEF IInv, QueueIsPast
    <2> QED
      BY <1>4, <2>1 DEF QueueIsPast
  <1>13. FoundIsDue'
    <2>1. SUFFICES ASSUME found' # None PROVE (Due(found, item.at))'
      BY <1>4, <1>6 DEF FoundIsDue
    <2>2. PICK f : f = found'
      OBVIOUS
    <2>3. Due(f, t)'
      BY <1>2, <1>8, <2>1, <2>2, SameHistory
    <2> QED
      BY <1>6, <2>2, <2>3
  <1>14. EvaluationIsTrue'
    <2>1. SUFFICES ASSUME evaluation'.zone # None PROVE (evaluation.at <= closed /\ Alive(evaluation.zone, evaluation.at))'
      BY DEF EvaluationIsTrue
    <2>2. evaluation'.zone = z /\ evaluation'.at = t /\ Alive(z, t)
      BY <1>3, <1>7, <2>1
    <2>3. Alive(z, t)'
      BY <1>2, <2>2, SameHistory
    <2> QED
      BY <1>4, <1>6, <2>2, <2>3
  <1>15. NoSessionYet' /\ EndedIsReported' /\ StepsAreStored' /\ ItemInHand'
    BY <1>2, <1>4, <1>6 DEF IInv, NoSessionYet, EndedIsReported, StepsAreStored, ItemInHand, Busy
  <1> QED
    BY <1>9, <1>10, <1>11, <1>12, <1>13, <1>14, <1>15 DEF IInv, Rows

LEMMA StepIntelligence ==
  ASSUME IInv, Intelligence
  PROVE  IInv' /\ Finality
  <1>1. /\ pc = "notify" /\ item.at > since /\ pc' = "momentum"
        /\ UNCHANGED <<bar, session, since, signal, evaluation, health, gen, inbox, failing, strategy,
                       item, found, handed>>
    BY DEF Intelligence, Goes
  <1>2. TypeOK /\ HistoryKept /\ closed' = closed
    BY <1>1, SameCandles DEF IInv
  <1>3. item \in Snapshots /\ item.at \in Candles
    BY <1>1 DEF IInv, ItemInHand, Busy, Snapshots
  <1>4. /\ candidate' \in [Candles -> {"none", "bare", "evidence", "linked"}]
        /\ \A c \in Candles : candidate[c] = "linked" => candidate'[c] = "linked"
    <2>1. \/ candidate' = candidate
          \/ \E s \in {"bare", "evidence"} : candidate[item.at] = "none" /\ candidate' = [candidate EXCEPT ![item.at] = s]
      BY DEF Intelligence
    <2>2. PICK a : a = item.at
      OBVIOUS
    <2>3. ASSUME NEW s \in {"bare", "evidence"}, candidate[a] = "none", candidate' = [candidate EXCEPT ![a] = s]
          PROVE  /\ candidate' \in [Candles -> {"none", "bare", "evidence", "linked"}]
                 /\ \A c \in Candles : candidate[c] = "linked" => candidate'[c] = "linked"
      BY <1>2, <1>3, <2>2, <2>3 DEF TypeOK
    <2>4. CASE candidate' = candidate
      BY <1>2, <2>4 DEF TypeOK
    <2> QED
      BY <2>1, <2>2, <2>3, <2>4
  <1>5. intelligence' \in BOOLEAN
    <2>1. \/ intelligence' = TRUE
          \/ intelligence' = ((candidate[item.at] = "bare") <=> ((IF found = None THEN "bare" ELSE "evidence") = "bare"))
          \/ intelligence' = FALSE
      BY DEF Intelligence
    <2> QED
      BY <2>1, Zenon
  <1>6. TypeOK'
    BY <1>1, <1>2, <1>4, <1>5 DEF TypeOK, Stages, inbox, strategy
  <1>7. Rows' /\ Finality
    BY <1>1, <1>2, RowsStay DEF IInv, Rows
  <1>8. HandedIsProved'
    BY <1>1, <1>2, <1>4, HandedStays DEF IInv
  <1>9. FoundIsDue' /\ EvaluationIsTrue' /\ QueueIsPast'
    BY <1>1, <1>2, FoundStays, EvaluationStays, QueueStays DEF IInv, inbox
  <1>10. NoSessionYet' /\ EndedIsReported' /\ StepsAreStored' /\ ItemInHand'
    BY <1>1, <1>2 DEF IInv, NoSessionYet, EndedIsReported, StepsAreStored, ItemInHand, Busy
  <1> QED
    BY <1>6, <1>7, <1>8, <1>9, <1>10 DEF IInv, Rows

LEMMA StepLink ==
  ASSUME IInv, Link
  PROVE  IInv' /\ Finality
  <1>1. /\ pc = "link" /\ pc' = "canonical"
        /\ UNCHANGED <<bar, session, since, signal, evaluation, health, gen, inbox, failing, strategy,
                       item, found, handed>>
    BY DEF Link, Goes
  <1>2. TypeOK /\ HistoryKept /\ closed' = closed
    BY <1>1, SameCandles DEF IInv
  <1>3. item \in Snapshots /\ item.at \in Candles
    BY <1>1 DEF IInv, ItemInHand, Busy, Snapshots
  <1>4. \/ candidate' = [candidate EXCEPT ![item.at] = "linked"] /\ intelligence' = intelligence
        \/ candidate' = candidate /\ intelligence' = FALSE
    BY DEF Link
  <1>5. /\ candidate' \in [Candles -> {"none", "bare", "evidence", "linked"}]
        /\ \A c \in Candles : candidate[c] = "linked" => candidate'[c] = "linked"
        /\ intelligence' => candidate'[item.at] = "linked"
    BY <1>2, <1>3, <1>4 DEF TypeOK
  <1>6. intelligence' \in BOOLEAN
    BY <1>2, <1>4, Zenon DEF TypeOK
  <1>7. TypeOK'
    BY <1>1, <1>2, <1>5, <1>6 DEF TypeOK, Stages, inbox, strategy
  <1>8. Rows' /\ Finality
    BY <1>1, <1>2, RowsStay DEF IInv, Rows
  <1>9. HandedIsProved'
    BY <1>1, <1>2, <1>5, HandedStays DEF IInv
  <1>10. FoundIsDue' /\ EvaluationIsTrue' /\ QueueIsPast'
    BY <1>1, <1>2, FoundStays, EvaluationStays, QueueStays DEF IInv, inbox
  <1>11. StepsAreStored'
    BY <1>1, <1>5 DEF IInv, StepsAreStored
  <1>12. NoSessionYet' /\ EndedIsReported' /\ ItemInHand'
    BY <1>1, <1>2 DEF IInv, NoSessionYet, EndedIsReported, ItemInHand, Busy
  <1> QED
    BY <1>7, <1>8, <1>9, <1>10, <1>11, <1>12 DEF IInv, Rows

(* A row that is the same already has the setup.                             *)
LEMMA SameSetup ==
  ASSUME NEW kind, NEW s, Same(kind, s), TypeOK, <<kind, item.at>> \in Keys
  PROVE  signal[<<kind, item.at>>].setup = s
  <1>1. PICK n : n = <<kind, item.at>>
    OBVIOUS
  <1>2. signal[n] \in SignalRows
    BY <1>1, RowType
  <1>3. signal[n] = [[signal[n] EXCEPT !.setup = s] EXCEPT !.tick = item.tick]
    BY <1>1 DEF Same, Row
  <1>4. signal[n].setup = s
    BY <1>2, <1>3 DEF SignalRows
  <1> QED
    BY <1>1, <1>4

LEMMA StepMomentum ==
  ASSUME IInv, Momentum
  PROVE  IInv' /\ Finality
  <1>1. /\ pc = "momentum" /\ pc' \in {"breakout", "pair"}
        /\ UNCHANGED <<bar, session, since, candidate, evaluation, health, gen, inbox, failing, strategy, work>>
    BY DEF Momentum, Goes
  <1>2. TypeOK /\ HistoryKept /\ closed' = closed /\ Rows
    BY <1>1, SameCandles DEF IInv, Rows
  <1>3. item \in Snapshots /\ item.at \in Candles /\ item.at <= closed /\ item.at > since
    BY <1>1 DEF IInv, ItemInHand, Busy, Snapshots
  <1>4. PICK n : n = <<"momentum", item.at>>
    OBVIOUS
  <1>5. n \in Keys /\ n[1] = "momentum"
    BY <1>3, <1>4, KeyType
  <1>6. /\ signal' \in [Keys -> SignalRows] /\ Rows' /\ Finality
        /\ \A k \in Keys : signal[k].setup # None => signal'[k].setup # None
        /\ handed' = handed \/ (handed' = handed \cup {n} /\ signal'[n].setup # None)
    <2>1. PICK event : event = BreakoutEvent(item.at)
      OBVIOUS
    <2>2. CASE signal' = signal /\ handed' = handed
      BY <1>1, <1>2, <2>2, RowsStay DEF TypeOK
    <2>3. CASE event # None /\ Same("momentum", event) /\ signal' = signal /\ handed' = handed \cup {n}
      <3>1. signal[n].setup = event
        BY <1>2, <1>4, <1>5, <2>3, SameSetup
      <3>2. Rows' /\ Finality
        BY <1>1, <1>2, <2>3, RowsStay
      <3> QED
        BY <1>2, <2>3, <3>1, <3>2 DEF TypeOK
    <2>4. CASE event # None /\ Fresh("momentum", event) /\ Insert("momentum", event) /\ handed' = handed \cup {n}
      <3>1. event \in Setups("momentum")
        <4>1. item.at \in 1..closed
          BY <1>3 DEF Candles
        <4>2. bar[item.at] \in Bars
          BY <1>2, <4>1, ClosedType
        <4> QED
          BY <2>1, <2>4, <4>2 DEF BreakoutEvent, Breakout, Setups, Events
      <3>2. /\ signal' \in [Keys -> SignalRows] /\ Rows' /\ Finality
            /\ signal'[n].setup = event
            /\ \A k \in Keys : signal[k].setup # None => signal'[k] = signal[k]
        BY <1>1, <1>2, <1>3, <1>4, <2>4, <3>1, RowsGrow
      <3> QED
        BY <2>4, <3>2
    <2> QED
      BY <1>4, <2>1, <2>2, <2>3, <2>4 DEF Momentum
  <1>7. handed' \subseteq Keys
    BY <1>2, <1>5, <1>6 DEF TypeOK
  <1>8. TypeOK'
    BY <1>1, <1>2, <1>6, <1>7 DEF TypeOK, Stages, inbox, strategy, work
  <1>9. HandedIsProved'
    <2>1. ASSUME NEW k \in handed' PROVE signal'[k].setup # None /\ (k[1] = "zone" => candidate'[k[2]] = "linked")
      <3>1. CASE k \in handed
        BY <1>1, <1>2, <1>6, <3>1 DEF IInv, HandedIsProved, TypeOK
      <3>2. CASE k \notin handed
        BY <1>5, <1>6, <2>1, <3>2
      <3> QED
        BY <3>1, <3>2
    <2> QED
      BY <2>1 DEF HandedIsProved
  <1>10. FoundIsDue' /\ EvaluationIsTrue' /\ QueueIsPast'
    BY <1>1, <1>2, FoundStays, EvaluationStays, QueueStays DEF IInv, inbox, work
  <1>11. EndedIsReported' /\ StepsAreStored' /\ ItemInHand'
    BY <1>1, <1>2, <1>3 DEF EndedIsReported, StepsAreStored, ItemInHand, Busy, work
  <1>12. NoSessionYet'
    BY <1>1 DEF IInv, NoSessionYet
  <1> QED
    BY <1>6, <1>8, <1>9, <1>10, <1>11, <1>12 DEF IInv, Rows

LEMMA StepPairSignal ==
  ASSUME IInv, PairSignal
  PROVE  IInv' /\ Finality
  <1>1. /\ AtPair /\ found # None /\ pc' = "link"
        /\ UNCHANGED <<bar, session, since, candidate, evaluation, health, gen, inbox, failing, strategy, work, handed>>
    BY DEF PairSignal, Goes
  <1>2. TypeOK /\ HistoryKept /\ closed' = closed /\ Rows
    BY <1>1, SameCandles DEF IInv, Rows
  <1>3. item \in Snapshots /\ item.at \in Candles /\ item.at <= closed /\ item.at > since
    BY <1>1 DEF IInv, ItemInHand, Busy, Snapshots, AtPair
  <1>4. Due(found, item.at) /\ found \in Setups("zone")
    BY <1>1, <1>2 DEF IInv, FoundIsDue, Setups, TypeOK
  <1>5. PICK n : n = <<"zone", item.at>>
    OBVIOUS
  <1>6. n \in Keys
    BY <1>3, <1>5, KeyType
  <1>7. /\ signal' \in [Keys -> SignalRows] /\ Rows' /\ Finality
        /\ \A k \in Keys : signal[k].setup # None => signal'[k].setup # None
        /\ signal'[n].setup # None
    <2>1. CASE Same("zone", found) /\ signal' = signal
      <3>1. signal[n].setup = found
        BY <1>2, <1>5, <1>6, <2>1, SameSetup
      <3>2. Rows' /\ Finality
        BY <1>1, <1>2, <2>1, RowsStay
      <3> QED
        BY <1>1, <1>2, <2>1, <3>1, <3>2 DEF TypeOK
    <2>2. CASE Fresh("zone", found) /\ Insert("zone", found)
      <3>1. /\ signal' \in [Keys -> SignalRows] /\ Rows' /\ Finality
            /\ signal'[n].setup = found
            /\ \A k \in Keys : signal[k].setup # None => signal'[k] = signal[k]
        BY <1>1, <1>2, <1>3, <1>4, <1>5, <2>2, RowsGrow
      <3> QED
        BY <1>1, <3>1
    <2> QED
      BY <2>1, <2>2 DEF PairSignal
  <1>8. TypeOK'
    BY <1>1, <1>2, <1>7 DEF TypeOK, Stages, inbox, strategy, work
  <1>9. HandedIsProved'
    BY <1>1, <1>2, <1>7, HandedStays DEF IInv
  <1>10. FoundIsDue' /\ EvaluationIsTrue' /\ QueueIsPast'
    BY <1>1, <1>2, FoundStays, EvaluationStays, QueueStays DEF IInv, inbox, work
  <1>11. EndedIsReported' /\ StepsAreStored' /\ ItemInHand'
    BY <1>1, <1>2, <1>3, <1>5, <1>7 DEF EndedIsReported, StepsAreStored, ItemInHand, Busy, work
  <1>12. NoSessionYet'
    BY <1>1 DEF IInv, NoSessionYet, AtPair
  <1> QED
    BY <1>7, <1>8, <1>9, <1>10, <1>11, <1>12 DEF IInv, Rows

LEMMA StepCanonical ==
  ASSUME IInv, Canonical
  PROVE  IInv' /\ Finality
  <1>1. /\ pc = "canonical" /\ intelligence /\ pc' = "execute"
        /\ UNCHANGED <<bar, database, health, gen, inbox, failing, strategy, work>>
        /\ handed' = handed \cup {<<"zone", item.at>>}
    BY DEF Canonical, Goes
  <1>2. TypeOK /\ HistoryKept /\ closed' = closed /\ Rows
    BY <1>1, SameCandles DEF IInv, Rows
  <1>3. item \in Snapshots /\ item.at \in Candles /\ item.at <= closed /\ item.at > since
    BY <1>1 DEF IInv, ItemInHand, Busy, Snapshots
  <1>4. PICK n : n = <<"zone", item.at>>
    OBVIOUS
  <1>5. n \in Keys /\ n[2] = item.at
    BY <1>3, <1>4, KeyType
  <1>6. signal[n].setup # None /\ candidate[n[2]] = "linked"
    BY <1>1, <1>4, <1>5 DEF IInv, StepsAreStored
  <1>7. TypeOK'
    BY <1>1, <1>2, <1>4, <1>5 DEF TypeOK, Stages, database, inbox, strategy, work
  <1>8. Rows' /\ Finality
    BY <1>1, <1>2, RowsStay DEF database
  <1>9. HandedIsProved'
    BY <1>1, <1>4, <1>6 DEF IInv, HandedIsProved, database
  <1>10. FoundIsDue' /\ EvaluationIsTrue' /\ QueueIsPast'
    BY <1>1, <1>2, FoundStays, EvaluationStays, QueueStays DEF IInv, inbox, work, database
  <1>11. EndedIsReported' /\ StepsAreStored' /\ ItemInHand'
    BY <1>1, <1>2, <1>3 DEF EndedIsReported, StepsAreStored, ItemInHand, Busy, work, database
  <1>12. NoSessionYet'
    BY <1>1 DEF IInv, NoSessionYet, database
  <1> QED
    BY <1>7, <1>8, <1>9, <1>10, <1>11, <1>12 DEF IInv, Rows

(* Nothing in hand.                                                          *)
LEMMA NothingInHand ==
  ASSUME item' = NoItem, found' = None, intelligence' = FALSE
  PROVE  /\ item' \in Snapshots \cup {NoItem} /\ found' \in Zones \cup {None}
         /\ intelligence' \in BOOLEAN /\ FoundIsDue'
  <1>1. FALSE \in BOOLEAN
    BY Zenon
  <1> QED
    BY <1>1 DEF FoundIsDue

LEMMA StepFinish ==
  ASSUME IInv, Finish
  PROVE  IInv' /\ Finality
  <1>1. /\ Last /\ pc' = "wait"
        /\ item' = NoItem /\ found' = None /\ intelligence' = FALSE
        /\ failing' = (failing /\ item.at <= since)
        /\ health' \in {Health("CONNECTED"), Health("DEGRADED")}
        /\ processed' = processed \cup {item.at}
        /\ UNCHANGED <<bar, session, since, candidate, evaluation, gen, queue, queued, last, strategy, handed>>
    BY DEF Finish, Goes
  <1>2. TypeOK /\ HistoryKept /\ closed' = closed /\ Rows
    BY <1>1, SameCandles DEF IInv, Rows
  <1>3. pc \in Busy /\ item.at \in Candles
    BY <1>1 DEF IInv, ItemInHand, Busy, Snapshots, Last, AtPair
  <1>4. /\ signal' \in [Keys -> SignalRows] /\ Rows' /\ Finality
        /\ \A k \in Keys : signal'[k].setup = signal[k].setup
    BY <1>2, RowsSettle
  <1>5. failing' \in BOOLEAN
    BY <1>1, Zenon
  <1>6. TypeOK'
    <2>1. health' \in [state : {"CONNECTED", "DEGRADED", "ERROR", "STARTING"}, gen : 0..MaxGen, last : 0..MaxCandle]
      BY <1>1, <1>2, HealthType
    <2> QED
      BY <1>1, <1>2, <1>3, <1>4, <1>5, <2>1, NothingInHand DEF TypeOK, Stages, strategy
  <1>7. HandedIsProved'
    BY <1>1, <1>2, <1>4, HandedStays DEF IInv
  <1>8. FoundIsDue' /\ EvaluationIsTrue' /\ QueueIsPast'
    BY <1>1, <1>2, NothingInHand, EvaluationStays, QueueStays DEF IInv
  <1>9. EndedIsReported' /\ StepsAreStored' /\ ItemInHand'
    BY <1>1 DEF EndedIsReported, StepsAreStored, ItemInHand, Busy
  <1>10. NoSessionYet'
    BY <1>1, <1>3 DEF IInv, NoSessionYet, Busy
  <1> QED
    BY <1>4, <1>6, <1>7, <1>8, <1>9, <1>10 DEF IInv, Rows

LEMMA StepEnds ==
  ASSUME IInv, pc \in Busy, Ends
  PROVE  IInv' /\ Finality
  <1>1. /\ pc' = "ended" /\ failing' = TRUE /\ health' = Health("DEGRADED")
        /\ item' = NoItem /\ found' = None /\ intelligence' = FALSE
        /\ UNCHANGED <<bar, database, gen, inbox, strategy, handed>>
    BY DEF Ends, Goes
  <1>2. TypeOK /\ HistoryKept /\ closed' = closed /\ Rows
    BY <1>1, SameCandles DEF IInv, Rows
  <1>3. TRUE \in BOOLEAN
    BY Zenon
  <1>4. TypeOK'
    <2>1. health' \in [state : {"CONNECTED", "DEGRADED", "ERROR", "STARTING"}, gen : 0..MaxGen, last : 0..MaxCandle]
      BY <1>1, <1>2, HealthType
    <2> QED
      BY <1>1, <1>2, <1>3, <2>1, NothingInHand DEF TypeOK, Stages, strategy, inbox, database
  <1>5. Rows' /\ Finality
    BY <1>1, <1>2, RowsStay DEF database
  <1>6. HandedIsProved'
    BY <1>1, <1>2, HandedStays DEF IInv, database
  <1>7. FoundIsDue' /\ EvaluationIsTrue' /\ QueueIsPast'
    BY <1>1, <1>2, NothingInHand, EvaluationStays, QueueStays DEF IInv, database, inbox
  <1>8. EndedIsReported' /\ StepsAreStored' /\ ItemInHand'
    BY <1>1, <1>2, HealthType DEF EndedIsReported, StepsAreStored, ItemInHand, Busy
  <1>9. NoSessionYet'
    BY <1>1 DEF IInv, NoSessionYet, Busy, database
  <1> QED
    BY <1>4, <1>5, <1>6, <1>7, <1>8, <1>9 DEF IInv, Rows

(* The session that is resumed keeps its start; a new one has no rows yet.   *)
LEMMA StepStart ==
  ASSUME IInv, Start
  PROVE  IInv' /\ Finality
  <1>1. /\ gen < MaxGen /\ gen' = gen + 1 /\ pc = "down" /\ pc' \in {"wait", "off"}
        /\ UNCHANGED <<bar, signal, candidate, evaluation, inbox, failing, strategy, work, handed>>
        /\ \E s \in {"CONNECTED", "ERROR"} : health' = [state |-> s, gen |-> gen', last |-> 0]
        /\ \/ session' = "ACTIVE" /\ since' = IF session = "none" THEN closed + 1 ELSE since
           \/ session' = session /\ since' = since /\ pc' = "off"
    BY DEF Start, Goes
  <1>2. TypeOK /\ HistoryKept /\ closed' = closed /\ Rows /\ closed \in Nat /\ closed <= MaxCandle
    BY <1>1, SameCandles, ClosedType DEF IInv, Rows
  <1>3. TypeOK'
    <2>1. gen' \in 0..MaxGen /\ 0 \in 0..MaxCandle
      BY <1>1, <1>2, Bounds DEF TypeOK
    <2>2. since' \in 0..(MaxCandle + 1) /\ session' \in {"none", "ACTIVE", "PAUSED"}
      BY <1>1, <1>2, Bounds, SMTT(30) DEF TypeOK
    <2>3. health' \in [state : {"CONNECTED", "DEGRADED", "ERROR", "STARTING"}, gen : 0..MaxGen, last : 0..MaxCandle]
      BY <1>1, <2>1
    <2> QED
      BY <1>1, <1>2, <2>1, <2>2, <2>3 DEF TypeOK, Stages, strategy, inbox, work
  <1>4. since' = since \/ \A k \in Keys : signal[k].setup = None
    BY <1>1 DEF IInv, NoSessionYet
  <1>5. Rows' /\ Finality
    BY <1>1, <1>2, <1>4, RowsStay
  <1>6. HandedIsProved'
    BY <1>1, <1>2, HandedStays DEF IInv
  <1>7. FoundIsDue' /\ EvaluationIsTrue' /\ QueueIsPast'
    BY <1>1, <1>2, FoundStays, EvaluationStays, QueueStays DEF IInv, inbox, work
  <1>8. EndedIsReported' /\ StepsAreStored' /\ ItemInHand'
    BY <1>1 DEF EndedIsReported, StepsAreStored, ItemInHand, Busy
  <1>9. NoSessionYet'
    BY <1>1 DEF IInv, NoSessionYet
  <1> QED
    BY <1>3, <1>5, <1>6, <1>7, <1>8, <1>9 DEF IInv, Rows

LEMMA StepLeaves ==
  ASSUME IInv, Leaves, session' = session \/ (session' = "PAUSED" /\ pc \notin {"down", "off"})
  PROVE  IInv' /\ Finality
  <1>1. /\ pc' = "down"
        /\ queue' = <<>> /\ queued' = {} /\ processed' = {} /\ last' = 0 /\ failing' = FALSE
        /\ confirmed' = {} /\ invalidated' = {}
        /\ item' = NoItem /\ found' = None /\ intelligence' = FALSE
        /\ UNCHANGED <<bar, since, signal, candidate, evaluation, health, gen, handed>>
    BY DEF Leaves, Goes
  <1>2. TypeOK /\ HistoryKept /\ closed' = closed /\ Rows
    BY <1>1, SameCandles DEF IInv, Rows
  <1>3. FALSE \in BOOLEAN
    BY Zenon
  <1>4. queue' \in Seq(Snapshots) /\ Len(queue') = 0 /\ 0 <= Capacity /\ 0 \in 0..MaxCandle
    BY <1>1, EmptySeq, Bounds
  <1>5. TypeOK'
    BY <1>1, <1>2, <1>3, <1>4, NothingInHand DEF TypeOK, Stages
  <1>6. Rows' /\ Finality
    BY <1>1, <1>2, RowsStay
  <1>7. HandedIsProved'
    BY <1>1, <1>2, HandedStays DEF IInv
  <1>8. FoundIsDue' /\ EvaluationIsTrue'
    BY <1>1, <1>2, NothingInHand, EvaluationStays DEF IInv
  <1>9. QueueIsPast'
    BY <1>4 DEF QueueIsPast
  <1>10. EndedIsReported' /\ StepsAreStored' /\ ItemInHand'
    BY <1>1 DEF EndedIsReported, StepsAreStored, ItemInHand, Busy
  <1>11. NoSessionYet'
    BY <1>1 DEF IInv, NoSessionYet
  <1> QED
    BY <1>5, <1>6, <1>7, <1>8, <1>9, <1>10, <1>11 DEF IInv, Rows

(* ------------------------------ the theorems ----------------------------- *)

LEMMA StepIInv == IInv /\ [Next]_vars => IInv' /\ Finality
  <1> SUFFICES ASSUME IInv, [Next]_vars PROVE IInv' /\ Finality
    OBVIOUS
  <1>1. CASE UNCHANGED vars
    <2>1. UNCHANGED <<bar, database, health, gen, pc, inbox, failing, strategy, work, handed>>
      BY <1>1 DEF vars
    <2>2. closed' = closed /\ HistoryKept
      BY <2>1, SameCandles DEF IInv
    <2>3. TypeOK'
      BY <2>1, <2>2 DEF IInv, TypeOK, database, inbox, strategy, work
    <2>4. /\ OneSignalPerSetup' /\ SettledForGood' /\ SignalsAreDue' /\ RowsInOrder' /\ Finality
          /\ HandedIsProved' /\ FoundIsDue' /\ EvaluationIsTrue'
      BY <2>1, <2>2, DataStays
    <2>5. QueueIsPast'
      BY <2>1, <2>2, QueueStays DEF IInv, inbox
    <2>6. NoSessionYet' /\ StepsAreStored' /\ ItemInHand' /\ EndedIsReported'
      BY <2>1, <2>2 DEF IInv, NoSessionYet, StepsAreStored, ItemInHand, EndedIsReported, database, work
    <2> QED
      BY <2>3, <2>4, <2>5, <2>6 DEF IInv
  <1>2. CASE CandleCloses
    BY <1>2, StepCandle
  <1>3. CASE Submit
    BY <1>3, StepEnqueue, StepRefused DEF Submit
  <1>4. CASE Heartbeat
    BY <1>4, StepHeartbeat
  <1>5. CASE Work
    <2>1. CASE Conflict
      BY <2>1, StepEnds DEF Conflict, AtPair, Busy
    <2> QED
      BY <1>5, <2>1, StepTake, StepIntelligence, StepMomentum, StepPairSignal, StepLink, StepCanonical,
         StepFinish DEF Work
  <1>6. CASE Raises
    BY <1>6, StepEnds DEF Raises, Busy
  <1>7. CASE Start
    BY <1>7, StepStart
  <1>8. CASE Stop
    <2>1. Leaves /\ (session' = session \/ (session' = "PAUSED" /\ pc \notin {"down", "off"}))
      BY <1>8 DEF Stop, Awaits
    <2> QED
      BY <2>1, StepLeaves
  <1>9. CASE Dies
    BY <1>9, StepLeaves DEF Dies
  <1> QED
    BY <1>1, <1>2, <1>3, <1>4, <1>5, <1>6, <1>7, <1>8, <1>9 DEF Next

THEOREM Invariance == Spec => []IInv
  BY InitIInv, StepIInv, PTL DEF Spec

(* SignalsAreSound: one signal, and so one order, per zone and breakout;     *)
(* trades settled as all the candles, later ones too, say; what execution is *)
(* handed is stored and linked; the status shown is true of the history, and *)
(* a worker that ended does not look healthy.                                *)
THEOREM SignalsStaySound == Spec => []SignalsAreSound
  <1>1. IInv => SignalsAreSound
    BY DEF IInv, SignalsAreSound, StatusIsTrue, Exposed, EvaluationIsTrue
  <1> QED
    BY <1>1, Invariance, PTL

(* SignalsAreDue: a stored zone signal is the first confirmation of a zone   *)
(* that the complete history does not break or exhaust, and belongs to its   *)
(* session, however often the process lost what it remembered.               *)
THEOREM SignalsStayDue == Spec => []SignalsAreDue
  BY Invariance, PTL DEF IInv

(* SignalsAreFinal: no signal is rewritten, no settled trade settled again.  *)
THEOREM SignalsStayFinal == Spec => SignalsAreFinal
  <1>1. IInv /\ [Next]_vars =>
          [\A k \in Keys : /\ signal[k].setup # None => [signal'[k] EXCEPT !.trade = signal[k].trade] = signal[k]
                           /\ signal[k].trade # "OPEN" => signal'[k].trade = signal[k].trade]_vars
    BY StepIInv DEF Finality
  <1> QED
    BY <1>1, Invariance, PTL DEF Spec, SignalsAreFinal

(* ----------------------------- the abstract log -------------------------- *)

(* Both modules speak of the same candles and rows.                          *)
LEMMA SameWords ==
  /\ Log!Keys = Keys /\ Log!closed = closed /\ Log!NoSignal = NoSignal
  /\ \A z, c : Log!Due(z, c) <=> Due(z, c)
  /\ \A a, s : Log!Settled(a, s) <=> Settled(a, s)
  /\ \A c : Log!Breakout(c) = Breakout(c)
  /\ \A k : Log!Recorded(k) <=> signal[k].setup # None
  <1>1. Log!Keys = Keys /\ Log!closed = closed /\ Log!NoSignal = NoSignal
    BY DEF Log!Keys, Keys, Log!Candles, Candles, Log!closed, closed, Log!NoSignal, NoSignal
  <1>2. \A c : (Log!Inside(c) <=> Inside(c)) /\ Log!Breakout(c) = Breakout(c)
    BY DEF Log!Inside, Inside, Log!Breakout, Breakout
  <1>3. ASSUME NEW H
        PROVE  /\ Log!Broken(H) <=> Broken(H)
               /\ Log!FirstConfirmation(H) = FirstConfirmation(H)
               /\ Log!Touches(H) = Touches(H)
    <2>1. Log!Broken(H) <=> Broken(H)
      BY DEF Log!Broken, Broken
    <2>2. Log!FirstConfirmation(H) = FirstConfirmation(H)
      BY DEF Log!FirstConfirmation, FirstConfirmation
    <2> DEFINE entries == {c \in H : Inside(c) /\ (c - 1 \in H => ~Inside(c - 1))}
    <2>3. Log!Cardinality(entries) = Cardinality(entries)
      <3> HIDE DEF entries
      <3> QED
        BY DEF Log!Cardinality, Cardinality
    <2>4. {c \in H : Log!Inside(c) /\ (c - 1 \in H => ~Log!Inside(c - 1))} = entries
      BY <1>2
    <2>5. Log!Touches(H) = Touches(H)
      BY <2>3, <2>4, Zenon DEF Log!Touches, Touches
    <2> QED
      BY <2>1, <2>2, <2>5
  <1>4. \A z, c : Log!Due(z, c) <=> Due(z, c)
    BY <1>3 DEF Log!Due, Due, Log!Alive, Alive, Log!History, History
  <1>5. \A a, s : Log!Settled(a, s) <=> Settled(a, s)
    BY <1>1 DEF Log!Settled, Settled
  <1> QED
    BY <1>1, <1>2, <1>4, <1>5 DEF Log!Recorded

LogStep == [Log!Next]_(Log!vars)

(* A step that leaves the interface alone is none of the log.                *)
LEMMA LogStutters ==
  ASSUME UNCHANGED <<bar, since, signal, handed>>, (session' = "none") <=> (session = "none")
  PROVE  LogStep
  <1>1. (session # "none")' = (session # "none")
    OBVIOUS
  <1> QED
    BY <1>1 DEF LogStep, Log!vars

(* An inserted row is recorded: what the worker found while it looked at its *)
(* window, several awaits ago, is what the whole history offers.             *)
LEMMA InsertRecords ==
  ASSUME IInv, NEW kind \in {"zone", "momentum"}, NEW s, s # None, NEW n, n = <<kind, item.at>>,
         item \in Snapshots, since < item.at, item.at <= closed, session # "none",
         Fresh(kind, s), Insert(kind, s),
         kind = "zone" => s \in Zones /\ Due(s, item.at),
         kind = "momentum" => s = Breakout(item.at) /\ s \in Events,
         handed' = handed \/ handed' = handed \cup {n},
         UNCHANGED <<bar, since, session>>
  PROVE  LogStep
  <1>1. n \in Keys /\ n[1] = kind /\ n[2] = item.at /\ item.tick \in Ticks
    BY KeyType DEF Snapshots
  <1>2. signal[n].setup = None /\ \A c \in Candles : signal[<<kind, c>>].setup # s
    BY DEF Fresh, Row
  <1>3. \A l \in Keys : signal[l].setup # s
    <2>1. SUFFICES ASSUME NEW l \in Keys, signal[l].setup = s PROVE FALSE
      OBVIOUS
    <2>2. signal[l].setup \in Setups(l[1]) /\ s \in Setups(kind)
      BY DEF IInv, RowsInOrder, Setups
    <2>3. l[1] = kind
      BY <2>1, <2>2, SetupsDiffer, KeyType
    <2> QED
      BY <1>2, <2>1, <2>3, KeyType
  <1>4. s \in Log!Offered(n)
    BY <1>1, SameWords DEF Log!Offered
  <1>5. signal' = [signal EXCEPT ![n] = [setup |-> s, tick |-> item.tick, trade |-> "OPEN"]]
    BY DEF Insert
  <1>6. (session # "none")' = (session # "none")
    OBVIOUS
  <1>7. Log!Record(n)
    <2>1. since < n[2] /\ n[2] <= Log!closed /\ ~Log!Recorded(n)
      BY <1>1, <1>2, SameWords
    <2>2. \A l \in Log!Keys : signal[l].setup # s
      BY <1>3, SameWords
    <2>3. handed' \in {handed, handed \cup {n}}
      OBVIOUS
    <2> QED
      BY <1>1, <1>4, <1>5, <1>6, <2>1, <2>2, <2>3 DEF Log!Record
  <1> QED
    BY <1>1, <1>7, SameWords DEF LogStep, Log!Next

LEMMA HandsOver ==
  ASSUME NEW k \in Keys, signal[k].setup # None, handed' = handed \cup {k},
         UNCHANGED <<bar, since, session, signal>>
  PROVE  LogStep
  <1>1. (session # "none")' = (session # "none")
    OBVIOUS
  <1>2. Log!Hand(k)
    BY <1>1, SameWords DEF Log!Hand
  <1> QED
    BY <1>2, SameWords DEF LogStep, Log!Next

LEMMA MomentumIsLogged ==
  ASSUME IInv, Momentum
  PROVE  LogStep
  <1>1. pc = "momentum" /\ UNCHANGED <<bar, session, since>>
    BY DEF Momentum
  <1>2. item \in Snapshots /\ item.at \in Candles /\ item.at <= closed /\ item.at > since
        /\ session # "none" /\ TypeOK
    BY <1>1 DEF IInv, ItemInHand, Busy, Snapshots, NoSessionYet
  <1>3. PICK event, n : event = BreakoutEvent(item.at) /\ n = <<"momentum", item.at>>
    OBVIOUS
  <1>4. n \in Keys
    BY <1>2, <1>3, KeyType
  <1>5. CASE UNCHANGED <<signal, handed>>
    BY <1>1, <1>5, LogStutters
  <1>6. CASE event # None /\ Same("momentum", event) /\ signal' = signal /\ handed' = handed \cup {n}
    <2>1. signal[n].setup = event
      BY <1>2, <1>3, <1>4, <1>6, SameSetup
    <2> QED
      BY <1>1, <1>4, <1>6, <2>1, HandsOver
  <1>7. CASE event # None /\ Fresh("momentum", event) /\ Insert("momentum", event) /\ handed' = handed \cup {n}
    <2>1. event = Breakout(item.at) /\ event \in Events
      <3>1. item.at \in 1..closed
        BY <1>2 DEF Candles
      <3>2. bar[item.at] \in Bars
        BY <1>2, <3>1, ClosedType
      <3> QED
        BY <1>3, <1>7, <3>2 DEF BreakoutEvent, Breakout, Events
    <2>2. "momentum" # "zone" /\ since < item.at
      BY <1>2
    <2> QED
      BY <1>1, <1>2, <1>3, <1>7, <2>1, <2>2, InsertRecords
  <1> QED
    BY <1>3, <1>5, <1>6, <1>7 DEF Momentum

LEMMA PairSignalIsLogged ==
  ASSUME IInv, PairSignal
  PROVE  LogStep
  <1>1. AtPair /\ found # None /\ UNCHANGED <<bar, session, since, handed>>
    BY DEF PairSignal
  <1>2. item \in Snapshots /\ item.at <= closed /\ item.at > since /\ session # "none" /\ TypeOK
    BY <1>1 DEF IInv, ItemInHand, Busy, NoSessionYet, AtPair
  <1>3. CASE signal' = signal
    BY <1>1, <1>3, LogStutters
  <1>4. CASE Fresh("zone", found) /\ Insert("zone", found)
    <2>1. found \in Zones /\ Due(found, item.at)
      BY <1>1, <1>2 DEF IInv, FoundIsDue, TypeOK
    <2>2. "zone" # "momentum" /\ since < item.at
      BY <1>2
    <2> QED
      BY <1>1, <1>2, <1>4, <2>1, <2>2, InsertRecords
  <1> QED
    BY <1>3, <1>4 DEF PairSignal

LEMMA CanonicalIsLogged ==
  ASSUME IInv, Canonical
  PROVE  LogStep
  <1>1. pc = "canonical" /\ handed' = handed \cup {<<"zone", item.at>>}
        /\ UNCHANGED <<bar, session, since, signal>>
    BY DEF Canonical, database
  <1>2. PICK n : n = <<"zone", item.at>>
    OBVIOUS
  <1>3. n \in Keys /\ signal[n].setup # None
    BY <1>1, <1>2, KeyType DEF IInv, ItemInHand, StepsAreStored, Busy, Snapshots
  <1> QED
    BY <1>1, <1>2, <1>3, HandsOver

LEMMA FinishIsLogged ==
  ASSUME IInv, Finish
  PROVE  LogStep
  <1>1. UNCHANGED <<bar, session, since, handed>> /\ DOMAIN signal' = Keys
    BY DEF Finish
  <1>2. ASSUME NEW k \in Keys
        PROVE  \/ signal'[k] = signal[k]
               \/ /\ signal[k].setup # None /\ signal[k].trade = "OPEN"
                  /\ Settled(k[2], signal'[k].trade)
                  /\ signal'[k] = [signal[k] EXCEPT !.trade = signal'[k].trade]
    <2>1. PICK o : o = Outcome(k[2])
      OBVIOUS
    <2>2. signal[k] \in SignalRows /\ Settled(k[2], o)
      BY <2>1, RowType, KeyType, OutcomeSettles DEF IInv
    <2>3. CASE signal[k].setup # None /\ signal[k].trade = "OPEN"
      <3>1. signal'[k] = [signal[k] EXCEPT !.trade = o]
        BY <2>1, <2>3 DEF Finish
      <3>2. signal'[k].trade = o
        BY <2>2, <3>1 DEF SignalRows
      <3> QED
        BY <2>2, <2>3, <3>1, <3>2
    <2>4. CASE ~(signal[k].setup # None /\ signal[k].trade = "OPEN")
      BY <2>4 DEF Finish
    <2> QED
      BY <2>3, <2>4
  <1>3. (session # "none")' = (session # "none")
    BY <1>1
  <1>4. Log!Settle
    BY <1>1, <1>2, <1>3, SameWords DEF Log!Settle
  <1> QED
    BY <1>4 DEF LogStep, Log!Next

(* Every step of the worker is one of the log, or hides from it.             *)
LEMMA StepIsLogged == IInv /\ [Next]_vars => LogStep
  <1> SUFFICES ASSUME IInv, [Next]_vars PROVE LogStep
    OBVIOUS
  <1>1. CASE UNCHANGED vars
    BY <1>1, LogStutters DEF vars, database
  <1>2. CASE CandleCloses
    <2>1. (\E b \in Bars : bar' = Append(bar, b)) /\ UNCHANGED <<session, since, signal, handed>>
      BY <1>2 DEF CandleCloses, database
    <2>2. (session # "none")' = (session # "none")
      BY <2>1
    <2> QED
      BY <2>1, <2>2 DEF LogStep, Log!Next, Log!CandleCloses
  <1>3. CASE Submit \/ Heartbeat
    BY <1>3, LogStutters DEF Submit, Heartbeat, Enqueue, AlreadyThere, QueueFull, database
  <1>4. CASE Take \/ Intelligence \/ Link
    BY <1>4, LogStutters DEF Take, Intelligence, Link
  <1>5. CASE Conflict \/ Raises
    BY <1>5, LogStutters DEF Conflict, Raises, Ends, database
  <1>6. CASE Start
    <2>1. UNCHANGED <<bar, signal, handed>>
      BY <1>6 DEF Start
    <2>2. CASE session = "none" /\ session' = "ACTIVE" /\ since' = closed + 1
      <3>1. ~(session # "none") /\ (session # "none")' = TRUE
        BY <2>2
      <3> QED
        BY <2>1, <2>2, <3>1, SameWords DEF LogStep, Log!Next, Log!Begin
    <2>3. CASE since' = since /\ ((session' = "none") <=> (session = "none"))
      BY <2>1, <2>3, LogStutters
    <2> QED
      BY <1>6, <2>2, <2>3 DEF Start
  <1>7. CASE Stop \/ Dies
    <2>1. Leaves /\ (session' = session \/ (session' = "PAUSED" /\ pc \notin {"down", "off"}))
      BY <1>7 DEF Stop, Dies, Awaits
    <2>2. (session' = "none") <=> (session = "none")
      BY <2>1 DEF IInv, NoSessionYet
    <2> QED
      BY <2>1, <2>2, LogStutters DEF Leaves
  <1> QED
    BY <1>1, <1>2, <1>3, <1>4, <1>5, <1>6, <1>7, MomentumIsLogged, PairSignalIsLogged,
       CanonicalIsLogged, FinishIsLogged DEF Next, Work

(* ImplementsLog: a worker that remembers little, sees candles through a     *)
(* window, stores first and executes later, and may die between any two      *)
(* steps, records, settles and hands over what a single reader of the        *)
(* complete history could have.                                              *)
THEOREM Implementation == Spec => ImplementsLog
  <1>1. Init => Log!Init
    <2> SUFFICES ASSUME Init PROVE Log!Init
      OBVIOUS
    <2>1. (session # "none") \in BOOLEAN
      BY Zenon
    <2> QED
      BY <2>1, SameWords DEF Init, Log!Init
  <1>2. IInv /\ [Next]_vars => [Log!Next]_(Log!vars)
    BY StepIsLogged DEF LogStep
  <1> QED
    BY <1>1, <1>2, Invariance, PTL DEF Spec, ImplementsLog, Log!Spec
==============================================================================
