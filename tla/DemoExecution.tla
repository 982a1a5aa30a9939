---------------------------- MODULE DemoExecution ----------------------------
(* services/demo_execution.py with its surroundings: the Telegram kill       *)
(* switch of services/control.py, the deal reconciliation of                 *)
(* persistence/repositories.py, and the MT5 broker it talks to.              *)
(*                                                                           *)
(* Each worker is the one forward-shadow task of a Live process, so its      *)
(* in-process _lock is never contended; workers share only the database.     *)
(* Every database transaction and every await is a step of its own; code     *)
(* between two of them runs without interleaving and is one action.          *)

EXTENDS Naturals

CONSTANTS
  Signals,   \* canonical Forward Shadow signals (BUY/SELL rows)
  Workers,   \* Live processes that may run against the same database
  ExitEntry  \* what DealFact.from_mt5 makes of the entry of an exit deal

VARIABLES
  armed,     \* DemoExecutionControlRecord.enabled, the durable kill switch
  record,    \* record[s]: the DemoExecutionRecord with forward_signal_id = s
  stage,     \* stage[w]: where worker w stands inside execute()
  job,       \* job[w]: the signal worker w is executing
  sent,      \* sent[s]: order_send calls issued for s since the beginning
  market,    \* market[s]: what the broker did with the request for s
  deals,     \* the broker's deal history
  facts,     \* BrokerDealRecord rows: deals already persisted
  told,      \* told[s]: execution results published for s (Telegram/events)
  atKill     \* rows that were PENDING when the switch was last turned off

vars == <<armed, record, stage, job, sent, market, deals, facts, told, atKill>>

Statuses == {"NONE", "PENDING", "REJECTED", "INDETERMINATE", "ACKNOWLEDGED", "CLOSED"}

(* What a row knows of the broker's tickets: nothing, an order or deal       *)
(* ticket, or the position ticket as well.                                   *)
TicketSets == {"none", "order", "position"}

Rows == [status : Statuses, tickets : TicketSets]

NoRow == [status |-> "NONE", tickets |-> "none"]

Stages == {"down", "idle", "lookup", "preflight", "reject", "reserve",
           "recheck", "queued", "sending"}

(* The stages at which a worker owns the PENDING row it inserted.            *)
Owning == {"recheck", "queued", "sending"}

(* Deals: the entry, a partial exit and the final exit of a position.        *)
(* "after" is fact.timestamp > row.created_at, which the broker's clock      *)
(* decides and only an exit is asked.                                        *)
Deal == [signal : Signals, leg : {"IN", "PART", "OUT"}, after : BOOLEAN]

Reported == {"ACKNOWLEDGED", "REJECTED"}

TypeOK ==
  /\ armed \in BOOLEAN
  /\ record \in [Signals -> Rows]
  /\ stage \in [Workers -> Stages]
  /\ job \in [Workers -> Signals]
  /\ sent \in [Signals -> Nat]
  /\ market \in [Signals -> {"none", "wire", "refused", "open", "reduced", "exited"}]
  /\ deals \subseteq Deal
  /\ facts \subseteq Deal
  /\ told \in [Signals -> SUBSET Reported]
  /\ atKill \subseteq Signals
------------------------------------------------------------------------------
Init ==
  /\ armed = FALSE
  /\ record = [s \in Signals |-> NoRow]
  /\ stage = [w \in Workers |-> "idle"]
  /\ job \in [Workers -> Signals]
  /\ sent = [s \in Signals |-> 0]
  /\ market = [s \in Signals |-> "none"]
  /\ deals = {}
  /\ facts = {}
  /\ told = [s \in Signals |-> {}]
  /\ atKill = {}

Goto(w, next) == stage' = [stage EXCEPT ![w] = next]

broker == <<market, deals, facts, sent>>

(* The row of s changes; execute() returns to the forward worker, which      *)
(* swallows whatever it raises.                                              *)
Settle(w, s, row) ==
  /\ record' = [record EXCEPT ![s] = row]
  /\ Goto(w, "idle")

(* _notify_result: published for ACKNOWLEDGED and REJECTED rows only; the    *)
(* publication itself may fail, and its exception is logged.                 *)
NotifyResult(s, status) ==
  \/ UNCHANGED told
  \/ status \in Reported /\ told' = [told EXCEPT ![s] = @ \cup {status}]

(* execute(): only an armed switch lets a signal in.                         *)
Execute(w, s) ==
  /\ stage[w] = "idle"
  /\ armed
  /\ job' = [job EXCEPT ![w] = s]
  /\ Goto(w, "lookup")
  /\ UNCHANGED <<armed, record, broker, told, atKill>>

(* _existing(): a recorded decision is returned, never re-evaluated; a       *)
(* database error is raised.                                                 *)
Lookup(w) ==
  /\ stage[w] = "lookup"
  /\ \/ record[job[w]].status = "NONE" /\ Goto(w, "preflight")
     \/ Goto(w, "idle")
  /\ UNCHANGED <<armed, record, job, broker, told, atKill>>

(* Provenance, the gateway read and _build_request: either every gate        *)
(* passes, or a gate error or any other exception rejects the signal.        *)
Preflight(w) ==
  /\ stage[w] = "preflight"
  /\ \E outcome \in {"reserve", "reject"} : Goto(w, outcome)
  /\ UNCHANGED <<armed, record, job, broker, told, atKill>>

(* _persist_rejection: the existing row wins, by lookup or by the unique     *)
(* key; any other database error raises DemoExecutionPersistenceError.       *)
PersistRejection(w) ==
  LET s == job[w]
      row == IF record[s].status = "NONE"
             THEN [status |-> "REJECTED", tickets |-> "none"] ELSE record[s]
  IN /\ stage[w] = "reject"
     /\ \/ Settle(w, s, row) /\ NotifyResult(s, row.status)
        \/ Goto(w, "idle") /\ UNCHANGED <<record, told>>
     /\ UNCHANGED <<armed, job, broker, atKill>>

(* Mutant: no unique key, so a second insert replaces the first.             *)
PersistPendingWithoutKey(w) ==
  /\ stage[w] = "reserve"
  /\ record' = [record EXCEPT ![job[w]] = [status |-> "PENDING", tickets |-> "none"]]
  /\ Goto(w, "recheck")
  /\ UNCHANGED <<armed, job, broker, told, atKill>>

(* Mutant: a failed insert is ignored and the order goes out unrecorded.     *)
PersistPendingIgnoringErrors(w) ==
  /\ stage[w] = "reserve"
  /\ record[job[w]].status = "NONE"
  /\ Goto(w, "recheck")
  /\ UNCHANGED <<armed, record, job, broker, told, atKill>>

(* _persist_pending: the unique key on forward_signal_id lets one insert     *)
(* through; the loser returns the winner's row without touching the broker.  *)
PersistPending(w) ==
  LET s == job[w]
  IN /\ stage[w] = "reserve"
     /\ \/ /\ record[s].status = "NONE"
           /\ record' = [record EXCEPT ![s] = [status |-> "PENDING", tickets |-> "none"]]
           /\ Goto(w, "recheck")
        \/ Goto(w, "idle") /\ UNCHANGED record
     /\ UNCHANGED <<armed, job, broker, told, atKill>>

(* Mutant: the switch is not read a second time.                             *)
RecheckSkipped(w) ==
  /\ stage[w] = "recheck"
  /\ Goto(w, "queued")
  /\ UNCHANGED <<armed, record, job, broker, told, atKill>>

(* Mutant: with the switch off the worker waits for it to be armed again.    *)
RecheckWaits(w) == armed /\ RecheckSkipped(w)

(* Mutant: a stopped row gets a status no reader knows.                      *)
RecheckUnknownStatus(w) ==
  \/ armed /\ RecheckSkipped(w)
  \/ /\ stage[w] = "recheck" /\ ~armed
     /\ Settle(w, job[w], [status |-> "BLOCKED", tickets |-> "none"])
     /\ UNCHANGED <<armed, job, broker, told, atKill>>

(* The switch is read again after the insert and before the order; a         *)
(* database error here leaves the row PENDING.                               *)
Recheck(w) ==
  LET s == job[w]
      row == [record[s] EXCEPT !.status = "REJECTED"]
  IN /\ stage[w] = "recheck"
     /\ \/ armed /\ Goto(w, "queued") /\ UNCHANGED <<record, told>>
        \/ ~armed /\ Settle(w, s, row) /\ NotifyResult(s, row.status)
        \/ Goto(w, "idle") /\ UNCHANGED <<record, told>>
     /\ UNCHANGED <<armed, job, broker, atKill>>

(* gateway.call obtained the MT5 lock, the session is connected: the thread  *)
(* issues order_send.                                                        *)
Submit(w) ==
  LET s == job[w]
  IN /\ stage[w] = "queued"
     /\ sent' = [sent EXCEPT ![s] = @ + 1]
     /\ market' = [market EXCEPT ![s] = "wire"]
     /\ Goto(w, "sending")
     /\ UNCHANGED <<armed, record, job, deals, facts, told, atKill>>

(* The call raised: the gateway was not connected (nothing was sent), or     *)
(* order_send itself failed.  INDETERMINATE, unless the update fails too.    *)
SubmitFails(w) ==
  LET s == job[w]
  IN /\ stage[w] \in {"queued", "sending"}
     /\ \/ Settle(w, s, [record[s] EXCEPT !.status = "INDETERMINATE"])
        \/ Goto(w, "idle") /\ UNCHANGED record
     /\ UNCHANGED <<armed, job, broker, told, atKill>>

(* What order_send may return for s.  An accepted return code is never given *)
(* to a request the broker refused; any other code, a timeout or None says   *)
(* nothing about what the broker did or will do.                             *)
Replies(s) == {r \in [accepted : BOOLEAN, tickets : TicketSets] :
                 r.accepted => market[s] # "refused"}

(* _record_broker_result, in the same event-loop step as the reply; its      *)
(* _update may fail and leave the row PENDING.                               *)
RecordBrokerResult(w) ==
  LET s == job[w]
  IN /\ stage[w] = "sending"
     /\ \/ \E r \in Replies(s) :
             LET status == IF ~r.accepted THEN "REJECTED"
                           ELSE IF r.tickets = "none" THEN "INDETERMINATE"
                           ELSE "ACKNOWLEDGED"
             IN /\ Settle(w, s, [status |-> status, tickets |-> r.tickets])
                /\ NotifyResult(s, status)
        \/ Goto(w, "idle") /\ UNCHANGED <<record, told>>
     /\ UNCHANGED <<armed, job, broker, atKill>>

(* The process dies, or engine.stop() cancels the task: whatever the worker  *)
(* was doing is lost.  A request already on the wire stays there.            *)
Halt(w) ==
  /\ stage[w] # "down"
  /\ Goto(w, "down")
  /\ UNCHANGED <<armed, record, job, broker, told, atKill>>

(* A new process: its forward worker has an empty _processed set, so it may  *)
(* execute any signal again.                                                 *)
Restart(w) ==
  /\ stage[w] = "down"
  /\ Goto(w, "idle")
  /\ UNCHANGED <<armed, record, job, broker, told, atKill>>
------------------------------------------------------------------------------
(* /demo_on and /demo_off in the Control process.                            *)
DemoOn ==
  /\ ~armed
  /\ armed' = TRUE
  /\ UNCHANGED <<record, stage, job, broker, told, atKill>>

DemoOff ==
  /\ armed
  /\ armed' = FALSE
  /\ atKill' = {s \in Signals : record[s].status = "PENDING"}
  /\ UNCHANGED <<record, stage, job, broker, told>>

(* The broker (external): it fills or refuses a request, and a position is   *)
(* reduced or closed by its stop, its target or by hand.                     *)
NewDeal(s, leg, after, next) ==
  /\ market' = [market EXCEPT ![s] = next]
  /\ deals' = deals \cup {[signal |-> s, leg |-> leg, after |-> after]}
  /\ UNCHANGED <<armed, record, stage, job, sent, facts, told, atKill>>

BrokerFill(s) == market[s] = "wire" /\ NewDeal(s, "IN", TRUE, "open")

BrokerReduce(s) ==
  /\ market[s] = "open"
  /\ \E after \in BOOLEAN : NewDeal(s, "PART", after, "reduced")

BrokerExit(s) ==
  /\ market[s] \in {"open", "reduced"}
  /\ \E after \in BOOLEAN : NewDeal(s, "OUT", after, "exited")

BrokerRefuse(s) ==
  /\ market[s] = "wire"
  /\ market' = [market EXCEPT ![s] = "refused"]
  /\ UNCHANGED <<armed, record, stage, job, sent, deals, facts, told, atKill>>

(* An exit deal as from_mt5 stores it: str() of the terminal's entry value,  *)
(* which the reconciliation compares with three names.                       *)
ClosingEntries == {"OUT", "CLOSE", "CLOSED"}

Closing(d) == d.leg # "IN" /\ d.after /\ ExitEntry \in ClosingEntries

(* Mutant: any deal of the position, the entry included, closes the row.     *)
ReconciledByAnyDeal(row, batch) ==
  IF batch # {} /\ row.tickets # "none"
  THEN [status |-> "CLOSED", tickets |-> "position"] ELSE row

(* Mutant: an entry deal does not fill in the missing tickets.               *)
ReconciledWithoutTickets(row, batch) ==
  LET exited == \E d \in batch : Closing(d)
  IN [row EXCEPT !.status = IF exited /\ row.tickets = "position" THEN "CLOSED" ELSE @]

(* Mutant: exits are looked up by their own order ticket, never the row's.   *)
ReconciledByOrder(row, batch) ==
  LET entered == \E d \in batch : d.leg = "IN"
  IN [row EXCEPT !.tickets = IF entered /\ @ # "none" THEN "position" ELSE @]

(* _reconcile_demo_execution, applied to the new deals of one signal in the  *)
(* order of their timestamps.  An IN deal matches a row by any ticket and    *)
(* fills in the others; an exit carries only the position ticket.            *)
Reconciled(row, batch) ==
  LET entered == \E d \in batch : d.leg = "IN"
      tickets == IF entered /\ row.tickets # "none" THEN "position" ELSE row.tickets
      exited  == \E d \in batch : Closing(d)
  IN [status  |-> IF exited /\ tickets = "position" THEN "CLOSED" ELSE row.status,
      tickets |-> tickets]

(* Deals are read from the cursor on, so a deal comes with the earlier ones  *)
(* of its position unless those are already facts.                           *)
Earlier(d) == {e \in deals : e.signal = d.signal /\ e.leg = "IN" /\ d.leg # "IN"}
                \cup {e \in deals : e.signal = d.signal /\ e.leg = "PART" /\ d.leg = "OUT"}

(* persist_deals, from the history loop of w: a deal already known is        *)
(* skipped for good, a new one is stored and reconciled.  The loop needs the *)
(* MT5 lock, which w's own order_send holds.                                 *)
PersistDeals(w) ==
  /\ stage[w] \notin {"down", "sending"}
  /\ \E batch \in SUBSET (deals \ facts) :
       /\ batch # {}
       /\ \A d \in batch : Earlier(d) \subseteq facts \cup batch
       /\ facts' = facts \cup batch
       /\ record' = [s \in Signals |->
                       Reconciled(record[s], {d \in batch : d.signal = s})]
  /\ UNCHANGED <<armed, stage, job, sent, market, deals, told, atKill>>
------------------------------------------------------------------------------
WorkerStep(w) ==
  \/ Lookup(w) \/ Preflight(w) \/ PersistRejection(w) \/ PersistPending(w)
  \/ Recheck(w) \/ Submit(w) \/ SubmitFails(w) \/ RecordBrokerResult(w)

BrokerStep(s) == BrokerFill(s) \/ BrokerReduce(s) \/ BrokerExit(s) \/ BrokerRefuse(s)

Next ==
  \/ \E w \in Workers : \/ \E s \in Signals : Execute(w, s)
                       \/ WorkerStep(w)
                       \/ Halt(w)
                       \/ Restart(w)
                       \/ PersistDeals(w)
  \/ \E s \in Signals : BrokerStep(s)
  \/ DemoOn
  \/ DemoOff

Spec == Init /\ [][Next]_vars
------------------------------------------------------------------------------
(* Scheduling: a live process keeps running its forward task and its history *)
(* loop, a synchronous order_send returns, and the supervisor restarts a     *)
(* dead process.  The operator, the broker's decisions and crashes are not   *)
(* forced, but processes do not die for ever.                                *)
Fairness ==
  /\ \A w \in Workers : /\ WF_vars(WorkerStep(w))
                        /\ WF_vars(Restart(w))
                        /\ WF_vars(PersistDeals(w))
  /\ <>[][\A w \in Workers : ~Halt(w)]_vars

FairSpec == Spec /\ Fairness
------------------------------------------------------------------------------
(* At most one order_send is ever issued for a signal, whatever the workers, *)
(* crashes, restarts and repeated executions (class docstring, line 97).     *)
AtMostOnce == \A s \in Signals : sent[s] <= 1

(* Once a row holds a decision, later executions, late broker results and    *)
(* reconciliations leave it alone, except that a submitted order's exit      *)
(* closes it: _update never overwrites another outcome.                      *)
OutcomeIsFinal ==
  [][\A s \in Signals :
        record[s].status \notin {"NONE", "PENDING"} =>
          \/ record'[s].status = record[s].status
          \/ record'[s].status = "CLOSED" /\ sent[s] = 1]_vars

(* A CLOSED row is proved by a persisted exit deal of an order that this     *)
(* system submitted, and by the entry deal that tied the position to it or a *)
(* position ticket in the broker's answer (_reconcile_demo_execution).       *)
ClosedIsProved ==
  \A s \in Signals : record[s].status = "CLOSED" =>
    /\ record[s].tickets = "position"
    /\ sent[s] = 1
    /\ \E d \in facts : d.signal = s /\ d.leg # "IN" /\ d.after

(* The operator is never told both that an order was accepted and that it    *)
(* was blocked, and what was told is what the row says or became             *)
(* (_notify_result publishes the row of whichever execution won).            *)
ReportsAgree ==
  \A s \in Signals : told[s] # {} =>
    \E status \in Reported : /\ told[s] = {status}
                            /\ record[s].status \in {status, "CLOSED"}

(* With the switch off, the only orders that can still leave belong to rows  *)
(* that were already PENDING when it was turned off: every later signal, and *)
(* every earlier one that had not reached its insert, is stopped by the      *)
(* second reading of the switch.                                             *)
KillSwitchHolds ==
  [][\A s \in Signals : sent'[s] > sent[s] /\ ~armed => s \in atKill]_vars

(* "Arm or immediately kill new Demo orders" (demo_execution.py:57), "No new *)
(* Demo orders will be submitted." (control.py:1996): no order leaves while  *)
(* the switch is off.                                                        *)
KillIsImmediate ==
  [][\A s \in Signals : sent'[s] > sent[s] => armed]_vars

(* "No order was submitted." (notifications/templates.py:221) is what a      *)
(* DEMO_ORDER_BLOCKED message says of its signal.                            *)
BlockedMeansNotSubmitted ==
  \A s \in Signals : "REJECTED" \in told[s] => sent[s] = 0

(* Every execution returns to the forward worker, or dies with its process:  *)
(* no stage of execute() waits for ever.                                     *)
ExecutionReturns ==
  \A w \in Workers : stage[w] \notin {"idle", "down"} ~> stage[w] \in {"idle", "down"}

Exited(s) == \E d \in deals : d.signal = s /\ d.leg # "IN" /\ d.after

(* "assert stored.status == CLOSED" after the exit deal                      *)
(* (tests/test_phase32_demo_execution.py:759): an acknowledged order whose   *)
(* position has left the market is eventually CLOSED.                        *)
AcknowledgedExitCloses ==
  \A s \in Signals :
    (record[s].status = "ACKNOWLEDGED" /\ Exited(s)) ~> record[s].status = "CLOSED"

(* An exit that is read once the row knows its position closes the row,      *)
(* whichever process reads it and whatever was read before: given a terminal *)
(* that names its entries (persist_deals, _reconcile_demo_execution).        *)
KnownExitCloses ==
  \A s \in Signals :
    (/\ record[s].status = "ACKNOWLEDGED"
     /\ record[s].tickets = "position"
     /\ \E d \in deals \ facts : d.signal = s /\ d.leg # "IN" /\ d.after)
      ~> record[s].status = "CLOSED"
------------------------------------------------------------------------------
(* The strengthening under which the above are inductive.  A worker past its *)
(* insert owns the PENDING row, alone; tickets, hence reconciliation, only   *)
(* ever reach rows whose order was submitted and answered.                   *)
Owned ==
  \A w \in Workers : stage[w] \in Owning =>
    /\ record[job[w]] = [status |-> "PENDING", tickets |-> "none"]
    /\ sent[job[w]] = IF stage[w] = "sending" THEN 1 ELSE 0

SingleOwner ==
  \A v, w \in Workers :
    v # w /\ stage[v] \in Owning /\ stage[w] \in Owning => job[v] # job[w]

TicketsAreAnswers ==
  \A s \in Signals :
    /\ record[s].status = "NONE" => sent[s] = 0
    /\ record[s].tickets # "none" =>
         sent[s] = 1 /\ record[s].status \in {"REJECTED", "ACKNOWLEDGED", "CLOSED"}

QueuedAtKill ==
  \A w \in Workers : stage[w] = "queued" /\ ~armed => job[w] \in atKill

IInv ==
  /\ TypeOK
  /\ AtMostOnce
  /\ Owned
  /\ SingleOwner
  /\ TicketsAreAnswers
  /\ ClosedIsProved
  /\ ReportsAgree
  /\ QueuedAtKill
------------------------------------------------------------------------------
(* The phase of the abstract SignalOrder that a row and its order stand for. *)
Phase(s) ==
  CASE record[s].status = "NONE"                    -> "unclaimed"
    [] record[s].status = "CLOSED"                  -> "closed"
    [] record[s].status = "PENDING" /\ sent[s] = 0  -> "claimed"
    [] record[s].status = "PENDING" /\ sent[s] > 0  -> "submitted"
    [] record[s].status \in {"REJECTED", "INDETERMINATE", "ACKNOWLEDGED"}
         -> IF sent[s] = 0 THEN "withheld" ELSE "answered"

Promise == INSTANCE SignalOrder WITH phase <- [s \in Signals |-> Phase(s)]

(* The execution path implements the promise made for each signal.           *)
ImplementsPromise == Promise!Spec

(* Nothing stays under way: every execution returns, and an exit that the    *)
(* broker reports in words closes its row.                                   *)
OrdersComeToAnEnd == ExecutionReturns /\ KnownExitCloses

(* What the rows and the reports say is true, and stays so: nobody is told two*)
(* things of one signal, a closed row has its exit deal, and a decided row is*)
(* not decided again.                                                        *)
RowsAreTrue == [](TypeOK /\ ClosedIsProved /\ ReportsAgree) /\ OutcomeIsFinal
==============================================================================
