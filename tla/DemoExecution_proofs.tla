------------------------- MODULE DemoExecution_proofs -------------------------
(* For every set of signals and every number of Live processes: the          *)
(* inductive invariant of DemoExecution, and the properties that follow      *)
(* from it; and the same of Shadow, the worker that decides beside it.       *)
EXTENDS DemoExecution, Integers, Sequences, FiniteSetTheorems, WellFoundedInduction, TLAPS

(* Nothing is recorded, sent or owned at the start.                          *)
LEMMA InitEstablishes == Init => IInv
<1> SUFFICES ASSUME Init PROVE IInv
  OBVIOUS
<1>1. TypeOK
  BY DEF Init, TypeOK, Stages, Rows, Statuses, TicketSets, NoRow
<1>2. Owned /\ SingleOwner /\ QueuedAtKill
  BY DEF Init, Owned, SingleOwner, QueuedAtKill, Owning
<1>3. AtMostOnce /\ TicketsAreAnswers /\ ClosedIsProved /\ ReportsAgree
  BY DEF Init, NoRow, AtMostOnce, TicketsAreAnswers, ClosedIsProved, ReportsAgree
<1> QED
  BY <1>1, <1>2, <1>3 DEF IInv

(* A worker that moves to a stage where it owns no row disturbs nothing.     *)
LEMMA StageOnly ==
  ASSUME IInv, NEW w \in Workers, NEW next \in Stages \ Owning, Goto(w, next),
         UNCHANGED <<armed, record, job, sent, market, deals, facts, told, atKill>>
  PROVE  IInv'
BY DEF IInv, TypeOK, Stages, Owning, Goto, Owned, SingleOwner, TicketsAreAnswers,
       ClosedIsProved, ReportsAgree, QueuedAtKill, AtMostOnce

(* A worker that owns a PENDING row may record its outcome: nobody else owns *)
(* the row, nothing was reported for it, and tickets come only with the      *)
(* answer to its one order.                                                  *)
LEMMA OwnerSettles ==
  ASSUME IInv, NEW w \in Workers, stage[w] \in Owning, NEW row \in Rows,
         row.status \in {"REJECTED", "INDETERMINATE", "ACKNOWLEDGED"},
         row.tickets # "none" => stage[w] = "sending" /\ row.status # "INDETERMINATE",
         Settle(w, job[w], row), NotifyResult(job[w], row.status),
         UNCHANGED <<armed, job, sent, market, deals, facts, atKill>>
  PROVE  IInv'
<1> DEFINE s == job[w]
<1>0. /\ s \in Signals
      /\ record[s] = [status |-> "PENDING", tickets |-> "none"]
      /\ sent[s] = IF stage[w] = "sending" THEN 1 ELSE 0
      /\ record' = [record EXCEPT ![s] = row]
      /\ stage' = [stage EXCEPT ![w] = "idle"]
  BY DEF IInv, TypeOK, Owned, Settle, Goto
<1>1. TypeOK'
  BY <1>0 DEF IInv, TypeOK, Stages, NotifyResult
<1>2. Owned' /\ SingleOwner' /\ QueuedAtKill'
  BY <1>0 DEF IInv, TypeOK, Owned, SingleOwner, QueuedAtKill, Owning
<1>3. AtMostOnce' /\ TicketsAreAnswers'
  BY <1>0 DEF IInv, TypeOK, AtMostOnce, TicketsAreAnswers
<1>4. ClosedIsProved'
  BY <1>0 DEF IInv, TypeOK, ClosedIsProved
<1>5. ReportsAgree'
  <2>1. told[s] = {}
    BY <1>0 DEF IInv, ReportsAgree, Reported
  <2>2. told' = told \/ (row.status \in Reported /\ told' = [told EXCEPT ![s] = {row.status}])
    BY <2>1, <1>0 DEF NotifyResult, IInv, TypeOK
  <2> QED
    BY <1>0, <2>1, <2>2 DEF IInv, TypeOK, ReportsAgree
<1> QED
  BY <1>1, <1>2, <1>3, <1>4, <1>5 DEF IInv

(* _persist_rejection inserts only where no row exists; an existing row is   *)
(* reported as it stands.                                                    *)
LEMMA PersistRejectionKeeps ==
  ASSUME IInv, NEW w \in Workers, PersistRejection(w)
  PROVE  IInv'
<1> DEFINE s == job[w]
<1> DEFINE row == IF record[s].status = "NONE"
                  THEN [status |-> "REJECTED", tickets |-> "none"] ELSE record[s]
<1>0. s \in Signals /\ row \in Rows
  BY DEF IInv, TypeOK, Rows, Statuses, TicketSets
<1>1. CASE Goto(w, "idle") /\ UNCHANGED <<record, told>>
  BY <1>1, StageOnly DEF PersistRejection, broker, Stages, Owning
<1>2. CASE Settle(w, s, row) /\ NotifyResult(s, row.status)
  <2>0. /\ record' = [record EXCEPT ![s] = row]
        /\ stage' = [stage EXCEPT ![w] = "idle"]
        /\ UNCHANGED <<armed, job, sent, market, deals, facts, atKill>>
    BY <1>2 DEF Settle, Goto, PersistRejection, broker
  <2>1. TypeOK'
    BY <1>0, <1>2, <2>0 DEF IInv, TypeOK, Stages, NotifyResult
  <2>2. Owned' /\ SingleOwner' /\ QueuedAtKill'
    BY <1>0, <2>0 DEF IInv, TypeOK, Owned, SingleOwner, QueuedAtKill, Owning
  <2>3. AtMostOnce' /\ TicketsAreAnswers' /\ ClosedIsProved'
    BY <1>0, <2>0 DEF IInv, TypeOK, AtMostOnce, TicketsAreAnswers, ClosedIsProved
  <2>4. ReportsAgree'
    <3>1. told[s] # {} => row = record[s]
      BY <1>0 DEF IInv, ReportsAgree, Reported
    <3>2. \/ told' = told
          \/ /\ row.status \in Reported
             /\ told' = [told EXCEPT ![s] = {row.status}]
      BY <1>0, <1>2, <3>1 DEF NotifyResult, IInv, TypeOK, ReportsAgree, Reported
    <3> QED
      BY <1>0, <2>0, <3>1, <3>2 DEF IInv, TypeOK, ReportsAgree
  <2> QED
    BY <2>1, <2>2, <2>3, <2>4 DEF IInv
<1> QED
  BY <1>1, <1>2 DEF PersistRejection

(* The unique key: whoever inserts the row becomes its only owner.           *)
LEMMA PersistPendingKeeps ==
  ASSUME IInv, NEW w \in Workers, PersistPending(w)
  PROVE  IInv'
<1> DEFINE s == job[w]
<1>0. s \in Signals
  BY DEF IInv, TypeOK
<1>1. CASE Goto(w, "idle") /\ UNCHANGED record
  BY <1>1, StageOnly DEF PersistPending, broker, Stages, Owning
<1>2. CASE /\ record[s].status = "NONE"
           /\ record' = [record EXCEPT ![s] = [status |-> "PENDING", tickets |-> "none"]]
           /\ Goto(w, "recheck")
  <2>0. /\ stage' = [stage EXCEPT ![w] = "recheck"]
        /\ UNCHANGED <<armed, job, sent, market, deals, facts, told, atKill>>
    BY <1>2 DEF Goto, PersistPending, broker
  <2>1. \A v \in Workers : stage[v] \in Owning => job[v] # s
    BY <1>2 DEF IInv, Owned
  <2>2. TypeOK'
    BY <1>0, <1>2, <2>0 DEF IInv, TypeOK, Stages, Rows, Statuses, TicketSets
  <2>3. Owned' /\ SingleOwner' /\ QueuedAtKill'
    BY <1>0, <1>2, <2>0, <2>1
    DEF IInv, TypeOK, Owned, SingleOwner, QueuedAtKill, Owning, TicketsAreAnswers
  <2>4. AtMostOnce' /\ TicketsAreAnswers' /\ ClosedIsProved' /\ ReportsAgree'
    BY <1>0, <1>2, <2>0
    DEF IInv, TypeOK, AtMostOnce, TicketsAreAnswers, ClosedIsProved, ReportsAgree, Reported
  <2> QED
    BY <2>2, <2>3, <2>4 DEF IInv
<1> QED
  BY <1>1, <1>2 DEF PersistPending

(* The switch is read armed: the row is queued without having to be one that *)
(* was PENDING at the last kill.                                             *)
LEMMA RecheckKeeps ==
  ASSUME IInv, NEW w \in Workers, Recheck(w)
  PROVE  IInv'
<1> DEFINE s == job[w]
<1> DEFINE row == [record[s] EXCEPT !.status = "REJECTED"]
<1>0. s \in Signals /\ stage[w] \in Owning /\ record[s] = [status |-> "PENDING", tickets |-> "none"]
  BY DEF Recheck, IInv, TypeOK, Owned, Owning
<1>1. CASE armed /\ Goto(w, "queued") /\ UNCHANGED <<record, told>>
  BY <1>0, <1>1 DEF Recheck, broker, IInv, TypeOK, Stages, Owning, Goto, Owned, SingleOwner,
     TicketsAreAnswers, ClosedIsProved, ReportsAgree, QueuedAtKill, AtMostOnce
<1>2. CASE ~armed /\ Settle(w, s, row) /\ NotifyResult(s, row.status)
  <2>1. row \in Rows /\ row.status = "REJECTED" /\ row.tickets = "none"
    BY <1>0 DEF Rows, Statuses, TicketSets
  <2> QED
    BY <1>0, <1>2, <2>1, OwnerSettles DEF Recheck, broker
<1>3. CASE Goto(w, "idle") /\ UNCHANGED <<record, told>>
  BY <1>3, StageOnly DEF Recheck, broker, Stages, Owning
<1> QED
  BY <1>1, <1>2, <1>3 DEF Recheck

(* The owner of a row that was never sent sends it, once.                    *)
LEMMA SubmitKeeps ==
  ASSUME IInv, NEW w \in Workers, Submit(w)
  PROVE  IInv'
<1> DEFINE s == job[w]
<1>0. /\ s \in Signals /\ stage[w] \in Owning /\ sent[s] = 0
      /\ record[s] = [status |-> "PENDING", tickets |-> "none"]
      /\ \A v \in Workers : v # w /\ stage[v] \in Owning => job[v] # s
  BY DEF Submit, IInv, TypeOK, Owned, Owning, SingleOwner
<1>1. /\ sent' = [sent EXCEPT ![s] = 1]
      /\ stage' = [stage EXCEPT ![w] = "sending"]
      /\ UNCHANGED <<armed, record, job, deals, facts, told, atKill>>
  BY <1>0 DEF Submit, Goto, IInv, TypeOK
<1>2. TypeOK'
  BY <1>0, <1>1 DEF Submit, IInv, TypeOK, Stages
<1>3. Owned' /\ SingleOwner' /\ QueuedAtKill'
  BY <1>0, <1>1 DEF IInv, TypeOK, Owned, SingleOwner, QueuedAtKill, Owning
<1>4. AtMostOnce' /\ TicketsAreAnswers' /\ ClosedIsProved' /\ ReportsAgree'
  BY <1>0, <1>1 DEF IInv, TypeOK, AtMostOnce, TicketsAreAnswers, ClosedIsProved, ReportsAgree
<1> QED
  BY <1>2, <1>3, <1>4 DEF IInv

(* A raised call leaves the row PENDING or makes it INDETERMINATE.           *)
LEMMA SubmitFailsKeeps ==
  ASSUME IInv, NEW w \in Workers, SubmitFails(w)
  PROVE  IInv'
<1> DEFINE s == job[w]
<1> DEFINE row == [record[s] EXCEPT !.status = "INDETERMINATE"]
<1>0. s \in Signals /\ stage[w] \in Owning /\ record[s] = [status |-> "PENDING", tickets |-> "none"]
  BY DEF SubmitFails, IInv, TypeOK, Owned, Owning
<1>1. CASE Settle(w, s, row)
  <2>1. row \in Rows /\ row.status = "INDETERMINATE" /\ row.tickets = "none"
    BY <1>0 DEF Rows, Statuses, TicketSets
  <2>2. NotifyResult(s, row.status)
    BY DEF SubmitFails, NotifyResult
  <2> QED
    BY <1>0, <1>1, <2>1, <2>2, OwnerSettles DEF SubmitFails, broker
<1>2. CASE Goto(w, "idle") /\ UNCHANGED record
  BY <1>2, StageOnly DEF SubmitFails, broker, Stages, Owning
<1> QED
  BY <1>1, <1>2 DEF SubmitFails

(* Whatever the broker answers, the owner records it.                        *)
LEMMA RecordBrokerResultKeeps ==
  ASSUME IInv, NEW w \in Workers, RecordBrokerResult(w)
  PROVE  IInv'
<1> DEFINE s == job[w]
<1>0. stage[w] = "sending" /\ stage[w] \in Owning
  BY DEF RecordBrokerResult, Owning
<1>1. CASE Goto(w, "idle") /\ UNCHANGED <<record, told>>
  BY <1>1, StageOnly DEF RecordBrokerResult, broker, Stages, Owning
<1>2. ASSUME NEW r \in Replies(s),
             NEW status \in {"REJECTED", "INDETERMINATE", "ACKNOWLEDGED"},
             r.accepted /\ r.tickets = "none" <=> status = "INDETERMINATE",
             Settle(w, s, [status |-> status, tickets |-> r.tickets]), NotifyResult(s, status)
      PROVE  IInv'
  <2>1. [status |-> status, tickets |-> r.tickets] \in Rows
    BY <1>2 DEF Replies, Rows, Statuses
  <2> QED
    BY <1>0, <1>2, <2>1, OwnerSettles DEF RecordBrokerResult, broker
<1> QED
  BY <1>0, <1>1, <1>2 DEF RecordBrokerResult

(* Deals match only rows with a ticket, that is, answered orders.            *)
LEMMA PersistDealsKeeps ==
  ASSUME IInv, NEW w \in Workers, PersistDeals(w)
  PROVE  IInv'
BY DEF PersistDeals, Reconciled, Closing, IInv, TypeOK, Stages, Owned, Owning, SingleOwner,
       TicketsAreAnswers, ClosedIsProved, ReportsAgree, QueuedAtKill, AtMostOnce,
       Rows, Statuses, TicketSets, Reported

(* The operator and the broker touch no row; the kill takes note of the      *)
(* PENDING rows, among them every queued one.                                *)
LEMMA EnvironmentKeeps ==
  ASSUME IInv, DemoOn \/ DemoOff \/ (\E s \in Signals : BrokerStep(s))
  PROVE  IInv'
<1>1. CASE DemoOn
  BY <1>1 DEF DemoOn, broker, IInv, TypeOK, Owned, SingleOwner, TicketsAreAnswers,
     ClosedIsProved, ReportsAgree, QueuedAtKill, AtMostOnce
<1>2. CASE DemoOff
  <2>1. QueuedAtKill'
    BY <1>2 DEF DemoOff, IInv, TypeOK, Owned, Owning, QueuedAtKill
  <2> QED
    BY <1>2, <2>1, ZenonT(40) DEF DemoOff, broker, IInv, TypeOK, Owned, SingleOwner, TicketsAreAnswers,
       ClosedIsProved, ReportsAgree, AtMostOnce
<1>3. ASSUME NEW s \in Signals, BrokerStep(s) PROVE IInv'
  <2>1. market' \in [Signals -> {"none", "wire", "refused", "open", "reduced", "exited"}]
    BY <1>3 DEF BrokerStep, BrokerFill, BrokerReduce, BrokerExit, BrokerRefuse, NewDeal,
       IInv, TypeOK
  <2>2. deals' \subseteq Deal
    <3>1. deals \subseteq Deal
      BY DEF IInv, TypeOK
    <3>2. CASE BrokerRefuse(s)
      BY <3>1, <3>2 DEF BrokerRefuse
    <3>3. CASE BrokerFill(s)
      <4>1. \A after \in BOOLEAN : [signal |-> s, leg |-> "IN", after |-> after] \in Deal
        BY DEF Deal
      <4>2. [signal |-> s, leg |-> "IN", after |-> TRUE] \in Deal
        BY <4>1, Zenon
      <4> QED
        BY <3>1, <3>3, <4>2, Zenon DEF BrokerFill, NewDeal
    <3>4. CASE BrokerReduce(s)
      BY <3>1, <3>4 DEF BrokerReduce, NewDeal, Deal
    <3>5. CASE BrokerExit(s)
      BY <3>1, <3>5 DEF BrokerExit, NewDeal, Deal
    <3> QED
      BY <1>3, <3>2, <3>3, <3>4, <3>5 DEF BrokerStep
  <2>3. UNCHANGED <<armed, record, stage, job, sent, facts, told, atKill>>
    BY <1>3 DEF BrokerStep, BrokerFill, BrokerReduce, BrokerExit, BrokerRefuse, NewDeal
  <2> QED
    BY <2>1, <2>2, <2>3 DEF IInv, TypeOK, Owned, SingleOwner, TicketsAreAnswers,
       ClosedIsProved, ReportsAgree, QueuedAtKill, AtMostOnce
<1> QED
  BY <1>1, <1>2, <1>3

LEMMA NextPreserves == IInv /\ [Next]_vars => IInv'
<1> SUFFICES ASSUME IInv, [Next]_vars PROVE IInv'
  OBVIOUS
<1>1. ASSUME NEW w \in Workers, NEW s \in Signals, Execute(w, s) PROVE IInv'
  BY <1>1 DEF Execute, broker, IInv, TypeOK, Stages, Owning, Goto, Owned, SingleOwner,
     TicketsAreAnswers, ClosedIsProved, ReportsAgree, QueuedAtKill, AtMostOnce
<1>2. ASSUME NEW w \in Workers, Lookup(w) \/ Preflight(w) \/ Halt(w) \/ Restart(w)
      PROVE  IInv'
  BY <1>2, StageOnly DEF Lookup, Preflight, Halt, Restart, broker, Stages, Owning
<1>3. ASSUME NEW w \in Workers, WorkerStep(w) PROVE IInv'
  BY <1>2, <1>3, PersistRejectionKeeps, PersistPendingKeeps, RecheckKeeps, SubmitKeeps,
     SubmitFailsKeeps, RecordBrokerResultKeeps DEF WorkerStep
<1>4. CASE UNCHANGED vars
  BY <1>4 DEF vars, IInv, TypeOK, Owned, SingleOwner, TicketsAreAnswers, ClosedIsProved,
     ReportsAgree, QueuedAtKill, AtMostOnce
<1> QED
  BY <1>1, <1>2, <1>3, <1>4, PersistDealsKeeps, EnvironmentKeeps DEF Next

(* The strengthened invariant holds in every reachable state.                *)
THEOREM Invariance == Spec => []IInv
  BY InitEstablishes, NextPreserves, PTL DEF Spec

(* Types are kept by every step of every process.                            *)
THEOREM TypeCorrect == Spec => []TypeOK
<1>1. IInv => TypeOK
  BY DEF IInv
<1> QED
  BY <1>1, Invariance, PTL

(* No execution history, with any number of Live processes crashing and      *)
(* restarting, issues order_send twice for one signal.                       *)
THEOREM AtMostOnceHolds == Spec => []AtMostOnce
<1>1. IInv => AtMostOnce
  BY DEF IInv
<1> QED
  BY <1>1, Invariance, PTL

(* A CLOSED row rests on a persisted exit deal of a submitted order.         *)
THEOREM ClosedIsProvedHolds == Spec => []ClosedIsProved
<1>1. IInv => ClosedIsProved
  BY DEF IInv
<1> QED
  BY <1>1, Invariance, PTL

(* What was reported to the operator never contradicts itself or the row.    *)
THEOREM ReportsAgreeHolds == Spec => []ReportsAgree
<1>1. IInv => ReportsAgree
  BY DEF IInv
<1> QED
  BY <1>1, Invariance, PTL

(* With the switch off, only rows PENDING at the kill can still be sent.     *)
THEOREM KillSwitchHoldsAlways == Spec => KillSwitchHolds
<1> DEFINE Kill == \A s \in Signals : sent'[s] > sent[s] /\ ~armed => s \in atKill
<1>1. IInv /\ [Next]_vars => [Kill]_vars
  <2> SUFFICES ASSUME IInv, Next, NEW s \in Signals, sent'[s] > sent[s], ~armed
               PROVE  s \in atKill
    OBVIOUS
  <2>1. PICK w \in Workers : Submit(w)
    <3>1. sent[s] \in Nat
      BY DEF IInv, TypeOK
    <3>2. sent' # sent
      BY <3>1
    <3> QED
      BY <3>2 DEF Next, WorkerStep, Execute, Lookup, Preflight, PersistRejection, PersistPending,
         Recheck, SubmitFails, RecordBrokerResult, Halt, Restart, PersistDeals, BrokerStep,
         BrokerFill, BrokerReduce, BrokerExit, BrokerRefuse, NewDeal, DemoOn, DemoOff, broker
  <2>2. s = job[w]
    BY <2>1 DEF Submit, IInv, TypeOK
  <2> QED
    BY <2>1, <2>2 DEF Submit, IInv, QueuedAtKill
<1> QED
  BY <1>1, Invariance, PTL DEF Spec, KillSwitchHolds

(* What a worker's own step does to a row: its insert, or its outcome.       *)
LEMMA StepStatuses ==
  ASSUME IInv, NEW w \in Workers, NEW s \in Signals, record'[s].status # record[s].status,
         \/ PersistRejection(w) \/ PersistPending(w) \/ Recheck(w)
         \/ SubmitFails(w) \/ RecordBrokerResult(w)
  PROVE  \/ record[s].status = "NONE" /\ record'[s].status \in {"PENDING", "REJECTED"}
         \/ /\ record[s].status = "PENDING"
            /\ record'[s].status \in {"REJECTED", "INDETERMINATE", "ACKNOWLEDGED"}
<1>1. CASE PersistRejection(w) \/ PersistPending(w)
  BY <1>1 DEF PersistRejection, PersistPending, Settle, IInv, TypeOK
<1>2. CASE Recheck(w) \/ SubmitFails(w) \/ RecordBrokerResult(w)
  <2>1. record[job[w]].status = "PENDING"
    BY <1>2 DEF Recheck, SubmitFails, RecordBrokerResult, IInv, Owned, Owning
  <2>2. CASE Recheck(w)
    BY <2>1, <2>2 DEF Recheck, Settle, IInv, TypeOK, Rows
  <2>3. CASE SubmitFails(w)
    BY <2>1, <2>3 DEF SubmitFails, Settle, IInv, TypeOK, Rows
  <2>4. CASE RecordBrokerResult(w)
    <3>1. PICK r \in Replies(job[w]) :
            record' = [record EXCEPT ![job[w]] =
                        [status  |-> IF ~r.accepted THEN "REJECTED"
                                     ELSE IF r.tickets = "none" THEN "INDETERMINATE"
                                     ELSE "ACKNOWLEDGED",
                         tickets |-> r.tickets]]
      BY <2>4 DEF RecordBrokerResult, Settle
    <3> QED
      BY <2>1, <3>1 DEF IInv, TypeOK
  <2> QED
    BY <1>2, <2>2, <2>3, <2>4
<1> QED
  BY <1>1, <1>2

(* A decided row changes status only when reconciliation closes it.          *)
LEMMA StatusSteps ==
  ASSUME IInv, Next, NEW s \in Signals, record'[s].status # record[s].status
  PROVE  record[s].status \in {"NONE", "PENDING"} \/ (record'[s].status = "CLOSED" /\ sent[s] = 1)
<1>1. ASSUME NEW w \in Workers, PersistDeals(w)
      PROVE  record'[s].status = "CLOSED" /\ sent[s] = 1
  BY <1>1 DEF PersistDeals, Reconciled, Closing, IInv, TypeOK, TicketsAreAnswers
<1>2. \/ \E w \in Workers : \/ PersistRejection(w) \/ PersistPending(w) \/ Recheck(w)
                           \/ SubmitFails(w) \/ RecordBrokerResult(w) \/ PersistDeals(w)
      \/ record' = record
  BY DEF Next, WorkerStep, Execute, Lookup, Preflight, Submit, Halt, Restart, BrokerStep,
     BrokerFill, BrokerReduce, BrokerExit, BrokerRefuse, NewDeal, DemoOn, DemoOff
<1> QED
  BY <1>1, <1>2, StepStatuses

(* Recorded decisions are final but for the closing of a submitted order.    *)
THEOREM OutcomesAreFinal == Spec => OutcomeIsFinal
<1> DEFINE Final == \A s \in Signals :
                      record[s].status \notin {"NONE", "PENDING"} =>
                        \/ record'[s].status = record[s].status
                        \/ record'[s].status = "CLOSED" /\ sent[s] = 1
<1>1. IInv /\ [Next]_vars => [Final]_vars
  BY StatusSteps
<1> QED
  BY <1>1, Invariance, PTL DEF Spec, OutcomeIsFinal
------------------------------------------------------------------------------
(* Refinement.  A step that changes the phase of one signal is a move of the *)
(* abstract system.                                                          *)
LEMMA MoveOne ==
  ASSUME NEW s \in Signals, NEW from, NEW to, Phase(s) = from, Phase(s)' = to,
         \A t \in Signals : t # s => Phase(t)' = Phase(t)
  PROVE  Promise!Move(s, from, to)
BY DEF Promise!Move

(* Phases are those of the row and of the order count of the same signal.    *)
LEMMA PhaseKept ==
  ASSUME NEW s, record'[s].status = record[s].status, sent'[s] = sent[s]
  PROVE  Phase(s)' = Phase(s)
BY DEF Phase

(* Steps of a worker that touch only its own row map to one abstract move.   *)
LEMMA WorkerMoves ==
  ASSUME IInv, NEW s \in Signals, record'[s].status # record[s].status, sent' = sent,
         \A t \in Signals : t # s => record'[t] = record[t],
         \/ record[s].status = "NONE" /\ record'[s].status \in {"PENDING", "REJECTED"}
         \/ /\ record[s].status = "PENDING"
            /\ record'[s].status \in {"REJECTED", "INDETERMINATE", "ACKNOWLEDGED"}
  PROVE  Promise!Claim(s) \/ Promise!Withhold(s) \/ Promise!Answer(s)
<1>0. \A t \in Signals : t # s => Phase(t)' = Phase(t)
  BY PhaseKept
<1>1. CASE record[s].status = "NONE"
  <2>1. sent[s] = 0 /\ Phase(s) = "unclaimed"
    BY <1>1 DEF IInv, TicketsAreAnswers, Phase
  <2>2. CASE record'[s].status = "PENDING"
    <3>1. Phase(s)' = "claimed"
      BY <2>1, <2>2 DEF Phase
    <3> QED
      BY <1>0, <2>1, <3>1, MoveOne DEF Promise!Claim
  <2>3. CASE record'[s].status = "REJECTED"
    <3>1. Phase(s)' = "withheld"
      BY <2>1, <2>3 DEF Phase
    <3> QED
      BY <1>0, <2>1, <3>1, MoveOne DEF Promise!Withhold
  <2> QED
    BY <1>1, <2>2, <2>3
<1>2. CASE record[s].status = "PENDING"
  <2>0. sent[s] \in Nat /\ sent[s] <= 1
    BY DEF IInv, TypeOK, AtMostOnce
  <2>1. CASE sent[s] = 0
    <3>1. Phase(s) = "claimed" /\ Phase(s)' = "withheld"
      BY <1>2, <2>1 DEF Phase
    <3> QED
      BY <1>0, <3>1, MoveOne DEF Promise!Withhold
  <2>2. CASE sent[s] = 1
    <3>1. Phase(s) = "submitted" /\ Phase(s)' = "answered"
      BY <1>2, <2>2 DEF Phase
    <3> QED
      BY <1>0, <3>1, MoveOne DEF Promise!Answer
  <2> QED
    BY <2>0, <2>1, <2>2
<1> QED
  BY <1>1, <1>2

(* One reconciliation closes a set of answered signals.                      *)
LEMMA DealsClose ==
  ASSUME IInv, NEW w \in Workers, PersistDeals(w)
  PROVE  \E S \in SUBSET Signals : Promise!Close(S)
<1> DEFINE S == {s \in Signals : record'[s].status # record[s].status}
<1>1. \A s \in S : /\ record'[s].status = "CLOSED"
                  /\ sent[s] = 1
                  /\ record[s].status \in {"REJECTED", "ACKNOWLEDGED", "CLOSED"}
  BY DEF PersistDeals, Reconciled, Closing, IInv, TypeOK, TicketsAreAnswers
<1>2. \A s \in S : Phase(s) = "answered" /\ Phase(s)' = "closed"
  BY <1>1 DEF Phase
<1>3. \A s \in Signals \ S : Phase(s)' = Phase(s)
  BY PhaseKept DEF PersistDeals
<1>4. Promise!Close(S)
  BY <1>2, <1>3 DEF Promise!Close
<1> QED
  BY <1>4

(* The Demo execution path, for every number of Live processes, implements   *)
(* the promise of SignalOrder for every signal.                              *)
THEOREM Implementation == Spec => ImplementsPromise
<1> DEFINE mapped == [s \in Signals |-> Phase(s)]
<1>1. Init => Promise!Init
  BY DEF Init, NoRow, Promise!Init, Phase
<1>2. IInv /\ [Next]_vars => [Promise!Next]_mapped
  <2> SUFFICES ASSUME IInv, [Next]_vars PROVE [Promise!Next]_mapped
    OBVIOUS
  <2>1. ASSUME record' = record, sent' = sent PROVE mapped' = mapped
    BY <2>1 DEF Phase
  <2>2. ASSUME NEW w \in Workers, Submit(w) PROVE Promise!Next
    <3>0. PICK s \in Signals : s = job[w]
      BY DEF IInv, TypeOK
    <3>1. record[s].status = "PENDING" /\ sent[s] = 0
      BY <2>2, <3>0 DEF Submit, IInv, TypeOK, Owned, Owning
    <3>2. record' = record /\ sent' = [sent EXCEPT ![s] = 1]
      BY <2>2, <3>0, <3>1 DEF Submit, IInv, TypeOK
    <3>3. Phase(s) = "claimed" /\ Phase(s)' = "submitted"
      BY <3>1, <3>2 DEF Phase, IInv, TypeOK
    <3>4. \A t \in Signals : t # s => Phase(t)' = Phase(t)
      BY <3>2, PhaseKept DEF IInv, TypeOK
    <3>5. Promise!Submit(s)
      BY <3>3, <3>4, MoveOne DEF Promise!Submit
    <3> QED
      BY <3>5 DEF Promise!Next
  <2>3. ASSUME NEW w \in Workers, PersistDeals(w) PROVE Promise!Next
    BY <2>3, DealsClose DEF Promise!Next
  <2>4. ASSUME NEW w \in Workers, record' # record,
               \/ PersistRejection(w) \/ PersistPending(w) \/ Recheck(w)
               \/ SubmitFails(w) \/ RecordBrokerResult(w)
        PROVE  Promise!Next \/ mapped' = mapped
    <3> DEFINE s == job[w]
    <3>1. s \in Signals
      BY DEF IInv, TypeOK
    <3>2. sent' = sent /\ \A t \in Signals : t # s => record'[t] = record[t]
      BY <2>4, <3>1 DEF PersistRejection, PersistPending, Recheck, SubmitFails,
         RecordBrokerResult, Settle, broker, IInv, TypeOK
    <3>3. CASE record'[s].status # record[s].status
      <4>1. Promise!Claim(s) \/ Promise!Withhold(s) \/ Promise!Answer(s)
        BY <2>4, <3>1, <3>2, <3>3, StepStatuses, WorkerMoves
      <4> QED
        BY <3>1, <4>1 DEF Promise!Next
    <3>4. CASE record'[s].status = record[s].status
      <4>1. \A t \in Signals : Phase(t)' = Phase(t)
        BY <3>2, <3>4, PhaseKept
      <4> QED
        BY <4>1
    <3> QED
      BY <3>3, <3>4
  <2>5. \/ record' = record /\ sent' = sent
        \/ \E w \in Workers : Submit(w) \/ PersistDeals(w)
        \/ \E w \in Workers : \/ PersistRejection(w) \/ PersistPending(w) \/ Recheck(w)
                             \/ SubmitFails(w) \/ RecordBrokerResult(w)
    BY DEF Next, vars, WorkerStep, Execute, Lookup, Preflight, Halt, Restart, broker, BrokerStep,
       BrokerFill, BrokerReduce, BrokerExit, BrokerRefuse, NewDeal, DemoOn, DemoOff
  <2>6. ASSUME NEW w \in Workers, record' = record,
               \/ PersistRejection(w) \/ PersistPending(w) \/ Recheck(w)
               \/ SubmitFails(w) \/ RecordBrokerResult(w)
        PROVE  sent' = sent
    BY <2>6 DEF PersistRejection, PersistPending, Recheck, SubmitFails, RecordBrokerResult, broker
  <2> QED
    BY <2>1, <2>2, <2>3, <2>4, <2>5, <2>6
<1> QED
  BY <1>1, <1>2, Invariance, PTL DEF Spec, ImplementsPromise, Promise!Spec

(* Rows and reports are true and final, for any signals and any number of    *)
(* Live processes.                                                           *)
THEOREM RowsAreTrueAlways == Spec => RowsAreTrue
  BY TypeCorrect, ClosedIsProvedHolds, ReportsAgreeHolds, OutcomesAreFinal, PTL DEF RowsAreTrue

-------------------------------------------------------------------------------
(* The decision worker that runs beside the execution worker in Live, for    *)
(* any market, capacities and bounds: shadow_service.py.                     *)
CONSTANTS Contexts, Market, Capacity, PageSize, Batch, Horizon, OutcomeLimit,
          MaxSnapshot, MaxTrouble

VARIABLES closed, stored, held, shot, inbox, mem, pc, page, decided, outcome, trouble,
          accepted, readAs

Sh == INSTANCE Shadow

(* What the memory m of the worker has put into its queue waits there.       *)
Sound(m) == m \in Sh!Memories /\ Len(m.queue) <= Capacity /\ m.queued \subseteq Sh!Keys(m.queue)
Waits(m) == Sh!Keys(m.queue) \cup Sh!Keys(m.pending) \cup {m.current.key}

(* The candle whose publication awaits has its decision.                     *)
CurrentIsDecided ==
  /\ mem.current.key \in Sh!Decided \cup {0}
  /\ pc = "publish" => mem.current.key \in Sh!Decided

(* While a page is read nothing else waits to be queued.                     *)
NothingPends == pc \in {"load", "filter", "exist", "merge"} => mem.pending = <<>>

(* A snapshot is taken when some candle is stored.                         *)
SnapshotsShow == shot # <<>> => stored > 0

(* The page in hand are the snapshots behind the cursor; past the filter,    *)
(* those that it left out need not be decided any more.                      *)
PageIsBehind ==
  /\ mem.cursor <= Len(shot)
  /\ pc \in {"filter", "exist", "merge"} => mem.cursor + page.rows <= Len(shot)
  /\ pc = "filter" => page.rows = Len(page.items)
  /\ pc \in {"exist", "merge"} =>
       \A i \in 1..page.rows : readAs[mem.cursor + i] \in Sh!Tracked \cup Sh!Keys(page.items) \cup {0}
  /\ pc = "merge" => page.known \subseteq Sh!Decided

ShadowIInv ==
  /\ Sh!TypeOK /\ Sound(mem) /\ CurrentIsDecided /\ NothingPends /\ SnapshotsShow /\ PageIsBehind
  /\ Sh!AcceptedIsKept /\ Sh!NothingSkipped /\ Sh!CompletedIsDecided /\ Sh!OutcomeIsFirst

LEMMA Numbers ==
  ASSUME Sh!ShadowAssumption
  PROVE  /\ Capacity \in Nat /\ PageSize \in Nat /\ Batch \in Nat /\ Horizon \in Nat
         /\ MaxSnapshot \in Nat /\ MaxTrouble \in Nat /\ Sh!MaxCandle \in Nat
         /\ Capacity > 0 /\ PageSize > 0 /\ Batch > 0 /\ Horizon > 0
         /\ Sh!Candles \subseteq Nat \ {0}
         /\ \A c \in Sh!Candles : Market[c] \in {"quiet", "target", "stop", "both"}
  BY DEF Sh!ShadowAssumption, Sh!MaxCandle, Sh!Candles

LEMMA ItemIs ==
  ASSUME Sh!ShadowAssumption, NEW x \in Sh!Item
  PROVE  x.key \in Sh!Candles /\ x.shot \in 1..MaxSnapshot /\ x.key # 0 /\ x # Sh!NoItem
  BY Numbers DEF Sh!Item, Sh!NoItem

(* --------------------------- keys of a sequence -------------------------- *)

LEMMA KeysAppend ==
  ASSUME NEW q \in Seq(Sh!Item), NEW x \in Sh!Item
  PROVE  Append(q, x) \in Seq(Sh!Item) /\ Sh!Keys(Append(q, x)) = Sh!Keys(q) \cup {x.key}
         /\ Len(Append(q, x)) = Len(q) + 1
  <1>1. PICK r : r = Append(q, x)
    OBVIOUS
  <1>2. /\ r \in Seq(Sh!Item) /\ Len(r) = Len(q) + 1 /\ DOMAIN q = 1 .. Len(q)
           /\ DOMAIN r = 1 .. Len(q) + 1
        /\ Len(q) \in Nat /\ r[Len(q) + 1] = x /\ \A i \in DOMAIN q : r[i] = q[i]
    BY <1>1
  <1>3. Sh!Keys(r) \subseteq Sh!Keys(q) \cup {x.key}
    <2> SUFFICES ASSUME NEW i \in DOMAIN r
                 PROVE  r[i].key \in Sh!Keys(q) \cup {x.key}
      BY DEF Sh!Keys
    <2>1. i = Len(q) + 1 \/ i \in DOMAIN q
      BY <1>2
    <2> QED
      BY <1>2, <2>1 DEF Sh!Keys
  <1>4. Sh!Keys(q) \cup {x.key} \subseteq Sh!Keys(r)
    <2>1. Len(q) + 1 \in DOMAIN r /\ \A i \in DOMAIN q : i \in DOMAIN r
      BY <1>2
    <2> QED
      BY <1>2, <2>1 DEF Sh!Keys
  <1> QED
    BY <1>1, <1>2, <1>3, <1>4

LEMMA KeysConcat ==
  ASSUME NEW p \in Seq(Sh!Item), NEW q \in Seq(Sh!Item)
  PROVE  p \o q \in Seq(Sh!Item) /\ Sh!Keys(p \o q) = Sh!Keys(p) \cup Sh!Keys(q)
           /\ Len(p \o q) = Len(p) + Len(q)
  <1>1. PICK r : r = p \o q
    OBVIOUS
  <1>2. /\ r \in Seq(Sh!Item) /\ Len(r) = Len(p) + Len(q) /\ Len(p) \in Nat /\ Len(q) \in Nat
        /\ DOMAIN p = 1 .. Len(p) /\ DOMAIN q = 1 .. Len(q) /\ DOMAIN r = 1 .. Len(p) + Len(q)
        /\ \A i \in DOMAIN p : r[i] = p[i]
        /\ \A i \in DOMAIN q : r[Len(p) + i] = q[i]
    BY <1>1
  <1>3. Sh!Keys(r) \subseteq Sh!Keys(p) \cup Sh!Keys(q)
    <2> SUFFICES ASSUME NEW i \in DOMAIN r
                 PROVE  r[i].key \in Sh!Keys(p) \cup Sh!Keys(q)
      BY DEF Sh!Keys
    <2>1. CASE i \in DOMAIN p
      BY <1>2, <2>1 DEF Sh!Keys
    <2>2. CASE i \notin DOMAIN p
      <3>1. PICK j : j = i - Len(p)
        OBVIOUS
      <3>2. j \in DOMAIN q /\ i = Len(p) + j
        BY <1>2, <2>2, <3>1
      <3>3. r[i] = q[j]
        BY <1>2, <3>2
      <3> QED
        BY <3>2, <3>3 DEF Sh!Keys
    <2> QED
      BY <2>1, <2>2
  <1>4. Sh!Keys(p) \cup Sh!Keys(q) \subseteq Sh!Keys(r)
    <2>1. (\A i \in DOMAIN p : i \in DOMAIN r) /\ \A i \in DOMAIN q : Len(p) + i \in DOMAIN r
      BY <1>2
    <2> QED
      BY <1>2, <2>1 DEF Sh!Keys
  <1> QED
    BY <1>1, <1>2, <1>3, <1>4

LEMMA KeysTail ==
  ASSUME NEW q \in Seq(Sh!Item), q # <<>>
  PROVE  /\ Head(q) \in Sh!Item /\ Tail(q) \in Seq(Sh!Item) /\ Len(Tail(q)) = Len(q) - 1
         /\ Sh!Keys(q) = {Head(q).key} \cup Sh!Keys(Tail(q))
  <1>1. PICK r, x : r = Tail(q) /\ x = Head(q)
    OBVIOUS
  <1>2. /\ r \in Seq(Sh!Item) /\ x \in Sh!Item /\ Len(q) \in Nat /\ Len(q) > 0
           /\ Len(r) = Len(q) - 1
        /\ DOMAIN q = 1 .. Len(q) /\ DOMAIN r = 1 .. Len(q) - 1 /\ x = q[1]
        /\ \A i \in DOMAIN r : r[i] = q[i + 1]
    BY <1>1
  <1>3. Sh!Keys(q) \subseteq {x.key} \cup Sh!Keys(r)
    <2> SUFFICES ASSUME NEW i \in DOMAIN q
                 PROVE  q[i].key \in {x.key} \cup Sh!Keys(r)
      BY DEF Sh!Keys
    <2>1. i = 1 \/ (i - 1 \in DOMAIN r /\ (i - 1) + 1 = i)
      BY <1>2
    <2> QED
      BY <1>2, <2>1 DEF Sh!Keys
  <1>4. {x.key} \cup Sh!Keys(r) \subseteq Sh!Keys(q)
    <2>1. 1 \in DOMAIN q /\ \A i \in DOMAIN r : i + 1 \in DOMAIN q
      BY <1>2
    <2> QED
      BY <1>2, <2>1 DEF Sh!Keys
  <1> QED
    BY <1>1, <1>2, <1>3, <1>4

(* A sequence is its first n and the others.                                 *)
LEMMA KeysSplit ==
  ASSUME NEW q \in Seq(Sh!Item), NEW n \in 0..Len(q)
  PROVE  /\ SubSeq(q, 1, n) \in Seq(Sh!Item) /\ Len(SubSeq(q, 1, n)) = n
         /\ SubSeq(q, n + 1, Len(q)) \in Seq(Sh!Item)
         /\ Sh!Keys(q) = Sh!Keys(SubSeq(q, 1, n)) \cup Sh!Keys(SubSeq(q, n + 1, Len(q)))
  <1>1. PICK p, r : p = SubSeq(q, 1, n) /\ r = SubSeq(q, n + 1, Len(q))
    OBVIOUS
  <1>2. /\ Len(q) \in Nat /\ n \in Nat /\ n <= Len(q) /\ DOMAIN q = 1 .. Len(q)
        /\ \A i \in DOMAIN q : q[i] \in Sh!Item
    OBVIOUS
  <1>3. p = [i \in 1 .. n |-> q[i]] /\ r = [i \in 1 .. (Len(q) - n) |-> q[n + i]]
    BY <1>1, <1>2
  <1>4. p \in Seq(Sh!Item) /\ Len(p) = n /\ DOMAIN p = 1 .. n
    BY <1>2, <1>3
  <1>5. r \in Seq(Sh!Item) /\ DOMAIN r = 1 .. (Len(q) - n)
    BY <1>2, <1>3
  <1>6. Sh!Keys(q) \subseteq Sh!Keys(p) \cup Sh!Keys(r)
    <2> SUFFICES ASSUME NEW i \in DOMAIN q
                 PROVE  q[i].key \in Sh!Keys(p) \cup Sh!Keys(r)
      BY DEF Sh!Keys
    <2>1. CASE i \in 1 .. n
      BY <1>3, <1>4, <2>1 DEF Sh!Keys
    <2>2. CASE i \notin 1 .. n
      <3>1. PICK j : j = i - n
        OBVIOUS
      <3>2. j \in 1 .. (Len(q) - n) /\ i = n + j
        BY <1>2, <2>2, <3>1
      <3>3. r[j] = q[i] /\ j \in DOMAIN r
        BY <1>3, <1>5, <3>2
      <3> QED
        BY <3>3 DEF Sh!Keys
    <2> QED
      BY <2>1, <2>2
  <1>7. Sh!Keys(p) \cup Sh!Keys(r) \subseteq Sh!Keys(q)
    <2>1. (\A i \in DOMAIN p : i \in DOMAIN q /\ p[i] = q[i])
          /\ \A i \in DOMAIN r : n + i \in DOMAIN q /\ r[i] = q[n + i]
      BY <1>2, <1>3, <1>4, <1>5
    <2> QED
      BY <2>1 DEF Sh!Keys
  <1> QED
    BY <1>1, <1>4, <1>5, <1>6, <1>7

(* ------------------------- memory and its queue -------------------------- *)

LEMMA FreshIsSound ==
  ASSUME Sh!ShadowAssumption
  PROVE  Sound(Sh!Fresh) /\ Sh!NoPage \in Sh!Pages /\ Waits(Sh!Fresh) = {0}
           /\ Sh!Fresh.pending = <<>>
                             /\ Sh!Fresh.completed = {} /\ Sh!Fresh.cursor = 0
                                /\ Sh!Fresh.current = Sh!NoItem
  <1>1. TRUE \in BOOLEAN /\ FALSE \in BOOLEAN
    BY Zenon
  <1>2. /\ <<>> \in Seq(Sh!Item) /\ Sh!Keys(<<>>) = {} /\ Len(<<>>) = 0
        /\ {} \in SUBSET Sh!Candles /\ 0 \in 0..MaxSnapshot /\ 0 \in 0..PageSize
    BY Numbers DEF Sh!Keys
  <1>3. Sh!Fresh \in Sh!Memories /\ Sh!NoPage \in Sh!Pages
    BY <1>1, <1>2 DEF Sh!Fresh, Sh!NoPage, Sh!Memories, Sh!Pages
  <1>4. Sh!Fresh.queue = <<>> /\ Sh!Fresh.queued = {} /\ Sh!Fresh.pending = <<>>
           /\ Sh!Fresh.completed = {}
        /\ Sh!Fresh.cursor = 0 /\ Sh!Fresh.current = Sh!NoItem /\ Sh!Fresh.current.key = 0
    BY DEF Sh!Fresh, Sh!NoItem
  <1> QED
    BY <1>2, <1>3, <1>4, Numbers DEF Sound, Waits

(* The number of items that a batch moves.                                   *)
LEMMA BatchFits ==
  ASSUME Sh!ShadowAssumption,
         NEW a \in Nat, NEW b \in Nat, b <= Capacity,
         NEW n, n = Sh!Least(Batch, Sh!Least(a, Capacity - b))
  PROVE  n \in 0..a /\ n \in Nat /\ n <= Capacity - b
  BY Numbers DEF Sh!Least

(* A batch moves from what is pending into the queue; nothing is lost.       *)
LEMMA EnqueueMoves ==
  ASSUME Sh!ShadowAssumption, NEW m, Sound(m)
  PROVE  /\ Sound(Sh!Enqueue(m)) /\ Waits(Sh!Enqueue(m)) = Waits(m)
         /\ Sh!Enqueue(m).completed = m.completed /\ Sh!Enqueue(m).cursor = m.cursor
         /\ Sh!Enqueue(m).current = m.current
  <1>1. m \in Sh!Memories /\ Len(m.queue) <= Capacity /\ m.queued \subseteq Sh!Keys(m.queue)
    BY DEF Sound
  <1>2. /\ m.queue \in Seq(Sh!Item) /\ m.pending \in Seq(Sh!Item) /\ m.queued \in SUBSET Sh!Candles
        /\ m.deferred \in SUBSET Sh!Candles
    BY <1>1 DEF Sh!Memories
  <1>3. PICK n : n = Sh!Least(Batch, Sh!Least(Len(m.pending), Capacity - Len(m.queue)))
    OBVIOUS
  <1>4. n \in 0 .. Len(m.pending) /\ n <= Capacity - Len(m.queue) /\ Len(m.queue) \in Nat
    <2>1. PICK a, b : a = Len(m.pending) /\ b = Len(m.queue)
      OBVIOUS
    <2>2. a \in Nat /\ b \in Nat /\ b <= Capacity /\ n = Sh!Least(Batch, Sh!Least(a, Capacity - b))
      BY <1>1, <1>2, <1>3, <2>1
    <2> QED
      BY <2>1, <2>2, BatchFits
  <1>5. PICK moved, rest : moved = SubSeq(m.pending, 1, n)
           /\ rest = SubSeq(m.pending, n + 1, Len(m.pending))
    OBVIOUS
  <1>6. /\ moved \in Seq(Sh!Item) /\ Len(moved) = n /\ rest \in Seq(Sh!Item)
        /\ Sh!Keys(m.pending) = Sh!Keys(moved) \cup Sh!Keys(rest)
    BY <1>2, <1>4, <1>5, KeysSplit
  <1>7. /\ m.queue \o moved \in Seq(Sh!Item)
           /\ Sh!Keys(m.queue \o moved) = Sh!Keys(m.queue) \cup Sh!Keys(moved)
        /\ Len(m.queue \o moved) = Len(m.queue) + n
    BY <1>2, <1>6, KeysConcat
  <1>8. PICK b \in BOOLEAN : b <=> (rest # <<>> \/ m.more)
    BY Zenon
  <1>9. Sh!Keys(moved) \subseteq Sh!Candles
    BY <1>6, ItemIs DEF Sh!Keys
  <1>10. Sh!Enqueue(m) = [m EXCEPT !.queue = m.queue \o moved, !.queued = m.queued \cup Sh!Keys(moved),
                                !.deferred = m.deferred \ Sh!Keys(moved), !.pending = rest, !.needs = b]
    BY <1>3, <1>5, <1>8 DEF Sh!Enqueue
  <1>11. PICK e : e = Sh!Enqueue(m)
    OBVIOUS
  <1>12. /\ e \in Sh!Memories /\ e.queue = m.queue \o moved
            /\ e.queued = m.queued \cup Sh!Keys(moved)
         /\ e.pending = rest /\ e.completed = m.completed /\ e.cursor = m.cursor
            /\ e.current = m.current
    <2>1. PICK q, a, d : q = m.queue \o moved /\ a = m.queued \cup Sh!Keys(moved)
             /\ d = m.deferred \ Sh!Keys(moved)
      OBVIOUS
    <2>2. q \in Seq(Sh!Item) /\ a \in SUBSET Sh!Candles /\ d \in SUBSET Sh!Candles
      BY <1>2, <1>7, <1>9, <2>1
    <2>3. e = [m EXCEPT !.queue = q, !.queued = a, !.deferred = d, !.pending = rest, !.needs = b]
      BY <1>10, <1>11, <2>1
    <2>4. e \in Sh!Memories
      BY <1>1, <1>6, <1>8, <2>2, <2>3 DEF Sh!Memories
    <2> QED
      BY <1>1, <2>1, <2>3, <2>4 DEF Sh!Memories
  <1>13. Sound(e)
    <2>1. Len(e.queue) <= Capacity
      BY <1>4, <1>7, <1>12, Numbers
    <2>2. e.queued \subseteq Sh!Keys(e.queue)
      BY <1>1, <1>7, <1>12
    <2> QED
      BY <1>12, <2>1, <2>2 DEF Sound
  <1>14. Waits(e) = Waits(m)
    BY <1>6, <1>7, <1>12 DEF Waits
  <1> QED
    BY <1>11, <1>12, <1>13, <1>14

(* The worker takes up the memory m and goes on with its catch-up.           *)
LEMMA CatchUpMoves ==
  ASSUME Sh!ShadowAssumption, NEW m, Sound(m), Sh!CatchUp(m)
  PROVE  /\ Sound(mem') /\ Waits(mem') = Waits(m) /\ mem'.completed = m.completed
         /\ mem'.cursor = m.cursor /\ mem'.current = m.current
         /\ pc' \in {"load", "get"} /\ (pc' = "load" => mem'.pending = <<>>)
         /\ accepted' = accepted \cup mem'.queued /\ page' = Sh!NoPage
  <1>1. /\ pc' = IF m.needs /\ Len(m.queue) < Capacity /\ m.pending = <<>> THEN "load" ELSE "get"
        /\ mem' = IF m.needs /\ Len(m.queue) < Capacity
           /\ m.pending # <<>> THEN Sh!Enqueue(m) ELSE m
        /\ accepted' = accepted \cup mem'.queued
        /\ page' = Sh!NoPage
    BY DEF Sh!CatchUp
  <1>2. pc' \in {"load", "get"} /\ (pc' = "load" => m.needs /\ Len(m.queue) < Capacity
           /\ m.pending = <<>>)
    BY <1>1
  <1>3. pc' = "load" => mem' = m
    BY <1>1, <1>2
  <1>4. mem' = m \/ mem' = Sh!Enqueue(m)
    BY <1>1
  <1>5. /\ Sound(mem') /\ Waits(mem') = Waits(m) /\ mem'.completed = m.completed
        /\ mem'.cursor = m.cursor /\ mem'.current = m.current
    BY <1>4, EnqueueMoves
  <1> QED
    BY <1>1, <1>2, <1>3, <1>5

(* ------------------------- what the steps leave alone -------------------- *)

(* The places of the worker, and the rows of the two tables.                 *)
Places == {"start", "get", "load", "filter", "exist", "merge", "publish"}
Decisions == [Sh!Candles -> [shot : 0..MaxSnapshot, side : Sh!Sides \cup {"none", "NO_TRADE"}]]
Outcomes == [Sh!Candles -> Sh!Terminal \cup {"none", Sh!Pending}]

(* A decision stays what it is.                                              *)
Kept == \A k \in Sh!Decided : decided'[k] = decided[k]

LEMMA DecidedGrows ==
  ASSUME Kept
  PROVE  Sh!Decided \subseteq Sh!Decided'
  BY DEF Kept, Sh!Decided

LEMMA OutcomesStay ==
  ASSUME Sh!ShadowAssumption,
         ShadowIInv, UNCHANGED outcome, closed <= closed', closed' \in Nat
  PROVE  Sh!OutcomeIsFirst'
  <1>1. closed \in Nat /\ \A k \in Sh!Candles : k \in Nat
    BY Numbers DEF ShadowIInv, Sh!TypeOK
  <1>2. ASSUME NEW k \in Sh!Candles, NEW c \in Sh!Candles, Sh!Settles(k, c)
        PROVE  Sh!Settles(k, c)'
    BY <1>1, <1>2 DEF Sh!Settles
  <1>3. ASSUME NEW k \in Sh!Candles, NEW c \in Sh!Candles, k + Horizon <= closed, Sh!Settles(k, c)'
        PROVE  Sh!Settles(k, c)
    BY <1>1, <1>3, Numbers DEF Sh!Settles
  <1>4. \A k \in Sh!Candles : k + Horizon <= closed => k + Horizon <= closed'
    BY <1>1, Numbers
  <1>5. ASSUME NEW k \in Sh!Candles, outcome'[k] = "EXPIRED"
        PROVE  k + Horizon <= closed' /\ \A c \in Sh!Candles : ~Sh!Settles(k, c)'
    BY <1>3, <1>4, <1>5 DEF ShadowIInv, Sh!OutcomeIsFirst
  <1>6. ASSUME NEW k \in Sh!Candles, outcome'[k] \in Sh!Terminal \ {"EXPIRED"}
        PROVE  \E c \in Sh!Candles : Sh!Settles(k, c)'
                 /\ outcome'[k] = Sh!Verdict(decided'[k].side, Market[c])
    BY <1>2, <1>6 DEF ShadowIInv, Sh!OutcomeIsFirst, Sh!Verdict
  <1> QED
    BY <1>5, <1>6 DEF Sh!OutcomeIsFirst, Sh!Settles

(* A step of the decision worker: what it has accepted, passed or completed  *)
(* is decided or waits.                                                      *)
LEMMA DecisionWorkerMoves ==
  ASSUME Sh!ShadowAssumption,
         ShadowIInv, UNCHANGED <<Sh!market, shot, inbox, outcome>>, decided' \in Decisions, Kept,
         Sound(mem'), CurrentIsDecided', mem'.completed \subseteq Sh!Decided',
         pc' \in Places, page' \in Sh!Pages, NothingPends', PageIsBehind',
         accepted' \subseteq Sh!Candles, Sh!AcceptedIsKept', Sh!NothingSkipped',
         readAs' \in [1..MaxSnapshot -> 0..Sh!MaxCandle], trouble' \in 0..MaxTrouble
  PROVE  ShadowIInv'
  <1>1. Sh!OutcomeIsFirst'
    BY OutcomesStay DEF Sh!market, ShadowIInv, Sh!TypeOK
  <1>2. SnapshotsShow' /\ Sh!CompletedIsDecided'
    BY DEF ShadowIInv, SnapshotsShow, Sh!CompletedIsDecided, Sh!market
  <1>3. /\ closed' \in 0..Sh!MaxCandle /\ stored' \in 0..closed' /\ held' \in 0..stored'
        /\ shot' \in Seq(Sh!Candles) /\ Len(shot') <= MaxSnapshot
           /\ inbox' \in Sh!Item \cup {Sh!NoItem}
        /\ outcome' \in Outcomes
    BY DEF ShadowIInv, Sh!TypeOK, Sh!market, Outcomes
  <1>4. Sh!TypeOK'
    BY <1>3 DEF Sh!TypeOK, Sound, Places, Decisions, Outcomes
  <1> QED
    BY <1>1, <1>2, <1>4 DEF ShadowIInv, Sound

(* Where nothing is taken out of memory or database, all that was kept is.   *)
LEMMA StaysTracked ==
  ASSUME ShadowIInv, Kept, Waits(mem) \subseteq Waits(mem') \cup Sh!Decided' \cup {0}
  PROVE  Sh!Tracked \subseteq Sh!Tracked' \cup {0}
  BY DecidedGrows DEF Sh!Tracked, Waits

LEMMA AcceptedStays ==
  ASSUME Sh!ShadowAssumption,
         ShadowIInv, Kept, Sound(mem'), Waits(mem) \subseteq Waits(mem') \cup Sh!Decided' \cup {0},
         accepted' \subseteq accepted \cup mem'.queued
  PROVE  Sh!AcceptedIsKept' /\ accepted' \subseteq Sh!Candles
  <1>1. Sh!Tracked \subseteq Sh!Tracked' \cup {0}
    BY StaysTracked
  <1>2. mem'.queued \subseteq Sh!Keys(mem'.queue) /\ mem'.queued \subseteq Sh!Candles
    BY DEF Sound, Sh!Memories
  <1>3. Sh!Keys(mem'.queue) \subseteq Sh!Tracked'
    BY DEF Sh!Tracked
  <1>4. accepted \subseteq Sh!Tracked /\ accepted \subseteq Sh!Candles /\ 0 \notin Sh!Candles
    BY Numbers DEF ShadowIInv, Sh!AcceptedIsKept, Sh!TypeOK
  <1> QED
    BY <1>1, <1>2, <1>3, <1>4 DEF Sh!AcceptedIsKept

LEMMA SkippedStays ==
  ASSUME ShadowIInv, Kept, Waits(mem) \subseteq Waits(mem') \cup Sh!Decided' \cup {0},
         mem'.cursor = mem.cursor, UNCHANGED readAs
  PROVE  Sh!NothingSkipped'
  <1>1. Sh!Tracked \subseteq Sh!Tracked' \cup {0}
    BY StaysTracked
  <1>2. \A i \in 1..mem.cursor : readAs[i] \in Sh!Tracked \cup {0}
    BY DEF ShadowIInv, Sh!NothingSkipped
  <1> QED
    BY <1>1, <1>2 DEF Sh!NothingSkipped

(* ------------------------- the decision worker --------------------------- *)

(* The next round of the worker begins with its catch-up.                    *)
LEMMA CatchUpKeeps ==
  ASSUME Sh!ShadowAssumption,
         ShadowIInv, NEW m, Sound(m), Sh!CatchUp(m), Kept, decided' \in Decisions,
         Waits(mem) \subseteq Waits(m) \cup Sh!Decided' \cup {0}, m.completed \subseteq Sh!Decided',
         m.current.key \in Sh!Decided' \cup {0}, m.cursor = mem.cursor,
         UNCHANGED <<Sh!market, shot, inbox, outcome, readAs>>, trouble' \in 0..MaxTrouble
  PROVE  ShadowIInv'
  <1>1. /\ Sound(mem') /\ Waits(mem') = Waits(m) /\ mem'.completed = m.completed
        /\ mem'.cursor = m.cursor /\ mem'.current = m.current
        /\ pc' \in {"load", "get"} /\ (pc' = "load" => mem'.pending = <<>>)
        /\ accepted' = accepted \cup mem'.queued /\ page' = Sh!NoPage
    BY CatchUpMoves
  <1>2. /\ Sh!AcceptedIsKept' /\ accepted' \subseteq Sh!Candles /\ Sh!NothingSkipped'
    BY <1>1, AcceptedStays, SkippedStays
  <1>3. NothingPends' /\ CurrentIsDecided'
    BY <1>1 DEF NothingPends, CurrentIsDecided
  <1>4. PageIsBehind'
    BY <1>1 DEF ShadowIInv, PageIsBehind
  <1>5. pc' \in Places /\ page' \in Sh!Pages
    BY <1>1, FreshIsSound DEF Places
  <1>6. readAs' \in [1..MaxSnapshot -> 0..Sh!MaxCandle]
    BY DEF ShadowIInv, Sh!TypeOK
  <1> QED
    BY <1>1, <1>2, <1>3, <1>4, <1>5, <1>6, DecisionWorkerMoves

LEMMA DecidedStays ==
  ASSUME ShadowIInv, UNCHANGED decided
  PROVE  Kept /\ decided' \in Decisions /\ Sh!Decided' = Sh!Decided
  BY DEF ShadowIInv, Sh!TypeOK, Kept, Decisions, Sh!Decided

LEMMA StartKeeps ==
  ASSUME Sh!ShadowAssumption, ShadowIInv, Sh!Start \/ Sh!Timeout
  PROVE  ShadowIInv'
  <1>1. /\ Sh!CatchUp(mem)
           /\ UNCHANGED <<Sh!market, shot, inbox, decided, outcome, trouble, readAs>>
    BY DEF Sh!Start, Sh!Timeout
  <1>2. Kept /\ decided' \in Decisions /\ Sh!Decided' = Sh!Decided
    BY <1>1, DecidedStays
  <1>3. Sound(mem) /\ mem.completed \subseteq Sh!Decided /\ mem.current.key \in Sh!Decided \cup {0}
    BY DEF ShadowIInv, Sh!CompletedIsDecided, CurrentIsDecided
  <1>4. trouble' \in 0..MaxTrouble
    BY <1>1 DEF ShadowIInv, Sh!TypeOK
  <1> QED
    BY <1>1, <1>2, <1>3, <1>4, CatchUpKeeps

(* The candle at hand has been decided.                                      *)
LEMMA CompletesKeeps ==
  ASSUME Sh!ShadowAssumption, ShadowIInv, Sh!Completes
  PROVE  ShadowIInv'
  <1>1. PICK m : m = [mem EXCEPT !.completed = mem.completed \cup {mem.current.key}, !.current = Sh!NoItem,
                                 !.deferred = mem.deferred \ {mem.current.key}]
    OBVIOUS
  <1>2. /\ pc = "publish" /\ Sh!CatchUp(m)
        /\ UNCHANGED <<Sh!market, shot, inbox, decided, outcome, trouble, readAs>>
    BY <1>1 DEF Sh!Completes
  <1>3. Kept /\ decided' \in Decisions /\ Sh!Decided' = Sh!Decided
    BY <1>2, DecidedStays
  <1>4. mem \in Sh!Memories /\ Sound(mem) /\ mem.completed \subseteq Sh!Decided
    BY DEF ShadowIInv, Sh!CompletedIsDecided, Sound
  <1>5. mem.current.key \in Sh!Decided /\ Sh!Decided \subseteq Sh!Candles
    BY <1>2 DEF ShadowIInv, CurrentIsDecided, Sh!Decided
  <1>6. /\ m \in Sh!Memories /\ m.queue = mem.queue /\ m.queued = mem.queued
           /\ m.pending = mem.pending
        /\ m.completed = mem.completed \cup {mem.current.key} /\ m.cursor = mem.cursor
           /\ m.current = Sh!NoItem
    BY <1>1, <1>4, <1>5 DEF Sh!Memories
  <1>7. Sound(m)
    BY <1>4, <1>6 DEF Sound
  <1>8. Waits(mem) \subseteq Waits(m) \cup Sh!Decided' \cup {0}
    BY <1>3, <1>5, <1>6 DEF Waits
  <1>9. m.completed \subseteq Sh!Decided' /\ m.current.key \in Sh!Decided' \cup {0}
    BY <1>3, <1>4, <1>5, <1>6 DEF Sh!NoItem
  <1>10. trouble' \in 0..MaxTrouble
    BY <1>2 DEF ShadowIInv, Sh!TypeOK
  <1> QED
    BY <1>2, <1>3, <1>6, <1>7, <1>8, <1>9, <1>10, CatchUpKeeps

(* The worker has a decision in the table, and waits for its publication.    *)
LEMMA PersistKeeps ==
  ASSUME Sh!ShadowAssumption,
         ShadowIInv, NEW x \in Sh!Item, NEW c \in Contexts, Sh!Persist(x.key, [shot |-> x.shot,
            side |-> Sh!Evaluate(c)])
  PROVE  Kept /\ decided' \in Decisions /\ x.key \in Sh!Decided'
  <1>1. PICK row : row = [shot |-> x.shot, side |-> Sh!Evaluate(c)]
    OBVIOUS
  <1>2. Sh!Evaluate(c) \in Sh!Sides \cup {"NO_TRADE"}
    BY DEF Sh!Evaluate, Sh!Direction
  <1>3. x.key \in Sh!Candles /\ x.shot \in 1..MaxSnapshot
    BY ItemIs
  <1>4. /\ row \in [shot : 0..MaxSnapshot, side : Sh!Sides \cup {"none", "NO_TRADE"}]
        /\ row # Sh!NoDecision
    BY <1>1, <1>2, <1>3, Numbers DEF Sh!NoDecision
  <1>5. decided \in Decisions
    BY DEF ShadowIInv, Sh!TypeOK, Decisions
  <1>6. decided' = IF decided[x.key] = Sh!NoDecision THEN [decided EXCEPT ![x.key] = row] ELSE decided
    BY <1>1 DEF Sh!Persist
  <1>7. decided' \in Decisions
    BY <1>3, <1>4, <1>5, <1>6 DEF Decisions
  <1>8. Kept
    BY <1>3, <1>5, <1>6 DEF Kept, Sh!Decided, Decisions
  <1>9. x.key \in Sh!Decided'
    BY <1>3, <1>4, <1>5, <1>6 DEF Sh!Decided, Decisions
  <1> QED
    BY <1>7, <1>8, <1>9

LEMMA TakenIs ==
  ASSUME Sh!ShadowAssumption, ShadowIInv, mem.queue # <<>>
  PROVE  /\ Head(mem.queue) \in Sh!Item /\ Sound(Sh!Taken)
         /\ Sh!Taken.pending = mem.pending /\ Sh!Taken.completed = mem.completed
            /\ Sh!Taken.cursor = mem.cursor
         /\ Sh!Taken.current = mem.current
         /\ Sh!Keys(mem.queue) = Sh!Keys(Sh!Taken.queue) \cup {Head(mem.queue).key}
  <1>1. mem \in Sh!Memories /\ Len(mem.queue) <= Capacity /\ mem.queued \subseteq Sh!Keys(mem.queue)
    BY DEF ShadowIInv, Sound
  <1>2. PICK q, x : q = mem.queue /\ x = Head(q)
    OBVIOUS
  <1>3. q \in Seq(Sh!Item) /\ mem.queued \in SUBSET Sh!Candles
    BY <1>1, <1>2 DEF Sh!Memories
  <1>4. /\ x \in Sh!Item /\ Tail(q) \in Seq(Sh!Item) /\ Len(Tail(q)) = Len(q) - 1 /\ Len(q) \in Nat
        /\ Sh!Keys(q) = {x.key} \cup Sh!Keys(Tail(q))
    BY <1>2, <1>3, KeysTail
  <1>5. PICK m : m = Sh!Taken
    OBVIOUS
  <1>6. m = [mem EXCEPT !.queue = Tail(q), !.queued = mem.queued \ {x.key}]
    BY <1>2, <1>5 DEF Sh!Taken
  <1>7. /\ m \in Sh!Memories /\ m.queue = Tail(q) /\ m.queued = mem.queued \ {x.key}
        /\ m.pending = mem.pending /\ m.completed = mem.completed /\ m.cursor = mem.cursor
        /\ m.current = mem.current
    BY <1>1, <1>3, <1>4, <1>6 DEF Sh!Memories
  <1>8. Len(m.queue) <= Capacity
    BY <1>1, <1>2, <1>4, <1>7, Numbers
  <1>9. m.queued \subseteq Sh!Keys(m.queue)
    BY <1>1, <1>2, <1>4, <1>7
  <1> QED
    BY <1>2, <1>4, <1>5, <1>7, <1>8, <1>9 DEF Sound

LEMMA ProcessKeeps ==
  ASSUME Sh!ShadowAssumption, ShadowIInv, Sh!Process
  PROVE  ShadowIInv'
  <1>0. PICK x : x = Head(mem.queue)
    OBVIOUS
  <1>1. PICK c \in Contexts : /\ Sh!Persist(x.key, [shot |-> x.shot, side |-> Sh!Evaluate(c)])
                              /\ mem' = [Sh!Taken EXCEPT !.current = x]
    BY <1>0 DEF Sh!Process
  <1>2. /\ pc = "get" /\ mem.queue # <<>> /\ pc' = "publish"
        /\ UNCHANGED <<Sh!market, shot, inbox, page, outcome, trouble, accepted, readAs>>
    BY DEF Sh!Process, Sh!history
  <1>3. /\ x \in Sh!Item /\ Sound(Sh!Taken)
        /\ Sh!Taken.pending = mem.pending /\ Sh!Taken.completed = mem.completed
           /\ Sh!Taken.cursor = mem.cursor
        /\ Sh!Keys(mem.queue) = Sh!Keys(Sh!Taken.queue) \cup {x.key}
    BY <1>0, <1>2, TakenIs
  <1>4. Kept /\ decided' \in Decisions /\ x.key \in Sh!Decided' /\ Sh!Decided \subseteq Sh!Decided'
    BY <1>1, <1>3, PersistKeeps, DecidedGrows
  <1>5. /\ mem' \in Sh!Memories /\ mem'.queue = Sh!Taken.queue /\ mem'.queued = Sh!Taken.queued
        /\ mem'.pending = mem.pending /\ mem'.completed = mem.completed /\ mem'.cursor = mem.cursor
        /\ mem'.current = x
    BY <1>1, <1>3 DEF Sound, Sh!Memories
  <1>6. Sound(mem')
    BY <1>3, <1>5 DEF Sound
  <1>7. mem.current.key \in Sh!Decided \cup {0} /\ mem.completed \subseteq Sh!Decided
    BY DEF ShadowIInv, CurrentIsDecided, Sh!CompletedIsDecided
  <1>8. Waits(mem) \subseteq Waits(mem') \cup Sh!Decided' \cup {0}
    BY <1>3, <1>4, <1>5, <1>7 DEF Waits
  <1>9. /\ Sh!AcceptedIsKept' /\ accepted' \subseteq Sh!Candles /\ Sh!NothingSkipped'
    <2>1. accepted' \subseteq accepted \cup mem'.queued
      BY <1>2
    <2> QED
      BY <1>2, <1>4, <1>5, <1>6, <1>8, <2>1, AcceptedStays, SkippedStays
  <1>10. NothingPends' /\ CurrentIsDecided' /\ pc' \in Places
    BY <1>2, <1>4, <1>5 DEF NothingPends, CurrentIsDecided, Places
  <1>11. PageIsBehind'
    BY <1>2, <1>5 DEF ShadowIInv, PageIsBehind
  <1>12. mem'.completed \subseteq Sh!Decided'
    BY <1>4, <1>5, <1>7
  <1>13. /\ page' \in Sh!Pages /\ readAs' \in [1..MaxSnapshot -> 0..Sh!MaxCandle]
            /\ trouble' \in 0..MaxTrouble
    BY <1>2 DEF ShadowIInv, Sh!TypeOK
  <1> QED
    BY <1>2, <1>4, <1>6, <1>9, <1>10, <1>11, <1>12, <1>13, DecisionWorkerMoves

(* The snapshot that failed is kept for a later batch.                       *)
LEMMA ProcessFailsKeeps ==
  ASSUME Sh!ShadowAssumption, ShadowIInv, Sh!ProcessFails
  PROVE  ShadowIInv'
  <1>1. PICK x, m : /\ x = Head(mem.queue)
                    /\ m = [Sh!Taken EXCEPT !.pending = Sh!Keep(x), !.needs = TRUE]
    OBVIOUS
  <1>2. /\ pc = "get" /\ mem.queue # <<>> /\ Sh!Trouble /\ Sh!CatchUp(m)
        /\ \/ \E c \in Contexts : Sh!Persist(x.key, [shot |-> x.shot, side |-> Sh!Evaluate(c)])
           \/ UNCHANGED decided
        /\ UNCHANGED <<Sh!market, shot, inbox, outcome, readAs>>
    BY <1>1 DEF Sh!ProcessFails
  <1>3. /\ x \in Sh!Item /\ Sound(Sh!Taken) /\ Sh!Taken \in Sh!Memories
        /\ Sh!Taken.pending = mem.pending /\ Sh!Taken.completed = mem.completed
           /\ Sh!Taken.cursor = mem.cursor
        /\ Sh!Taken.current = mem.current
        /\ Sh!Keys(mem.queue) = Sh!Keys(Sh!Taken.queue) \cup {x.key}
    BY <1>1, <1>2, TakenIs DEF Sound
  <1>4. Kept /\ decided' \in Decisions
    <2>1. CASE \E c \in Contexts : Sh!Persist(x.key, [shot |-> x.shot, side |-> Sh!Evaluate(c)])
      BY <1>3, <2>1, PersistKeeps
    <2>2. CASE UNCHANGED decided
      BY <2>2, DecidedStays
    <2> QED
      BY <1>2, <2>1, <2>2
  <1>5. mem.pending \in Seq(Sh!Item)
    BY DEF ShadowIInv, Sound, Sh!Memories
  <1>6. Sh!Keep(x) \in Seq(Sh!Item) /\ Sh!Keys(Sh!Keep(x)) = {x.key} \cup Sh!Keys(mem.pending)
    <2>1. CASE x.key \in Sh!Keys(mem.pending)
      BY <1>5, <2>1 DEF Sh!Keep
    <2>2. CASE x.key \notin Sh!Keys(mem.pending)
      <3>1. Sh!Keep(x) = <<x>> \o mem.pending /\ <<x>> \in Seq(Sh!Item)
        BY <1>3, <2>2 DEF Sh!Keep
      <3>2. Sh!Keys(<<x>>) = {x.key}
        BY DEF Sh!Keys
      <3>3. PICK q, p : q = <<x>> /\ p = mem.pending
        OBVIOUS
      <3>4. q \o p \in Seq(Sh!Item) /\ Sh!Keys(q \o p) = Sh!Keys(q) \cup Sh!Keys(p)
        BY <1>5, <3>1, <3>3, KeysConcat
      <3> QED
        BY <3>1, <3>2, <3>3, <3>4
    <2> QED
      BY <2>1, <2>2
  <1>7. PICK b \in BOOLEAN : b <=> TRUE
    BY Zenon
  <1>8. m = [Sh!Taken EXCEPT !.pending = Sh!Keep(x), !.needs = b]
    BY <1>1, <1>7
  <1>9. /\ m \in Sh!Memories /\ m.queue = Sh!Taken.queue /\ m.queued = Sh!Taken.queued
           /\ m.pending = Sh!Keep(x)
        /\ m.completed = mem.completed /\ m.cursor = mem.cursor /\ m.current = mem.current
    BY <1>3, <1>6, <1>8 DEF Sh!Memories
  <1>10. Sound(m)
    BY <1>3, <1>9 DEF Sound
  <1>11. Waits(mem) \subseteq Waits(m)
    BY <1>3, <1>6, <1>9 DEF Waits
  <1>12. m.completed \subseteq Sh!Decided' /\ m.current.key \in Sh!Decided' \cup {0}
    BY <1>4, <1>9, DecidedGrows DEF ShadowIInv, Sh!CompletedIsDecided, CurrentIsDecided
  <1>13. trouble' \in 0..MaxTrouble
    BY <1>2, Numbers DEF ShadowIInv, Sh!TypeOK, Sh!Trouble
  <1> QED
    BY <1>2, <1>4, <1>9, <1>10, <1>11, <1>12, <1>13, CatchUpKeeps

(* ------------------------------- catch-up -------------------------------- *)

LEMMA PickedIs ==
  ASSUME NEW items \in Seq(Sh!Item), NEW I \in SUBSET DOMAIN items, NEW p \in Sh!Picked(items, I)
  PROVE  /\ p \in Seq(Sh!Item)
         /\ \A i \in I : items[i].key \in Sh!Keys(p)
         /\ p = <<>> => I = {}
  <1>1. PICK q \in [1..Cardinality(I) -> I] : /\ p = [j \in DOMAIN q |-> items[q[j]]]
                                             /\ \A i \in I : \E j \in DOMAIN q : q[j] = i
    <2>1. PICK R : R = {r \in [1..Cardinality(I) -> I] :
                          /\ \A i \in I : \E j \in DOMAIN r : r[j] = i
                          /\ \A i, j \in DOMAIN r : i < j => r[i] < r[j]}
      OBVIOUS
    <2>2. Sh!Cardinality(I) = Cardinality(I)
      BY Zenon DEF Sh!Cardinality, Cardinality
    <2>5. p \in {[j \in DOMAIN q |-> items[q[j]]] : q \in R}
      BY <2>1, <2>2, Zenon DEF Sh!Picked
    <2>3. PICK q \in R : p = [j \in DOMAIN q |-> items[q[j]]]
      BY <2>5
    <2>4. q \in [1..Cardinality(I) -> I] /\ \A i \in I : \E j \in DOMAIN q : q[j] = i
      BY <2>1
    <2> QED
      BY <2>3, <2>4
  <1>2. Cardinality(I) \in Nat
    <2>1. DOMAIN items = 1 .. Len(items) /\ Len(items) \in Nat
      OBVIOUS
    <2>2. IsFiniteSet(DOMAIN items)
      BY <2>1, FS_Interval
    <2> QED
      BY <2>2, FS_Subset, FS_CardinalityType
  <1>3. DOMAIN q = 1 .. Cardinality(I) /\ \A j \in DOMAIN q : q[j] \in I /\ items[q[j]] \in Sh!Item
    BY <1>1
  <1>4. p \in Seq(Sh!Item)
    BY <1>1, <1>2, <1>3
  <1>5. DOMAIN p = DOMAIN q /\ \A j \in DOMAIN q : p[j] = items[q[j]]
    BY <1>1
  <1>6. \A i \in I : items[i].key \in Sh!Keys(p)
    BY <1>1, <1>5 DEF Sh!Keys
  <1>7. p = <<>> => I = {}
    BY <1>1, <1>5
  <1> QED
    BY <1>4, <1>6, <1>7

(* Every set of natural numbers has a least one.                             *)
LEMMA LeastExists ==
  ASSUME NEW S \in SUBSET Nat, S # {}
  PROVE  \E m \in S : \A n \in S : m <= n
  <1> DEFINE R == {p \in Nat \X Nat : p[1] < p[2]}
  <1>1. IsWellFoundedOn(R, Nat)
    BY NatLessThanWellFounded DEF OpToRel
  <1>2. PICK m \in S : \A n \in S : <<n, m>> \notin R
    <2> HIDE DEF R
    <2> QED
      BY <1>1, WFMin
  <1>3. \A n \in S : ~(n < m)
    BY <1>2
  <1> QED
    BY <1>3

(* What the filter leaves out is decided or waits, or comes again.           *)
LEMMA FilterFinds ==
  ASSUME ShadowIInv, mem.pending = <<>>, NEW items \in Seq(Sh!Item), NEW i \in DOMAIN items
  PROVE  \/ items[i].key \in Sh!Tracked
         \/ \E j \in Sh!NewKeys(items) : items[j].key = items[i].key
  <1>1. CASE Sh!Known(items[i].key)
    <2>1. mem.queued \subseteq Sh!Keys(mem.queue) /\ mem.completed \subseteq Sh!Decided
      BY DEF ShadowIInv, Sound, Sh!CompletedIsDecided
    <2> QED
      BY <1>1, <2>1 DEF Sh!Known, Sh!Tracked
  <1>2. CASE ~Sh!Known(items[i].key)
    <2>1. PICK S : S = {j \in DOMAIN items : items[j].key = items[i].key}
      OBVIOUS
    <2>2. S \in SUBSET Nat /\ S # {} /\ S \subseteq DOMAIN items
      BY <2>1
    <2>3. PICK m \in S : \A n \in S : m <= n
      BY <2>2, LeastExists
    <2>4. m \in DOMAIN items /\ items[m].key = items[i].key /\ m \in Nat
      BY <2>1, <2>2
    <2>5. \A j \in 1..(m - 1) : items[j].key # items[m].key
      <3> SUFFICES ASSUME NEW j \in 1..(m - 1), items[j].key = items[m].key
                   PROVE  FALSE
        OBVIOUS
      <3>1. j \in DOMAIN items /\ ~(m <= j)
        BY <2>4
      <3> QED
        BY <2>1, <2>3, <2>4, <3>1
    <2>6. items[m].key \notin Sh!Keys(mem.pending)
      BY DEF Sh!Keys
    <2>7. m \in Sh!NewKeys(items)
      BY <1>2, <2>4, <2>5, <2>6 DEF Sh!NewKeys
    <2> QED
      BY <2>4, <2>7
  <1> QED
    BY <1>1, <1>2

LEMMA MovesKeeps ==
  ASSUME Sh!ShadowAssumption,
         ShadowIInv, pc \in {"filter", "merge"}, NEW m, Sound(m), Sh!Moves(m),
         Waits(mem) \subseteq Waits(m) \cup Sh!Decided \cup {0}, m.completed \subseteq Sh!Decided,
         m.current = mem.current, m.cursor = mem.cursor,
         UNCHANGED <<Sh!market, shot, inbox, decided, outcome, trouble>>,
         readAs' \in [1..MaxSnapshot -> 0..Sh!MaxCandle],
         \A i \in 1..mem.cursor : readAs'[i] = readAs[i],
         \A i \in 1..page.rows : readAs'[mem.cursor + i] \in Waits(m) \cup Sh!Decided \cup {0}
  PROVE  ShadowIInv'
  <1>1. PICK n : n = [m EXCEPT !.cursor = IF page.rows = 0 THEN 0 ELSE m.cursor + page.rows, !.more = page.more]
    OBVIOUS
  <1>2. /\ mem' = Sh!Enqueue(n) /\ accepted' = accepted \cup mem'.queued /\ pc' = "get"
           /\ page' = Sh!NoPage
    BY <1>1 DEF Sh!Moves
  <1>3. /\ mem.cursor + page.rows <= Len(shot) /\ Len(shot) <= MaxSnapshot /\ Len(shot) \in Nat
        /\ mem.cursor \in Nat /\ page.rows \in Nat /\ page.more \in BOOLEAN
           /\ mem.cursor <= Len(shot)
    BY DEF ShadowIInv, PageIsBehind, Sh!TypeOK, Sh!Memories, Sh!Pages
  <1>4. PICK to : to = IF page.rows = 0 THEN 0 ELSE m.cursor + page.rows
    OBVIOUS
  <1>5. to \in 0..MaxSnapshot /\ to \in Nat /\ to <= Len(shot)
           /\ (to = 0 \/ to = mem.cursor + page.rows)
    BY <1>3, <1>4, Numbers
  <1>6. /\ n \in Sh!Memories /\ n.queue = m.queue /\ n.queued = m.queued /\ n.pending = m.pending
        /\ n.completed = m.completed /\ n.cursor = to /\ n.current = m.current
    BY <1>1, <1>3, <1>4, <1>5 DEF Sound, Sh!Memories
  <1>7. Sound(n) /\ Waits(n) = Waits(m)
    BY <1>6 DEF Sound, Waits
  <1>8. /\ Sound(mem') /\ Waits(mem') = Waits(m) /\ mem'.completed = m.completed
        /\ mem'.cursor = to /\ mem'.current = mem.current
    BY <1>2, <1>6, <1>7, EnqueueMoves
  <1>9. Kept /\ decided' \in Decisions /\ Sh!Decided' = Sh!Decided
    BY DecidedStays
  <1>10. Sh!AcceptedIsKept' /\ accepted' \subseteq Sh!Candles
    BY <1>2, <1>8, <1>9, AcceptedStays
  <1>11. Sh!Tracked' = Waits(m) \cup Sh!Decided
    BY <1>8, <1>9 DEF Sh!Tracked, Waits
  <1>12. Sh!NothingSkipped'
    <2> SUFFICES ASSUME NEW i \in 1..to
                 PROVE  readAs'[i] \in Waits(m) \cup Sh!Decided \cup {0}
      BY <1>8, <1>11 DEF Sh!NothingSkipped
    <2>1. CASE i \in 1..mem.cursor
      <3>1. readAs[i] \in Sh!Tracked \cup {0}
        BY <2>1 DEF ShadowIInv, Sh!NothingSkipped
      <3>2. Sh!Tracked = Waits(mem) \cup Sh!Decided
        BY DEF Sh!Tracked, Waits
      <3> QED
        BY <2>1, <3>1, <3>2
    <2>2. CASE i \notin 1..mem.cursor
      <3>3. PICK from, size : from = mem.cursor /\ size = page.rows
        OBVIOUS
      <3>4. from \in Nat /\ size \in Nat /\ i \in 1..to /\ i \notin 1..from
               /\ (to = 0 \/ to = from + size)
        BY <1>3, <1>5, <2>2, <3>3
      <3>1. PICK j : j = i - from
        OBVIOUS
      <3>5. j \in 1..size /\ i = from + j
        BY <3>1, <3>4
      <3>2. j \in 1..page.rows /\ i = mem.cursor + j
        BY <3>3, <3>5
      <3> QED
        BY <3>2
    <2> QED
      BY <2>1, <2>2
  <1>13. NothingPends' /\ CurrentIsDecided' /\ pc' \in Places
    BY <1>2, <1>8, <1>9 DEF NothingPends, CurrentIsDecided, Places, ShadowIInv
  <1>14. PageIsBehind'
    BY <1>2, <1>5, <1>8 DEF PageIsBehind
  <1>15. page' \in Sh!Pages /\ trouble' \in 0..MaxTrouble /\ mem'.completed \subseteq Sh!Decided'
    BY <1>2, <1>8, <1>9, FreshIsSound DEF ShadowIInv, Sh!TypeOK
  <1> QED
    BY <1>8, <1>9, <1>10, <1>12, <1>13, <1>14, <1>15, DecisionWorkerMoves

(* A step of the catch-up that only reads.                                   *)
LEMMA ReadingMoves ==
  ASSUME Sh!ShadowAssumption,
         ShadowIInv, UNCHANGED <<Sh!market, shot, inbox, mem, decided, outcome, accepted, trouble>>,
         pc' \in {"filter", "exist", "merge"}, mem.pending = <<>>, page' \in Sh!Pages,
         readAs' \in [1..MaxSnapshot -> 0..Sh!MaxCandle], \A i \in 1..mem.cursor : readAs'[i] = readAs[i],
         PageIsBehind'
  PROVE  ShadowIInv'
  <1>1. Kept /\ decided' \in Decisions /\ Sh!Decided' = Sh!Decided
    BY DecidedStays
  <1>2. Sound(mem') /\ mem' = mem /\ mem'.completed \subseteq Sh!Decided'
    BY <1>1 DEF ShadowIInv, Sh!CompletedIsDecided
  <1>3. Sh!AcceptedIsKept' /\ accepted' \subseteq Sh!Candles
    BY <1>1, <1>2, AcceptedStays DEF Waits
  <1>4. Sh!Tracked' = Sh!Tracked
    BY <1>1, <1>2 DEF Sh!Tracked
  <1>5. Sh!NothingSkipped'
    BY <1>2, <1>4 DEF ShadowIInv, Sh!NothingSkipped
  <1>6. NothingPends' /\ CurrentIsDecided' /\ pc' \in Places
    BY <1>1, <1>2 DEF ShadowIInv, NothingPends, CurrentIsDecided, Places
  <1>7. trouble' \in 0..MaxTrouble
    BY DEF ShadowIInv, Sh!TypeOK
  <1> QED
    BY <1>1, <1>2, <1>3, <1>5, <1>6, <1>7, DecisionWorkerMoves

(* The page after the cursor, read with the candles that are stored.         *)
LEMMA PageIs ==
  ASSUME Sh!ShadowAssumption, ShadowIInv
  PROVE  /\ Sh!PageAfter(mem.cursor) \in Sh!Pages
         /\ Sh!PageAfter(mem.cursor).rows = Len(Sh!PageAfter(mem.cursor).items)
         /\ mem.cursor + Sh!PageAfter(mem.cursor).rows <= Len(shot)
  <1>1. /\ mem.cursor \in Nat /\ mem.cursor <= Len(shot) /\ shot \in Seq(Sh!Candles)
           /\ Len(shot) \in Nat
        /\ Len(shot) <= MaxSnapshot /\ stored \in 0..Sh!MaxCandle
    BY Numbers DEF ShadowIInv, PageIsBehind, Sh!TypeOK, Sh!Memories
  <1>2. PICK last : last = Sh!Least(mem.cursor + PageSize, Len(shot))
    OBVIOUS
  <1>3. last \in Nat /\ mem.cursor <= last /\ last <= Len(shot) /\ last - mem.cursor \in 0..PageSize
    <2>1. PICK from, length : from = mem.cursor /\ length = Len(shot)
      OBVIOUS
    <2>2. from \in Nat /\ length \in Nat /\ from <= length /\ PageSize \in Nat
      BY <1>1, <2>1, Numbers
    <2>3. last = Sh!Least(from + PageSize, length)
      BY <1>2, <2>1
    <2>4. last \in Nat /\ from <= last /\ last <= length /\ last - from \in 0..PageSize
      BY <2>2, <2>3 DEF Sh!Least
    <2> QED
      BY <2>1, <2>4
  <1>4. PICK size : size = last - mem.cursor
    OBVIOUS
  <1>5. size \in 0..PageSize /\ size \in Nat /\ mem.cursor + size = last
    BY <1>1, <1>3, <1>4, Numbers
  <1>6. PICK ids : ids = [j \in 1..size |-> mem.cursor + j]
    OBVIOUS
  <1>7. \A j \in 1..size : ids[j] \in 1..Len(shot) /\ ids[j] \in 1..MaxSnapshot
    <2> SUFFICES ASSUME NEW j \in 1..size
                 PROVE  mem.cursor + j \in 1..Len(shot) /\ mem.cursor + j \in 1..MaxSnapshot
      BY <1>6
    <2>1. PICK from, length : from = mem.cursor /\ length = Len(shot)
      OBVIOUS
    <2>2. /\ from \in Nat /\ length \in Nat /\ size \in Nat /\ from + size <= length
          /\ length <= MaxSnapshot /\ MaxSnapshot \in Nat
      BY <1>1, <1>3, <1>5, <2>1, Numbers
    <2>3. from + j \in 1..length /\ from + j \in 1..MaxSnapshot
      BY <2>2
    <2> QED
      BY <2>1, <2>3
  <1>8. PICK items : items = [j \in DOMAIN ids |-> [key |-> Sh!Shows(ids[j]), shot |-> ids[j]]]
    OBVIOUS
  <1>9. ASSUME NEW j \in 1..size
        PROVE  items[j] \in Sh!Item
    <2>1. PICK i : i = ids[j]
      OBVIOUS
    <2>2. i \in 1..Len(shot) /\ i \in 1..MaxSnapshot
      BY <1>7, <2>1
    <2>3. shot[i] \in Sh!Candles /\ shot # <<>>
      BY <1>1, <2>2
    <2>4. stored > 0 /\ stored \in Sh!Candles
      BY <1>1, <2>3, Numbers DEF ShadowIInv, SnapshotsShow, Sh!Candles
    <2>5. Sh!Shows(i) \in Sh!Candles
      BY <2>3, <2>4 DEF Sh!Shows, Sh!Least
    <2> QED
      BY <1>6, <1>8, <2>1, <2>2, <2>5 DEF Sh!Item
  <1>10. items \in Seq(Sh!Item) /\ Len(items) = size
    <2>1. DOMAIN items = 1..size /\ items = [j \in 1..size |-> items[j]]
      BY <1>6, <1>8
    <2>2. items \in [1..size -> Sh!Item]
      BY <1>9, <2>1
    <2> QED
      BY <1>5, <2>2
  <1>11. PICK b : b = (last < Len(shot))
    OBVIOUS
  <1>14. b \in BOOLEAN
    BY <1>1, <1>3, <1>11
  <1>12. Sh!PageAfter(mem.cursor) = [items |-> items, rows |-> size, more |-> b, known |-> {}]
    BY <1>2, <1>4, <1>6, <1>8, <1>11, Zenon DEF Sh!PageAfter
  <1>13. [items |-> items, rows |-> size, more |-> b, known |-> {}] \in Sh!Pages
    BY <1>5, <1>10, <1>14 DEF Sh!Pages
  <1> QED
    BY <1>3, <1>5, <1>10, <1>12, <1>13

LEMMA LoadKeeps ==
  ASSUME Sh!ShadowAssumption, ShadowIInv, Sh!Load
  PROVE  ShadowIInv'
  <1>1. /\ pc = "load" /\ page' = Sh!PageAfter(mem.cursor) /\ pc' = "filter"
        /\ UNCHANGED <<Sh!market, shot, inbox, mem, decided, outcome, trouble, accepted, readAs>>
    BY DEF Sh!Load, Sh!history
  <1>2. /\ page' \in Sh!Pages /\ page'.rows = Len(page'.items)
           /\ mem.cursor + page'.rows <= Len(shot)
    BY <1>1, PageIs
  <1>3. mem.pending = <<>> /\ mem.cursor <= Len(shot)
    BY <1>1 DEF ShadowIInv, NothingPends, PageIsBehind
  <1>4. PageIsBehind'
    BY <1>1, <1>2, <1>3 DEF PageIsBehind
  <1>5. readAs' \in [1..MaxSnapshot -> 0..Sh!MaxCandle]
    BY <1>1 DEF ShadowIInv, Sh!TypeOK
  <1> QED
    BY <1>1, <1>2, <1>3, <1>4, <1>5, ReadingMoves

LEMMA FilterKeeps ==
  ASSUME Sh!ShadowAssumption, ShadowIInv, Sh!Filter
  PROVE  ShadowIInv'
  <1>1. /\ pc = "filter" /\ UNCHANGED <<Sh!market, shot, inbox, decided, outcome, trouble>>
        /\ readAs' = [i \in DOMAIN readAs |-> IF i - mem.cursor \in DOMAIN page.items
                                              THEN page.items[i - mem.cursor].key ELSE readAs[i]]
    BY DEF Sh!Filter
  <1>2. /\ mem.pending = <<>> /\ page.rows = Len(page.items) /\ page \in Sh!Pages
           /\ page.items \in Seq(Sh!Item)
        /\ mem.cursor \in Nat /\ mem.cursor <= Len(shot) /\ mem.cursor + page.rows <= Len(shot)
        /\ Len(shot) <= MaxSnapshot /\ Len(shot) \in Nat /\ page.rows \in Nat
    BY <1>1 DEF ShadowIInv, NothingPends, PageIsBehind, Sh!TypeOK, Sh!Pages, Sh!Memories
  <1>3. DOMAIN page.items = 1..page.rows /\ \A j \in 1..page.rows : page.items[j].key \in Sh!Candles
    <2>1. \A j \in DOMAIN page.items : page.items[j] \in Sh!Item
      BY <1>2
    <2> QED
      BY <1>2, <2>1, ItemIs
  <1>4. readAs \in [1..MaxSnapshot -> 0..Sh!MaxCandle] /\ MaxSnapshot \in Nat
    BY Numbers DEF ShadowIInv, Sh!TypeOK
  <1>5. readAs' \in [1..MaxSnapshot -> 0..Sh!MaxCandle]
    <2>1. ASSUME NEW i \in 1..MaxSnapshot
          PROVE  readAs'[i] \in 0..Sh!MaxCandle
      <3>1. PICK j : j = i - mem.cursor
        OBVIOUS
      <3>2. readAs'[i] = IF j \in 1..page.rows THEN page.items[j].key ELSE readAs[i]
        BY <1>1, <1>3, <1>4, <3>1
      <3>3. Sh!Candles \subseteq 0..Sh!MaxCandle
        BY Numbers DEF Sh!Candles
      <3> QED
        BY <1>3, <1>4, <3>2, <3>3
    <2> QED
      BY <1>1, <1>4, <2>1
  <1>6. \A i \in 1..mem.cursor : readAs'[i] = readAs[i]
    <2> SUFFICES ASSUME NEW i \in 1..mem.cursor
                 PROVE  readAs'[i] = readAs[i]
      OBVIOUS
    <2>1. i \in 1..MaxSnapshot /\ i - mem.cursor \notin 1..page.rows
      BY <1>2, <1>4
    <2> QED
      BY <1>1, <1>3, <1>4, <2>1
  <1>7. \A i \in 1..page.rows : readAs'[mem.cursor + i] = page.items[i].key
    <2> SUFFICES ASSUME NEW i \in 1..page.rows
                 PROVE  readAs'[mem.cursor + i] = page.items[i].key
      OBVIOUS
    <2>1. PICK k : k = mem.cursor + i
      OBVIOUS
    <2>2. k \in 1..MaxSnapshot /\ k - mem.cursor = i
      <3>1. PICK from, size, length : from = mem.cursor /\ size = page.rows /\ length = Len(shot)
        OBVIOUS
      <3>2. /\ from \in Nat /\ size \in Nat /\ length \in Nat /\ from + size <= length
            /\ length <= MaxSnapshot /\ MaxSnapshot \in Nat /\ i \in 1..size /\ k = from + i
        BY <1>2, <1>4, <2>1, <3>1
      <3>3. k \in 1..MaxSnapshot /\ k - from = i
        BY <3>2
      <3> QED
        BY <3>1, <3>3
    <2> QED
      BY <1>1, <1>3, <1>4, <2>1, <2>2
  <1>8. PICK cands \in Sh!Picked(page.items, Sh!NewKeys(page.items)) :
          IF cands = <<>>
          THEN Sh!Moves(mem)
          ELSE /\ pc' = "exist" /\ page' = [page EXCEPT !.items = cands]
               /\ UNCHANGED <<mem, accepted>>
    BY DEF Sh!Filter
  <1>9. /\ cands \in Seq(Sh!Item)
           /\ \A j \in Sh!NewKeys(page.items) : page.items[j].key \in Sh!Keys(cands)
        /\ cands = <<>> => Sh!NewKeys(page.items) = {}
    <2>1. Sh!NewKeys(page.items) \in SUBSET DOMAIN page.items
      BY DEF Sh!NewKeys
    <2> QED
      BY <1>2, <2>1, PickedIs
  <1>10. \A i \in 1..page.rows : readAs'[mem.cursor + i] \in Sh!Tracked \cup Sh!Keys(cands)
    <2> SUFFICES ASSUME NEW i \in 1..page.rows
                 PROVE  page.items[i].key \in Sh!Tracked \cup Sh!Keys(cands)
      BY <1>7
    <2>1. \/ page.items[i].key \in Sh!Tracked
          \/ \E j \in Sh!NewKeys(page.items) : page.items[j].key = page.items[i].key
      BY <1>2, <1>3, FilterFinds
    <2> QED
      BY <1>9, <2>1
  <1>11. CASE cands = <<>>
    <2>1. Sh!Moves(mem)
      BY <1>8, <1>11
    <2>2. Sh!Keys(cands) = {}
      BY <1>11 DEF Sh!Keys
    <2>3. \A i \in 1..page.rows : readAs'[mem.cursor + i] \in Waits(mem) \cup Sh!Decided \cup {0}
      BY <1>10, <2>2 DEF Sh!Tracked, Waits
    <2>4. Sound(mem) /\ mem.completed \subseteq Sh!Decided
      BY DEF ShadowIInv, Sh!CompletedIsDecided
    <2> QED
      BY <1>1, <1>5, <1>6, <2>1, <2>3, <2>4, MovesKeeps
  <1>12. CASE cands # <<>>
    <2>1. pc' = "exist" /\ page' = [page EXCEPT !.items = cands] /\ UNCHANGED <<mem, accepted>>
      BY <1>8, <1>12
    <2>2. page' \in Sh!Pages /\ page'.items = cands /\ page'.rows = page.rows
      BY <1>2, <1>9, <2>1 DEF Sh!Pages
    <2>3. Sh!Tracked' = Sh!Tracked
      BY <1>1, <2>1 DEF Sh!Tracked, Sh!Decided
    <2>4. PageIsBehind'
      BY <1>1, <1>2, <1>10, <2>1, <2>2, <2>3 DEF PageIsBehind
    <2> QED
      BY <1>1, <1>2, <1>5, <1>6, <2>1, <2>2, <2>4, ReadingMoves
  <1> QED
    BY <1>11, <1>12

LEMMA ExistKeeps ==
  ASSUME Sh!ShadowAssumption, ShadowIInv, Sh!Exist
  PROVE  ShadowIInv'
  <1>1. /\ pc = "exist" /\ page' = [page EXCEPT !.known = Sh!Decided \cap Sh!Keys(page.items)]
           /\ pc' = "merge"
        /\ UNCHANGED <<Sh!market, shot, inbox, mem, decided, outcome, trouble, accepted, readAs>>
    BY DEF Sh!Exist, Sh!history
  <1>2. page \in Sh!Pages /\ mem.pending = <<>> /\ readAs' \in [1..MaxSnapshot -> 0..Sh!MaxCandle]
    BY <1>1 DEF ShadowIInv, Sh!TypeOK, NothingPends
  <1>3. Sh!Decided \subseteq Sh!Candles
    BY DEF Sh!Decided
  <1>4. /\ page' \in Sh!Pages /\ page'.items = page.items /\ page'.rows = page.rows
        /\ page'.known = Sh!Decided \cap Sh!Keys(page.items)
    BY <1>1, <1>2, <1>3 DEF Sh!Pages
  <1>5. Sh!Tracked' = Sh!Tracked /\ Sh!Decided' = Sh!Decided
    BY <1>1 DEF Sh!Tracked, Sh!Decided
  <1>6. PageIsBehind'
    BY <1>1, <1>4, <1>5 DEF ShadowIInv, PageIsBehind
  <1> QED
    BY <1>1, <1>2, <1>4, <1>6, ReadingMoves

LEMMA MergeKeeps ==
  ASSUME Sh!ShadowAssumption, ShadowIInv, Sh!Merge
  PROVE  ShadowIInv'
  <1>1. /\ pc = "merge" /\ UNCHANGED <<Sh!market, shot, inbox, decided, outcome, trouble, readAs>>
    BY DEF Sh!Merge
  <1>2. PICK I : I = {i \in DOMAIN page.items : page.items[i].key \notin page.known}
    OBVIOUS
  <1>3. PICK new \in Sh!Picked(page.items, I) :
          Sh!Moves([mem EXCEPT !.completed = mem.completed \cup page.known,
                            !.deferred = mem.deferred \ page.known, !.pending = new])
    BY <1>2 DEF Sh!Merge
  <1>4. /\ page \in Sh!Pages /\ page.items \in Seq(Sh!Item) /\ page.known \in SUBSET Sh!Candles
        /\ page.known \subseteq Sh!Decided /\ mem.pending = <<>>
    BY <1>1 DEF ShadowIInv, Sh!TypeOK, Sh!Pages, PageIsBehind, NothingPends
  <1>5. new \in Seq(Sh!Item) /\ \A i \in I : page.items[i].key \in Sh!Keys(new)
    BY <1>2, <1>3, <1>4, PickedIs
  <1>6. PICK m : m = [mem EXCEPT !.completed = mem.completed \cup page.known,
                                 !.deferred = mem.deferred \ page.known, !.pending = new]
    OBVIOUS
  <1>7. Sound(mem) /\ mem \in Sh!Memories /\ mem.completed \subseteq Sh!Decided
    BY DEF ShadowIInv, Sound, Sh!CompletedIsDecided
  <1>8. /\ m \in Sh!Memories /\ m.queue = mem.queue /\ m.queued = mem.queued /\ m.pending = new
        /\ m.completed = mem.completed \cup page.known /\ m.cursor = mem.cursor
           /\ m.current = mem.current
    BY <1>4, <1>5, <1>6, <1>7 DEF Sh!Memories
  <1>9. Sound(m)
    BY <1>7, <1>8 DEF Sound
  <1>10. Waits(mem) \subseteq Waits(m)
    <2>1. Sh!Keys(mem.pending) = {}
      BY <1>4 DEF Sh!Keys
    <2> QED
      BY <1>8, <2>1 DEF Waits
  <1>11. Sh!Keys(page.items) \subseteq Sh!Keys(new) \cup Sh!Decided
    <2> SUFFICES ASSUME NEW i \in DOMAIN page.items
                 PROVE  page.items[i].key \in Sh!Keys(new) \cup Sh!Decided
      BY DEF Sh!Keys
    <2> QED
      BY <1>2, <1>4, <1>5
  <1>12. \A i \in 1..page.rows : readAs'[mem.cursor + i] \in Waits(m) \cup Sh!Decided \cup {0}
    <2>1. \A i \in 1..page.rows : readAs[mem.cursor + i] \in Sh!Tracked \cup Sh!Keys(page.items) \cup {0}
      BY <1>1 DEF ShadowIInv, PageIsBehind
    <2>2. Sh!Tracked = Waits(mem) \cup Sh!Decided /\ Sh!Keys(new) \subseteq Waits(m)
      BY <1>8 DEF Sh!Tracked, Waits
    <2> QED
      BY <1>1, <1>10, <1>11, <2>1, <2>2
  <1>13. readAs' \in [1..MaxSnapshot -> 0..Sh!MaxCandle]
           /\ \A i \in 1..mem.cursor : readAs'[i] = readAs[i]
    BY <1>1 DEF ShadowIInv, Sh!TypeOK
  <1>14. Sh!Moves(m) /\ m.completed \subseteq Sh!Decided
    BY <1>3, <1>4, <1>6, <1>7, <1>8
  <1> QED
    BY <1>1, <1>8, <1>9, <1>10, <1>12, <1>13, <1>14, MovesKeeps

(* A read fails: the cursor stays.                                           *)
LEMMA ReadFailsKeeps ==
  ASSUME Sh!ShadowAssumption, ShadowIInv, Sh!ReadFails
  PROVE  ShadowIInv'
  <1>1. PICK b \in BOOLEAN : b <=> TRUE
    BY Zenon
  <1>2. /\ Sh!Trouble /\ mem' = [mem EXCEPT !.needs = b] /\ pc' = "get" /\ page' = Sh!NoPage
        /\ UNCHANGED <<Sh!market, shot, inbox, decided, outcome, accepted, readAs>>
    BY <1>1 DEF Sh!ReadFails, Sh!history
  <1>3. Sound(mem) /\ mem \in Sh!Memories /\ mem.completed \subseteq Sh!Decided
    BY DEF ShadowIInv, Sound, Sh!CompletedIsDecided
  <1>4. /\ mem' \in Sh!Memories /\ mem'.queue = mem.queue /\ mem'.queued = mem.queued
        /\ mem'.pending = mem.pending /\ mem'.completed = mem.completed /\ mem'.cursor = mem.cursor
        /\ mem'.current = mem.current
    BY <1>1, <1>2, <1>3 DEF Sh!Memories
  <1>5. Kept /\ decided' \in Decisions /\ Sh!Decided' = Sh!Decided
    BY <1>2, DecidedStays
  <1>6. Sound(mem') /\ Waits(mem') = Waits(mem)
    BY <1>3, <1>4 DEF Sound, Waits
  <1>7. Sh!AcceptedIsKept' /\ accepted' \subseteq Sh!Candles /\ Sh!NothingSkipped'
    BY <1>2, <1>4, <1>5, <1>6, AcceptedStays, SkippedStays
  <1>8. NothingPends' /\ CurrentIsDecided' /\ pc' \in Places
    BY <1>2, <1>4, <1>5 DEF ShadowIInv, NothingPends, CurrentIsDecided, Places
  <1>9. PageIsBehind'
    BY <1>2, <1>4 DEF ShadowIInv, PageIsBehind
  <1>10. page' \in Sh!Pages /\ mem'.completed \subseteq Sh!Decided'
    BY <1>2, <1>3, <1>4, <1>5, FreshIsSound
  <1>11. trouble' \in 0..MaxTrouble /\ readAs' \in [1..MaxSnapshot -> 0..Sh!MaxCandle]
    <2>1. trouble \in 0..MaxTrouble /\ readAs \in [1..MaxSnapshot -> 0..Sh!MaxCandle]
      BY DEF ShadowIInv, Sh!TypeOK
    <2>2. trouble' = trouble + 1 /\ trouble < MaxTrouble /\ MaxTrouble \in Nat
      BY <1>2, Numbers DEF Sh!Trouble
    <2> QED
      BY <1>2, <2>1, <2>2
  <1> QED
    BY <1>2, <1>5, <1>6, <1>7, <1>8, <1>9, <1>10, <1>11, DecisionWorkerMoves

(* --------------- the market, the snapshots and the outcomes -------------- *)

(* A step that leaves the decision worker and its decisions alone.           *)
LEMMA OthersKeep ==
  ASSUME Sh!ShadowAssumption,
         ShadowIInv, UNCHANGED <<Sh!worker, decided, trouble, Sh!history>>,
         closed' \in 0..Sh!MaxCandle, stored' \in 0..closed', held' \in 0..stored',
         shot' \in Seq(Sh!Candles), Len(shot) <= Len(shot'), Len(shot') <= MaxSnapshot, SnapshotsShow',
         inbox' \in Sh!Item \cup {Sh!NoItem}, outcome' \in Outcomes, Sh!OutcomeIsFirst'
  PROVE  ShadowIInv'
  <1>1. /\ mem' = mem /\ pc' = pc /\ page' = page /\ decided' = decided /\ trouble' = trouble
        /\ accepted' = accepted /\ readAs' = readAs
    BY DEF Sh!worker, Sh!history
  <1>2. Sh!Decided' = Sh!Decided /\ Sh!Tracked' = Sh!Tracked
    BY <1>1 DEF Sh!Decided, Sh!Tracked
  <1>3. Sh!TypeOK'
    BY <1>1 DEF ShadowIInv, Sh!TypeOK, Outcomes
  <1>4. Sound(mem') /\ CurrentIsDecided' /\ NothingPends'
    BY <1>1, <1>2 DEF ShadowIInv, CurrentIsDecided, NothingPends
  <1>5. Sh!AcceptedIsKept' /\ Sh!NothingSkipped' /\ Sh!CompletedIsDecided'
    BY <1>1, <1>2 DEF ShadowIInv, Sh!AcceptedIsKept, Sh!NothingSkipped, Sh!CompletedIsDecided
  <1>6. /\ Len(shot) \in Nat /\ Len(shot') \in Nat /\ mem.cursor \in Nat /\ page.rows \in Nat
    <2>1. shot \in Seq(Sh!Candles) /\ mem \in Sh!Memories /\ page \in Sh!Pages
      BY DEF ShadowIInv, Sh!TypeOK
    <2>2. mem.cursor \in 0..MaxSnapshot /\ page.rows \in 0..PageSize
      BY <2>1 DEF Sh!Memories, Sh!Pages
    <2> QED
      BY <2>1, <2>2, Numbers
  <1>7. PageIsBehind'
    <2>1. PICK m, n : m = Len(shot) /\ n = Len(shot')
      OBVIOUS
    <2>7. PICK from, size : from = mem.cursor /\ size = page.rows
      OBVIOUS
    <2>8. m \in Nat /\ n \in Nat /\ m <= n /\ from \in Nat /\ size \in Nat
      BY <1>6, <2>1, <2>7
    <2>9. from <= m /\ (pc \in {"filter", "exist", "merge"} => from + size <= m)
      BY <2>1, <2>7 DEF ShadowIInv, PageIsBehind
    <2>10. from <= n /\ (pc \in {"filter", "exist", "merge"} => from + size <= n)
      BY <2>8, <2>9
    <2>2. mem'.cursor <= n
      BY <1>1, <2>7, <2>10
    <2>3. pc' \in {"filter", "exist", "merge"} => mem'.cursor + page'.rows <= n
      BY <1>1, <2>7, <2>10
    <2>4. pc' = "filter" => page'.rows = Len(page'.items)
      BY <1>1 DEF ShadowIInv, PageIsBehind
    <2>5. pc' \in {"exist", "merge"} =>
            \A i \in 1..page'.rows : readAs'[mem'.cursor + i] \in Sh!Tracked' \cup Sh!Keys(page'.items) \cup {0}
      BY <1>1, <1>2 DEF ShadowIInv, PageIsBehind
    <2>6. pc' = "merge" => page'.known \subseteq Sh!Decided'
      BY <1>1, <1>2 DEF ShadowIInv, PageIsBehind
    <2> QED
      BY <2>1, <2>2, <2>3, <2>4, <2>5, <2>6 DEF PageIsBehind
  <1> QED
    BY <1>3, <1>4, <1>5, <1>7 DEF ShadowIInv

LEMMA FeedKeeps ==
  ASSUME Sh!ShadowAssumption,
         ShadowIInv, Sh!CandleCloses \/ Sh!StoreCandle \/ Sh!HoldCandles \/ Sh!Capture
  PROVE  ShadowIInv'
  <1>1. /\ closed \in 0..Sh!MaxCandle /\ stored \in 0..closed /\ held \in 0..stored
           /\ outcome \in Outcomes
        /\ shot \in Seq(Sh!Candles) /\ Len(shot) \in Nat /\ Len(shot) <= MaxSnapshot
        /\ inbox \in Sh!Item \cup {Sh!NoItem} /\ Sh!MaxCandle \in Nat
    BY Numbers DEF ShadowIInv, Sh!TypeOK, Outcomes
  <1>2. UNCHANGED <<Sh!worker, decided, trouble, Sh!history, outcome>>
    BY DEF Sh!CandleCloses, Sh!StoreCandle, Sh!HoldCandles, Sh!Capture
  <1>3. /\ closed' \in 0..Sh!MaxCandle /\ closed <= closed' /\ stored' \in 0..closed'
           /\ held' \in 0..stored'
        /\ stored <= stored'
    <2>1. CASE Sh!CandleCloses
      BY <1>1, <2>1 DEF Sh!CandleCloses, Sh!now
    <2>2. CASE Sh!StoreCandle
      BY <1>1, <2>2 DEF Sh!StoreCandle
    <2>3. CASE Sh!HoldCandles
      BY <1>1, <2>3 DEF Sh!HoldCandles
    <2>4. CASE Sh!Capture
      BY <1>1, <2>4 DEF Sh!Capture, Sh!market
    <2> QED
      BY <2>1, <2>2, <2>3, <2>4
  <1>4. Sh!OutcomeIsFirst'
    BY <1>1, <1>2, <1>3, OutcomesStay
  <1>5. CASE Sh!CandleCloses \/ Sh!StoreCandle \/ Sh!HoldCandles
    <2>1. shot' = shot /\ inbox' = inbox
      BY <1>5 DEF Sh!CandleCloses, Sh!StoreCandle, Sh!HoldCandles
    <2>2. SnapshotsShow'
      BY <1>1, <1>3, <2>1 DEF ShadowIInv, SnapshotsShow
    <2> QED
      BY <1>1, <1>2, <1>3, <1>4, <2>1, <2>2, OthersKeep
  <1>6. CASE Sh!Capture
    <2>1. /\ held > 0 /\ Sh!now <= Sh!MaxCandle /\ Len(shot) < MaxSnapshot
             /\ shot' = Append(shot, Sh!now)
          /\ inbox' = [key |-> held, shot |-> Len(shot) + 1] /\ stored' = stored
      BY <1>6 DEF Sh!Capture, Sh!market
    <2>2. Sh!now \in Sh!Candles /\ held \in Sh!Candles
      BY <1>1, <2>1 DEF Sh!now, Sh!Candles
    <2>3. shot' \in Seq(Sh!Candles) /\ Len(shot') = Len(shot) + 1
      BY <1>1, <2>1, <2>2
    <2>4. Len(shot) + 1 \in 1..MaxSnapshot
      BY <1>1, <2>1, Numbers
    <2>5. inbox' \in Sh!Item
      BY <2>1, <2>2, <2>4 DEF Sh!Item
    <2>6. SnapshotsShow' /\ Len(shot) <= Len(shot') /\ Len(shot') <= MaxSnapshot
      BY <1>1, <2>1, <2>3, <2>4, Numbers DEF SnapshotsShow
    <2> QED
      BY <1>1, <1>2, <1>3, <1>4, <2>3, <2>5, <2>6, OthersKeep
  <1> QED
    BY <1>5, <1>6

(* Submitting puts a candle into the queue, or among what is deferred.       *)
LEMMA SubmitSnapshotKeeps ==
  ASSUME Sh!ShadowAssumption, ShadowIInv, Sh!Submit
  PROVE  ShadowIInv'
  <1>1. /\ inbox # Sh!NoItem /\ inbox' = Sh!NoItem
        /\ UNCHANGED <<Sh!market, shot, pc, page, decided, outcome, trouble, readAs>>
    BY DEF Sh!Submit
  <1>2. PICK x, k : x = inbox /\ k = inbox.key
    OBVIOUS
  <1>3. x \in Sh!Item /\ k = x.key /\ k \in Sh!Candles
    BY <1>1, <1>2, ItemIs DEF ShadowIInv, Sh!TypeOK
  <1>4. PICK b \in BOOLEAN : b <=> TRUE
    BY Zenon
  <1>5. /\ mem' = IF Sh!Known(k) THEN mem
                  ELSE IF Len(mem.queue) < Capacity
                       THEN [mem EXCEPT !.queue = Append(mem.queue, x), !.queued = mem.queued \cup {k}]
                       ELSE [mem EXCEPT !.deferred = mem.deferred \cup {k}, !.needs = b]
        /\ accepted' = IF ~Sh!Known(k)
           /\ Len(mem.queue) < Capacity THEN accepted \cup {k} ELSE accepted
    BY <1>2, <1>4 DEF Sh!Submit
  <1>6. /\ mem \in Sh!Memories /\ Sound(mem) /\ mem.queue \in Seq(Sh!Item) /\ Len(mem.queue) \in Nat
        /\ Len(mem.queue) <= Capacity /\ mem.queued \subseteq Sh!Keys(mem.queue)
           /\ mem.completed \subseteq Sh!Decided
    BY DEF ShadowIInv, Sound, Sh!Memories, Sh!CompletedIsDecided
  <1>7. PICK q : q = Append(mem.queue, x)
    OBVIOUS
  <1>8. q \in Seq(Sh!Item) /\ Sh!Keys(q) = Sh!Keys(mem.queue) \cup {k}
           /\ Len(q) = Len(mem.queue) + 1
    BY <1>3, <1>6, <1>7, KeysAppend
  <1>9. /\ Sound(mem') /\ Waits(mem) \subseteq Waits(mem')
           /\ accepted' \subseteq accepted \cup mem'.queued
        /\ mem'.completed = mem.completed /\ mem'.cursor = mem.cursor /\ mem'.current = mem.current
        /\ mem'.pending = mem.pending
    <2>1. CASE Sh!Known(k)
      BY <1>5, <1>6, <2>1
    <2>2. CASE ~Sh!Known(k) /\ Len(mem.queue) < Capacity
      <3>1. /\ mem' = [mem EXCEPT !.queue = q, !.queued = mem.queued \cup {k}]
            /\ accepted' = accepted \cup {k}
        BY <1>5, <1>7, <2>2
      <3>2. /\ mem' \in Sh!Memories /\ mem'.queue = q /\ mem'.queued = mem.queued \cup {k}
            /\ mem'.completed = mem.completed /\ mem'.cursor = mem.cursor
               /\ mem'.current = mem.current
            /\ mem'.pending = mem.pending
        BY <1>3, <1>6, <1>8, <3>1 DEF Sh!Memories
      <3>3. Len(q) <= Capacity
        BY <1>6, <1>8, <2>2, Numbers
      <3> QED
        BY <1>6, <1>8, <3>1, <3>2, <3>3 DEF Sound, Waits
    <2>3. CASE ~Sh!Known(k) /\ ~(Len(mem.queue) < Capacity)
      <3>1. mem' = [mem EXCEPT !.deferred = mem.deferred \cup {k}, !.needs = b]
               /\ accepted' = accepted
        BY <1>5, <2>3
      <3>2. /\ mem' \in Sh!Memories /\ mem'.queue = mem.queue /\ mem'.queued = mem.queued
            /\ mem'.completed = mem.completed /\ mem'.cursor = mem.cursor
               /\ mem'.current = mem.current
            /\ mem'.pending = mem.pending
        BY <1>3, <1>4, <1>6, <3>1 DEF Sh!Memories
      <3> QED
        BY <1>6, <3>1, <3>2 DEF Sound, Waits
    <2> QED
      BY <2>1, <2>2, <2>3
  <1>10. Kept /\ decided' \in Decisions /\ Sh!Decided' = Sh!Decided
    BY <1>1, DecidedStays
  <1>11. Sh!AcceptedIsKept' /\ accepted' \subseteq Sh!Candles /\ Sh!NothingSkipped'
    BY <1>1, <1>9, <1>10, AcceptedStays, SkippedStays
  <1>12. Sh!Tracked \subseteq Sh!Tracked'
    BY <1>9, <1>10 DEF Sh!Tracked, Waits
  <1>13. CurrentIsDecided' /\ NothingPends'
    BY <1>1, <1>9, <1>10 DEF ShadowIInv, CurrentIsDecided, NothingPends
  <1>14. PageIsBehind'
    <2>1. mem'.cursor = mem.cursor /\ pc' = pc /\ page' = page /\ shot' = shot /\ readAs' = readAs
      BY <1>1, <1>9
    <2>2. pc \in {"exist", "merge"} =>
            \A i \in 1..page.rows : readAs[mem.cursor + i] \in Sh!Tracked' \cup Sh!Keys(page.items) \cup {0}
      BY <1>12 DEF ShadowIInv, PageIsBehind
    <2> QED
      BY <1>10, <2>1, <2>2 DEF ShadowIInv, PageIsBehind
  <1>15. Sh!OutcomeIsFirst'
    BY <1>1, OutcomesStay DEF Sh!market, ShadowIInv, Sh!TypeOK
  <1>16. SnapshotsShow' /\ Sh!CompletedIsDecided'
    BY <1>1, <1>6, <1>9, <1>10 DEF ShadowIInv, SnapshotsShow, Sh!CompletedIsDecided, Sh!market
  <1>17. Sh!TypeOK'
    <2>1. mem' \in Sh!Memories /\ Len(mem'.queue) <= Capacity
      BY <1>9 DEF Sound
    <2> QED
      BY <1>1, <1>10, <1>11, <2>1 DEF ShadowIInv, Sh!TypeOK, Sh!market
  <1> QED
    BY <1>9, <1>11, <1>13, <1>14, <1>15, <1>16, <1>17 DEF ShadowIInv

LEMMA EnsurePendingKeeps ==
  ASSUME Sh!ShadowAssumption, ShadowIInv, Sh!EnsurePending
  PROVE  ShadowIInv'
  <1>1. /\ UNCHANGED <<Sh!market, shot, inbox, Sh!worker, decided, trouble, Sh!history>>
        /\ outcome' = [k \in Sh!Candles |->
             IF k \in Sh!Decided /\ decided[k].side \in Sh!Sides /\ outcome[k] = "none" THEN Sh!Pending ELSE outcome[k]]
    BY DEF Sh!EnsurePending
  <1>2. outcome \in Outcomes
    BY DEF ShadowIInv, Sh!TypeOK, Outcomes
  <1>3. outcome' \in Outcomes
    BY <1>1, <1>2 DEF Outcomes
  <1>4. \A k \in Sh!Candles : outcome'[k] = outcome[k] \/ outcome'[k] = Sh!Pending
    BY <1>1
  <1>5. Sh!OutcomeIsFirst'
    <2>1. \A k \in Sh!Candles, c \in Sh!Candles : Sh!Settles(k, c)' = Sh!Settles(k, c)
      BY <1>1 DEF Sh!Settles, Sh!market
    <2>2. closed' = closed /\ decided' = decided
      BY <1>1 DEF Sh!market
    <2>3. Sh!Pending \notin Sh!Terminal /\ Sh!Pending # "EXPIRED"
      BY DEF Sh!Pending, Sh!Terminal
    <2>4. ASSUME NEW k \in Sh!Candles
          PROVE  (outcome'[k] = "EXPIRED" => outcome[k] = "EXPIRED")
                 /\ (outcome'[k] \in Sh!Terminal \ {"EXPIRED"} =>
                       outcome[k] \in Sh!Terminal \ {"EXPIRED"} /\ outcome'[k] = outcome[k])
      BY <1>4, <2>3
    <2>5. ASSUME NEW k \in Sh!Candles, outcome'[k] = "EXPIRED"
          PROVE  k + Horizon <= closed' /\ \A c \in Sh!Candles : ~Sh!Settles(k, c)'
      BY <2>1, <2>2, <2>4, <2>5 DEF ShadowIInv, Sh!OutcomeIsFirst
    <2>6. ASSUME NEW k \in Sh!Candles, outcome'[k] \in Sh!Terminal \ {"EXPIRED"}
          PROVE  \E c \in Sh!Candles : Sh!Settles(k, c)'
                   /\ outcome'[k] = Sh!Verdict(decided'[k].side, Market[c])
      BY <2>1, <2>2, <2>4, <2>6 DEF ShadowIInv, Sh!OutcomeIsFirst
    <2> QED
      BY <2>5, <2>6 DEF Sh!OutcomeIsFirst, Sh!Settles
  <1>6. SnapshotsShow'
    BY <1>1 DEF ShadowIInv, SnapshotsShow, Sh!market
  <1> QED
    BY <1>1, <1>3, <1>5, <1>6, OthersKeep DEF ShadowIInv, Sh!TypeOK, Sh!market

(* What the outcome worker finds is what the first candle says that hits.    *)
LEMMA ResultIs ==
  ASSUME Sh!ShadowAssumption,
         ShadowIInv, NEW k \in Sh!Candles, NEW r, r = Sh!Result(k, stored)
  PROVE  \/ r = Sh!Pending
         \/ r = "EXPIRED" /\ k + Horizon <= closed /\ \A c \in Sh!Candles : ~Sh!Settles(k, c)
         \/ r \in Sh!Terminal \ {"EXPIRED"}
            /\ \E c \in Sh!Candles : Sh!Settles(k, c) /\ r = Sh!Verdict(decided[k].side, Market[c])
  <1>1. PICK last : last = Sh!Least(k + Horizon, stored)
    OBVIOUS
  <1>2. PICK hits : hits = {c \in (k + 1)..last : Market[c] # "quiet"}
    OBVIOUS
  <1>3. PICK first : first = CHOOSE c \in hits : \A d \in hits : c <= d
    OBVIOUS
  <1>4. r = IF hits # {} THEN Sh!Verdict(decided[k].side, Market[first])
            ELSE IF last < k + Horizon THEN Sh!Pending ELSE "EXPIRED"
    BY <1>1, <1>2, <1>3 DEF Sh!Result
  <1>5. /\ k \in Nat /\ k > 0 /\ Horizon \in Nat /\ closed \in Nat /\ closed <= Sh!MaxCandle
        /\ stored \in Nat /\ stored <= closed /\ Sh!MaxCandle \in Nat
    BY Numbers DEF ShadowIInv, Sh!TypeOK
  <1>6. last \in Nat /\ last <= k + Horizon /\ last <= stored
    BY <1>1, <1>5 DEF Sh!Least
  <1>7. CASE hits # {}
    <2>1. hits \in SUBSET Nat
      BY <1>2, <1>5, <1>6
    <2>2. first \in hits /\ \A d \in hits : first <= d
      <3>1. \E c \in hits : \A d \in hits : c <= d
        BY <1>7, <2>1, LeastExists
      <3> QED
        BY <1>3, <3>1
    <2>3. first \in (k + 1)..last /\ Market[first] # "quiet"
      BY <1>2, <2>2
    <2>4. first \in Sh!Candles /\ first \in Nat /\ k < first /\ first <= last
      BY <1>5, <1>6, <2>3 DEF Sh!Candles
    <2>5. ASSUME NEW d \in Sh!Candles, k < d, d < first
          PROVE  Market[d] = "quiet"
      <3>1. d \in Nat
        BY Numbers
      <3>2. d \in (k + 1)..last /\ ~(first <= d)
        BY <1>5, <1>6, <2>4, <2>5, <3>1
      <3> QED
        BY <1>2, <2>2, <3>2
    <2>6. Sh!Settles(k, first)
      <3>1. first <= k + Horizon /\ first <= closed
        BY <1>5, <1>6, <2>4
      <3> QED
        BY <2>3, <2>4, <2>5, <3>1 DEF Sh!Settles
    <2>7. r = Sh!Verdict(decided[k].side, Market[first])
      BY <1>4, <1>7
    <2>8. r \in Sh!Terminal \ {"EXPIRED"}
      BY <2>7 DEF Sh!Verdict, Sh!Terminal
    <2> QED
      BY <2>4, <2>6, <2>7, <2>8
  <1>8. CASE hits = {} /\ last < k + Horizon
    BY <1>4, <1>8
  <1>9. CASE hits = {} /\ ~(last < k + Horizon)
    <2>1. r = "EXPIRED" /\ last = k + Horizon /\ k + Horizon <= closed
      BY <1>4, <1>5, <1>6, <1>9
    <2>2. ASSUME NEW c \in Sh!Candles, Sh!Settles(k, c)
          PROVE  FALSE
      <3>1. k < c /\ c <= k + Horizon /\ Market[c] # "quiet" /\ c \in Nat
        BY <2>2, Numbers DEF Sh!Settles
      <3>2. c \in (k + 1)..last
        BY <1>5, <2>1, <3>1
      <3> QED
        BY <1>2, <1>9, <3>1, <3>2
    <2> QED
      BY <2>1, <2>2
  <1> QED
    BY <1>7, <1>8, <1>9

LEMMA UpdateKeeps ==
  ASSUME Sh!ShadowAssumption, ShadowIInv, Sh!Update
  PROVE  ShadowIInv'
  <1>1. UNCHANGED <<Sh!market, shot, inbox, Sh!worker, decided, trouble, Sh!history>>
    BY DEF Sh!Update
  <1>2. PICK k \in Sh!Candles : outcome' = [outcome EXCEPT ![k] = Sh!Result(k, stored)]
    BY DEF Sh!Update, Sh!Listed
  <1>3. PICK r : r = Sh!Result(k, stored)
    OBVIOUS
  <1>4. \/ r = Sh!Pending
        \/ r = "EXPIRED" /\ k + Horizon <= closed /\ \A c \in Sh!Candles : ~Sh!Settles(k, c)
        \/ r \in Sh!Terminal \ {"EXPIRED"}
           /\ \E c \in Sh!Candles : Sh!Settles(k, c) /\ r = Sh!Verdict(decided[k].side, Market[c])
    BY <1>3, ResultIs
  <1>5. outcome \in Outcomes /\ outcome' = [outcome EXCEPT ![k] = r]
    BY <1>2, <1>3 DEF ShadowIInv, Sh!TypeOK, Outcomes
  <1>6. r \in Sh!Terminal \cup {"none", Sh!Pending}
    BY <1>4 DEF Sh!Terminal
  <1>7. outcome' \in Outcomes /\ outcome'[k] = r
           /\ \A j \in Sh!Candles \ {k} : outcome'[j] = outcome[j]
    BY <1>5, <1>6 DEF Outcomes
  <1>8. Sh!OutcomeIsFirst'
    <2>1. \A j \in Sh!Candles, c \in Sh!Candles : Sh!Settles(j, c)' = Sh!Settles(j, c)
      BY <1>1 DEF Sh!Settles, Sh!market
    <2>2. closed' = closed /\ decided' = decided
      BY <1>1 DEF Sh!market
    <2>3. Sh!Pending \notin Sh!Terminal /\ Sh!Pending # "EXPIRED"
             /\ "EXPIRED" \notin Sh!Terminal \ {"EXPIRED"}
      BY DEF Sh!Pending, Sh!Terminal
    <2>4. ASSUME NEW j \in Sh!Candles, outcome'[j] = "EXPIRED"
          PROVE  j + Horizon <= closed' /\ \A c \in Sh!Candles : ~Sh!Settles(j, c)'
      <3>1. CASE j = k
        BY <1>4, <1>7, <2>1, <2>2, <2>3, <2>4, <3>1
      <3>2. CASE j # k
        BY <1>7, <2>1, <2>2, <2>4, <3>2 DEF ShadowIInv, Sh!OutcomeIsFirst
      <3> QED
        BY <3>1, <3>2
    <2>5. ASSUME NEW j \in Sh!Candles, outcome'[j] \in Sh!Terminal \ {"EXPIRED"}
          PROVE  \E c \in Sh!Candles : Sh!Settles(j, c)'
                   /\ outcome'[j] = Sh!Verdict(decided'[j].side, Market[c])
      <3>1. CASE j = k
        BY <1>4, <1>7, <2>1, <2>2, <2>3, <2>5, <3>1
      <3>2. CASE j # k
        BY <1>7, <2>1, <2>2, <2>5, <3>2 DEF ShadowIInv, Sh!OutcomeIsFirst
      <3> QED
        BY <3>1, <3>2
    <2> QED
      BY <2>4, <2>5 DEF Sh!OutcomeIsFirst, Sh!Settles
  <1>9. SnapshotsShow'
    BY <1>1 DEF ShadowIInv, SnapshotsShow, Sh!market
  <1> QED
    BY <1>1, <1>7, <1>8, <1>9, OthersKeep DEF ShadowIInv, Sh!TypeOK, Sh!market

(* Live starts again: the snapshots and the two tables are all it has.       *)
LEMMA RestartKeeps ==
  ASSUME Sh!ShadowAssumption, ShadowIInv, Sh!Restart
  PROVE  ShadowIInv'
  <1>1. /\ Sh!Trouble /\ stored' = closed /\ held' = closed /\ inbox' = Sh!NoItem /\ mem' = Sh!Fresh
        /\ pc' = "start" /\ page' = Sh!NoPage /\ accepted' = {}
           /\ readAs' = [i \in DOMAIN readAs |-> 0]
        /\ UNCHANGED <<closed, shot, decided, outcome>>
    BY DEF Sh!Restart
  <1>2. /\ closed \in 0..Sh!MaxCandle /\ closed \in Nat /\ stored \in Nat /\ stored <= closed
        /\ trouble' \in 0..MaxTrouble /\ outcome \in Outcomes
        /\ shot \in Seq(Sh!Candles) /\ Len(shot) <= MaxSnapshot /\ Len(shot) \in Nat
        /\ readAs \in [1..MaxSnapshot -> 0..Sh!MaxCandle] /\ Sh!MaxCandle \in Nat
    BY <1>1, Numbers DEF ShadowIInv, Sh!TypeOK, Outcomes, Sh!Trouble
  <1>3. Kept /\ decided' \in Decisions /\ Sh!Decided' = Sh!Decided
    BY <1>1, DecidedStays
  <1>4. readAs' \in [1..MaxSnapshot -> 0..Sh!MaxCandle]
    BY <1>1, <1>2
  <1>5. /\ Sound(mem') /\ page' \in Sh!Pages /\ mem'.completed = {} /\ mem'.cursor = 0
        /\ mem'.current.key = 0
    BY <1>1, FreshIsSound DEF Sh!NoItem
  <1>6. Sh!TypeOK'
    <2>1. mem' \in Sh!Memories /\ Len(mem'.queue) <= Capacity
      BY <1>5 DEF Sound
    <2> QED
      BY <1>1, <1>2, <1>3, <1>4, <1>5, <2>1 DEF Sh!TypeOK, Decisions, Outcomes
  <1>7. CurrentIsDecided' /\ NothingPends' /\ Sh!CompletedIsDecided'
    BY <1>1, <1>5 DEF CurrentIsDecided, NothingPends, Sh!CompletedIsDecided
  <1>8. Sh!AcceptedIsKept' /\ Sh!NothingSkipped'
    BY <1>1, <1>5 DEF Sh!AcceptedIsKept, Sh!NothingSkipped
  <1>9. SnapshotsShow'
    BY <1>1, <1>2 DEF ShadowIInv, SnapshotsShow
  <1>10. PageIsBehind'
    BY <1>1, <1>2, <1>5 DEF PageIsBehind
  <1>11. Sh!OutcomeIsFirst'
    BY <1>1, <1>2, OutcomesStay
  <1> QED
    BY <1>5, <1>6, <1>7, <1>8, <1>9, <1>10, <1>11 DEF ShadowIInv

LEMMA InitHolds ==
  ASSUME Sh!ShadowAssumption,
         Sh!Init
  PROVE  ShadowIInv
  <1>1. /\ closed = 0 /\ stored = 0 /\ held = 0 /\ shot = <<>> /\ inbox = Sh!NoItem
        /\ mem = Sh!Fresh /\ pc = "start" /\ page = Sh!NoPage
        /\ decided = [k \in Sh!Candles |-> Sh!NoDecision] /\ outcome = [k \in Sh!Candles |-> "none"]
        /\ trouble = 0 /\ accepted = {} /\ readAs = [i \in 1..MaxSnapshot |-> 0]
    BY DEF Sh!Init
  <1>2. /\ Sound(mem) /\ page \in Sh!Pages /\ mem.completed = {} /\ mem.cursor = 0
           /\ mem.current.key = 0
    BY <1>1, FreshIsSound DEF Sh!NoItem
  <1>3. /\ closed \in 0..Sh!MaxCandle /\ stored \in 0..closed /\ held \in 0..stored
           /\ trouble \in 0..MaxTrouble
        /\ shot \in Seq(Sh!Candles) /\ Len(shot) = 0 /\ 0 <= MaxSnapshot
    BY <1>1, Numbers
  <1>4. decided \in Decisions /\ outcome \in Outcomes
           /\ readAs \in [1..MaxSnapshot -> 0..Sh!MaxCandle]
    BY <1>1, Numbers DEF Decisions, Outcomes, Sh!NoDecision
  <1>5. Sh!TypeOK
    BY <1>1, <1>2, <1>3, <1>4 DEF Sh!TypeOK, Sound, Decisions, Outcomes
  <1>6. CurrentIsDecided /\ NothingPends /\ Sh!CompletedIsDecided /\ Sh!AcceptedIsKept
           /\ Sh!NothingSkipped
    BY <1>1, <1>2
    DEF CurrentIsDecided, NothingPends, Sh!CompletedIsDecided, Sh!AcceptedIsKept, Sh!NothingSkipped
  <1>7. SnapshotsShow /\ PageIsBehind
    BY <1>1, <1>2, <1>3 DEF SnapshotsShow, PageIsBehind
  <1>8. Sh!OutcomeIsFirst
    BY <1>1 DEF Sh!OutcomeIsFirst, Sh!Terminal
  <1> QED
    BY <1>2, <1>5, <1>6, <1>7, <1>8 DEF ShadowIInv

LEMMA StutterKeeps ==
  ASSUME Sh!ShadowAssumption, ShadowIInv, UNCHANGED Sh!vars
  PROVE  ShadowIInv'
  <1>1. UNCHANGED <<Sh!market, shot, inbox, Sh!worker, decided, outcome, trouble, Sh!history>>
    BY DEF Sh!vars
  <1>2. Sh!OutcomeIsFirst' /\ SnapshotsShow'
    BY <1>1, OutcomesStay DEF ShadowIInv, Sh!TypeOK, Sh!market, SnapshotsShow
  <1> QED
    BY <1>1, <1>2, OthersKeep DEF ShadowIInv, Sh!TypeOK, Sh!market, Outcomes

(* ------------------------------- theorems -------------------------------- *)

LEMMA NextKeeps ==
  ASSUME Sh!ShadowAssumption, ShadowIInv, [Sh!Next]_(Sh!vars)
  PROVE  ShadowIInv'
  BY FeedKeeps, SubmitSnapshotKeeps, StartKeeps, LoadKeeps, FilterKeeps, ExistKeeps, MergeKeeps,
     ReadFailsKeeps, ProcessKeeps, CompletesKeeps, ProcessFailsKeeps, EnsurePendingKeeps,
     UpdateKeeps, RestartKeeps, StutterKeeps, Zenon
  DEF Sh!Next

(* The invariant of the shadow workers: services/shadow_service.py.          *)
THEOREM ShadowInvariance ==
  ASSUME Sh!ShadowAssumption PROVE Sh!Spec => []ShadowIInv
  BY InitHolds, NextKeeps, PTL DEF Sh!Spec

(* CandlesAreKept, for any market, capacities and bounds: what the worker    *)
(* accepted, passed with its cursor or takes for completed is decided or on  *)
(* its way, and an outcome that is settled is that of the first candle that  *)
(* hits.                                                                     *)
THEOREM CandlesStayKept ==
  ASSUME Sh!ShadowAssumption PROVE Sh!Spec => []Sh!CandlesAreKept
  <1>1. ShadowIInv => Sh!CandlesAreKept
    BY DEF ShadowIInv, Sh!CandlesAreKept
  <1> QED
    BY <1>1, ShadowInvariance, PTL

(* DecisionsAreFinal: persist of shadow_service.py never replaces a row.     *)
THEOREM DecisionsStayFinal ==
  ASSUME Sh!ShadowAssumption PROVE Sh!Spec => Sh!DecisionsAreFinal
  <1>1. ASSUME ShadowIInv, [Sh!Next]_(Sh!vars)
        PROVE  [\A k \in Sh!Decided : decided'[k] = decided[k]]_decided
    <2>1. CASE UNCHANGED decided
      BY <2>1
    <2>2. CASE ~(UNCHANGED decided)
      <3>1. Sh!Process \/ Sh!ProcessFails
        BY <1>1, <2>2
        DEF Sh!Next, Sh!vars, Sh!CandleCloses, Sh!StoreCandle, Sh!HoldCandles, Sh!Capture, Sh!Submit,
            Sh!Start, Sh!Timeout, Sh!Load, Sh!Filter, Sh!Exist, Sh!Merge, Sh!ReadFails,
            Sh!Completes, Sh!EnsurePending, Sh!Update, Sh!Restart
      <3>2. PICK k, row : Sh!Persist(k, row)
        BY <2>2, <3>1 DEF Sh!Process, Sh!ProcessFails
      <3> QED
        BY <3>2 DEF Sh!Persist, Sh!Decided
    <2> QED
      BY <2>1, <2>2
  <1> QED
    BY <1>1, ShadowInvariance, PTL DEF Sh!Spec, Sh!DecisionsAreFinal
===============================================================================
