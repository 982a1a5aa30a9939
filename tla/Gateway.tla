------------------------------- MODULE Gateway -------------------------------
(* mt5/gateway.py: the tasks of one Live process share one MT5 session       *)
(* through an asyncio.Lock; the synchronous MT5 functions run in executor    *)
(* threads, which a cancelled await does not stop.                           *)
(*                                                                           *)
(* Code between two awaits is one step.  services/live.py supplies the       *)
(* tasks: workers that call, shut down and reconnect, and that stop()        *)
(* cancels; the diagnostic, which it does not; and the engine itself, which  *)
(* shuts the gateway down when every worker is gone.                         *)
CONSTANTS
  Workers,      \* tasks in LiveDataEngine._tasks
  Diagnostic,   \* a request of live_history_diagnostic
  Engine,       \* LiveDataEngine.stop
  NoTask        \* no task: the lock is not held

Tasks == Workers \cup {Diagnostic, Engine}

ASSUME GatewayAssumption ==
  /\ Diagnostic # Engine
  /\ Diagnostic \notin Workers
  /\ Engine \notin Workers
  /\ NoTask \notin Tasks

VARIABLES
  pc,          \* pc[t]: where task t stands in a gateway method
  method,      \* method[t]: the method it is in
  lock,        \* the task that holds _lock
  ahead,       \* ahead[t]: the tasks before t in asyncio.Lock._waiters
  thread,      \* thread[t]: the executor job t submitted last
  connected,   \* MT5Gateway._connected
  session,     \* MT5Connection._connected: the MT5 library is initialized
  stopping     \* LiveDataEngine._stop

vars == <<pc, method, lock, ahead, thread, connected, session, stopping>>

(* "woken": a waiter whose future is done and which has not run yet.         *)
Places == {"idle", "waiting", "woken", "running", "gone"}
Methods == {"call", "connect", "shutdown"}
Jobs == {"none", "queued", "inside", "done", "raised"}

TypeOK ==
  /\ pc \in [Tasks -> Places]
  /\ method \in [Tasks -> Methods]
  /\ lock \in Tasks \cup {NoTask}
  /\ ahead \in [Tasks -> SUBSET Tasks]
  /\ thread \in [Tasks -> Jobs]
  /\ connected \in BOOLEAN
  /\ session \in BOOLEAN
  /\ stopping \in BOOLEAN

Init ==
  /\ pc = [t \in Tasks |-> "idle"]
  /\ method = [t \in Tasks |-> "call"]
  /\ lock = NoTask
  /\ ahead = [t \in Tasks |-> {}]
  /\ thread = [t \in Tasks |-> "none"]
  /\ connected = FALSE
  /\ session = FALSE
  /\ stopping = FALSE
------------------------------------------------------------------------------
Waiting == {t \in Tasks : pc[t] \in {"waiting", "woken"}}

(* The lock is free for a newcomer: nobody holds it and nobody waits, a      *)
(* woken waiter included.                                                    *)
Free == lock = NoTask /\ Waiting = {}

(* Mutant: a call looks at neither flag.                                     *)
SubmitsUnchecked(m) == m = "call" \/ (m = "shutdown" /\ connected)
                       \/ (m = "connect" /\ ~connected)

(* What a method does once it has the lock, up to its next await: submit the *)
(* job, or return (or raise) at once.  The api property also looks at the    *)
(* connection's own flag.                                                    *)
Submits(m) == CASE m = "call" -> connected /\ session
                [] m = "connect" -> ~connected
                [] m = "shutdown" -> connected

(* Mutant: a place no reader knows.                                          *)
LeftUnknown(t) == "finished"

(* The place of a task that leaves a gateway method.                         *)
Left(t) == IF t = Engine THEN "gone" ELSE "idle"

(* Mutant: the job is submitted without waiting for the lock.                *)
AcquireWithoutWaiting(t, m) ==
  /\ lock' = IF Submits(m) THEN t ELSE lock
  /\ thread' = [thread EXCEPT ![t] = IF Submits(m) THEN "queued" ELSE @]
  /\ pc' = [pc EXCEPT ![t] = IF Submits(m) THEN "running" ELSE Left(t)]
  /\ UNCHANGED ahead

(* _acquire by a newcomer.                                                   *)
Acquire(t, m) ==
  IF ~Free
  THEN /\ ahead' = [ahead EXCEPT ![t] = Waiting]
       /\ pc' = [pc EXCEPT ![t] = "waiting"]
       /\ UNCHANGED <<lock, thread>>
  ELSE IF Submits(m)
  THEN /\ lock' = t
       /\ thread' = [thread EXCEPT ![t] = "queued"]
       /\ pc' = [pc EXCEPT ![t] = "running"]
       /\ UNCHANGED ahead
  ELSE /\ pc' = [pc EXCEPT ![t] = Left(t)]
       /\ UNCHANGED <<lock, ahead, thread>>

Enter(t, m) ==
  /\ pc[t] = "idle"
  /\ method' = [method EXCEPT ![t] = m]
  /\ Acquire(t, m)
  /\ UNCHANGED <<connected, session, stopping>>

(* call and call_timed; connect and shutdown of the reconnection.            *)
WorkerEnters(w) == ~stopping /\ \E m \in Methods : Enter(w, m)

(* Mutant: only the lock is looked at.                                       *)
CallIfIdleUnlessLocked ==
  /\ lock = NoTask
  /\ Enter(Diagnostic, "call")

(* call_if_idle raises MT5GatewayBusyError, and so does nothing, unless the  *)
(* lock is free and nobody waits (_waiting_calls).                           *)
CallIfIdle ==
  /\ lock = NoTask
  /\ Waiting = {}
  /\ Enter(Diagnostic, "call")
------------------------------------------------------------------------------
(* Lock.release wakes the first waiter, which still has to run.              *)
Woken(places, before) ==
  [t \in Tasks |-> IF places[t] = "waiting" /\ before[t] = {} THEN "woken" ELSE places[t]]

Without(t) == [u \in Tasks |-> ahead[u] \ {t}]

(* stop() cancels all workers at once: none goes on where it awaits.         *)
Cancelled(t) == stopping /\ t \in Workers

(* A woken waiter takes the lock, and submits its job or releases at once.   *)
TakeLock(t) ==
  /\ pc[t] = "woken" /\ ~Cancelled(t)
  /\ ahead' = Without(t)
  /\ IF Submits(method[t])
     THEN /\ lock' = t
          /\ thread' = [thread EXCEPT ![t] = "queued"]
          /\ pc' = [pc EXCEPT ![t] = "running"]
     ELSE /\ pc' = Woken([pc EXCEPT ![t] = Left(t)], Without(t))
          /\ UNCHANGED <<lock, thread>>
  /\ UNCHANGED <<method, connected, session, stopping>>

(* An executor thread picks the job up and enters the MT5 library.           *)
JobStarts(t) ==
  /\ thread[t] = "queued"
  /\ thread' = [thread EXCEPT ![t] = "inside"]
  /\ UNCHANGED <<pc, method, lock, ahead, connected, session, stopping>>

(* The job returns or raises.  MT5Connection.connect and shutdown set the    *)
(* session; a failed connect shuts the library down again.                   *)
JobEnds(t) ==
  /\ thread[t] = "inside"
  /\ \E outcome \in {"done", "raised"} :
       /\ thread' = [thread EXCEPT ![t] = outcome]
       /\ session /\ method[t] = "connect" => outcome = "done"   \* already connected
       /\ session' = CASE method[t] = "connect" -> outcome = "done"
                       [] method[t] = "shutdown" /\ outcome = "done" -> FALSE
                       [] OTHER -> session
  /\ UNCHANGED <<pc, method, lock, ahead, connected, stopping>>

(* Mutant: the release is not in a finally.                                  *)
ResumeKeepsLockOnError(t) ==
  /\ pc[t] = "running" /\ ~Cancelled(t)
  /\ thread[t] \in {"done", "raised"}
  /\ connected' = CASE thread[t] = "done" /\ method[t] = "connect"  -> TRUE
                    [] thread[t] = "done" /\ method[t] = "shutdown" -> FALSE
                    [] OTHER -> connected
  /\ lock' = IF thread[t] = "done" THEN NoTask ELSE lock
  /\ thread' = [thread EXCEPT ![t] = "none"]
  /\ pc' = IF thread[t] = "done"
           THEN Woken([pc EXCEPT ![t] = Left(t)], ahead)
           ELSE [pc EXCEPT ![t] = Left(t)]
  /\ UNCHANGED <<method, ahead, session, stopping>>

(* The awaiting task resumes, sets _connected and releases the lock.         *)
Resume(t) ==
  /\ pc[t] = "running" /\ ~Cancelled(t)
  /\ thread[t] \in {"done", "raised"}
  /\ connected' = CASE thread[t] = "done" /\ method[t] = "connect"  -> TRUE
                    [] thread[t] = "done" /\ method[t] = "shutdown" -> FALSE
                    [] OTHER -> connected
  /\ lock' = NoTask
  /\ thread' = [thread EXCEPT ![t] = "none"]
  /\ pc' = Woken([pc EXCEPT ![t] = Left(t)], ahead)
  /\ UNCHANGED <<method, ahead, session, stopping>>
------------------------------------------------------------------------------
(* LiveDataEngine.stop.                                                      *)
Stop ==
  /\ ~stopping
  /\ stopping' = TRUE
  /\ UNCHANGED <<pc, method, lock, ahead, thread, connected, session>>

(* Mutant: the lock is not released by a cancellation.                       *)
CancelKeepsLock(w) ==
  /\ Cancelled(w)
  /\ pc[w] # "gone"
  /\ ahead' = Without(w)
  /\ thread' = [thread EXCEPT ![w] = IF @ = "inside" THEN @ ELSE "none"]
  /\ pc' = [pc EXCEPT ![w] = "gone"]
  /\ UNCHANGED <<lock, method, connected, session, stopping>>

(* The cancellation of a worker reaches it where it stands.  A job not yet   *)
(* started is dropped; one inside MT5 runs on, and the lock is released.     *)
Cancel(w) ==
  /\ Cancelled(w)
  /\ pc[w] # "gone"
  /\ ahead' = Without(w)
  /\ lock' = IF lock = w THEN NoTask ELSE lock
  /\ thread' = [thread EXCEPT ![w] = IF @ = "inside" THEN @ ELSE "none"]
  /\ LET places == [pc EXCEPT ![w] = "gone"]
     IN pc' = IF pc[w] \in {"woken", "running"} THEN Woken(places, Without(w)) ELSE places
  /\ UNCHANGED <<method, connected, session, stopping>>

(* Every worker is gone: stop() shuts the gateway down.                      *)
EngineShutsDown ==
  /\ stopping
  /\ \A w \in Workers : pc[w] = "gone"
  /\ Enter(Engine, "shutdown")

Progress(t) == TakeLock(t) \/ JobStarts(t) \/ JobEnds(t) \/ Resume(t)

Next ==
  \/ \E w \in Workers : WorkerEnters(w) \/ Cancel(w)
  \/ CallIfIdle
  \/ \E t \in Tasks : Progress(t)
  \/ Stop
  \/ EngineShutsDown

Spec == Init /\ [][Next]_vars

(* The event loop runs what is ready, executor threads run, MT5 functions    *)
(* return, and a cancellation is delivered.                                  *)
FairSpec ==
  /\ Spec
  /\ \A t \in Tasks : WF_vars(Progress(t))
  /\ \A w \in Workers : WF_vars(Cancel(w))
  /\ WF_vars(EngineShutsDown)
------------------------------------------------------------------------------
Inside == {t \in Tasks : thread[t] = "inside"}

(* One MT5 call at a time, as long as the engine is not being stopped.       *)
OneCallAtATime ==
  ~stopping => \A t, u \in Inside : t = u

(* No MT5 read or order runs on a closed session while the engine runs: the  *)
(* flag a call checks and the session it uses never disagree under the lock. *)
CallsHaveSession ==
  ~stopping => \A t \in Inside : method[t] = "call" => session

(* What makes the two properties above inductive: the lock belongs to the    *)
(* task that runs, a job to the task that submitted it, a woken waiter is    *)
(* the only one, and _connected follows the session while the lock is held.  *)
LockIsHeld == \A t \in Tasks : pc[t] = "running" <=> lock = t
JobsAreOwned == \A t \in Tasks : thread[t] # "none" => pc[t] \in {"running", "gone"}
NobodyIsGone == ~stopping => pc[Engine] = "idle" /\ \A t \in Tasks : pc[t] # "gone"
WokenIsFirst == \A t \in Tasks : pc[t] = "woken" => lock = NoTask /\ ahead[t] = {}
WaitersAreOrdered ==
  \A t, u \in Waiting : t = u \/ t \in ahead[u] \/ u \in ahead[t]
HolderIsRight ==
  ~stopping => \A t \in Tasks :
    pc[t] = "running" => (connected <=> method[t] # "connect")
FlagFollowsSession ==
  ~stopping =>
    /\ connected => session \/ \E t \in Tasks : lock = t /\ method[t] = "shutdown" /\ thread[t] = "done"
    /\ \A t \in Tasks : lock = t /\ method[t] = "connect" /\ thread[t] = "done" => session

IInv ==
  /\ TypeOK
  /\ LockIsHeld
  /\ JobsAreOwned
  /\ NobodyIsGone
  /\ WokenIsFirst
  /\ WaitersAreOrdered
  /\ HolderIsRight
  /\ FlagFollowsSession

(* Opportunistic diagnostics never queue, ahead of or behind polling work.   *)
DiagnosticNeverWaits == pc[Diagnostic] \notin {"waiting", "woken"}

(* Every task that waits for the gateway gets through or is cancelled, and   *)
(* the lock is never lost.                                                   *)
WaitersAreServed == \A t \in Tasks : pc[t] \in {"waiting", "woken"} ~> pc[t] \in {"idle", "running", "gone"}

(* A stop always comes to the end of the gateway's shutdown.                 *)
StopCompletes == stopping ~> pc[Engine] = "gone"

(* What the documentation promises without the exception of a stop.          *)
EveryCallSerialized == \A t, u \in Inside : t = u

(* No task waits for the gateway for ever, a stop included.                  *)
CallsComeToAnEnd == WaitersAreServed /\ StopCompletes

(* What holds in every state: until a stop one MT5 function runs at a time,  *)
(* and on an initialized session; the diagnostic never queues.               *)
CallsAreSound == TypeOK /\ OneCallAtATime /\ CallsHaveSession /\ DiagnosticNeverWaits
==============================================================================
