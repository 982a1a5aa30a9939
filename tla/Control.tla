------------------------------- MODULE Control -------------------------------
(* services/control.py and services/control_ipc.py: the Control process,     *)
(* which carries out the operator's commands.  They come as Telegram updates *)
(* that one loop handles in order, and as web requests that the API sends    *)
(* through a named pipe; one thread accepts those, each becomes a coroutine  *)
(* of the same event loop.  Supervisor has the details of the two processes  *)
(* that Control starts and stops, the API and Live.                          *)
(*                                                                           *)
(* A step of the event loop ends at an await; between the effect of a        *)
(* command and its record only the end of the process can intervene.         *)
EXTENDS Naturals, Sequences, FiniteSets, SequencesExt

CONSTANTS
  Scripts,     \* what the operator asks: [web : Seq(command), telegram : Seq(command)]
  MaxSends,    \* bound: times that a web operation is sent
  MaxSpawns,   \* bound: Live processes
  MaxTrouble   \* bound: crashes, failed calls and timeouts

WebCommands == {"start", "stop", "restart", "demo_on", "demo_off"}
Lifecycle == {"start", "stop", "restart"}

ASSUME ControlAssumption ==
  /\ \A s \in Scripts : s.web \in Seq(WebCommands) /\ s.telegram \in Seq(WebCommands \cup {"foreign"})
  /\ {MaxSends, MaxSpawns, MaxTrouble} \subseteq Nat

VARIABLES
  asked,      \* the script of this behaviour
  caller,     \* what each web operation's sender waits for, or was told
  sends,      \* times it was sent
  serving,    \* the request that the IPC thread waits for
  up,         \* the Control process runs
  lock,       \* _operation_lock: its holder, and who waits, in order
  run,        \* progress of the holder
  loop,       \* where the Telegram loop is
  offset,     \* _offset and the number in its file
  telegram,   \* Telegram: updates sent, and those that it considers read
  audited,    \* control_audit: the web operations it has
  armed,      \* the switch of the demo execution
  live, api,  \* the supervised processes
  rows,       \* health rows and snapshot pair: who wrote them, and when
  trouble,
  ran,        \* history: times each web operation and each update was carried out
  stopped     \* history: a stop has succeeded, and no start has spawned Live since

senders == <<caller, sends, serving>>
records == <<audited, armed>>
children == <<live, api, rows>>
history == <<ran, stopped>>
vars == <<asked, senders, up, lock, run, loop, offset, telegram, records, children, trouble, history>>

Ops == DOMAIN asked.web
Updates == DOMAIN asked.telegram
Nobody == <<"nobody", 0, 0>>
Web(o) == <<"web", o, sends[o]>>
Tg(u) == <<"telegram", u, 0>>
CommandOf(x) == IF x[1] = "web" THEN asked.web[x[2]] ELSE asked.telegram[x[2]]

\* "foreign" and "base" are histories: the Live process that a start has found
\* running, and the last one that its restart has stopped.
Idle == [stage |-> "idle", spawned |-> FALSE, late |-> FALSE, saw |-> FALSE, ready |-> FALSE, foreign |-> 0, base |-> 0]
Booting == [at |-> "boot", next |-> 1, last |-> 0, recent |-> {}]
NoRows == [by |-> 0, fresh |-> FALSE, linked |-> FALSE]

Places == {"boot", "monitor", "fetch", "handle", "locked", "done"}
Stages == {"idle", "entered", "mt5", "health", "spawn", "verify", "probe", "done"}
Runs == [stage : Stages, spawned : BOOLEAN, late : BOOLEAN, saw : BOOLEAN, ready : BOOLEAN,
         foreign : 0..MaxSpawns, base : 0..MaxSpawns]
Lives == [inst : 0..MaxSpawns, up : BOOLEAN, wanted : BOOLEAN, watched : BOOLEAN]
Apis == [up : BOOLEAN, watched : BOOLEAN]
Evidences == [by : 0..MaxSpawns, fresh : BOOLEAN, linked : BOOLEAN]
Entries == {<<"web", o, k>> : o \in Ops, k \in 1..MaxSends} \cup {Tg(u) : u \in Updates}

TypeOK ==
  /\ asked \in Scripts
  /\ caller \in [Ops -> {"idle", "connecting", "waiting", "ok", "duplicate", "failed"}]
  /\ sends \in [Ops -> 0..MaxSends]
  /\ serving = Nobody \/ \E o \in Ops, k \in 1..MaxSends : serving = <<"web", o, k>>
  /\ up \in BOOLEAN
  /\ lock \in Seq(Entries)
  /\ run \in Runs
  /\ loop \in [at : Places, next : Nat, last : Nat, recent : SUBSET WebCommands]
  /\ offset \in [memory : Nat, file : Nat]
  /\ telegram \in [sent : 0..Len(asked.telegram), read : 0..Len(asked.telegram)]
  /\ audited \subseteq Ops
  /\ armed \in BOOLEAN
  /\ live \in Lives
  /\ api \in Apis
  /\ rows \in Evidences
  /\ trouble \in 0..MaxTrouble
  /\ ran \in [web : [Ops -> Nat], telegram : [Updates -> Nat]]
  /\ stopped \in BOOLEAN

Init ==
  /\ asked \in Scripts
  /\ caller = [o \in Ops |-> "idle"] /\ sends = [o \in Ops |-> 0] /\ serving = Nobody
  /\ up = TRUE /\ lock = <<>> /\ run = Idle /\ loop = Booting
  /\ offset = [memory |-> 1, file |-> 1] /\ telegram = [sent |-> 0, read |-> 0]
  /\ audited = {} /\ armed = FALSE
  /\ live = [inst |-> 0, up |-> FALSE, wanted |-> FALSE, watched |-> FALSE]
  /\ api = [up |-> FALSE, watched |-> FALSE]
  /\ rows = NoRows
  /\ trouble = 0
  /\ ran = [web |-> [o \in Ops |-> 0], telegram |-> [u \in Updates |-> 0]]
  /\ stopped = FALSE

Trouble == trouble < MaxTrouble /\ trouble' = trouble + 1

\* No coroutine is between the effect of its command and the record of it.
LoopFree == up /\ run.stage # "done" /\ loop.at # "done"
Holder == Head(lock)
Holds(stage) == LoopFree /\ lock # <<>> /\ run.stage = stage
Command == CommandOf(Holder)
-------------------------------------------------------------------------------
(* The supervisor, as Control sees it.                                       *)

\* status() drops the child of a process that has ended: monitor_once, which
\* restarts only children, passes it over from then on.
Noted(p) == [p EXCEPT !.watched = @ /\ p.up]
NotesBoth == live' = Noted(live) /\ api' = Noted(api)

Spawned(l) == [inst |-> l.inst + 1, up |-> TRUE, wanted |-> TRUE, watched |-> TRUE]
\* Mutant: a stop forgets that Live is not wanted.
StoppedOnly(l) == [l EXCEPT !.up = FALSE]
Stopped(l) == [l EXCEPT !.up = FALSE, !.wanted = FALSE, !.watched = FALSE]

\* Mutant: without the limit of restarts.
RestartedWithoutLimit(l) == IF l.watched /\ ~l.up /\ l.wanted THEN Spawned(l) ELSE l

\* monitor_once for Live.
Restarted(l) ==
  IF l.watched /\ ~l.up /\ l.wanted /\ l.inst < MaxSpawns THEN Spawned(l) ELSE l

LiveCrashes ==
  /\ live.up /\ Trouble
  /\ live' = [live EXCEPT !.up = FALSE]
  /\ UNCHANGED <<asked, senders, up, lock, run, loop, offset, telegram, records, api, rows, history>>

\* With the API end its threads that wait for an answer.
ApiCrashes ==
  /\ api.up /\ Trouble
  /\ api' = [api EXCEPT !.up = FALSE]
  /\ caller' = [o \in Ops |-> IF caller[o] \in {"connecting", "waiting"} THEN "failed" ELSE caller[o]]
  /\ UNCHANGED <<asked, sends, serving, up, lock, run, loop, offset, telegram, records, live, rows, history>>

\* Live has written its health row, that of MT5, and a market snapshot with its
\* risk snapshot, in one transaction; or a risk snapshot alone, to which no
\* market snapshot belongs.
LiveReports ==
  /\ live.up
  /\ \/ rows' = [by |-> live.inst, fresh |-> TRUE, linked |-> TRUE]
     \/ rows' = [rows EXCEPT !.linked = FALSE]
  /\ UNCHANGED <<asked, senders, up, lock, run, loop, offset, telegram, records, live, api, trouble, history>>
-------------------------------------------------------------------------------
(* Web requests: the caller in the API, the thread that serves the pipe, and *)
(* the coroutine that waits for the lock.                                    *)

\* A click, or the same operation sent again after an error.
Send(o) ==
  /\ api.up /\ caller[o] \in {"idle", "failed"} /\ sends[o] < MaxSends
  /\ caller' = [caller EXCEPT ![o] = "connecting"]
  /\ sends' = [sends EXCEPT ![o] = @ + 1]
  /\ UNCHANGED <<asked, serving, up, lock, run, loop, offset, telegram, records, children, trouble, history>>

\* The pipe has one instance: who finds it taken for too long gives up.
Refused(o) ==
  /\ caller[o] = "connecting" /\ (serving # Nobody \/ ~up)
  /\ caller' = [caller EXCEPT ![o] = "failed"]
  /\ UNCHANGED <<asked, sends, serving, up, lock, run, loop, offset, telegram, records, children, trouble, history>>

\* _serve: the request's coroutine enters the queue of the lock.
Accept(o) ==
  /\ up /\ serving = Nobody /\ caller[o] = "connecting"
  /\ caller' = [caller EXCEPT ![o] = "waiting"]
  /\ serving' = Web(o)
  /\ lock' = Append(lock, Web(o))
  /\ run' = IF lock = <<>> THEN [Idle EXCEPT !.stage = "entered"] ELSE run
  /\ UNCHANGED <<asked, sends, up, loop, offset, telegram, records, children, trouble, history>>

\* future.result times out; the coroutine goes on.
ServerGivesUp ==
  /\ serving # Nobody /\ Trouble
  /\ caller' = [caller EXCEPT ![serving[2]] = "failed"]
  /\ serving' = Nobody
  /\ UNCHANGED <<asked, sends, up, lock, run, loop, offset, telegram, records, children, history>>

\* The caller's poll times out.
CallerGivesUp(o) ==
  /\ caller[o] = "waiting" /\ Trouble
  /\ caller' = [caller EXCEPT ![o] = "failed"]
  /\ UNCHANGED <<asked, sends, serving, up, lock, run, loop, offset, telegram, records, children, history>>

\* A status request: it takes no lock and changes what the supervisor watches.
Status ==
  /\ LoopFree /\ serving = Nobody /\ api.up
  /\ NotesBoth
  /\ UNCHANGED <<asked, senders, up, lock, run, loop, offset, telegram, records, rows, trouble, history>>

-------------------------------------------------------------------------------
(* The holder of the lock.                                                   *)

\* Mutant: who waits is not woken.
ReleaseAlone == lock' = Tail(lock) /\ run' = Idle

\* The lock goes to the next in the queue.
Release ==
  /\ lock' = Tail(lock)
  /\ run' = IF Len(lock) > 1 THEN [Idle EXCEPT !.stage = "entered"] ELSE Idle

Answer(what) ==
  IF serving = Holder
  THEN /\ caller' = [caller EXCEPT ![Holder[2]] = IF @ = "waiting" THEN what ELSE @]
       /\ serving' = Nobody /\ UNCHANGED sends
  ELSE UNCHANGED senders

Carried ==
  ran' = IF Holder[1] = "web" THEN [ran EXCEPT !.web[Holder[2]] = @ + 1]
         ELSE [ran EXCEPT !.telegram[Holder[2]] = @ + 1]

\* Mutant: an operation is known when its answer has arrived.
KnownByAnswer == Holder[1] = "web" /\ caller[Holder[2]] = "ok"

\* The audit has the operation already.
Known == Holder[1] = "web" /\ Holder[2] \in audited

Duplicate ==
  /\ Holds("entered") /\ Known
  /\ Answer("duplicate") /\ Release
  /\ UNCHANGED <<asked, up, loop, offset, telegram, records, children, trouble, history>>

Ends == run' = [run EXCEPT !.stage = "done"]

\* _demo_on and _demo_off of the web.
SwitchDemo ==
  /\ Holds("entered") /\ ~Known /\ Command \in {"demo_on", "demo_off"}
  /\ armed' = (Command = "demo_on")
  /\ Ends /\ Carried
  /\ UNCHANGED <<asked, senders, up, lock, loop, offset, telegram, audited, children, trouble, stopped>>

\* _start_infrastructure_locked up to the first await: what was written before
\* does not count.
Boundary == rows' = [rows EXCEPT !.fresh = FALSE]

StartEnters ==
  /\ Holds("entered") /\ ~Known /\ Command = "start"
  /\ Boundary /\ NotesBoth
  /\ run' = [run EXCEPT !.stage = "mt5"] /\ Carried
  /\ UNCHANGED <<asked, senders, up, lock, loop, offset, telegram, records, trouble, stopped>>

\* _stop_infrastructure_locked: the processes of Live may survive.
StopEnters ==
  /\ Holds("entered") /\ ~Known /\ Command = "stop"
  /\ \/ live' = Stopped(live) /\ UNCHANGED trouble
     \/ live.up /\ Trouble /\ live' = [live EXCEPT !.wanted = FALSE]
  /\ api' = Noted(api)
  /\ stopped' = (~live'.up /\ api.up)
  /\ Ends /\ Carried
  /\ UNCHANGED <<asked, senders, up, lock, loop, offset, telegram, records, rows>>

\* _restart_infrastructure_locked: the stop must be verified before the start.
RestartEnters ==
  /\ Holds("entered") /\ ~Known /\ Command = "restart"
  /\ \/ live' = Stopped(live) /\ UNCHANGED trouble
     \/ live.up /\ Trouble /\ live' = [live EXCEPT !.wanted = FALSE]
  /\ api' = Noted(api) /\ Carried
  /\ IF ~live'.up /\ api.up
     THEN /\ run' = [run EXCEPT !.stage = "mt5", !.base = live.inst]
          /\ Boundary /\ stopped' = TRUE
     ELSE Ends /\ stopped' = FALSE /\ UNCHANGED rows
  /\ UNCHANGED <<asked, senders, up, lock, loop, offset, telegram, records>>

\* ensure_ready returns; a failure ends the start before it touches Live.
Mt5Ready ==
  /\ Holds("mt5")
  /\ \/ run' = [run EXCEPT !.stage = "health"] /\ UNCHANGED trouble
     \/ Trouble /\ Ends
  /\ NotesBoth
  /\ UNCHANGED <<asked, senders, up, lock, loop, offset, telegram, records, rows, history>>

\* _monitoring_is_healthy, behind the probe of the API: the rows it accepts
\* may be those of an earlier process, as long as they are recent.
AlreadyRuns ==
  /\ Holds("health")
  /\ live.up /\ live.wanted /\ api.up /\ rows.by # 0
  /\ Ends /\ NotesBoth
  /\ UNCHANGED <<asked, senders, up, lock, loop, offset, telegram, records, rows, trouble, history>>

NotHealthy ==
  /\ Holds("health")
  /\ run' = [run EXCEPT !.stage = "spawn"] /\ NotesBoth
  /\ UNCHANGED <<asked, senders, up, lock, loop, offset, telegram, records, rows, trouble, history>>

\* Mutant: every start counts Live as its own.
OwnAlways(l) == TRUE
\* _start_spawned_by_request.
Own(l) == ~l.up

\* The API and Live are started, if they do not run.  A start that finds no API
\* ends there; a Live that cannot be verified is stopped again, when this start
\* has spawned it.
SpawnChildren ==
  /\ Holds("spawn")
  /\ \/ /\ live.up \/ live.inst < MaxSpawns
        /\ live' = IF live.up THEN [live EXCEPT !.wanted = TRUE] ELSE Spawned(live)
        /\ api' = [up |-> TRUE, watched |-> api.watched \/ ~api.up]
        /\ run' = [run EXCEPT !.stage = "verify", !.spawned = Own(live),
                              !.foreign = IF live.up THEN live.inst ELSE 0]
        /\ stopped' = FALSE /\ UNCHANGED trouble
     \/ /\ Trouble /\ Ends /\ (live.up \/ live.inst < MaxSpawns)
        /\ live' = IF Own(live) THEN Stopped([live EXCEPT !.inst = IF live.up THEN @ ELSE @ + 1])
                   ELSE [live EXCEPT !.wanted = TRUE]
        /\ api' = [up |-> TRUE, watched |-> api.watched \/ ~api.up]
        /\ UNCHANGED stopped
     \/ /\ Trouble /\ Ends
        /\ live' = Noted(live) /\ api' = [up |-> FALSE, watched |-> FALSE] /\ ~api.up
        /\ UNCHANGED stopped
     \/ /\ ~live.up /\ live.inst = MaxSpawns    \* the bound
        /\ Ends /\ NotesBoth /\ UNCHANGED <<stopped, trouble>>
  /\ UNCHANGED <<asked, senders, up, lock, loop, offset, telegram, records, rows, ran>>

\* _wait_for_startup_verification: status() first, then the probe of the API,
\* then the rows.
VerifyReads ==
  /\ Holds("verify")
  /\ run' = [run EXCEPT !.stage = "probe", !.saw = live.up /\ live.wanted]
  /\ NotesBoth
  /\ UNCHANGED <<asked, senders, up, lock, loop, offset, telegram, records, rows, trouble, history>>

\* _latest_service_state of Live and of MT5: nothing from before the boundary.
Reported == rows.fresh

\* _select_snapshot_context: the latest market and risk snapshots belong
\* together, as only one transaction can write them, and are of this start.
Coherent == rows.fresh /\ rows.linked

\* Mutant: the boundary of this start is not asked for.
EvidenceOfAnyAge == rows.by # 0 /\ rows.linked

Evidence == Reported /\ Coherent

Verified ==
  /\ Holds("probe") /\ run.saw /\ api.up /\ Evidence
  /\ run' = [run EXCEPT !.stage = "done", !.ready = TRUE] /\ NotesBoth
  /\ UNCHANGED <<asked, senders, up, lock, loop, offset, telegram, records, rows, trouble, history>>

\* Mutant: without the deadline.
NotYetForEver ==
  /\ Holds("probe")
  /\ run' = [run EXCEPT !.stage = "verify"] /\ NotesBoth
  /\ UNCHANGED <<asked, senders, up, lock, loop, offset, telegram, records, rows, trouble, history>>

\* The API does not listen yet, the database or the forward worker is not
\* ready, or a row is missing.
NotYet ==
  /\ Holds("probe") /\ ~run.late
  /\ run' = [run EXCEPT !.stage = "verify"] /\ NotesBoth
  /\ UNCHANGED <<asked, senders, up, lock, loop, offset, telegram, records, rows, trouble, history>>

DeadlinePasses ==
  /\ up /\ run.stage \in {"verify", "probe"} /\ ~run.late
  /\ run' = [run EXCEPT !.late = TRUE]
  /\ UNCHANGED <<asked, senders, up, lock, loop, offset, telegram, records, children, trouble, history>>

\* _stop_failed_start.
RollBack ==
  /\ Holds("probe") /\ run.late
  /\ live' = IF run.spawned THEN Stopped(live) ELSE Noted(live)
  /\ api' = Noted(api)
  /\ Ends
  /\ UNCHANGED <<asked, senders, up, lock, loop, offset, telegram, records, rows, trouble, history>>

\* _audit, which swallows its own failure, and the answer; rendering the state
\* behind it may fail, after the command has had its effect.
Finish ==
  /\ up /\ run.stage = "done" /\ Holder[1] = "web"
  /\ \/ audited' = audited \cup {Holder[2]} /\ Answer("ok") /\ UNCHANGED trouble
     \/ Trouble /\ audited' = audited \cup {Holder[2]} /\ Answer("failed")
     \/ Trouble /\ UNCHANGED audited /\ Answer("ok")
  /\ Release /\ NotesBoth
  /\ UNCHANGED <<asked, up, loop, offset, telegram, armed, rows, history>>

\* A lifecycle command of Telegram returns to handle_update.
FinishTelegram ==
  /\ up /\ run.stage = "done" /\ Holder[1] = "telegram"
  /\ Release /\ loop' = [loop EXCEPT !.at = "done"]
  /\ UNCHANGED <<asked, senders, up, offset, telegram, records, children, trouble, history>>

-------------------------------------------------------------------------------
(* The Telegram loop.                                                        *)

Operator ==
  /\ telegram.sent < Len(asked.telegram)
  /\ telegram' = [telegram EXCEPT !.sent = @ + 1]
  /\ UNCHANGED <<asked, senders, up, lock, run, loop, offset, records, children, trouble, history>>

\* _ensure_control_plane_api.
EnsureApi ==
  /\ LoopFree /\ loop.at = "boot"
  /\ api' = [up |-> TRUE, watched |-> api.watched \/ ~api.up]
  /\ live' = Noted(live)
  /\ loop' = [loop EXCEPT !.at = "monitor"]
  /\ UNCHANGED <<asked, senders, up, lock, run, offset, telegram, records, rows, trouble, history>>

Monitor ==
  /\ LoopFree /\ loop.at = "monitor"
  /\ live' = Restarted(live)
  /\ api' = [api EXCEPT !.up = @ \/ api.watched]
  /\ loop' = [loop EXCEPT !.at = "fetch"]
  /\ UNCHANGED <<asked, senders, up, lock, run, offset, telegram, records, rows, trouble, history>>

\* Mutant: the offset is advanced when the updates arrive.
FetchConfirms ==
  /\ LoopFree /\ loop.at = "fetch"
  /\ telegram' = [telegram EXCEPT !.read = telegram.sent]
  /\ loop' = IF telegram.sent > telegram.read
             THEN [loop EXCEPT !.at = "handle", !.next = telegram.read + 1, !.last = telegram.sent]
             ELSE [loop EXCEPT !.at = "monitor"]
  /\ offset' = [memory |-> telegram.sent + 1, file |-> telegram.sent + 1]
  /\ UNCHANGED <<asked, senders, up, lock, run, records, children, trouble, history>>

\* getUpdates: what it asks for tells Telegram what it has read.
Fetch ==
  /\ LoopFree /\ loop.at = "fetch"
  /\ LET read == IF offset.memory > telegram.read THEN offset.memory - 1 ELSE telegram.read
     IN  /\ telegram' = [telegram EXCEPT !.read = read]
         /\ loop' = IF telegram.sent > read
                    THEN [loop EXCEPT !.at = "handle", !.next = read + 1, !.last = telegram.sent]
                    ELSE [loop EXCEPT !.at = "monitor"]
  /\ UNCHANGED <<asked, senders, up, lock, run, offset, records, children, trouble, history>>

FetchFails ==
  /\ LoopFree /\ loop.at = "fetch" /\ Trouble
  /\ loop' = [loop EXCEPT !.at = "monitor"]
  /\ UNCHANGED <<asked, senders, up, lock, run, offset, telegram, records, children, history>>

Handles(u) == LoopFree /\ loop.at = "handle" /\ u = loop.next

\* Mutant: an update that is refused does not advance the offset.
PassesSilently(u) ==
  /\ Handles(u)
  /\ asked.telegram[u] \in {"foreign"} \cup loop.recent
  /\ loop' = [loop EXCEPT !.at = IF loop.next < loop.last THEN "handle" ELSE "monitor", !.next = @ + 1]
  /\ UNCHANGED <<asked, senders, up, lock, run, offset, telegram, records, children, trouble, history>>

\* No command, nobody who may give one, or the same command too soon again.
Passes(u) ==
  /\ Handles(u)
  /\ asked.telegram[u] \in {"foreign"} \cup loop.recent
  /\ loop' = [loop EXCEPT !.at = "done"]
  /\ UNCHANGED <<asked, senders, up, lock, run, offset, telegram, records, children, trouble, history>>

\* /demo_on and /demo_off do not take the lock.
SwitchesDemo(u) ==
  /\ Handles(u) /\ asked.telegram[u] \in {"demo_on", "demo_off"}
  /\ armed' = (asked.telegram[u] = "demo_on")
  /\ loop' = [loop EXCEPT !.at = "done", !.recent = @ \cup {asked.telegram[u]}]
  /\ ran' = [ran EXCEPT !.telegram[u] = @ + 1]
  /\ UNCHANGED <<asked, senders, up, lock, run, offset, telegram, audited, children, trouble, stopped>>

Queues(u) ==
  /\ Handles(u) /\ asked.telegram[u] \in Lifecycle
  /\ lock' = Append(lock, Tg(u))
  /\ run' = IF lock = <<>> THEN [Idle EXCEPT !.stage = "entered"] ELSE run
  /\ loop' = [loop EXCEPT !.at = "locked", !.recent = @ \cup {asked.telegram[u]}]
  /\ UNCHANGED <<asked, senders, up, offset, telegram, records, children, trouble, history>>

NextUpdate == [loop EXCEPT !.at = IF loop.next < loop.last THEN "handle" ELSE "monitor",
                           !.next = @ + 1]

\* _advance_offset: memory, then the file.  When the file cannot be written the
\* loop drops the rest of what it fetched.
Advance ==
  /\ up /\ loop.at = "done"
  /\ \/ offset' = [memory |-> loop.next + 1, file |-> loop.next + 1]
        /\ loop' = NextUpdate /\ UNCHANGED trouble
     \/ Trouble /\ offset' = [offset EXCEPT !.memory = loop.next + 1]
        /\ loop' = [loop EXCEPT !.at = "monitor"]
  /\ UNCHANGED <<asked, senders, up, lock, run, telegram, records, children, history>>

-------------------------------------------------------------------------------
(* The process ends, at any point: the children go on, without being watched.*)

ControlEnds ==
  /\ up /\ Trouble
  /\ up' = FALSE
  /\ caller' = [o \in Ops |-> IF caller[o] \in {"connecting", "waiting"} THEN "failed" ELSE caller[o]]
  /\ serving' = Nobody /\ lock' = <<>> /\ run' = Idle
  /\ live' = [live EXCEPT !.watched = FALSE] /\ api' = [api EXCEPT !.watched = FALSE]
  /\ loop' = Booting /\ offset' = [offset EXCEPT !.memory = 1]
  /\ UNCHANGED <<asked, sends, telegram, records, rows, history>>

\* Mutant: the offset is not loaded.
StartsFromZero ==
  /\ ~up /\ up' = TRUE
  /\ UNCHANGED <<asked, senders, lock, run, loop, offset, telegram, records, children, trouble, history>>

ControlStarts ==
  /\ ~up /\ up' = TRUE
  /\ offset' = [offset EXCEPT !.memory = offset.file]
  /\ UNCHANGED <<asked, senders, lock, run, loop, telegram, records, children, trouble, history>>

Locked ==
  \/ Duplicate \/ SwitchDemo \/ StartEnters \/ StopEnters \/ RestartEnters
  \/ Mt5Ready \/ AlreadyRuns \/ NotHealthy \/ SpawnChildren
  \/ VerifyReads \/ Verified \/ NotYet \/ RollBack
  \/ Finish \/ FinishTelegram

Polling ==
  \/ EnsureApi \/ Monitor \/ Fetch \/ FetchFails
  \/ \E u \in Updates : Passes(u) \/ SwitchesDemo(u) \/ Queues(u)
  \/ Advance

Next ==
  \/ LiveCrashes \/ ApiCrashes \/ LiveReports
  \/ \E o \in Ops : Send(o) \/ Refused(o) \/ Accept(o) \/ CallerGivesUp(o)
  \/ ServerGivesUp \/ Status
  \/ Locked \/ DeadlinePasses
  \/ Operator \/ Polling
  \/ ControlEnds \/ ControlStarts

Spec == Init /\ [][Next]_vars

-------------------------------------------------------------------------------
(* What the proofs rest on: with TypeOK, NothingSkipped and ServedIsQueued,   *)
(* the inductive invariant.                                                  *)

\* Who connects has sent.
SentOnce == \A o \in Ops : caller[o] = "connecting" => sends[o] # 0

\* One update is in hand at a time: no other is in the queue, and once its
\* command has gone beyond its entry it was carried out.
OneUpdate ==
  /\ \A i, j \in DOMAIN lock : lock[i][1] = "telegram" /\ lock[j][1] = "telegram" => i = j
  /\ \A i \in DOMAIN lock : lock[i][1] = "telegram" => lock[i] = Tg(loop.next)
  /\ lock # <<>> /\ lock[1][1] = "telegram" /\ run.stage # "entered" => ran.telegram[loop.next] > 0

\* Who ended has nothing in hand.
EndedIsBlank == ~up => loop = Booting

InHand == loop.at \in {"handle", "locked", "done"}

\* The file is behind the memory, that behind the update in hand, and that
\* behind what was sent.
OffsetsInOrder ==
  /\ up => offset.file <= offset.memory
  /\ offset.memory <= telegram.sent + 1 /\ offset.file <= telegram.sent + 1
  /\ telegram.read <= telegram.sent
  /\ InHand => /\ offset.memory <= loop.next /\ loop.next \in Updates
               /\ loop.next <= loop.last /\ loop.last <= telegram.sent

Answered(u) ==
  \/ ran.telegram[u] > 0
  \/ asked.telegram[u] = "foreign"
  \/ \E v \in 1..(u - 1) : asked.telegram[v] = asked.telegram[u] /\ ran.telegram[v] > 0

\* What is behind the loop was answered, and so was what its rate limit
\* remembers, unless that is the update in hand.
AnsweredBehind ==
  /\ \A u \in Updates : u < offset.memory \/ (InHand /\ u < loop.next) => Answered(u)
  /\ loop.at = "done" => Answered(loop.next)
  /\ \A c \in loop.recent :
       \/ \E v \in Updates : v < offset.memory /\ asked.telegram[v] = c /\ ran.telegram[v] > 0
       \/ loop.at \in {"locked", "done"} /\ asked.telegram[loop.next] = c

\* A Live that runs, and rows from after the boundary, are younger than the
\* Live that a restart has stopped; and what was stopped is not wanted.
LiveIsYounger ==
  /\ run.base <= live.inst
  /\ live.up => live.inst > run.base
  /\ rows.fresh => rows.by > run.base
  /\ run.spawned => run.foreign = 0
  /\ stopped => ~live.up /\ ~live.wanted

-------------------------------------------------------------------------------
(* Properties.                                                               *)

\* A web operation that the audit has is never carried out again, however
\* often it is sent, and also when a first coroutine of it, given up by its
\* caller, still waits for the lock.
AuditedIsFinal == [][\A o \in audited : ran'.web[o] = ran.web[o]]_vars

\* An update below the offset in the file is never dispatched again, by this
\* process or a later one.
ConfirmedIsFinal ==
  [][\A u \in Updates : u < offset.file => ran'.telegram[u] = ran.telegram[u]]_vars

\* No command is lost: what Telegram will not send again was carried out, or
\* was refused for a reason.
NothingSkipped ==
  \A u \in Updates : u < offset.file \/ u <= telegram.read => Answered(u)

\* A start that fails stops only a Live that it has spawned itself: phase
\* 2.5.7, "only components spawned by the request may be rolled back".
RollbackOwnsSpawn ==
  [][run.stage \in {"spawn", "probe"} /\ run'.stage = "done" /\ live.up /\ ~live'.up
       => run.stage = "probe" /\ live.inst # run.foreign]_vars

\* After a stop or the stop of a restart has succeeded, Live stays down until
\* a start spawns it: monitor_once does not bring it back.
StopHolds == stopped => ~live.up

\* A restart that reports success has seen rows of a Live that it has spawned.
ReadyIsFresh == [][run'.ready /\ ~run.ready => rows.by > run.base]_vars

\* The holder of the lock and the progress of the holder agree, and a web
\* request that is served is in the queue: nobody waits for an answer that
\* nobody will give.
ServedIsQueued ==
  /\ (lock = <<>>) = (run.stage = "idle")
  /\ serving # Nobody => \E i \in DOMAIN lock : lock[i] = serving
  /\ (loop.at = "locked") = (\E i \in DOMAIN lock : lock[i][1] = "telegram")

\* A replay of an operation is never executed: what the report of phase 3.3
\* says without a condition, and the code does not keep.
ReplayIsNotExecuted == \A o \in Ops : ran.web[o] <= 1

\* The queue of the lock always empties, and every command that Telegram has
\* is handled, if Control stays up.
LockIsFreed == <>[]up => []<>(lock = <<>>)
CommandsAreHandled == <>[]up => []<>(telegram.sent < offset.memory)

\* Coroutines of the event loop go on; deadlines pass; Control is started
\* again by nobody.
Fairness == WF_vars(Locked) /\ WF_vars(Polling) /\ WF_vars(DeadlinePasses)
FairSpec == Spec /\ Fairness

\* What holds in every state: no update of Telegram is skipped, the served
\* request is in the queue of the lock, and a stop holds.
CommandsAreKept == TypeOK /\ NothingSkipped /\ ServedIsQueued /\ StopHolds

IInv ==
  TypeOK /\ NothingSkipped /\ ServedIsQueued /\ SentOnce /\ OneUpdate /\ EndedIsBlank
    /\ OffsetsInOrder /\ AnsweredBehind /\ LiveIsYounger

\* What is on record, as an audit row or a saved offset, is not carried out
\* again.
DoneIsFinal == AuditedIsFinal /\ ConfirmedIsFinal

\* If Control stays up, the lock is freed and Telegram is heard.
CommandsGoOn == LockIsFreed /\ CommandsAreHandled
===============================================================================
