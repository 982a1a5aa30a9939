------------------------------ MODULE Supervisor ------------------------------
(* services/supervisor.py on Windows, for one supervised component (API or   *)
(* Live): components share only the registry file, which every operation     *)
(* loads and saves whole under one mutex.                                    *)
(*                                                                           *)
(* A spawned instance is a venv launcher and its interpreter child, both     *)
(* with the component's command line.  Operations exclude each other (RLock, *)
(* and all run on Control's event loop); between two saves of an operation   *)
(* processes may exit and Control may die.  An operation is a step from one  *)
(* save to the next; each process snapshot it takes may fail separately.     *)
EXTENDS Naturals, FiniteSets

CONSTANTS
  MaxSpawns,          \* bound on the instances ever spawned
  MaxRestarts,        \* max_restarts within the restart window
  MaxControlDeaths,   \* bound on deaths of the Control process
  SnapshotMayFail,    \* may the process snapshot fail or time out
  KillMayFail         \* may taskkill leave a process of the tree alive

ASSUME SupervisorAssumption ==
  /\ MaxSpawns \in Nat
  /\ MaxRestarts \in Nat
  /\ MaxControlDeaths \in Nat
  /\ SnapshotMayFail \in BOOLEAN
  /\ KillMayFail \in BOOLEAN

VARIABLES
  rec,            \* the component's record in process_registry.json
  child,          \* instance whose Popen handle is in _children, 0 for none
  alive,          \* the component's living processes
  spawned,        \* instances spawned so far
  recent,         \* _restart_times within the window (in memory)
  op,             \* the operation in progress, between two of its saves
  deaths,         \* Control deaths so far
  stopAsked,      \* history: the last lifecycle request was a stop
  autoRestarts    \* history: automatic restarts within the window

vars == <<rec, child, alive, spawned, recent, op, deaths, stopAsked, autoRestarts>>

Instances == 1..MaxSpawns

Processes == [inst : Instances, part : {"launcher", "interpreter"}]
NoPid == [inst |-> 0, part |-> "none"]

Launcher(i) == [inst |-> i, part |-> "launcher"]
Interpreter(i) == [inst |-> i, part |-> "interpreter"]

States == {"STOPPED", "RUNNING", "STOPPING", "DEGRADED", "CRASHED", "ERROR"}

(* A registry record.  "sure": process_create_time is the creation time of   *)
(* pid.  "ids": process_identities; pids with their own creation times.      *)
Records == [state : States, desired : {"RUNNING", "STOPPED"},
            pid : Processes \cup {NoPid}, sure : BOOLEAN, ids : SUBSET Processes]

NewRecord == [state |-> "STOPPED", desired |-> "STOPPED",
              pid |-> NoPid, sure |-> FALSE, ids |-> {}]

Ops == {"idle", "spawned", "stopping", "restarting", "respawned", "saving"}

TypeOK ==
  /\ rec \in Records
  /\ child \in 0..MaxSpawns
  /\ alive \subseteq Processes
  /\ spawned \in 0..MaxSpawns
  /\ recent \in 0..MaxRestarts
  /\ op \in Ops
  /\ deaths \in 0..MaxControlDeaths
  /\ stopAsked \in BOOLEAN
  /\ autoRestarts \in Nat

Init ==
  /\ rec = NewRecord
  /\ child = 0
  /\ alive = {}
  /\ spawned = 0
  /\ recent = 0
  /\ op = "idle"
  /\ deaths = 0
  /\ stopAsked = FALSE
  /\ autoRestarts = 0

memory == <<child, recent>>
processes == <<alive, spawned>>
history == <<deaths, stopAsked, autoRestarts>>
------------------------------------------------------------------------------
(* child.poll() is None.                                                     *)
ChildRuns == child # 0 /\ Launcher(child) \in alive

(* _process_snapshot: what is alive, or nothing at all when it fails.        *)
Snapshots == {alive} \cup (IF SnapshotMayFail THEN {{}} ELSE {})

(* _matching_command_roots: processes whose parent is not in the snapshot.   *)
Roots(snap) == {p \in snap : p.part = "launcher" \/ Launcher(p.inst) \notin snap}

(* _matching_descendants of a process of the snapshot.                       *)
Tree(p, snap) ==
  {q \in snap : q = p \/ (p.part = "launcher" /\ q = Interpreter(p.inst))}

(* _record_matches_process.                                                  *)
Matches(r, snap) ==
  /\ r.pid # NoPid
  /\ IF r.pid \in snap THEN r.sure ELSE r.ids \cap snap # {}

(* _refresh_identity: the root it settles on is the given pid, else one of   *)
(* the recorded identities, else the only matching tree.                     *)
RootsFor(r, p, snap) ==
  IF p \in snap THEN {p}
  ELSE IF r.ids \cap snap # {} THEN r.ids \cap snap
  ELSE IF Cardinality(Roots(snap)) = 1 THEN Roots(snap)
  ELSE {}

Identified(r, root, snap) ==
  [r EXCEPT !.pid = root, !.sure = TRUE, !.ids = Tree(root, snap) \cup (r.ids \cap snap)]

(* The records _refresh_identity may leave, RUNNING when it verified one and *)
(* in state "otherwise" when not.                                            *)
Refreshed(r, p, otherwise) ==
  UNION {LET roots == RootsFor(r, p, snap)
         IN IF roots = {} THEN {[r EXCEPT !.state = otherwise]}
            ELSE {[Identified(r, q, snap) EXCEPT !.state = "RUNNING"] : q \in roots}
         : snap \in Snapshots}

(* pid overwritten; the creation time recorded is the one of the old pid.    *)
Renamed(r, p) == [r EXCEPT !.pid = p, !.sure = (p = r.pid /\ r.sure)]

(* Mutant: a cleared record keeps its pid.                                   *)
ClearedExceptPid(r, state) == [r EXCEPT !.state = state, !.sure = FALSE, !.ids = {}]

Cleared(r, state) ==
  [r EXCEPT !.state = state, !.pid = NoPid, !.sure = FALSE, !.ids = {}]
------------------------------------------------------------------------------
(* start_component on the record "r", which asks for RUNNING already.        *)

(* The record is kept: its child or its recorded process runs, or a bare PID *)
(* that _pid_alive reports is not a verified one.                            *)
KeptRecords(r) ==
  IF ChildRuns THEN Refreshed(r, Launcher(child), "DEGRADED")
  ELSE (IF \E snap \in Snapshots : Matches(r, snap)
        THEN Refreshed(r, r.pid, "RUNNING") ELSE {})
       \cup
       (IF r.pid # NoPid /\ \E snap \in Snapshots : ~Matches(r, snap)
        THEN {[r EXCEPT !.state = "DEGRADED"]} ELSE {})

(* Neither the child nor the record gives a live process: the command is     *)
(* searched for among all processes.                                         *)
Searches(r) == ~ChildRuns /\ \E snap \in Snapshots : ~Matches(r, snap)

Found(r, snap) == Searches(r) /\ snap \in Snapshots /\ snap # {}
(* Mutant: the command is not searched for before Popen.                     *)
NothingFoundUnsearched(r) == Searches(r)

NothingFound(r) == Searches(r) /\ {} \in Snapshots

Adopted(r, p) ==
  (IF r.pid = p /\ \E snap \in Snapshots : ~Matches(r, snap)
   THEN {[r EXCEPT !.state = "DEGRADED"]} ELSE {})
  \cup
  (IF r.pid # p \/ \E snap \in Snapshots : Matches(r, snap)
   THEN Refreshed(Renamed(r, p), p, "DEGRADED") ELSE {})

AdoptedRecords(r) ==
  UNION {IF Cardinality(Roots(snap)) > 1 THEN {[r EXCEPT !.state = "DEGRADED"]}
         ELSE UNION {Adopted(r, p) : p \in Roots(snap)}
         : snap \in {s \in Snapshots : Found(r, s)}}

(* The start ends with the record saved, and nothing spawned.                *)
StartWithoutSpawn(r, next) ==
  /\ \/ rec' \in KeptRecords(r) \cup AdoptedRecords(r)
     \/ NothingFound(r) /\ rec' = [r EXCEPT !.state = "ERROR"]   \* Popen raised
  /\ op' = next
  /\ UNCHANGED <<child, alive, spawned>>

(* Popen succeeded; nothing is saved yet.                                    *)
StartSpawns(r, next) ==
  /\ NothingFound(r)
  /\ spawned < MaxSpawns
  /\ spawned' = spawned + 1
  /\ alive' = alive \cup {Launcher(spawned + 1), Interpreter(spawned + 1)}
  /\ child' = spawned + 1
  /\ op' = next
  /\ UNCHANGED rec

Wanted(r) == [r EXCEPT !.desired = "RUNNING"]

Start ==
  /\ op = "idle"
  /\ \/ StartWithoutSpawn(Wanted(rec), "idle")
     \/ StartSpawns(Wanted(rec), "spawned")
  /\ stopAsked' = FALSE
  /\ UNCHANGED <<recent, deaths, autoRestarts>>

(* The end of start_component after Popen: the identity is read and the new  *)
(* record saved.  The interpreter may be too young for the snapshot.         *)
SpawnRecords ==
  LET new == [NewRecord EXCEPT !.state = "RUNNING", !.desired = "RUNNING",
                               !.pid = Launcher(child)]
  IN Refreshed(new, Launcher(child), "DEGRADED")
     \cup (IF ChildRuns
           THEN {[new EXCEPT !.sure = TRUE, !.ids = {Launcher(child)}]} ELSE {})

RecordSpawn ==
  /\ op \in {"spawned", "respawned"}
  /\ rec' \in SpawnRecords
  /\ op' = IF op = "spawned" THEN "idle" ELSE "saving"
  /\ UNCHANGED <<memory, processes, history>>
------------------------------------------------------------------------------
(* Mutant: the stop intent is not persisted.                                 *)
StopIntentUnsaved ==
  /\ op = "idle"
  /\ rec' = [rec EXCEPT !.state = "STOPPING"]
  /\ op' = "stopping"
  /\ stopAsked' = TRUE
  /\ UNCHANGED <<memory, processes, deaths, autoRestarts>>

(* stop_component: the intent is saved before anything is terminated.        *)
StopIntent ==
  /\ op = "idle"
  /\ LET absent == rec.pid = NoPid /\ child = 0
     IN /\ rec' = [rec EXCEPT !.desired = "STOPPED",
                              !.state = IF absent THEN "STOPPED" ELSE "STOPPING"]
        /\ op' = IF absent THEN "idle" ELSE "stopping"
  /\ stopAsked' = TRUE
  /\ UNCHANGED <<memory, processes, deaths, autoRestarts>>

(* Mutant: only the recorded root is owned.                                  *)
OwnedRootOnly(r, snap) == IF r.pid \in snap /\ r.sure THEN {r.pid} ELSE r.ids \cap snap

(* _verified_owned_pids: the processes a stop may terminate; none when the   *)
(* identity is unverified, which refuses the stop.                           *)
Owned(r, snap) ==
  IF r.pid = NoPid THEN {}
  ELSE IF r.pid \in snap
  THEN IF r.sure THEN Tree(r.pid, snap) \cup (r.ids \cap snap) ELSE {}
  ELSE r.ids \cap snap

StopRefused ==
  /\ op = "stopping"
  /\ \E snap \in Snapshots : Owned(rec, snap) = {}
  /\ rec' = [rec EXCEPT !.state = "DEGRADED"]
  /\ op' = "idle"
  /\ UNCHANGED <<memory, processes, history>>

(* taskkill of each owned process, and the wait: a snapshot without them     *)
(* (a failed one included) counts as their exit.                             *)
StopTerminates ==
  /\ op = "stopping"
  /\ \E snap \in Snapshots :
       LET owned == Owned(rec, snap)
       IN /\ owned # {}
          /\ \E left \in (IF KillMayFail THEN SUBSET owned ELSE {{}}) :
               /\ alive' = alive \ (owned \ left)
               /\ \/ /\ left = {} \/ SnapshotMayFail
                     /\ IF child # 0 /\ Launcher(child) \in alive'
                        THEN UNCHANGED <<rec, child>>         \* wait(timeout=0) raises
                        ELSE rec' = Cleared(rec, "STOPPED") /\ child' = 0
                  \/ /\ left # {}
                     /\ rec' = [rec EXCEPT !.state = "DEGRADED"]
                     /\ UNCHANGED child
  /\ op' = "idle"
  /\ UNCHANGED <<recent, spawned, history>>
------------------------------------------------------------------------------
(* monitor_once visits the components whose handle it holds.                 *)
Monitors == op = "idle" /\ child # 0

MonitorRunning ==
  /\ Monitors
  /\ ChildRuns
  /\ rec' \in IF rec.desired = "RUNNING" THEN Refreshed(rec, Launcher(child), "DEGRADED")
              ELSE {[rec EXCEPT !.state = "STOPPING"]}
  /\ UNCHANGED <<memory, processes, op, history>>

(* Mutant: the handle of a stopped child is kept.                            *)
MonitorStoppedKeepsHandle ==
  /\ Monitors
  /\ ~ChildRuns
  /\ rec.desired # "RUNNING"
  /\ rec' = Cleared(rec, "STOPPED")
  /\ UNCHANGED <<memory, processes, op, history>>

(* An intentional exit.                                                      *)
MonitorStopped ==
  /\ Monitors
  /\ ~ChildRuns
  /\ rec.desired # "RUNNING"
  /\ rec' = Cleared(rec, "STOPPED")
  /\ child' = 0
  /\ UNCHANGED <<recent, processes, op, history>>

(* The launcher exited and one matching tree survives: it is adopted.        *)
MonitorAdopts ==
  /\ Monitors
  /\ ~ChildRuns
  /\ rec.desired = "RUNNING"
  /\ \E snap \in Snapshots : \E p \in Roots(snap) :
       /\ Cardinality(Roots(snap)) = 1
       /\ rec' \in {[r EXCEPT !.state = "RUNNING"] : r \in Refreshed(Renamed(rec, p), p, "RUNNING")}
  /\ child' = 0
  /\ UNCHANGED <<recent, processes, op, history>>

MonitorSeesCrash ==
  /\ Monitors
  /\ ~ChildRuns
  /\ rec.desired = "RUNNING"
  /\ \E snap \in Snapshots : Cardinality(Roots(snap)) # 1

(* Mutant: the restart limit is off by one.                                  *)
MonitorRestartsOnceMore ==
  /\ MonitorSeesCrash
  /\ recent <= MaxRestarts
  /\ recent' = recent + 1
  /\ autoRestarts' = autoRestarts + 1
  /\ rec' = Cleared(rec, "CRASHED")
  /\ child' = 0
  /\ op' = "restarting"
  /\ UNCHANGED <<processes, deaths, stopAsked>>

(* Within the limit the crash is saved and start_component is called.        *)
MonitorRestarts ==
  /\ MonitorSeesCrash
  /\ recent < MaxRestarts
  /\ recent' = recent + 1
  /\ autoRestarts' = autoRestarts + 1
  /\ rec' = Cleared(rec, "CRASHED")
  /\ child' = 0
  /\ op' = "restarting"
  /\ UNCHANGED <<processes, deaths, stopAsked>>

MonitorGivesUp ==
  /\ MonitorSeesCrash
  /\ recent >= MaxRestarts
  /\ rec' = Cleared(rec, "ERROR")
  /\ child' = 0
  /\ UNCHANGED <<recent, processes, op, history>>

MonitorStarts ==
  /\ op = "restarting"
  /\ \/ StartWithoutSpawn(Wanted(rec), "saving")
     \/ StartSpawns(Wanted(rec), "respawned")
  /\ UNCHANGED <<recent, history>>

(* monitor_once ends by saving the records it loaded at its beginning, the   *)
(* crashed one included, over what start_component just saved.               *)
MonitorSaves ==
  /\ op = "saving"
  /\ rec' = Cleared([rec EXCEPT !.desired = "RUNNING"], "CRASHED")
  /\ op' = "idle"
  /\ UNCHANGED <<memory, processes, history>>

Monitor == MonitorRunning \/ MonitorStopped \/ MonitorAdopts
           \/ MonitorRestarts \/ MonitorGivesUp
------------------------------------------------------------------------------
(* status, and reconcile: first the held handle, then an adopted record.     *)
StatusOfChild(r) ==
  IF ChildRuns
  THEN (IF r.desired = "RUNNING" THEN Refreshed(r, Launcher(child), "DEGRADED")
        ELSE {[r EXCEPT !.state = "STOPPING"]})
  ELSE IF r.desired # "RUNNING" THEN {Cleared(r, "STOPPED")}
  ELSE (IF \E snap \in Snapshots : Matches(r, snap)
        THEN Refreshed([r EXCEPT !.state = "RUNNING"], r.pid, "RUNNING") ELSE {})
       \cup
       (IF \E snap \in Snapshots : ~Matches(r, snap) THEN {Cleared(r, "CRASHED")} ELSE {})

StatusOfAdopted(r) ==
  IF r.pid = NoPid THEN {r}
  ELSE (IF \E snap \in Snapshots : Matches(r, snap)
        THEN (IF r.desired = "RUNNING" THEN Refreshed(r, r.pid, "RUNNING")
              ELSE {[r EXCEPT !.state = "STOPPING"]})
        ELSE {})
       \cup
       (IF \E snap \in Snapshots : ~Matches(r, snap)
        THEN {[r EXCEPT !.state = "DEGRADED"]}                \* _pid_alive
             \cup (IF r.desired # "RUNNING" \/ r.state \in {"RUNNING", "STOPPING"}
                   THEN {Cleared(r, "STOPPED")} ELSE {r})
        ELSE {})

Status ==
  /\ op = "idle"
  /\ IF child # 0 /\ ChildRuns
     THEN rec' \in StatusOfChild(rec) /\ UNCHANGED child
     ELSE /\ rec' \in UNION {StatusOfAdopted(r) :
                             r \in IF child # 0 THEN StatusOfChild(rec) ELSE {rec}}
          /\ child' = 0
  /\ UNCHANGED <<recent, processes, op, history>>
------------------------------------------------------------------------------
(* The environment: a launcher killed alone, a process tree that exits, the  *)
(* death of Control between any two saves, and the passing of the window.    *)
LauncherExits ==
  /\ \E p \in alive : p.part = "launcher" /\ alive' = alive \ {p}
  /\ UNCHANGED <<rec, memory, spawned, op, history>>

ComponentExits ==
  /\ \E p \in alive : alive' = {q \in alive : q.inst # p.inst}
  /\ UNCHANGED <<rec, memory, spawned, op, history>>

ControlDies ==
  /\ deaths < MaxControlDeaths
  /\ deaths' = deaths + 1
  /\ child' = 0
  /\ recent' = 0
  /\ op' = "idle"
  /\ UNCHANGED <<rec, processes, stopAsked, autoRestarts>>

WindowPasses ==
  /\ op = "idle" /\ autoRestarts > 0
  /\ recent' = 0
  /\ autoRestarts' = 0
  /\ UNCHANGED <<rec, child, processes, op, deaths, stopAsked>>

Continue == RecordSpawn \/ StopRefused \/ StopTerminates \/ MonitorStarts \/ MonitorSaves

Environment == LauncherExits \/ ComponentExits \/ ControlDies \/ WindowPasses

Next == Start \/ StopIntent \/ Monitor \/ Status \/ Continue \/ Environment

Spec == Init /\ [][Next]_vars

(* Control's run loop calls monitor_once in every iteration, however many    *)
(* commands run in between; an operation it has begun goes on.               *)
FairSpec == Spec /\ SF_vars(Monitor) /\ WF_vars(Continue)
------------------------------------------------------------------------------
(* Instances of the component that are alive.                                *)
Living == {p.inst : p \in alive}

(* At most one instance of a component ever lives: no start, restart or      *)
(* adoption creates a second polling loop beside a living one, whatever is   *)
(* lost from the registry or from memory.                                    *)
OneInstance == Cardinality(Living) <= 1

(* Once a stop was asked, nothing but a start request spawns the component:  *)
(* the monitor does not resurrect it, and neither does a new Control.        *)
NoResurrection == [][spawned' > spawned => ~stopAsked']_vars

(* stop_component reports STOPPED only when it verified that every process   *)
(* of the component is gone.                                                 *)
StopIsVerified ==
  [][(op = "stopping" /\ rec'.state = "STOPPED") => alive' = {}]_vars

(* Automatic restarts within one window never exceed the limit of one        *)
(* Control process (its death forgets the window, which is in memory).       *)
RestartsBounded == autoRestarts <= MaxRestarts * (deaths + 1)

(* What makes the two properties above inductive: a spawn in progress has a  *)
(* handle; a stopped component has its intent saved and no start under way;  *)
(* restarts are those of the window and those of earlier Controls.           *)
SpawnIsHeld == op \in {"spawned", "respawned"} => child # 0
StopIsSaved == stopAsked => rec.desired = "STOPPED" /\ op \in {"idle", "stopping"}
RestartsAreCounted == autoRestarts <= MaxRestarts * deaths + recent

IInv == TypeOK /\ SpawnIsHeld /\ StopIsSaved /\ RestartsAreCounted

(* While Control holds a running child, a record that names a process names  *)
(* that child: no operation re-points the record at another instance.        *)
RecordNamesChild == ChildRuns /\ rec.pid # NoPid /\ op # "spawned" => rec.pid.inst = child

(* While snapshots work there is one process tree.  A record that knows an    *)
(* interpreter knows its launcher too, and one that knows a launcher alone   *)
(* is named after it: what a stop owns of a tree is then the whole tree.     *)
OneTree == \A p, q \in alive : p.inst = q.inst
KnowsLaunchers(r) ==
  \A i \in Instances :
    Launcher(i) \in alive /\ (r.pid = Interpreter(i) \/ Interpreter(i) \in r.ids) => Launcher(i) \in r.ids
KnowsInterpreters(r) ==
  \A i \in Instances :
    {Launcher(i), Interpreter(i)} \subseteq alive /\ Launcher(i) \in r.ids
      => Interpreter(i) \in r.ids \/ r.pid = Launcher(i)
StopIsShown == op = "stopping" => rec.state = "STOPPING"
RestartIsBlank == op \in {"restarting", "respawned"} => rec.pid = NoPid
IsPast(r) == \A p \in r.ids \cup {r.pid} : p.inst <= spawned
NothingIsNew == child <= spawned /\ \A p \in alive : p.inst <= spawned

TreeInv ==
  /\ IInv
  /\ OneTree /\ RecordNamesChild
  /\ KnowsLaunchers(rec) /\ KnowsInterpreters(rec)
  /\ StopIsShown /\ RestartIsBlank
  /\ IsPast(rec) /\ NothingIsNew

(* An exited child never stays unattended: its handle is released (adopted,  *)
(* stopped, crashed or given up) or a new child is running.                  *)
ExitIsHandled == (child # 0 /\ ~ChildRuns) ~> (child = 0 \/ ChildRuns)

(* What the documentation promises, and the code does not keep.              *)

(* An operator's stop of a component whose running child Control holds       *)
(* terminates it, when snapshots and taskkill work.                          *)
StopTerminatesChild ==
  [][(op = "stopping" /\ op' = "idle" /\ ChildRuns) => rec'.state = "STOPPED"]_vars

(* An unexpected exit of a held child is followed by a restart while the     *)
(* limit allows one, unless a command started or stopped the component.      *)
CrashIsRecovered ==
  (child # 0 /\ alive = {} /\ rec.desired = "RUNNING" /\ recent < MaxRestarts)
    ~> (op = "restarting" \/ alive # {} \/ rec.desired = "STOPPED")

(* What holds in every state: one instance, a record that names the child    *)
(* Control holds, and automatic restarts within their limit.                 *)
OneKnownInstance == TypeOK /\ OneInstance /\ RecordNamesChild /\ RestartsBounded
==============================================================================
