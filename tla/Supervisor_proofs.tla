-------------------------- MODULE Supervisor_proofs --------------------------
(* Proofs about Supervisor, for every bound, and whether or not process      *)
(* snapshots and taskkill may fail.                                          *)
EXTENDS Supervisor, FiniteSetTheorems, TLAPS

(* ------------------------- records and operators ------------------------- *)

(* A snapshot contains only processes of the component.                      *)
LEMMA SnapshotType ==
  ASSUME TypeOK, NEW snap \in Snapshots
  PROVE  snap \subseteq alive /\ snap \subseteq Processes
  BY DEF Snapshots, TypeOK

(* The records that agree with r on what is desired.                         *)
Agreeing(r) == {x \in Records : x.desired = r.desired}

LEMMA AgreeingIsTransitive ==
  ASSUME NEW r, NEW y \in Agreeing(r)
  PROVE  y \in Records /\ Agreeing(y) = Agreeing(r)
  BY DEF Agreeing

(* Setting the state, clearing, renaming and identifying a record leave what *)
(* is desired alone.                                                         *)
LEMMA StateKeeps ==
  ASSUME NEW r \in Records, NEW s \in States
  PROVE  [r EXCEPT !.state = s] \in Agreeing(r)
  BY DEF Records, Agreeing

LEMMA ClearedKeeps ==
  ASSUME NEW r \in Records, NEW s \in States
  PROVE  Cleared(r, s) \in Agreeing(r)
  <1>1. FALSE \in BOOLEAN
    BY Zenon
  <1> QED
    BY <1>1 DEF Records, Cleared, Agreeing

LEMMA RenamedKeeps ==
  ASSUME NEW r \in Records, NEW p \in Processes
  PROVE  Renamed(r, p) \in Agreeing(r)
  <1>1. (p = r.pid /\ r.sure) \in BOOLEAN
    OBVIOUS
  <1> QED
    BY <1>1 DEF Records, Renamed, Agreeing

LEMMA IdentifiedKeeps ==
  ASSUME NEW r \in Records, NEW snap \in SUBSET Processes, NEW q \in snap
  PROVE  Identified(r, q, snap) \in Agreeing(r)
  <1>1. Tree(q, snap) \cup (r.ids \cap snap) \in SUBSET Processes
    BY DEF Tree
  <1>2. TRUE \in BOOLEAN /\ q \in Processes \cup {NoPid}
    BY Zenon
  <1> HIDE DEF Processes, NoPid
  <1> QED
    BY <1>1, <1>2 DEF Records, Identified, Agreeing

(* _refresh_identity leaves what is desired alone.                           *)
LEMMA RefreshedKeeps ==
  ASSUME TypeOK, NEW r \in Records, NEW p, NEW s \in States
  PROVE  Refreshed(r, p, s) \subseteq Agreeing(r)
  <1> SUFFICES ASSUME NEW x \in Refreshed(r, p, s) PROVE x \in Agreeing(r)
    OBVIOUS
  <1>1. PICK snap \in Snapshots :
          x \in (LET roots == RootsFor(r, p, snap)
                 IN IF roots = {} THEN {[r EXCEPT !.state = s]}
                    ELSE {[Identified(r, q, snap) EXCEPT !.state = "RUNNING"] : q \in roots})
    BY DEF Refreshed
  <1>2. CASE x = [r EXCEPT !.state = s]
    BY <1>2, StateKeeps
  <1>3. CASE \E q \in RootsFor(r, p, snap) :
               x = [Identified(r, q, snap) EXCEPT !.state = "RUNNING"]
    <2>1. PICK q \in RootsFor(r, p, snap) :
                 x = [Identified(r, q, snap) EXCEPT !.state = "RUNNING"]
      BY <1>3
    <2>2. q \in snap
      BY DEF RootsFor, Roots
    <2>3. Identified(r, q, snap) \in Agreeing(r)
      BY <2>2, SnapshotType, IdentifiedKeeps
    <2>4. x \in Agreeing(Identified(r, q, snap))
      BY <2>1, <2>3, StateKeeps, AgreeingIsTransitive DEF States
    <2> QED
      BY <2>3, <2>4, AgreeingIsTransitive
  <1> QED
    BY <1>1, <1>2, <1>3

(* A start that spawns nothing saves a record of the same desired state.     *)
LEMMA KeptKeeps ==
  ASSUME TypeOK, NEW r \in Records
  PROVE  KeptRecords(r) \subseteq Agreeing(r)
  <1>1. "DEGRADED" \in States /\ "RUNNING" \in States
    BY DEF States
  <1>2. Refreshed(r, Launcher(child), "DEGRADED") \subseteq Agreeing(r)
    BY <1>1, RefreshedKeeps
  <1>3. Refreshed(r, r.pid, "RUNNING") \subseteq Agreeing(r)
    BY <1>1, RefreshedKeeps
  <1>4. [r EXCEPT !.state = "DEGRADED"] \in Agreeing(r)
    BY <1>1, StateKeeps
  <1> QED
    BY <1>2, <1>3, <1>4, Zenon DEF KeptRecords

LEMMA AdoptedKeeps ==
  ASSUME TypeOK, NEW r \in Records
  PROVE  AdoptedRecords(r) \subseteq Agreeing(r)
  <1>1. "DEGRADED" \in States
    BY DEF States
  <1>2. [r EXCEPT !.state = "DEGRADED"] \in Agreeing(r)
    BY <1>1, StateKeeps
  <1>3. ASSUME NEW snap \in Snapshots, NEW p \in Roots(snap)
        PROVE  Adopted(r, p) \subseteq Agreeing(r)
    <2>1. p \in Processes
      BY SnapshotType DEF Roots
    <2>2. Renamed(r, p) \in Agreeing(r)
      BY <2>1, RenamedKeeps
    <2>3. Refreshed(Renamed(r, p), p, "DEGRADED") \subseteq Agreeing(r)
      BY <1>1, <2>2, RefreshedKeeps, AgreeingIsTransitive
    <2> QED
      BY <1>2, <2>3, Zenon DEF Adopted
  <1>4. SUFFICES ASSUME NEW x \in AdoptedRecords(r) PROVE x \in Agreeing(r)
    OBVIOUS
  <1>5. PICK snap \in Snapshots :
          x \in (IF Cardinality(Roots(snap)) > 1 THEN {[r EXCEPT !.state = "DEGRADED"]}
                 ELSE UNION {Adopted(r, p) : p \in Roots(snap)})
    BY DEF AdoptedRecords
  <1> QED
    BY <1>2, <1>3, <1>5

LEMMA WantedType ==
  ASSUME TypeOK
  PROVE  Wanted(rec) \in Records
  BY DEF Wanted, TypeOK, Records

LEMMA StartWithoutSpawnType ==
  ASSUME TypeOK, NEW next, StartWithoutSpawn(Wanted(rec), next)
  PROVE  rec' \in Records
  <1>1. "ERROR" \in States
    BY DEF States
  <1>2. [Wanted(rec) EXCEPT !.state = "ERROR"] \in Agreeing(Wanted(rec))
    BY <1>1, WantedType, StateKeeps
  <1>3. rec' \in Agreeing(Wanted(rec))
    BY <1>2, WantedType, KeptKeeps, AdoptedKeeps, Zenon DEF StartWithoutSpawn
  <1> QED
    BY <1>3, AgreeingIsTransitive

(* The record of a new instance is well formed.                              *)
LEMMA SpawnType ==
  ASSUME TypeOK, child # 0
  PROVE  SpawnRecords \subseteq Records
  <1> DEFINE new == [NewRecord EXCEPT !.state = "RUNNING", !.desired = "RUNNING",
                                      !.pid = Launcher(child)]
  <1>1. child \in Instances
    BY DEF TypeOK, Instances
  <1>2. Launcher(child) \in Processes
    BY <1>1 DEF Launcher, Processes
  <1>3. TRUE \in BOOLEAN /\ FALSE \in BOOLEAN
    BY Zenon
  <1>4. new \in Records
    BY <1>2, <1>3 DEF NewRecord, Records, States
  <1>5. [new EXCEPT !.sure = TRUE, !.ids = {Launcher(child)}] \in Records
    <2> HIDE DEF new
    <2> QED
      BY <1>2, <1>3, <1>4 DEF Records
  <1>6. "DEGRADED" \in States
    BY DEF States
  <1>7. Refreshed(new, Launcher(child), "DEGRADED") \subseteq Agreeing(new)
    <2> HIDE DEF new
    <2> QED
      BY <1>4, <1>6, RefreshedKeeps
  <1> QED
    BY <1>5, <1>7, AgreeingIsTransitive, Zenon DEF SpawnRecords

(* status and reconcile never change what is desired.                        *)
LEMMA StatusOfChildKeeps ==
  ASSUME TypeOK, NEW r \in Records
  PROVE  StatusOfChild(r) \subseteq Agreeing(r)
  <1>1. {"DEGRADED", "RUNNING", "STOPPING", "STOPPED", "CRASHED"} \subseteq States
    BY DEF States
  <1>2. Refreshed(r, Launcher(child), "DEGRADED") \subseteq Agreeing(r)
    BY <1>1, RefreshedKeeps
  <1>3. [r EXCEPT !.state = "STOPPING"] \in Agreeing(r)
    BY <1>1, StateKeeps
  <1>4. Refreshed([r EXCEPT !.state = "RUNNING"], r.pid, "RUNNING") \subseteq Agreeing(r)
    <2>1. [r EXCEPT !.state = "RUNNING"] \in Agreeing(r)
      BY <1>1, StateKeeps
    <2> QED
      BY <1>1, <2>1, RefreshedKeeps, AgreeingIsTransitive
  <1>5. Cleared(r, "STOPPED") \in Agreeing(r) /\ Cleared(r, "CRASHED") \in Agreeing(r)
    BY <1>1, ClearedKeeps
  <1> QED
    BY <1>2, <1>3, <1>4, <1>5, Zenon DEF StatusOfChild

LEMMA StatusOfAdoptedKeeps ==
  ASSUME TypeOK, NEW r \in Records
  PROVE  StatusOfAdopted(r) \subseteq Agreeing(r)
  <1>1. {"DEGRADED", "RUNNING", "STOPPING", "STOPPED"} \subseteq States
    BY DEF States
  <1>2. Refreshed(r, r.pid, "RUNNING") \subseteq Agreeing(r)
    BY <1>1, RefreshedKeeps
  <1>3. [r EXCEPT !.state = "STOPPING"] \in Agreeing(r)
        /\ [r EXCEPT !.state = "DEGRADED"] \in Agreeing(r)
    BY <1>1, StateKeeps
  <1>4. Cleared(r, "STOPPED") \in Agreeing(r)
    BY <1>1, ClearedKeeps
  <1>5. r \in Agreeing(r)
    BY DEF Agreeing
  <1> QED
    BY <1>2, <1>3, <1>4, <1>5, Zenon DEF StatusOfAdopted

(* --------------------------- type correctness ---------------------------- *)

(* Every operation saves a well-formed record.                               *)
LEMMA RecordStep ==
  ASSUME TypeOK, SpawnIsHeld, Next
  PROVE  rec' \in Records
  <1>1. States = {"STOPPED", "RUNNING", "STOPPING", "DEGRADED", "CRASHED", "ERROR"}
        /\ rec \in Records
    BY DEF States, TypeOK
  <1>2. ASSUME NEW s \in States
        PROVE  [rec EXCEPT !.state = s] \in Records /\ Cleared(rec, s) \in Records
    BY <1>1, StateKeeps, ClearedKeeps, AgreeingIsTransitive
  <1>3. CASE Start
    BY <1>1, <1>3, WantedType, StartWithoutSpawnType DEF Start, StartSpawns
  <1>4. CASE StopIntent
    BY <1>1, <1>4 DEF StopIntent, Records
  <1>5. CASE Monitor
    <2>1. CASE MonitorRunning
      <3>1. Refreshed(rec, Launcher(child), "DEGRADED") \subseteq Agreeing(rec)
        BY <1>1, RefreshedKeeps
      <3>2. [rec EXCEPT !.state = "STOPPING"] \in Records
        BY <1>1, <1>2
      <3> QED
        BY <2>1, <3>1, <3>2, AgreeingIsTransitive, Zenon DEF MonitorRunning
    <2>2. CASE MonitorStopped
      BY <1>1, <1>2, <2>2 DEF MonitorStopped
    <2>3. CASE MonitorAdopts
      <3>1. PICK snap \in Snapshots : \E p \in Roots(snap) :
              rec' \in {[r EXCEPT !.state = "RUNNING"] :
                        r \in Refreshed(Renamed(rec, p), p, "RUNNING")}
        BY <2>3, Zenon DEF MonitorAdopts
      <3>2. PICK p \in Roots(snap) :
              rec' \in {[r EXCEPT !.state = "RUNNING"] :
                        r \in Refreshed(Renamed(rec, p), p, "RUNNING")}
        BY <3>1
      <3>3. PICK r \in Refreshed(Renamed(rec, p), p, "RUNNING") :
              rec' = [r EXCEPT !.state = "RUNNING"]
        BY <3>2
      <3>4. Renamed(rec, p) \in Agreeing(rec)
        BY <1>1, SnapshotType, RenamedKeeps DEF Roots
      <3>5. Refreshed(Renamed(rec, p), p, "RUNNING") \subseteq Agreeing(Renamed(rec, p))
        BY <1>1, <3>4, AgreeingIsTransitive, RefreshedKeeps
      <3>6. r \in Records
        BY <3>5, AgreeingIsTransitive
      <3> QED
        BY <1>1, <3>3, <3>6, StateKeeps, AgreeingIsTransitive
    <2>4. CASE MonitorRestarts
      BY <1>1, <1>2, <2>4 DEF MonitorRestarts
    <2>5. CASE MonitorGivesUp
      BY <1>1, <1>2, <2>5 DEF MonitorGivesUp
    <2> QED
      BY <1>5, <2>1, <2>2, <2>3, <2>4, <2>5 DEF Monitor
  <1>6. CASE Status
    <2>1. StatusOfChild(rec) \subseteq Records
      BY <1>1, StatusOfChildKeeps, AgreeingIsTransitive
    <2>2. ASSUME NEW r \in Records PROVE StatusOfAdopted(r) \subseteq Records
      BY StatusOfAdoptedKeeps, AgreeingIsTransitive
    <2>3. CASE child # 0 /\ ChildRuns
      BY <1>6, <2>1, <2>3, Zenon DEF Status
    <2>4. CASE ~(child # 0 /\ ChildRuns)
      <3>1. PICK r \in (IF child # 0 THEN StatusOfChild(rec) ELSE {rec}) :
              rec' \in StatusOfAdopted(r)
        BY <1>6, <2>4 DEF Status
      <3>2. r \in Records
        BY <1>1, <2>1
      <3> QED
        BY <2>2, <3>1, <3>2
    <2> QED
      BY <2>3, <2>4
  <1>7. CASE RecordSpawn
    BY <1>7, SpawnType DEF RecordSpawn, SpawnIsHeld
  <1>8. CASE StopRefused
    BY <1>1, <1>2, <1>8 DEF StopRefused
  <1>9. CASE StopTerminates
    <2>1. \/ rec' = rec \/ rec' = Cleared(rec, "STOPPED")
          \/ rec' = [rec EXCEPT !.state = "DEGRADED"]
      BY <1>9, Zenon DEF StopTerminates
    <2> QED
      BY <1>1, <1>2, <2>1
  <1>10. CASE MonitorStarts
    BY <1>1, <1>10, WantedType, StartWithoutSpawnType DEF MonitorStarts, StartSpawns
  <1>11. CASE MonitorSaves
    <2>1. [rec EXCEPT !.desired = "RUNNING"] \in Records
      BY <1>1 DEF Records
    <2> QED
      BY <1>1, <1>11, <2>1, ClearedKeeps, AgreeingIsTransitive DEF MonitorSaves
  <1>12. CASE Environment
    BY <1>1, <1>12 DEF Environment, LauncherExits, ComponentExits, ControlDies, WindowPasses
  <1> QED
    BY <1>3, <1>4, <1>5, <1>6, <1>7, <1>8, <1>9, <1>10, <1>11, <1>12 DEF Next, Continue

(* The other variables stay well typed.                                      *)
LEMMA TypeStep ==
  ASSUME TypeOK, SpawnIsHeld, [Next]_vars
  PROVE  TypeOK'
  <1>1. CASE UNCHANGED vars
    BY <1>1 DEF vars, TypeOK
  <1>2. CASE Next
    <2>1. rec' \in Records
      BY <1>2, RecordStep
    <2>2. child' \in 0..MaxSpawns /\ spawned' \in 0..MaxSpawns
      BY <1>2, SupervisorAssumption
      DEF TypeOK, Next, Start, StartWithoutSpawn, StartSpawns, StopIntent, Monitor,
          MonitorRunning, MonitorStopped, MonitorAdopts, MonitorRestarts, MonitorGivesUp,
          Status, Continue, RecordSpawn, StopRefused, StopTerminates, MonitorStarts,
          MonitorSaves, Environment, LauncherExits, ComponentExits, ControlDies,
          WindowPasses, memory, processes, history
    <2>3. alive' \subseteq Processes
      <3>1. CASE alive' \subseteq alive
        BY <3>1 DEF TypeOK
      <3>2. CASE /\ spawned < MaxSpawns
                 /\ alive' = alive \cup {Launcher(spawned + 1), Interpreter(spawned + 1)}
        <4>1. spawned + 1 \in Instances
          BY <3>2, SupervisorAssumption DEF TypeOK, Instances
        <4> QED
          BY <3>2, <4>1 DEF TypeOK, Processes, Launcher, Interpreter
      <3>3. (alive' \subseteq alive) \/
            (/\ spawned < MaxSpawns
             /\ alive' = alive \cup {Launcher(spawned + 1), Interpreter(spawned + 1)})
        BY <1>2
        DEF Next, Start, StartWithoutSpawn, StartSpawns, StopIntent, Monitor,
            MonitorRunning, MonitorStopped, MonitorAdopts, MonitorRestarts, MonitorGivesUp,
            Status, Continue, RecordSpawn, StopRefused, StopTerminates, MonitorStarts,
            MonitorSaves, Environment, LauncherExits, ComponentExits, ControlDies,
            WindowPasses, memory, processes, history
      <3> QED
        BY <3>1, <3>2, <3>3
    <2>4. /\ recent' \in 0..MaxRestarts
          /\ deaths' \in 0..MaxControlDeaths
          /\ autoRestarts' \in Nat
      BY <1>2, SupervisorAssumption
      DEF TypeOK, Next, Start, StartWithoutSpawn, StartSpawns, StopIntent, Monitor,
          MonitorRunning, MonitorStopped, MonitorAdopts, MonitorRestarts, MonitorGivesUp,
          Status, Continue, RecordSpawn, StopRefused, StopTerminates, MonitorStarts,
          MonitorSaves, Environment, LauncherExits, ComponentExits, ControlDies,
          WindowPasses, memory, processes, history
    <2>5. op' \in Ops
      BY <1>2
      DEF TypeOK, Ops, Next, Start, StartWithoutSpawn, StartSpawns, StopIntent, Monitor,
          MonitorRunning, MonitorStopped, MonitorAdopts, MonitorRestarts, MonitorGivesUp,
          Status, Continue, RecordSpawn, StopRefused, StopTerminates, MonitorStarts,
          MonitorSaves, Environment, LauncherExits, ComponentExits, ControlDies,
          WindowPasses, memory, processes, history
    <2>6. stopAsked' \in BOOLEAN
      BY <1>2, Zenon
      DEF TypeOK, Next, Start, StopIntent, Monitor,
          MonitorRunning, MonitorStopped, MonitorAdopts, MonitorRestarts, MonitorGivesUp,
          Status, Continue, RecordSpawn, StopRefused, StopTerminates, MonitorStarts,
          MonitorSaves, Environment, LauncherExits, ComponentExits, ControlDies,
          WindowPasses, history
    <2> QED
      BY <2>1, <2>2, <2>3, <2>4, <2>5, <2>6 DEF TypeOK
  <1> QED
    BY <1>1, <1>2

(* ------------------------- the inductive invariant ----------------------- *)

(* A spawn in progress keeps its handle.                                     *)
LEMMA SpawnIsHeldStep ==
  ASSUME TypeOK, SpawnIsHeld, Next
  PROVE  SpawnIsHeld'
  BY SupervisorAssumption
  DEF TypeOK, SpawnIsHeld, Next, Start, StartWithoutSpawn, StartSpawns, StopIntent, Monitor,
      MonitorRunning, MonitorStopped, MonitorAdopts, MonitorRestarts, MonitorGivesUp,
      Monitors, MonitorSeesCrash, Status, Continue, RecordSpawn, StopRefused, StopTerminates,
      MonitorStarts, MonitorSaves, Environment, LauncherExits, ComponentExits, ControlDies,
      WindowPasses, memory, processes, history

(* A saved stop intent survives every step but a start request: what an      *)
(* operation saves on a stopped component still desires STOPPED, and the     *)
(* monitor restarts only what desires RUNNING.                               *)
LEMMA StopIsSavedStep ==
  ASSUME TypeOK, StopIsSaved, Next
  PROVE  StopIsSaved'
  <1>1. SUFFICES ASSUME stopAsked'
                 PROVE  rec'.desired = "STOPPED" /\ op' \in {"idle", "stopping"}
    BY DEF StopIsSaved
  <1>2. rec \in Records
    BY DEF TypeOK
  <1>3. ASSUME NEW s \in States
        PROVE  [rec EXCEPT !.state = s].desired = rec.desired /\ Cleared(rec, s).desired = rec.desired
    BY <1>2, StateKeeps, ClearedKeeps DEF Agreeing
  <1>4. ~Start
    BY <1>1, Zenon DEF Start
  <1>5. CASE StopIntent
    BY <1>2, <1>5 DEF StopIntent, Records
  <1>6. ASSUME stopAsked, rec.desired = "STOPPED", op \in {"idle", "stopping"}, ~StopIntent
        PROVE  rec'.desired = "STOPPED" /\ op' \in {"idle", "stopping"}
    <2>1. CASE Monitor
      <3>1. rec' = [rec EXCEPT !.state = "STOPPING"] \/ rec' = Cleared(rec, "STOPPED")
        BY <1>6, <2>1 DEF Monitor, MonitorRunning, MonitorStopped, MonitorAdopts,
                          MonitorRestarts, MonitorGivesUp, MonitorSeesCrash
      <3>2. op' \in {"idle", "stopping"}
        BY <1>6, <2>1 DEF Monitor, MonitorRunning, MonitorStopped, MonitorAdopts,
                          MonitorRestarts, MonitorGivesUp, MonitorSeesCrash
      <3> QED
        BY <1>3, <1>6, <3>1, <3>2 DEF States
    <2>2. CASE Status
      <3>1. StatusOfChild(rec) \subseteq Agreeing(rec)
        BY <1>2, StatusOfChildKeeps
      <3>2. ASSUME NEW r \in Agreeing(rec) PROVE StatusOfAdopted(r) \subseteq Agreeing(rec)
        BY StatusOfAdoptedKeeps, AgreeingIsTransitive
      <3>3. rec \in Agreeing(rec)
        BY <1>2 DEF Agreeing
      <3>4. rec' \in Agreeing(rec)
        <4>1. CASE child # 0 /\ ChildRuns
          BY <2>2, <3>1, <4>1, Zenon DEF Status
        <4>2. CASE ~(child # 0 /\ ChildRuns)
          <5>1. PICK r \in (IF child # 0 THEN StatusOfChild(rec) ELSE {rec}) :
                  rec' \in StatusOfAdopted(r)
            BY <2>2, <4>2 DEF Status
          <5>2. r \in Agreeing(rec)
            BY <3>1, <3>3
          <5> QED
            BY <3>2, <5>1, <5>2
        <4> QED
          BY <4>1, <4>2
      <3>5. op' = op
        BY <2>2 DEF Status
      <3> QED
        BY <1>6, <3>4, <3>5 DEF Agreeing
    <2>3. CASE Continue
      <3>1. \/ rec' = rec \/ rec' = Cleared(rec, "STOPPED")
            \/ rec' = [rec EXCEPT !.state = "DEGRADED"]
        BY <1>6, <2>3 DEF Continue, RecordSpawn, StopRefused, StopTerminates,
                          MonitorStarts, MonitorSaves
      <3>2. op' = "idle"
        BY <1>6, <2>3 DEF Continue, RecordSpawn, StopRefused, StopTerminates,
                          MonitorStarts, MonitorSaves
      <3> QED
        BY <1>3, <1>6, <3>1, <3>2 DEF States
    <2>4. CASE Environment
      BY <1>6, <2>4 DEF Environment, LauncherExits, ComponentExits, ControlDies, WindowPasses
    <2> QED
      BY <1>4, <1>6, <2>1, <2>2, <2>3, <2>4 DEF Next
  <1>7. CASE ~StopIntent
    <2>1. stopAsked' = stopAsked
      BY <1>1, <1>4, <1>7, Zenon
      DEF Next, Monitor, MonitorRunning, MonitorStopped, MonitorAdopts,
          MonitorRestarts, MonitorGivesUp, Status, Continue, RecordSpawn, StopRefused,
          StopTerminates, MonitorStarts, MonitorSaves, Environment, LauncherExits,
          ComponentExits, ControlDies, WindowPasses, history
    <2> QED
      BY <1>1, <1>6, <1>7, <2>1 DEF StopIsSaved
  <1> QED
    BY <1>5, <1>7

(* The death of Control moves the restarts of its window into the ones of    *)
(* earlier Controls, which are at most MaxRestarts each.                     *)
LEMMA RestartsAreCountedStep ==
  ASSUME TypeOK, RestartsAreCounted, Next
  PROVE  RestartsAreCounted'
  <1>1. /\ MaxRestarts \in Nat /\ MaxControlDeaths \in Nat
        /\ recent \in 0..MaxRestarts /\ deaths \in 0..MaxControlDeaths /\ autoRestarts \in Nat
    BY SupervisorAssumption DEF TypeOK
  <1>2. MaxRestarts * deaths \in Nat
        /\ MaxRestarts * (deaths + 1) = MaxRestarts * deaths + MaxRestarts
    BY <1>1
  <1>3. CASE ControlDies
    BY <1>1, <1>2, <1>3 DEF ControlDies, RestartsAreCounted
  <1>4. CASE WindowPasses
    BY <1>1, <1>2, <1>4 DEF WindowPasses, RestartsAreCounted
  <1>5. CASE MonitorRestarts
    BY <1>1, <1>2, <1>5 DEF MonitorRestarts, RestartsAreCounted
  <1>6. CASE UNCHANGED <<recent, deaths, autoRestarts>>
    BY <1>6 DEF RestartsAreCounted
  <1> QED
    BY <1>3, <1>4, <1>5, <1>6, Zenon
    DEF Next, Start, StopIntent, Monitor, MonitorRunning, MonitorStopped, MonitorAdopts,
        MonitorGivesUp, Status, Continue, RecordSpawn, StopRefused, StopTerminates,
        MonitorStarts, MonitorSaves, Environment, LauncherExits, ComponentExits,
        memory, processes, history

(* The inductive invariant holds in every reachable state of Supervisor,     *)
(* whatever snapshots, taskkill and Control deaths do.                       *)
THEOREM Invariance == Spec => []IInv
  <1>1. Init => IInv
    <2>1. Init => TypeOK
      <3>1. TRUE \in BOOLEAN /\ FALSE \in BOOLEAN
        BY Zenon
      <3>2. NewRecord \in Records
        BY <3>1 DEF Records, NewRecord, States
      <3>3. Init => stopAsked \in BOOLEAN
        BY <3>1, Zenon DEF Init
      <3> QED
        BY <3>2, <3>3, SupervisorAssumption DEF Init, TypeOK, Ops
    <2>2. Init => SpawnIsHeld /\ StopIsSaved
      BY DEF Init, SpawnIsHeld, StopIsSaved
    <2>3. Init => RestartsAreCounted
      BY SupervisorAssumption DEF Init, RestartsAreCounted
    <2> QED
      BY <2>1, <2>2, <2>3 DEF IInv
  <1>2. IInv /\ [Next]_vars => IInv'
    <2>1. IInv /\ [Next]_vars => TypeOK'
      BY TypeStep DEF IInv
    <2>2. IInv /\ Next => SpawnIsHeld' /\ StopIsSaved' /\ RestartsAreCounted'
      BY SpawnIsHeldStep, StopIsSavedStep, RestartsAreCountedStep DEF IInv
    <2>3. IInv /\ UNCHANGED vars => SpawnIsHeld' /\ StopIsSaved' /\ RestartsAreCounted'
      BY DEF IInv, vars, SpawnIsHeld, StopIsSaved, RestartsAreCounted
    <2> QED
      BY <2>1, <2>2, <2>3 DEF IInv
  <1> QED
    BY <1>1, <1>2, PTL DEF Spec

(* Every reachable state of the registry, the handles and the processes is   *)
(* well typed.                                                               *)
THEOREM TypeCorrect == Spec => []TypeOK
  <1>1. IInv => TypeOK
    BY DEF IInv
  <1> QED
    BY <1>1, Invariance, PTL

(* After /stop nothing but a start request spawns the component.             *)
THEOREM StoppedStaysStopped == Spec => NoResurrection
  <1>1. IInv /\ [Next]_vars => [spawned' > spawned => ~stopAsked']_vars
    <2>1. SUFFICES ASSUME IInv, Next, spawned' > spawned
                   PROVE  ~stopAsked'
      BY DEF vars
    <2>2. Start \/ MonitorStarts
      <3>1. spawned \in Nat
        BY <2>1, SupervisorAssumption DEF IInv, TypeOK
      <3>2. spawned' # spawned
        BY <2>1, <3>1
      <3> QED
        BY <2>1, <3>2
        DEF Next, StopIntent, Monitor, MonitorRunning, MonitorStopped, MonitorAdopts,
            MonitorRestarts, MonitorGivesUp, Status, Continue, RecordSpawn, StopRefused,
            StopTerminates, MonitorSaves, Environment, LauncherExits, ComponentExits,
            ControlDies, WindowPasses, processes
    <2>3. CASE Start
      BY <2>3, Zenon DEF Start
    <2>4. CASE MonitorStarts
      <3>1. ~stopAsked
        BY <2>1, <2>4 DEF IInv, StopIsSaved, MonitorStarts
      <3> QED
        BY <2>4, <3>1, Zenon DEF MonitorStarts, history
    <2> QED
      BY <2>2, <2>3, <2>4
  <1> QED
    BY <1>1, Invariance, PTL DEF Spec, NoResurrection

(* The monitor's restarts in one window stay within the limit of each        *)
(* Control process that lived in it.                                         *)
THEOREM RestartsAreBounded == Spec => []RestartsBounded
  <1>1. IInv => RestartsBounded
    <2>1. SUFFICES ASSUME IInv PROVE RestartsBounded
      OBVIOUS
    <2>2. /\ MaxRestarts \in Nat /\ MaxControlDeaths \in Nat
          /\ recent \in 0..MaxRestarts /\ deaths \in 0..MaxControlDeaths /\ autoRestarts \in Nat
      BY <2>1, SupervisorAssumption DEF IInv, TypeOK
    <2>3. MaxRestarts * deaths \in Nat
          /\ MaxRestarts * (deaths + 1) = MaxRestarts * deaths + MaxRestarts
      BY <2>2
    <2> QED
      BY <2>1, <2>2, <2>3 DEF IInv, RestartsAreCounted, RestartsBounded
  <1> QED
    BY <1>1, Invariance, PTL

(* ----------------------- one tree, while snapshots work ------------------ *)

LEMMA OneSnapshot ==
  ASSUME ~SnapshotMayFail
  PROVE  Snapshots = {alive}
  BY DEF Snapshots

LEMMA ProcessParts ==
  /\ \A p \in Processes : /\ p.inst \in Instances
                          /\ p = Launcher(p.inst) \/ p = Interpreter(p.inst)
  /\ \A i : Launcher(i).inst = i /\ Interpreter(i).inst = i
  /\ \A i : Launcher(i).part = "launcher" /\ Interpreter(i).part = "interpreter"
  /\ \A i \in Instances : Launcher(i) \in Processes /\ Interpreter(i) \in Processes
  /\ NoPid \notin Processes /\ NoPid.inst = 0
  BY SupervisorAssumption DEF Processes, Launcher, Interpreter, NoPid, Instances

(* The records that know their trees.                                        *)
Known == {x \in Records : KnowsLaunchers(x) /\ KnowsInterpreters(x) /\ IsPast(x)}

(* The records that an operation on r may save: it names what r names, or    *)
(* nothing, or a living process.                                             *)
Following(r) == {x \in Known : x.pid = r.pid \/ x.pid = NoPid \/ x.pid \in alive}

(* Known and Following look at pid and ids only.                             *)
LEMMA StateIsNotKnown ==
  ASSUME NEW r \in Records, NEW s \in States
  PROVE  /\ [r EXCEPT !.state = s].pid = r.pid /\ [r EXCEPT !.state = s].ids = r.ids
         /\ r \in Known => [r EXCEPT !.state = s] \in Following(r)
  <1>1. [r EXCEPT !.state = s] \in Records
    BY StateKeeps, AgreeingIsTransitive
  <1>2. [r EXCEPT !.state = s].pid = r.pid /\ [r EXCEPT !.state = s].ids = r.ids
    BY DEF Records
  <1> QED
    BY <1>1, <1>2 DEF Known, Following, KnowsLaunchers, KnowsInterpreters, IsPast

LEMMA ClearedIsKnown ==
  ASSUME TypeOK, NEW r \in Records, NEW s \in States
  PROVE  Cleared(r, s) \in Following(r) /\ Cleared(r, s).pid = NoPid
  <1>1. Cleared(r, s) \in Records
    BY ClearedKeeps, AgreeingIsTransitive
  <1>2. Cleared(r, s).pid = NoPid /\ Cleared(r, s).ids = {}
    BY DEF Records, Cleared
  <1>3. \A i \in Instances : NoPid # Interpreter(i)
    BY ProcessParts
  <1>4. spawned \in Nat
    BY SupervisorAssumption DEF TypeOK
  <1> QED
    BY <1>1, <1>2, <1>3, <1>4, ProcessParts
       DEF Known, Following, KnowsLaunchers, KnowsInterpreters, IsPast

(* A record identified with a root of the living tree, or with the process   *)
(* it names already, knows the whole tree.                                   *)
LEMMA IdentifiedIsKnown ==
  ASSUME TypeOK, OneTree, NothingIsNew, NEW r \in Records, KnowsLaunchers(r), IsPast(r),
         NEW q \in alive,
         Launcher(q.inst) \in alive => q = Launcher(q.inst) \/ Launcher(q.inst) \in r.ids
  PROVE  [Identified(r, q, alive) EXCEPT !.state = "RUNNING"] \in Following(r)
  <1> DEFINE x == [Identified(r, q, alive) EXCEPT !.state = "RUNNING"]
             i == q.inst
  <1>1. /\ alive \subseteq Processes /\ q \in Processes /\ i \in Instances
        /\ q = Launcher(i) \/ q = Interpreter(i)
    BY ProcessParts DEF TypeOK
  <1>2. Identified(r, q, alive) \in Records
    <2>1. Identified(r, q, alive) \in Agreeing(r)
      BY <1>1, IdentifiedKeeps
    <2> QED
      BY <2>1, AgreeingIsTransitive
  <1>3. "RUNNING" \in States
    BY DEF States
  <1>4. x \in Records /\ x.pid = Identified(r, q, alive).pid /\ x.ids = Identified(r, q, alive).ids
    BY <1>2, <1>3, StateIsNotKnown, StateKeeps, AgreeingIsTransitive
  <1>5. x.pid = q /\ x.ids = Tree(q, alive) \cup (r.ids \cap alive)
    BY <1>4 DEF Identified, Records
  <1> HIDE DEF x
  <1>6. q \in Tree(q, alive) /\ Tree(q, alive) \subseteq alive
    BY DEF Tree
  <1>7. Launcher(i) \in alive => Launcher(i) \in x.ids
    BY <1>5, <1>6
  <1>8. KnowsLaunchers(x)
    <2> SUFFICES ASSUME NEW j \in Instances, Launcher(j) \in alive
                 PROVE  Launcher(j) \in x.ids
      BY DEF KnowsLaunchers
    <2>1. j = i
      BY ProcessParts DEF OneTree
    <2> QED
      BY <1>7, <2>1
  <1>9. KnowsInterpreters(x)
    <2> SUFFICES ASSUME NEW j \in Instances, Launcher(j) \in alive, Interpreter(j) \in alive
                 PROVE  Interpreter(j) \in x.ids \/ x.pid = Launcher(j)
      BY DEF KnowsInterpreters
    <2>1. j = i
      BY ProcessParts DEF OneTree
    <2> QED
      BY <1>1, <1>5, <1>6, <2>1
  <1>10. IsPast(x)
    BY <1>5, <1>6 DEF IsPast, NothingIsNew
  <1>11. x \in Following(r)
    BY <1>4, <1>5, <1>8, <1>9, <1>10 DEF Following, Known
  <1> QED
    BY <1>11 DEF x

(* _refresh_identity leaves a record that knows its tree.                    *)
LEMMA RefreshedIsKnown ==
  ASSUME ~SnapshotMayFail, TypeOK, OneTree, NothingIsNew,
         NEW r \in Records, KnowsLaunchers(r), IsPast(r), NEW p, NEW s \in States,
         p \in alive \/ KnowsInterpreters(r),
         p \in alive => p = r.pid \/ p = Launcher(p.inst) \/ Launcher(p.inst) \notin alive
  PROVE  Refreshed(r, p, s) \subseteq Following(r)
  <1> SUFFICES ASSUME NEW x \in Refreshed(r, p, s) PROVE x \in Following(r)
    OBVIOUS
  <1>1. x \in (LET roots == RootsFor(r, p, alive)
               IN IF roots = {} THEN {[r EXCEPT !.state = s]}
                  ELSE {[Identified(r, q, alive) EXCEPT !.state = "RUNNING"] : q \in roots})
    BY OneSnapshot DEF Refreshed
  <1>2. CASE RootsFor(r, p, alive) = {} /\ x = [r EXCEPT !.state = s]
    <2>1. KnowsInterpreters(r)
      BY <1>2 DEF RootsFor
    <2> QED
      BY <1>2, <2>1, StateIsNotKnown DEF Known
  <1>3. CASE \E q \in RootsFor(r, p, alive) :
               x = [Identified(r, q, alive) EXCEPT !.state = "RUNNING"]
    <2>1. PICK q \in RootsFor(r, p, alive) :
                 x = [Identified(r, q, alive) EXCEPT !.state = "RUNNING"]
      BY <1>3
    <2>2. /\ q \in alive /\ q \in Processes /\ q.inst \in Instances
          /\ q = Launcher(q.inst) \/ q = Interpreter(q.inst)
      BY ProcessParts DEF RootsFor, Roots, TypeOK
    <2>3. \/ q = p /\ p \in alive
          \/ q \in r.ids
          \/ q.part = "launcher" \/ Launcher(q.inst) \notin alive
      BY DEF RootsFor, Roots
    <2>4. Launcher(q.inst) \in alive => q = Launcher(q.inst) \/ Launcher(q.inst) \in r.ids
      BY <2>2, <2>3, ProcessParts DEF KnowsLaunchers
    <2> QED
      BY <2>1, <2>2, <2>4, IdentifiedIsKnown
  <1> QED
    BY <1>1, <1>2, <1>3

(* ---------------------- what the operations save ------------------------- *)

(* What holds between the saves of an operation, whatever record r it is     *)
(* working on.                                                               *)
TreeHolds(r) ==
  ~SnapshotMayFail /\ TypeOK /\ OneTree /\ NothingIsNew /\ r \in Known

(* A root that is adopted, and then identified.                              *)
LEMMA AdoptingIsKnown ==
  ASSUME NEW r, TreeHolds(r), NEW p \in Roots(alive), NEW s \in States
  PROVE  Refreshed(Renamed(r, p), p, s) \subseteq Following(r)
  <1>1. /\ ~SnapshotMayFail /\ TypeOK /\ OneTree /\ NothingIsNew
        /\ r \in Records /\ KnowsLaunchers(r) /\ IsPast(r)
    BY DEF TreeHolds, Known
  <1>2. /\ p \in alive /\ p \in Processes /\ p.inst <= spawned
        /\ p = Launcher(p.inst) \/ Launcher(p.inst) \notin alive
    BY <1>1, ProcessParts DEF Roots, TypeOK, NothingIsNew, Launcher, Interpreter, Processes
  <1>3. Renamed(r, p) \in Records
    <2>1. Renamed(r, p) \in Agreeing(r)
      BY <1>1, <1>2, RenamedKeeps
    <2> QED
      BY <2>1, AgreeingIsTransitive
  <1>4. Renamed(r, p).pid = p /\ Renamed(r, p).ids = r.ids
    BY <1>1 DEF Renamed, Records
  <1>5. KnowsLaunchers(Renamed(r, p)) /\ IsPast(Renamed(r, p))
    BY <1>1, <1>2, <1>4, ProcessParts DEF KnowsLaunchers, IsPast
  <1>6. Refreshed(Renamed(r, p), p, s) \subseteq Following(Renamed(r, p))
    BY <1>1, <1>2, <1>3, <1>5, RefreshedIsKnown
  <1>7. Following(Renamed(r, p)) \subseteq Following(r)
    BY <1>2, <1>4 DEF Following
  <1> QED
    BY <1>6, <1>7

(* start_component without Popen: on the record it loaded, asking to run.    *)
LEMMA StartIsKnown ==
  ASSUME NEW r, TreeHolds(r), NEW next, StartWithoutSpawn(r, next)
  PROVE  rec' \in Following(r)
  <1>1. /\ ~SnapshotMayFail /\ TypeOK /\ OneTree /\ NothingIsNew
        /\ r \in Records /\ r \in Known /\ KnowsLaunchers(r) /\ KnowsInterpreters(r) /\ IsPast(r)
    BY DEF TreeHolds, Known
  <1>2. {"DEGRADED", "RUNNING", "ERROR"} \subseteq States
    BY DEF States
  <1>3. Refreshed(r, Launcher(child), "DEGRADED") \subseteq Following(r)
    BY <1>1, <1>2, RefreshedIsKnown, ProcessParts
  <1>4. Refreshed(r, r.pid, "RUNNING") \subseteq Following(r)
    BY <1>1, <1>2, RefreshedIsKnown
  <1>5. [r EXCEPT !.state = "DEGRADED"] \in Following(r) /\ [r EXCEPT !.state = "ERROR"] \in Following(r)
    BY <1>1, <1>2, StateIsNotKnown
  <1>6. KeptRecords(r) \subseteq Following(r)
    BY <1>3, <1>4, <1>5, Zenon DEF KeptRecords
  <1>7. ASSUME NEW p \in Roots(alive) PROVE Adopted(r, p) \subseteq Following(r)
    <2>1. Refreshed(Renamed(r, p), p, "DEGRADED") \subseteq Following(r)
      BY <1>2, AdoptingIsKnown
    <2> QED
      BY <1>5, <2>1, Zenon DEF Adopted
  <1>8. AdoptedRecords(r) \subseteq Following(r)
    <2> SUFFICES ASSUME NEW x \in AdoptedRecords(r) PROVE x \in Following(r)
      OBVIOUS
    <2>1. x \in (IF Cardinality(Roots(alive)) > 1 THEN {[r EXCEPT !.state = "DEGRADED"]}
                 ELSE UNION {Adopted(r, p) : p \in Roots(alive)})
      BY <1>1, OneSnapshot DEF AdoptedRecords
    <2> QED
      BY <1>5, <1>7, <2>1
  <1> QED
    BY <1>5, <1>6, <1>8, Zenon DEF StartWithoutSpawn

(* status and reconcile.                                                     *)
LEMMA StatusIsKnown ==
  ASSUME NEW r, TreeHolds(r)
  PROVE  StatusOfChild(r) \subseteq Following(r) /\ StatusOfAdopted(r) \subseteq Following(r)
  <1>1. /\ ~SnapshotMayFail /\ TypeOK /\ OneTree /\ NothingIsNew
        /\ r \in Records /\ r \in Known /\ KnowsLaunchers(r) /\ KnowsInterpreters(r) /\ IsPast(r)
    BY DEF TreeHolds, Known
  <1>2. {"DEGRADED", "RUNNING", "STOPPING", "STOPPED", "CRASHED"} \subseteq States
    BY DEF States
  <1>3. Refreshed(r, Launcher(child), "DEGRADED") \subseteq Following(r)
    BY <1>1, <1>2, RefreshedIsKnown, ProcessParts
  <1>4. Refreshed(r, r.pid, "RUNNING") \subseteq Following(r)
    BY <1>1, <1>2, RefreshedIsKnown
  <1>5. Refreshed([r EXCEPT !.state = "RUNNING"], r.pid, "RUNNING") \subseteq Following(r)
    <2> DEFINE y == [r EXCEPT !.state = "RUNNING"]
    <2>1. y \in Following(r) /\ y.pid = r.pid
      BY <1>1, <1>2, StateIsNotKnown
    <2>2. y \in Records /\ KnowsLaunchers(y) /\ KnowsInterpreters(y) /\ IsPast(y)
      BY <2>1 DEF Following, Known
    <2> HIDE DEF y
    <2>3. Refreshed(y, r.pid, "RUNNING") \subseteq Following(y)
      BY <1>1, <1>2, <2>1, <2>2, RefreshedIsKnown
    <2>4. Following(y) \subseteq Following(r)
      BY <2>1 DEF Following
    <2>5. Refreshed(y, r.pid, "RUNNING") \subseteq Following(r)
      BY <2>3, <2>4
    <2> QED
      BY <2>5 DEF y
  <1>6. /\ [r EXCEPT !.state = "STOPPING"] \in Following(r)
        /\ [r EXCEPT !.state = "DEGRADED"] \in Following(r)
    BY <1>1, <1>2, StateIsNotKnown
  <1>7. Cleared(r, "STOPPED") \in Following(r) /\ Cleared(r, "CRASHED") \in Following(r)
    BY <1>1, <1>2, ClearedIsKnown
  <1>8. r \in Following(r)
    BY <1>1 DEF Following
  <1>9. StatusOfChild(r) \subseteq Following(r)
    BY <1>3, <1>5, <1>6, <1>7, Zenon DEF StatusOfChild
  <1>10. StatusOfAdopted(r) \subseteq Following(r)
    BY <1>4, <1>6, <1>7, <1>8, Zenon DEF StatusOfAdopted
  <1> QED
    BY <1>9, <1>10

(* The record of a new instance names it.                                    *)
LEMMA SpawnIsKnown ==
  ASSUME ~SnapshotMayFail, TypeOK, OneTree, NothingIsNew, child # 0
  PROVE  \A x \in SpawnRecords :
           x \in Known /\ (x.pid = Launcher(child) \/ x.pid = NoPid \/ x.pid \in alive)
  <1> DEFINE new == [NewRecord EXCEPT !.state = "RUNNING", !.desired = "RUNNING",
                                      !.pid = Launcher(child)]
             young == [new EXCEPT !.sure = TRUE, !.ids = {Launcher(child)}]
  <1>1. child \in Instances /\ child <= spawned /\ spawned \in Nat
    BY SupervisorAssumption DEF TypeOK, Instances, NothingIsNew
  <1>2. Launcher(child) \in Processes
    BY <1>1, ProcessParts
  <1>3. TRUE \in BOOLEAN /\ FALSE \in BOOLEAN
    BY Zenon
  <1>4. new \in Records /\ new.pid = Launcher(child) /\ new.ids = {}
    BY <1>2, <1>3 DEF NewRecord, Records, States
  <1>5. young \in Records /\ young.pid = Launcher(child) /\ young.ids = {Launcher(child)}
    <2> HIDE DEF new
    <2> QED
      BY <1>2, <1>3, <1>4 DEF Records
  <1> HIDE DEF new, young
  <1>6. KnowsLaunchers(new) /\ KnowsInterpreters(new) /\ IsPast(new)
    BY <1>1, <1>4, ProcessParts DEF KnowsLaunchers, KnowsInterpreters, IsPast
  <1>7. KnowsLaunchers(young) /\ KnowsInterpreters(young) /\ IsPast(young)
    BY <1>1, <1>5, ProcessParts DEF KnowsLaunchers, KnowsInterpreters, IsPast
  <1>8. Refreshed(new, Launcher(child), "DEGRADED") \subseteq Following(new)
    <2>1. "DEGRADED" \in States
      BY DEF States
    <2> QED
      BY <1>4, <1>6, <2>1, RefreshedIsKnown
  <1>9. SpawnRecords \subseteq Refreshed(new, Launcher(child), "DEGRADED") \cup {young}
    BY Zenon DEF SpawnRecords, new, young
  <1>10. young \in Following(new)
    BY <1>4, <1>5, <1>7 DEF Known, Following
  <1> QED
    BY <1>4, <1>8, <1>9, <1>10 DEF Following

(* Every operation but the recording of a spawn saves a record that follows  *)
(* the one it loaded.                                                        *)
LEMMA RecordFollows ==
  ASSUME ~SnapshotMayFail, TreeInv, Next, ~RecordSpawn
  PROVE  rec' \in Following(rec)
  <1>1. TreeHolds(rec) /\ rec \in Records /\ rec \in Known /\ TypeOK
    BY DEF TreeInv, IInv, TypeOK, TreeHolds, Known
  <1>2. States = {"STOPPED", "RUNNING", "STOPPING", "DEGRADED", "CRASHED", "ERROR"}
    BY DEF States
  <1>3. ASSUME NEW s \in States
        PROVE  [rec EXCEPT !.state = s] \in Following(rec) /\ Cleared(rec, s) \in Following(rec)
    BY <1>1, StateIsNotKnown, ClearedIsKnown
  <1>4. rec \in Following(rec)
    BY <1>1 DEF Following
  <1>5. ASSUME NEW y \in Records, y.pid = rec.pid, y.ids = rec.ids
        PROVE  y \in Known /\ TreeHolds(y) /\ Following(y) = Following(rec)
    BY <1>1, <1>5 DEF Known, TreeHolds, KnowsLaunchers, KnowsInterpreters, IsPast, Following
  <1>6. ASSUME NEW next, StartWithoutSpawn(Wanted(rec), next)
        PROVE  rec' \in Following(rec)
    <2>1. Wanted(rec) \in Records /\ Wanted(rec).pid = rec.pid /\ Wanted(rec).ids = rec.ids
      BY <1>1 DEF Wanted, Records
    <2>2. TreeHolds(Wanted(rec)) /\ Following(Wanted(rec)) = Following(rec)
      BY <1>5, <2>1
    <2> QED
      BY <1>6, <2>2, StartIsKnown
  <1>7. CASE Start
    BY <1>4, <1>6, <1>7 DEF Start, StartSpawns
  <1>8. CASE StopIntent
    <2>1. /\ rec' \in Records /\ rec'.pid = rec.pid /\ rec'.ids = rec.ids
      BY <1>1, <1>2, <1>8 DEF StopIntent, Records
    <2> QED
      BY <1>5, <2>1 DEF Following
  <1>9. CASE Monitor
    <2>1. CASE MonitorRunning
      <3>1. Refreshed(rec, Launcher(child), "DEGRADED") \subseteq Following(rec)
        <4>1. ~SnapshotMayFail /\ OneTree /\ NothingIsNew /\ KnowsLaunchers(rec)
              /\ KnowsInterpreters(rec) /\ IsPast(rec)
          BY DEF TreeInv
        <4> QED
          BY <1>1, <1>2, <4>1, RefreshedIsKnown, ProcessParts
      <3>2. [rec EXCEPT !.state = "STOPPING"] \in Following(rec)
        BY <1>2, <1>3
      <3> QED
        BY <2>1, <3>1, <3>2, Zenon DEF MonitorRunning
    <2>2. CASE MonitorAdopts
      <3>1. PICK p \in Roots(alive) :
              rec' \in {[r EXCEPT !.state = "RUNNING"] :
                        r \in Refreshed(Renamed(rec, p), p, "RUNNING")}
        BY <2>2, OneSnapshot DEF MonitorAdopts
      <3>2. PICK r \in Refreshed(Renamed(rec, p), p, "RUNNING") :
              rec' = [r EXCEPT !.state = "RUNNING"]
        BY <3>1
      <3>3. r \in Following(rec) /\ r \in Known /\ r \in Records
        BY <1>1, <1>2, <3>2, AdoptingIsKnown DEF Following, Known
      <3>4. rec' \in Following(r)
        BY <1>2, <3>2, <3>3, StateIsNotKnown
      <3> QED
        BY <3>3, <3>4 DEF Following
    <2>3. CASE MonitorStopped \/ MonitorRestarts \/ MonitorGivesUp
      BY <1>2, <1>3, <2>3 DEF MonitorStopped, MonitorRestarts, MonitorGivesUp
    <2> QED
      BY <1>9, <2>1, <2>2, <2>3 DEF Monitor
  <1>10. CASE Status
    <2>1. ASSUME NEW y \in Following(rec) PROVE StatusOfAdopted(y) \subseteq Following(rec)
      <3>1. TreeHolds(y)
        BY <1>1 DEF Following, TreeHolds
      <3>2. StatusOfAdopted(y) \subseteq Following(y)
        BY <3>1, StatusIsKnown
      <3> QED
        BY <3>2 DEF Following
    <2>2. StatusOfChild(rec) \subseteq Following(rec)
      BY <1>1, StatusIsKnown
    <2>3. CASE child # 0 /\ ChildRuns
      BY <1>10, <2>2, <2>3, Zenon DEF Status
    <2>4. CASE ~(child # 0 /\ ChildRuns)
      <3>1. PICK r \in (IF child # 0 THEN StatusOfChild(rec) ELSE {rec}) :
              rec' \in StatusOfAdopted(r)
        BY <1>10, <2>4 DEF Status
      <3> QED
        BY <1>4, <2>1, <2>2, <3>1
    <2> QED
      BY <2>3, <2>4
  <1>11. CASE StopRefused \/ StopTerminates
    <2>1. \/ rec' = rec \/ rec' = Cleared(rec, "STOPPED")
          \/ rec' = [rec EXCEPT !.state = "DEGRADED"]
      BY <1>11, Zenon DEF StopRefused, StopTerminates
    <2> QED
      BY <1>2, <1>3, <1>4, <2>1
  <1>12. CASE MonitorStarts
    BY <1>4, <1>6, <1>12 DEF MonitorStarts, StartSpawns
  <1>13. CASE MonitorSaves
    <2> DEFINE y == [rec EXCEPT !.desired = "RUNNING"]
    <2>1. y \in Records /\ y.pid = rec.pid /\ y.ids = rec.ids
      BY <1>1 DEF Records
    <2> HIDE DEF y
    <2>2. Cleared(y, "CRASHED") \in Following(y) /\ Following(y) = Following(rec)
      BY <1>1, <1>2, <1>5, <2>1, ClearedIsKnown
    <2>3. rec' = Cleared(y, "CRASHED")
      BY <1>13 DEF MonitorSaves, y
    <2> QED
      BY <2>2, <2>3
  <1>14. CASE Environment
    BY <1>4, <1>14 DEF Environment, LauncherExits, ComponentExits, ControlDies, WindowPasses
  <1> QED
    BY <1>7, <1>8, <1>9, <1>10, <1>11, <1>12, <1>13, <1>14 DEF Next, Continue

(* What the steps do to the processes and the handle: they only lose some,   *)
(* or a spawn finds nothing alive.                                           *)
LEMMA ProcessesShrink ==
  ASSUME ~SnapshotMayFail, TypeOK, Next
  PROVE  \/ /\ alive' \subseteq alive /\ spawned' = spawned
            /\ child' = child \/ child' = 0
         \/ /\ alive = {} /\ rec' = rec
            /\ spawned < MaxSpawns /\ spawned' = spawned + 1 /\ child' = spawned + 1
            /\ alive' = {Launcher(spawned + 1), Interpreter(spawned + 1)}
            /\ \/ op = "idle" /\ op' = "spawned"
               \/ op = "restarting" /\ op' = "respawned"
  <1>1. ASSUME NEW r, NEW next, StartSpawns(r, next)
        PROVE  /\ alive = {} /\ rec' = rec
               /\ spawned < MaxSpawns /\ spawned' = spawned + 1 /\ child' = spawned + 1
               /\ alive' = {Launcher(spawned + 1), Interpreter(spawned + 1)}
               /\ op' = next
    BY <1>1, OneSnapshot DEF StartSpawns, NothingFound
  <1>2. CASE Start
    BY <1>1, <1>2 DEF Start, StartWithoutSpawn
  <1>3. CASE MonitorStarts
    BY <1>1, <1>3 DEF MonitorStarts, StartWithoutSpawn
  <1>4. CASE StopTerminates
    <2>1. alive' \subseteq alive /\ spawned' = spawned
      BY <1>4 DEF StopTerminates
    <2>2. child' = child \/ child' = 0
      BY <1>4 DEF StopTerminates
    <2> QED
      BY <2>1, <2>2
  <1> QED
    BY <1>2, <1>3, <1>4
    DEF Next, StopIntent, Monitor, MonitorRunning, MonitorStopped, MonitorAdopts,
        MonitorRestarts, MonitorGivesUp, Status, Continue, RecordSpawn, StopRefused,
        MonitorSaves, Environment, LauncherExits, ComponentExits,
        ControlDies, WindowPasses, memory, processes

(* The tree and what the record knows of it, one step.                       *)
LEMMA TreeStep ==
  ASSUME ~SnapshotMayFail, TreeInv, Next
  PROVE  TreeInv'
  <1>1. IInv'
    BY TypeStep, SpawnIsHeldStep, StopIsSavedStep, RestartsAreCountedStep DEF TreeInv, IInv
  <1>2. /\ TypeOK /\ OneTree /\ NothingIsNew /\ RecordNamesChild /\ IsPast(rec)
        /\ spawned \in Nat /\ child \in Nat /\ rec \in Records /\ SpawnIsHeld
        /\ StopIsShown /\ RestartIsBlank
    BY SupervisorAssumption DEF TreeInv, IInv, TypeOK
  <1>3. CASE /\ alive' \subseteq alive /\ spawned' = spawned
             /\ child' = child \/ child' = 0
    <2>1. OneTree' /\ NothingIsNew'
      BY <1>2, <1>3 DEF OneTree, NothingIsNew
    <2>2. /\ rec' \in Known
          /\ \/ ~RecordSpawn /\ (rec'.pid = rec.pid \/ rec'.pid = NoPid \/ rec'.pid \in alive)
             \/ RecordSpawn /\ (rec'.pid = Launcher(child) \/ rec'.pid = NoPid \/ rec'.pid \in alive)
      <3>1. CASE RecordSpawn
        BY <1>2, <3>1, SpawnIsKnown DEF RecordSpawn, SpawnIsHeld
      <3>2. CASE ~RecordSpawn
        BY <3>2, RecordFollows DEF Following
      <3> QED
        BY <3>1, <3>2
    <2>3. KnowsLaunchers(rec)' /\ KnowsInterpreters(rec)' /\ IsPast(rec)'
      BY <1>3, <2>2 DEF Known, KnowsLaunchers, KnowsInterpreters, IsPast
    <2>4. RecordNamesChild'
      <3> SUFFICES ASSUME ChildRuns', rec'.pid # NoPid, op' # "spawned"
                   PROVE  rec'.pid.inst = child'
        BY DEF RecordNamesChild
      <3>1. child' = child /\ child # 0 /\ Launcher(child) \in alive
        BY <1>3 DEF ChildRuns
      <3>2. CASE rec'.pid \in alive
        BY <1>2, <3>1, <3>2, ProcessParts DEF OneTree
      <3>3. CASE rec'.pid = Launcher(child)
        BY <3>1, <3>3, ProcessParts
      <3>4. CASE ~RecordSpawn /\ rec'.pid = rec.pid
        <4>1. op # "spawned"
          <5>1. CASE op = "spawned"
            <6>1. LauncherExits \/ ComponentExits \/ ControlDies
              BY <3>4, <5>1 DEF Next, Start, StopIntent, Monitor, MonitorRunning, MonitorStopped,
                 MonitorAdopts, MonitorRestarts, MonitorGivesUp, Monitors, MonitorSeesCrash, Status,
                 Continue, StopRefused, StopTerminates, MonitorStarts, MonitorSaves, Environment,
                 WindowPasses
            <6> QED
              BY <3>1, <5>1, <6>1 DEF LauncherExits, ComponentExits, ControlDies
          <5> QED
            BY <5>1
        <4> QED
          BY <1>2, <3>1, <3>4, <4>1 DEF RecordNamesChild, ChildRuns
      <3> QED
        BY <2>2, <3>2, <3>3, <3>4
    <2>5. StopIsShown'
      <3> SUFFICES ASSUME op' = "stopping" PROVE rec'.state = "STOPPING"
        BY DEF StopIsShown
      <3>1. CASE StopIntent
        BY <1>2, <3>1 DEF StopIntent, Records
      <3>2. CASE ~StopIntent
        <4>1. op = "stopping" /\ rec' = rec
          BY <3>2 DEF Next, Start, StartWithoutSpawn, StartSpawns, Monitor, MonitorRunning,
             MonitorStopped, MonitorAdopts, MonitorRestarts, MonitorGivesUp, Monitors,
             MonitorSeesCrash, Status, Continue, RecordSpawn, StopRefused, StopTerminates,
             MonitorStarts, MonitorSaves, Environment, LauncherExits, ComponentExits,
             ControlDies, WindowPasses
        <4> QED
          BY <1>2, <4>1 DEF StopIsShown
      <3> QED
        BY <3>1, <3>2
    <2>6. RestartIsBlank'
      <3> SUFFICES ASSUME op' \in {"restarting", "respawned"} PROVE rec'.pid = NoPid
        BY DEF RestartIsBlank
      <3>1. CASE MonitorRestarts
        <4>1. "CRASHED" \in States
          BY DEF States
        <4> QED
          BY <1>2, <3>1, <4>1, ClearedIsKnown DEF MonitorRestarts
      <3>2. CASE ~MonitorRestarts
        <4>1. op = op' /\ rec' = rec
          BY <1>2, <1>3, <3>2 DEF Next, Start, StartWithoutSpawn, StartSpawns, StopIntent, Monitor,
             MonitorRunning, MonitorStopped, MonitorAdopts, MonitorGivesUp, Monitors,
             MonitorSeesCrash, Status, Continue, RecordSpawn, StopRefused, StopTerminates,
             MonitorStarts, MonitorSaves, Environment, LauncherExits, ComponentExits,
             ControlDies, WindowPasses
        <4> QED
          BY <1>2, <4>1 DEF RestartIsBlank
      <3> QED
        BY <3>1, <3>2
    <2> QED
      BY <1>1, <2>1, <2>3, <2>4, <2>5, <2>6 DEF TreeInv
  <1>4. CASE /\ alive = {} /\ rec' = rec
             /\ spawned < MaxSpawns /\ spawned' = spawned + 1 /\ child' = spawned + 1
             /\ alive' = {Launcher(spawned + 1), Interpreter(spawned + 1)}
             /\ \/ op = "idle" /\ op' = "spawned"
                \/ op = "restarting" /\ op' = "respawned"
    <2>1. OneTree' /\ NothingIsNew'
      BY <1>2, <1>4, ProcessParts DEF OneTree, NothingIsNew
    <2>2. rec.pid \in Processes \cup {NoPid} /\ rec.ids \subseteq Processes
      BY <1>2 DEF Records
    <2>3. \A p \in rec.ids \cup {rec.pid} : p.inst \in Nat /\ p.inst <= spawned
      BY <1>2, <2>2, ProcessParts DEF IsPast, Instances
    <2>4. \A i : i = spawned + 1 =>
            /\ Launcher(i) \notin rec.ids /\ Interpreter(i) \notin rec.ids
            /\ rec.pid # Interpreter(i)
      BY <1>2, <2>3, ProcessParts
    <2>5. IsPast(rec)'
      BY <1>2, <1>4, <2>3 DEF IsPast
    <2>6. \A i \in Instances : Launcher(i) \in alive' => i = spawned + 1
      BY <1>4, ProcessParts
    <2>7. KnowsLaunchers(rec)' /\ KnowsInterpreters(rec)'
      BY <1>4, <2>4, <2>6 DEF KnowsLaunchers, KnowsInterpreters
    <2>8. RecordNamesChild' /\ StopIsShown' /\ RestartIsBlank'
      BY <1>2, <1>4 DEF RecordNamesChild, StopIsShown, RestartIsBlank
    <2> QED
      BY <1>1, <2>1, <2>5, <2>7, <2>8 DEF TreeInv
  <1> QED
    BY <1>2, <1>3, <1>4, ProcessesShrink

(* What a stop owns of the living tree is all of it, or nothing.             *)
LEMMA OwnedIsWhole ==
  ASSUME TreeInv, Owned(rec, alive) # {}
  PROVE  alive \subseteq Owned(rec, alive)
  <1>1. /\ TypeOK /\ OneTree /\ KnowsLaunchers(rec) /\ KnowsInterpreters(rec)
        /\ alive \subseteq Processes
    BY DEF TreeInv, IInv, TypeOK
  <1> SUFFICES ASSUME NEW p \in alive PROVE p \in Owned(rec, alive)
    OBVIOUS
  <1>2. PICK q \in Owned(rec, alive) : q \in alive
    BY DEF Owned, Tree
  <1> DEFINE i == p.inst
  <1>3. /\ i \in Instances /\ q.inst = i
        /\ p = Launcher(i) \/ p = Interpreter(i)
        /\ q = Launcher(i) \/ q = Interpreter(i)
    <2>1. q.inst = p.inst /\ p \in Processes /\ q \in Processes
      BY <1>1, <1>2 DEF OneTree
    <2> QED
      BY <2>1, ProcessParts
  <1> HIDE DEF i
  <1>4. CASE rec.pid \in alive
    <2>1. rec.sure /\ rec.pid # NoPid
      BY <1>4, <1>2 DEF Owned
    <2>2. Owned(rec, alive) = Tree(rec.pid, alive) \cup (rec.ids \cap alive)
      BY <1>4, <2>1 DEF Owned
    <2>3. rec.pid = Launcher(i) \/ rec.pid = Interpreter(i)
      <3>1. rec.pid.inst = p.inst /\ rec.pid \in Processes
        BY <1>1, <1>4 DEF OneTree
      <3> QED
        BY <3>1, ProcessParts DEF i
    <2>4. CASE rec.pid = Launcher(i)
      BY <1>3, <2>2, <2>4, ProcessParts DEF Tree
    <2>5. CASE rec.pid = Interpreter(i)
      BY <1>1, <1>3, <2>2, <2>5 DEF Tree, KnowsLaunchers
    <2> QED
      BY <2>3, <2>4, <2>5
  <1>5. CASE rec.pid \notin alive
    <2>1. Owned(rec, alive) = rec.ids \cap alive
      BY <1>2, <1>5 DEF Owned
    <2> QED
      BY <1>1, <1>2, <1>3, <1>5, <2>1 DEF KnowsLaunchers, KnowsInterpreters
  <1> QED
    BY <1>4, <1>5

(* The tree invariant, for every bound, as long as snapshots do not fail;    *)
(* taskkill may, and so may Control, between any two saves.                  *)
THEOREM TreeInvariance ==
  ASSUME ~SnapshotMayFail
  PROVE  Spec => []TreeInv
<1>1. ASSUME Init PROVE TreeInv
  <2>1. IInv
    <3>1. TRUE \in BOOLEAN /\ FALSE \in BOOLEAN
      BY Zenon
    <3>2. NewRecord \in Records
      BY <3>1 DEF Records, NewRecord, States
    <3>3. stopAsked \in BOOLEAN
      BY <1>1, <3>1, Zenon DEF Init
    <3> QED
      BY <1>1, <3>2, <3>3, SupervisorAssumption
         DEF Init, IInv, TypeOK, Ops, SpawnIsHeld, StopIsSaved, RestartsAreCounted
  <2>2. rec.pid = NoPid /\ rec.ids = {} /\ alive = {} /\ op = "idle" /\ child = 0 /\ spawned = 0
    BY <1>1 DEF Init, NewRecord
  <2>3. KnowsLaunchers(rec) /\ KnowsInterpreters(rec) /\ OneTree
    BY <2>2 DEF KnowsLaunchers, KnowsInterpreters, OneTree
  <2>4. IsPast(rec) /\ NothingIsNew
    BY <2>2, ProcessParts DEF IsPast, NothingIsNew
  <2>5. RecordNamesChild /\ StopIsShown /\ RestartIsBlank
    BY <2>2 DEF RecordNamesChild, StopIsShown, RestartIsBlank
  <2> QED
    BY <2>1, <2>3, <2>4, <2>5 DEF TreeInv
<1>2. TreeInv /\ [Next]_vars => TreeInv'
  <2>1. TreeInv /\ UNCHANGED vars => TreeInv'
    BY DEF TreeInv, vars, IInv, TypeOK, SpawnIsHeld, StopIsSaved, RestartsAreCounted, OneTree,
       RecordNamesChild, ChildRuns, KnowsLaunchers, KnowsInterpreters, StopIsShown,
       RestartIsBlank, IsPast, NothingIsNew
  <2> QED
    BY <2>1, TreeStep
<1> QED
  BY <1>1, <1>2, PTL DEF Spec

(* As long as process snapshots do not fail, one instance of the component   *)
(* lives at a time, the record names the child Control holds, and restarts   *)
(* stay within their limit, whatever taskkill and deaths of Control do.      *)
THEOREM OneInstanceIsKnown ==
  ASSUME ~SnapshotMayFail
  PROVE  Spec => []OneKnownInstance
<1>1. ASSUME TreeInv PROVE TypeOK /\ OneInstance /\ RecordNamesChild
  <2>1. Cardinality(Living) <= 1
    <3>1. CASE alive = {}
      <4>1. Living = {}
        BY <3>1 DEF Living
      <4> QED
        BY <4>1, FS_EmptySet
    <3>2. CASE alive # {}
      <4>1. PICK p \in alive : \A q \in alive : q.inst = p.inst
        BY <1>1, <3>2 DEF TreeInv, OneTree
      <4>2. PICK i : Living = {i}
        BY <4>1 DEF Living
      <4> QED
        BY <4>2, FS_Singleton
    <3> QED
      BY <3>1, <3>2
  <2> QED
    BY <1>1, <2>1 DEF TreeInv, IInv, OneInstance
<1> QED
  BY <1>1, TreeInvariance, RestartsAreBounded, PTL DEF OneKnownInstance

(* As long as process snapshots do not fail, a stop that reports STOPPED has *)
(* ended the whole process tree: what it owns of a tree is all of it, and    *)
(* a process that taskkill leaves alive makes it report DEGRADED.            *)
THEOREM StopsAreVerified ==
  ASSUME ~SnapshotMayFail
  PROVE  Spec => StopIsVerified
<1>1. TreeInv /\ [Next]_vars =>
        [(op = "stopping" /\ rec'.state = "STOPPED") => alive' = {}]_vars
  <2> SUFFICES ASSUME TreeInv, Next, op = "stopping", rec'.state = "STOPPED"
               PROVE  alive' = {}
    OBVIOUS
  <2>1. rec.state = "STOPPING" /\ rec \in Records
    BY DEF TreeInv, IInv, TypeOK, StopIsShown
  <2>2. rec' # rec
    BY <2>1
  <2>3. CASE StopRefused
    <3>1. rec'.state = "DEGRADED"
      BY <2>1, <2>3 DEF StopRefused, Records
    <3> QED
      BY <3>1
  <2>4. CASE StopTerminates
    <3>1. PICK left \in SUBSET Owned(rec, alive) :
            /\ Owned(rec, alive) # {}
            /\ alive' = alive \ (Owned(rec, alive) \ left)
            /\ \/ left = {}
               \/ rec' = [rec EXCEPT !.state = "DEGRADED"]
      BY <2>4, OneSnapshot DEF StopTerminates
    <3>2. [rec EXCEPT !.state = "DEGRADED"].state = "DEGRADED"
      BY <2>1 DEF Records
    <3>3. left = {}
      BY <3>1, <3>2
    <3>4. alive \subseteq Owned(rec, alive)
      BY <3>1, OwnedIsWhole
    <3> QED
      BY <3>1, <3>3, <3>4
  <2> QED
    BY <2>2, <2>3, <2>4 DEF Next, Start, StopIntent, Monitor, MonitorRunning, MonitorStopped,
       MonitorAdopts, MonitorRestarts, MonitorGivesUp, Monitors, MonitorSeesCrash, Status,
       Continue, RecordSpawn, MonitorStarts, MonitorSaves, Environment, LauncherExits,
       ComponentExits, ControlDies, WindowPasses
<1> QED
  BY <1>1, TreeInvariance, PTL DEF Spec, StopIsVerified
==============================================================================
