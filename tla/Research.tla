------------------------------ MODULE Research ------------------------------
(* services/research_dataset_pipeline.py over services/research_pipeline.py, *)
(* with the projections of services/research_roadmap.py: a dataset pipeline  *)
(* is a row with a status, the attempts of its four stages and the two       *)
(* artifacts of a build.  Callers of run_ and retry_model_inference_dataset_ *)
(* pipeline share only the database; every session is one step, and what a   *)
(* caller read in an earlier one may be stale.                               *)

EXTENDS Integers, FiniteSets, Sequences

CONSTANTS
  Keys,         \* idempotency keys, each with its one request
  Callers,      \* threads or processes that run and retry pipelines
  MaxData,      \* bound: versions of the candidate rows a builder may read
  MaxAttempts,  \* bound: attempts of a stage
  MaxTrouble    \* bound: deaths, exceptions and damaged files

ASSUME ResearchAssumption ==
  /\ Keys # {}
  /\ MaxData \in Nat \ {0} /\ MaxAttempts \in Nat \ {0} /\ MaxTrouble \in Nat

VARIABLES
  data,      \* version of the rows ModelInferenceDatasetBuilder reads
  run,       \* run[k]: ResearchPipelineRunRecord.status, "NONE" before creation
  stages,    \* stages[k][g]: the attempts of stage g, ResearchStageRunRecord
  artifacts, \* ResearchArtifactRecord rows
  at,        \* at[c]: the session caller c opens next
  job,       \* job[c]: what it remembers from earlier ones
  trouble    \* deaths, exceptions and damaged files so far

vars == <<data, run, stages, artifacts, at, job, trouble>>
store == <<run, stages, artifacts>>

Status == {"WAITING", "READY", "RUNNING", "PASS", "BLOCKED", "FAILED"}

(* DATASET_PIPELINE_STAGES, in their order.                                  *)
Order == <<"DATA_SOURCE", "DATASET_BUILD", "DATASET_AUDIT", "ARTIFACT_VERIFY">>
Stage == {Order[i] : i \in DOMAIN Order}
Kinds == {"jsonl", "manifest"}

(* An attempt: its status, the verdict of its quality gate, and the dataset  *)
(* hash of a build summary.  started_at is set whenever it left READY.       *)
Attempt == [status : Status, gate : {"none", "PASS", "FAILED"},
            content : 0 .. MaxData]

Artifact == [key : Keys, n : 1 .. MaxAttempts, kind : Kinds,
             content : 1 .. MaxData, published : BOOLEAN]

(* Sessions inside the try block of a stage: what they raise fails the stage.*)
InStage == {"start", "build", "jsonl", "manifest", "evidence", "audit",
            "audit_fails", "publish", "verify", "pass"}

(* Sessions of a caller that has moved the pipeline to RUNNING.              *)
Executing == InStage \cup {"ensure", "fail_stage", "block_stage", "fail_run",
                           "block_run", "finish"}

Sessions == Executing \cup {"idle", "source", "ready", "running",
                            "again", "reattempt", "rerun"}

Job == [key : Keys, stage : Stage, n : 1 .. MaxAttempts, fresh : BOOLEAN,
        build : 0 .. MaxAttempts, made : 0 .. MaxData]

TypeOK ==
  /\ data \in 1 .. MaxData
  /\ run \in [Keys -> Status \cup {"NONE"}]
  /\ stages \in [Keys -> [Stage -> Seq(Attempt)]]
  /\ \A k \in Keys, g \in Stage : Len(stages[k][g]) <= MaxAttempts
  /\ artifacts \subseteq Artifact
  /\ at \in [Callers -> Sessions]
  /\ job \in [Callers -> Job]
  /\ trouble \in 0 .. MaxTrouble
------------------------------------------------------------------------------
NoJob == [key |-> CHOOSE k \in Keys : TRUE, stage |-> "DATA_SOURCE", n |-> 1,
          fresh |-> FALSE, build |-> 0, made |-> 0]

Init ==
  /\ data = 1
  /\ run = [k \in Keys |-> "NONE"]
  /\ stages = [k \in Keys |-> [g \in Stage |-> <<>>]]
  /\ artifacts = {}
  /\ at = [c \in Callers |-> "idle"]
  /\ job = [c \in Callers |-> NoJob]
  /\ trouble = 0

(* LEGAL_TRANSITIONS between the statuses this pipeline uses.                *)
Legal(from) ==
  CASE from = "WAITING" -> {"READY", "BLOCKED"}
    [] from = "READY" -> {"RUNNING", "BLOCKED"}
    [] from = "RUNNING" -> {"PASS", "FAILED", "BLOCKED"}
    [] from \in {"BLOCKED", "FAILED"} -> {"READY"}
    [] OTHER -> {}

Key(c) == job[c].key
Mine(c) == stages[Key(c)][job[c].stage]
Latest(k, g) == stages[k][g][Len(stages[k][g])]
Made(k, n) == {a \in artifacts : a.key = k /\ a.n = n}

Goto(c, next) ==
  at' = [at EXCEPT ![c] = next] /\ UNCHANGED <<job, trouble, data>>

(* The call returns or raises: either way nothing of it is left in memory.   *)
Return(c) ==
  /\ at' = [at EXCEPT ![c] = "idle"]
  /\ job' = [job EXCEPT ![c] = NoJob]
  /\ UNCHANGED <<trouble, data>>

Enter(c, next, j) ==
  /\ at' = [at EXCEPT ![c] = next]
  /\ job' = [job EXCEPT ![c] = j]
  /\ UNCHANGED <<trouble, data>>

(* Mutant: the stored status is overwritten without being compared.          *)
SetRunBlindly(k, target) ==
  run' = [run EXCEPT ![k] = target] /\ UNCHANGED <<stages, artifacts>>

(* transition_pipeline: a status that is not a legal predecessor raises.     *)
SetRun(k, target) ==
  /\ target \in Legal(run[k])
  /\ run' = [run EXCEPT ![k] = target]
  /\ UNCHANGED <<stages, artifacts>>

(* transition_stage, for the attempt the caller works on.                    *)
SetStage(c, target) ==
  /\ target \in Legal(Mine(c)[job[c].n].status)
  /\ stages' = [stages EXCEPT ![Key(c)][job[c].stage][job[c].n].status = target]
  /\ UNCHANGED <<run, artifacts>>

(* update_stage_evidence: refused once the attempt is over.                  *)
Evidence(c, gate, content) ==
  /\ Mine(c)[job[c].n].status \in {"READY", "RUNNING"}
  /\ stages' = [stages EXCEPT ![Key(c)][job[c].stage][job[c].n] =
                   [@ EXCEPT !.gate = gate, !.content = content]]
  /\ UNCHANGED <<run, artifacts>>

(* The attempts of g after _ensure_stage: a first one, unless there is any.  *)
NewAttempt == [status |-> "READY", gate |-> "none", content |-> 0]

Ensured(k, g) == IF stages[k][g] # <<>> THEN stages[k][g] ELSE <<NewAttempt>>

(* _ensure_stage: the latest attempt, as it is now, is remembered.           *)
EnsureStage(c, j, g, next) ==
  LET attempts == Ensured(j.key, g)
  IN /\ stages' = [stages EXCEPT ![j.key][g] = attempts]
     /\ Enter(c, next, [j EXCEPT
                !.stage = g, !.n = Len(attempts),
                !.fresh = attempts[Len(attempts)].status = "READY"])
     /\ UNCHANGED <<run, artifacts>>
------------------------------------------------------------------------------
(* create_pipeline_run finds or inserts the row; only a WAITING one is run.  *)
RunPipeline(c, k) ==
  /\ at[c] = "idle"
  /\ run[k] \in {"NONE", "WAITING"}
  /\ run' = [run EXCEPT ![k] = "WAITING"]
  /\ Enter(c, "source", [NoJob EXCEPT !.key = k])
  /\ UNCHANGED <<stages, artifacts>>

SourceStage(c) ==
  at[c] = "source" /\ EnsureStage(c, job[c], "DATA_SOURCE", "ready")

(* Mutant: no look at the stored status.                                     *)
ClaimBlindly(c, from, target, next) ==
  at[c] = from /\ SetRunBlindly(Key(c), target) /\ Goto(c, next)

(* A transition of the pipeline; when it raises, the call ends there.        *)
Claim(c, from, target, next) ==
  /\ at[c] = from
  /\ IF target \in Legal(run[Key(c)])
     THEN SetRun(Key(c), target) /\ Goto(c, next)
     ELSE Return(c) /\ UNCHANGED store

Ready(c) == Claim(c, "ready", "READY", "running")

(* Mutant: the caller that starts the pipeline returns its view at once.     *)
RunningReturns(c) ==
  at[c] = "running" /\ SetRun(Key(c), "RUNNING") /\ Return(c)

Running(c) == Claim(c, "running", "RUNNING", "start")

(* _start_stage and what follows it, by stage.                               *)
FirstWork == [DATA_SOURCE |-> "evidence", DATASET_BUILD |-> "build",
              DATASET_AUDIT |-> "audit", ARTIFACT_VERIFY |-> "verify"]

(* _start_stage: READY when it was read and READY still.                     *)
StartStage(c) ==
  /\ at[c] = "start"
  /\ IF job[c].fresh /\ Mine(c)[job[c].n].status = "READY"
     THEN SetStage(c, "RUNNING") /\ Goto(c, FirstWork[job[c].stage])
     ELSE Goto(c, "fail_stage") /\ UNCHANGED store

(* _build_stage up to the files: progress, rows and hashes.                  *)
BuildRows(c) ==
  /\ at[c] = "build"
  /\ Enter(c, "jsonl", [job[c] EXCEPT !.made = data])
  /\ UNCHANGED store

(* Mutant: the content is not compared with the artifacts of other attempts. *)
RegisterWithoutComparing(c, kind, next) ==
  /\ at[c] = kind
  /\ artifacts' = artifacts \cup
       {[key |-> Key(c), n |-> job[c].n, kind |-> kind,
         content |-> job[c].made, published |-> FALSE]}
  /\ Goto(c, next)
  /\ UNCHANGED <<run, stages>>

(* register_artifact: content_sha256 is unique over all pipelines.           *)
Register(c, kind, next) ==
  /\ at[c] = kind
  /\ IF \E a \in artifacts : a.kind = kind /\ a.content = job[c].made
     THEN Goto(c, "fail_stage") /\ UNCHANGED store
     ELSE RegisterWithoutComparing(c, kind, next)

(* The gate of a source, build or verify attempt.                            *)
GatePasses(c) ==
  /\ at[c] = "evidence"
  /\ Evidence(c, "PASS", job[c].made)
  /\ Goto(c, "pass")

PublishedFiles(c) ==
  LET mine == Made(Key(c), job[c].build)
  IN (artifacts \ mine) \cup {[a EXCEPT !.published = TRUE] : a \in mine}

(* Mutant: the audit publishes first and looks at the files afterwards.      *)
PublishEarly(c) ==
  /\ at[c] = "audit"
  /\ artifacts' = PublishedFiles(c)
  /\ Goto(c, "publish")
  /\ UNCHANGED <<run, stages>>

(* _audit_stage: the files of the build are what was registered.             *)
AuditFiles(c) ==
  /\ at[c] = "audit"
  /\ Evidence(c, "PASS", 0)
  /\ Goto(c, "publish")

(* ... or not.                                                               *)
AuditFindsDamage(c) ==
  /\ at[c] = "audit"
  /\ trouble < MaxTrouble
  /\ trouble' = trouble + 1
  /\ Evidence(c, "FAILED", 0)
  /\ at' = [at EXCEPT ![c] = "audit_fails"]
  /\ UNCHANGED <<data, job>>

AuditFails(c) ==
  /\ at[c] = "audit_fails"
  /\ SetStage(c, "FAILED")
  /\ Goto(c, "fail_run")

(* mark_artifacts_validated: both artifacts of the build, in one session.    *)
Publish(c) ==
  /\ at[c] = "publish"
  /\ artifacts' = PublishedFiles(c)
  /\ Goto(c, "pass")
  /\ UNCHANGED <<run, stages>>

(* _verify_stage reads the artifacts again.                                  *)
VerifyArtifacts(c) ==
  LET mine == Made(Key(c), job[c].build)
  IN /\ at[c] = "verify"
     /\ Goto(c, IF Cardinality(mine) = 2 /\ \A a \in mine : a.published
                THEN "evidence" ELSE "fail_stage")
     /\ UNCHANGED store

(* Mutant: the verification is left out.                                     *)
PassUnverified(c) ==
  /\ at[c] = "pass"
  /\ SetStage(c, "PASS")
  /\ Enter(c, IF job[c].stage = "DATASET_AUDIT" THEN "finish" ELSE "ensure",
           IF job[c].stage = "DATASET_BUILD"
           THEN [job[c] EXCEPT !.build = job[c].n, !.made = 0] ELSE job[c])

(* Mutant: the end of a source stage is not stored.                          *)
PassUnstored(c) ==
  /\ at[c] = "pass" /\ job[c].stage = "DATA_SOURCE"
  /\ Goto(c, "ensure")
  /\ UNCHANGED store

(* The attempt passes; the build is what the later stages work on.           *)
PassStage(c) ==
  /\ at[c] = "pass"
  /\ SetStage(c, "PASS")
  /\ Enter(c, IF job[c].stage = "ARTIFACT_VERIFY" THEN "finish" ELSE "ensure",
           IF job[c].stage = "DATASET_BUILD"
           THEN [job[c] EXCEPT !.build = job[c].n, !.made = 0] ELSE job[c])

NextStage(c) ==
  \E i \in 1 .. 3 :
    /\ at[c] = "ensure"
    /\ Order[i] = job[c].stage
    /\ EnsureStage(c, job[c], Order[i + 1], "start")

(* _finish_stage_failure: an illegal transition is suppressed.  A source     *)
(* that fails, or a build without its contract, blocks the pipeline.         *)
FailStage(c, from, target) ==
  /\ at[c] = from
  /\ IF target \in Legal(Mine(c)[job[c].n].status)
     THEN SetStage(c, target) ELSE UNCHANGED store
  /\ LET builds == stages'[Key(c)]["DATASET_BUILD"]
         blocked == \/ job[c].stage = "DATA_SOURCE"
                    \/ /\ job[c].stage = "DATASET_BUILD"
                       /\ builds[Len(builds)].status = "BLOCKED"
     IN Goto(c, IF blocked THEN "block_run" ELSE "fail_run")

(* Mutant: a caller that gives up cancels the pipeline.                      *)
FailRunCancels(c, from, target) ==
  at[c] = from /\ SetRunBlindly(Key(c), "CANCELLED") /\ Return(c)

(* _finish_pipeline_failure.                                                 *)
FailRun(c, from, target) ==
  /\ at[c] = from
  /\ IF target \in Legal(run[Key(c)])
     THEN SetRun(Key(c), target) ELSE UNCHANGED store
  /\ Return(c)

Finish(c) ==
  /\ at[c] = "finish"
  /\ SetRun(Key(c), "PASS")
  /\ Return(c)
------------------------------------------------------------------------------
(* retry_...: a FAILED or BLOCKED attempt of the pipeline with the highest   *)
(* number, of whichever stage; attempts of equal number come in any order.   *)
Failures(k) ==
  {f \in Stage \X (1 .. MaxAttempts) :
     /\ f[2] <= Len(stages[k][f[1]])
     /\ stages[k][f[1]][f[2]].status \in {"FAILED", "BLOCKED"}}

Retry(c, k) ==
  /\ at[c] = "idle"
  /\ run[k] \in {"FAILED", "BLOCKED"}
  /\ \E f \in Failures(k) :
       /\ \A other \in Failures(k) : other[2] <= f[2]
       /\ f[2] < MaxAttempts
       /\ Enter(c, "again",
                [NoJob EXCEPT !.key = k, !.stage = f[1], !.n = f[2]])
  /\ UNCHANGED store

Again(c) == Claim(c, "again", "READY", "reattempt")

(* Mutant: the failed attempt itself is put back to READY.                   *)
ReattemptInPlace(c) ==
  /\ at[c] = "reattempt"
  /\ SetStage(c, "READY")
  /\ Enter(c, "rerun", [job[c] EXCEPT !.fresh = TRUE])

(* retry_stage_attempt: attempt n + 1; when it exists, the unique key raises *)
(* and the pipeline stays READY.                                             *)
Reattempt(c) ==
  /\ at[c] = "reattempt"
  /\ IF Len(Mine(c)) = job[c].n
     THEN /\ stages' = [stages EXCEPT ![Key(c)][job[c].stage] = Append(@, NewAttempt)]
          /\ Enter(c, "rerun", [job[c] EXCEPT !.n = @ + 1, !.fresh = TRUE])
          /\ UNCHANGED <<run, artifacts>>
     ELSE Return(c) /\ UNCHANGED store

(* The upstream stages a retried one rests on: none for a build; a source is *)
(* never retried, though the pipeline is RUNNING by then.                    *)
Passed(k, g) == stages[k][g] # <<>> /\ Latest(k, g).status = "PASS"

Resumable(k, g) ==
  \/ g = "DATASET_BUILD"
  \/ g = "DATASET_AUDIT" /\ Passed(k, "DATASET_BUILD")
  \/ /\ g = "ARTIFACT_VERIFY"
     /\ Passed(k, "DATASET_BUILD") /\ Passed(k, "DATASET_AUDIT")

Rerun(c) ==
  /\ at[c] = "rerun"
  /\ SetRun(Key(c), "RUNNING")
  /\ IF Resumable(Key(c), job[c].stage)
     THEN Enter(c, "start", [job[c] EXCEPT !.build =
                   IF job[c].stage = "DATASET_BUILD" THEN 0
                   ELSE Len(stages[Key(c)]["DATASET_BUILD"])])
     ELSE Return(c)
------------------------------------------------------------------------------
(* A statement of the stage's try block raises; the caller dies, or a        *)
(* statement outside it raises; the builder lacks the session contract.      *)
StageRaises(c) ==
  /\ at[c] \in InStage
  /\ trouble < MaxTrouble
  /\ trouble' = trouble + 1
  /\ at' = [at EXCEPT ![c] = "fail_stage"]
  /\ UNCHANGED <<data, job, store>>

BuilderRefuses(c) ==
  /\ at[c] = "build"
  /\ trouble < MaxTrouble
  /\ trouble' = trouble + 1
  /\ at' = [at EXCEPT ![c] = "block_stage"]
  /\ UNCHANGED <<data, job, store>>

Dies(c) ==
  /\ at[c] # "idle"
  /\ trouble < MaxTrouble
  /\ trouble' = trouble + 1
  /\ at' = [at EXCEPT ![c] = "idle"]
  /\ job' = [job EXCEPT ![c] = NoJob]
  /\ UNCHANGED <<data, store>>

(* The Live process stores and settles candidates meanwhile.                 *)
NewRows ==
  /\ data < MaxData
  /\ data' = data + 1
  /\ UNCHANGED <<store, at, job, trouble>>

Work(c) ==
  \/ SourceStage(c) \/ Ready(c) \/ Running(c) \/ StartStage(c) \/ BuildRows(c)
  \/ Register(c, "jsonl", "manifest") \/ Register(c, "manifest", "evidence")
  \/ GatePasses(c) \/ AuditFiles(c) \/ AuditFails(c) \/ Publish(c)
  \/ VerifyArtifacts(c) \/ PassStage(c) \/ NextStage(c)
  \/ FailStage(c, "fail_stage", "FAILED")
  \/ FailStage(c, "block_stage", "BLOCKED")
  \/ FailRun(c, "fail_run", "FAILED") \/ FailRun(c, "block_run", "BLOCKED")
  \/ Finish(c) \/ Again(c) \/ Reattempt(c) \/ Rerun(c)

Next ==
  \/ \E c \in Callers : \/ \E k \in Keys : RunPipeline(c, k) \/ Retry(c, k)
                       \/ Work(c)
                       \/ AuditFindsDamage(c) \/ StageRaises(c)
                       \/ BuilderRefuses(c) \/ Dies(c)
  \/ NewRows

Spec == Init /\ [][Next]_vars
------------------------------------------------------------------------------
(* What the roadmap shows of a pipeline.  _current_stage: the stages in      *)
(* work, else the incomplete ones, else all; the oldest is displayed.        *)
CurrentStages(k) ==
  LET known == {g \in Stage : stages[k][g] # <<>>}
      active == {g \in known :
                  Latest(k, g).status \in {"WAITING", "READY", "RUNNING"}}
      incomplete == {g \in known : Latest(k, g).status # "PASS"}
  IN IF active # {} THEN active ELSE IF incomplete # {} THEN incomplete ELSE known

(* _summary_from_stage: the dataset hashes of the builds that passed.        *)
Summaries(k) ==
  LET builds == stages[k]["DATASET_BUILD"]
  IN {builds[n].content : n \in {m \in DOMAIN builds : builds[m].status = "PASS"}}

(* get_dataset_pipeline_view: the summary of the last build that stored one, *)
(* whether or not the build passed.                                          *)
ViewSummary(k) ==
  LET builds == stages[k]["DATASET_BUILD"]
      told == {n \in DOMAIN builds : builds[n].gate = "PASS"}
  IN {builds[n].content : n \in {n \in told : \A other \in told : other <= n}}

(* _timeline_candidates, but for the pipeline's own start and end: what is   *)
(* derived from one attempt, and from its artifacts.                         *)
Tells(type, n, a) ==
  CASE type = "RETRY_CREATED" -> n > 1
    [] type = "STARTED" -> a.status # "READY"
    [] type \in {"PASS", "FAILED", "BLOCKED"} -> a.status = type
    [] type = "GATE_PASSED" -> a.gate = "PASS"
    [] type = "GATE_FAILED" -> a.gate = "FAILED"

EventTypes == {"RETRY_CREATED", "STARTED", "PASS", "FAILED", "BLOCKED",
               "GATE_PASSED", "GATE_FAILED"}

StageEvents(k) ==
  {e \in EventTypes \X Stage \X (1 .. MaxAttempts) :
     /\ e[3] <= Len(stages[k][e[2]])
     /\ Tells(e[1], e[3], stages[k][e[2]][e[3]])}

ArtifactEvents(k) ==
  {<<"REGISTERED", a.n, a.kind>> : a \in {b \in artifacts : b.key = k}}
    \cup {<<"PUBLISHED", a.n, a.kind>> :
            a \in {b \in artifacts : b.key = k /\ b.published}}
------------------------------------------------------------------------------
(* Two callers never work on the same pipeline: whoever moved it to RUNNING  *)
(* is alone, whatever the others read before (transition_pipeline).          *)
OneExecutor ==
  \A c, d \in Callers :
    c # d /\ at[c] \in Executing /\ at[d] \in Executing => Key(c) # Key(d)

(* A pipeline that says PASS has a passed latest attempt of every stage, and *)
(* its only published files are the two of the latest build, of the content  *)
(* that the summaries of both views name.                                    *)
PassIsComplete ==
  \A k \in Keys : run[k] = "PASS" =>
    /\ \A g \in Stage : Passed(k, g)
    /\ LET shown == {a \in artifacts : a.key = k /\ a.published}
       IN /\ shown = Made(k, Len(stages[k]["DATASET_BUILD"]))
          /\ {a.kind : a \in shown} = Kinds
          /\ {a.content : a \in shown} = Summaries(k)
          /\ ViewSummary(k) = Summaries(k)

(* A file is published only when its build has passed and an audit of the    *)
(* pipeline has found it sound, even when the audit's own end was lost       *)
(* (mark_artifacts_validated runs before the attempt passes).                *)
PublishedWasAudited ==
  \A a \in artifacts : a.published =>
    /\ stages[a.key]["DATASET_BUILD"][a.n].status = "PASS"
    /\ \E n \in DOMAIN stages[a.key]["DATASET_AUDIT"] :
         stages[a.key]["DATASET_AUDIT"][n].gate = "PASS"

(* The roadmap never takes back what it told of an attempt or of a file:     *)
(* attempts are immutable once over, through retries, races and failures     *)
(* (retry_stage_attempt, _finish_stage_failure, update_stage_evidence).      *)
HistoryIsKept ==
  [][\A k \in Keys : /\ StageEvents(k) \subseteq StageEvents(k)'
                     /\ ArtifactEvents(k) \subseteq ArtifactEvents(k)']_vars

(* While a caller works on a stage, that stage is what the roadmap displays  *)
(* as the current one, whatever earlier attempts of other stages say.        *)
RoadmapFollows ==
  \A c \in Callers :
    at[c] \in InStage \ {"start"} => CurrentStages(Key(c)) = {job[c].stage}

(* "Retry the first failed stage as a new immutable attempt"                 *)
(* (research_dataset_pipeline.py:921): the attempt a retry is about to       *)
(* repeat is the latest of its stage.  The code does not keep it.            *)
RetriesTheLatest ==
  \A c \in Callers : at[c] = "reattempt" => Len(Mine(c)) = job[c].n

(* However many callers race to run it, a pipeline whose stages do not fail  *)
(* passes, provided that no caller dies: the losers leave it to the one that *)
(* moved it to RUNNING.                                                      *)
Fairness == \A c \in Callers : WF_vars(Work(c))

FairSpec == Spec /\ Fairness

RacedRunsPass ==
  \A k \in Keys :
    [](trouble = 0 /\ Failures(k) = {}) => (run[k] # "NONE" ~> run[k] = "PASS")

(* What a reader of rows, files and roadmap may rely on: a PASS has every    *)
(* stage and its files, a published file was audited, the roadmap shows the  *)
(* stage that runs, and takes back nothing that it told.                     *)
RecordsAreTrue ==
  [](TypeOK /\ PassIsComplete /\ PublishedWasAudited /\ RoadmapFollows) /\ HistoryIsKept
==============================================================================
